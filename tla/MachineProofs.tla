---------------------------- MODULE MachineProofs ----------------------------
(***************************************************************************)
(* The floppy controller's transfers are exact.  What a transfer has done  *)
(* is said by two numbers, the sectors it has moved and the bytes of the   *)
(* next (After), and every register follows from them: the place of the    *)
(* next byte (OnDisk), what is left of the sector and of the command.       *)
(* The invariant has that there are such numbers while data moves          *)
(* (Within), that it moves on a mounted disk and under the watchdog        *)
(* (Moving), and that what was written is marked (Marked).  A step of the  *)
(* program or the host either leaves the numbers alone (Unmoved), starts a *)
(* transfer at zero (TransferStarts), or goes to the next byte (NextByte). *)
(*                                                                         *)
(* The processor runs whole instructions.  At says what k cycles of an     *)
(* opcode's routine have done to what a request saw before it; one more    *)
(* cycle of the routine is k + 1 of them (CycleDone), and all its cycles   *)
(* are the instruction that its type and its length in the tables make of  *)
(* it (OrdinaryEnds).  That each routine has the cycles, the length and    *)
(* the type it needs is TablesAgree, which TLC compares opcode by opcode.  *)
(*                                                                         *)
(* The ports: PortsInv has the registers of the 8255 beside what was asked *)
(* of them, bit by bit (LatchIs, InputsAre), and the keyboard's lines      *)
(* beside the keys held (KeysAre).  What a program reads follows           *)
(* (PortsSays).                                                            *)
(*                                                                         *)
(* The display: IoAt is what k pixels leave of an OUT that is under way    *)
(* (IoGoesOn), and Strip what they have drawn; 16 of them, on the border,  *)
(* in the active area or across both, are Rasterized, and the chunks of a  *)
(* frame drawn at once are WholeDrawn.  DisplayInv has where the raster    *)
(* may stand and what an OUT may still have to do.                         *)
(***************************************************************************)
EXTENDS Fdc, CpuTables, Ports, Display, SequenceTheorems, WellFoundedInduction, TLAPS

-----------------------------------------------------------------------------
(* Quotients. *)
LEMMA Quotient ==
  ASSUME NEW L \in Nat, L # 0, NEW q \in Int, NEW r \in 0..L - 1
  PROVE  (q * L + r) \div L = q /\ (q * L + r) % L = r
  <1> DEFINE x == q * L + r
             d == x \div L
             m == x % L
  <1>0. x \in Int /\ q * L \in Int
    OBVIOUS
  <1>1. x = L * d + m /\ m \in 0..L - 1 /\ d \in Int
    <2> HIDE DEF x
    <2> QED
      BY <1>0
  <1> HIDE DEF d, m, x
  <1>2. PICK k \in Int : k = q - d
    BY <1>1
  <1>3. k * L = m - r
    <2>1. L * d = d * L /\ q * L = k * L + d * L
      BY <1>1, <1>2
    <2> QED
      BY <1>1, <2>1 DEF x
  <1>4. ASSUME k >= 1 PROVE FALSE
    <2>1. k * L >= L
      BY <1>4
    <2> QED
      BY <1>1, <1>3, <2>1
  <1>5. ASSUME k <= -1 PROVE FALSE
    <2>1. PICK j \in Nat : j = -k - 1
      BY <1>5
    <2>2. j * L >= 0 /\ k * L = -(j * L) - L
      BY <2>1
    <2> QED
      BY <1>1, <1>3, <2>2
  <1>6. k = 0
    BY <1>4, <1>5
  <1>7. d = q /\ m = r
    <2>1. k * L = 0
      BY <1>6
    <2> QED
      BY <1>1, <1>2, <1>3, <1>6, <2>1
  <1> QED
    BY <1>7 DEF d, m, x

(* Multiples of a length grow with their number. *)
LEMMA Product ==
  ASSUME NEW L \in Nat, NEW m \in Nat, NEW n \in Nat, m <= n
  PROVE  m * L \in Nat /\ n * L \in Nat /\ m * L <= n * L
  <1>1. PICK k \in Nat : n = m + k
    <2>1. n - m \in Nat /\ n = m + (n - m)
      OBVIOUS
    <2> QED
      BY <2>1
  <1>2. n * L = m * L + k * L /\ k * L \in Nat /\ m * L \in Nat
    BY <1>1
  <1> QED
    BY <1>2

-----------------------------------------------------------------------------
(* Fdc1793.  Where a byte lies in an image: byte r of the k-th sector of a *)
(* side of a track.                                                        *)
OnDisk(track, side, k, r) == (Sectors * (track * 2 + side) + k) * SectorLen + r

(* The position Seek() finds is a place, and the place after a sector's    *)
(* last byte is the first of the next one.                                 *)
LEMMA Places ==
  ASSUME NEW track \in Track, NEW side \in 0..1, NEW k \in Nat
  PROVE  /\ \A r \in Nat : OnDisk(track, side, k, r) \in Nat
         /\ \A r \in Nat : OnDisk(track, side, k, r + 1) = OnDisk(track, side, k, r) + 1
         /\ OnDisk(track, side, k + 1, 0) = OnDisk(track, side, k, SectorLen)
         /\ Position(side, track, k + 1) = OnDisk(track, side, k, 0)
  <1> DEFINE b == Sectors * (track * 2 + side) + k
  <1>1. SectorLen \in Nat /\ Sectors \in Nat /\ track \in Nat
    BY FdcAssumption DEF Track
  <1>2. b \in Nat /\ (Sectors * (track * 2 + side) + (k + 1)) = b + 1
    <2>1. \A x, y \in Nat : x * y \in Nat
      OBVIOUS
    <2>2. Sectors * (track * 2 + side) \in Nat
      BY <1>1, <2>1
    <2> QED
      BY <2>2
  <1>3. Position(side, track, k + 1) = b * SectorLen
    BY DEF Position
  <1>4. \A r \in Nat : OnDisk(track, side, k, r) = b * SectorLen + r
    BY DEF OnDisk
  <1>5. OnDisk(track, side, k + 1, 0) = (b + 1) * SectorLen + 0
    BY <1>2 DEF OnDisk
  <1> HIDE DEF b
  <1>6. b * SectorLen \in Nat /\ (b + 1) * SectorLen = b * SectorLen + SectorLen
    BY <1>1, <1>2
  <1> QED
    BY <1>1, <1>3, <1>4, <1>5, <1>6

(* An image holds every place there is. *)
LEMMA PlaceInImage ==
  ASSUME NEW track \in Track, NEW side \in 0..1, NEW k \in 0..Sectors - 1, NEW r \in 0..SectorLen - 1
  PROVE  OnDisk(track, side, k, r) \in 0..(2 * Tracks * Sectors * SectorLen)
  <1> DEFINE h == track * 2 + side
             b == Sectors * h + k
             images == 2 * Tracks
  <1>1. SectorLen \in Nat /\ Sectors \in Nat /\ Tracks \in Nat /\ track \in Nat /\ h \in Nat /\ images \in Nat
    BY FdcAssumption DEF Track
  <1>2. h + 1 <= images
    BY <1>1 DEF Track
  <1> HIDE DEF h
  <1>3. (h + 1) * Sectors \in Nat /\ images * Sectors \in Nat /\ (h + 1) * Sectors <= images * Sectors
    <2> HIDE DEF images
    <2> QED
      BY <1>1, <1>2, Product
  <1>4. (h + 1) * Sectors = Sectors * h + Sectors /\ Sectors * h \in Nat
    BY <1>1
  <1>5. b \in Nat /\ b + 1 <= images * Sectors
    BY <1>1, <1>3, <1>4
  <1>6. OnDisk(track, side, k, r) = b * SectorLen + r
    BY DEF OnDisk, h
  <1> HIDE DEF b, images
  <1>7. (b + 1) * SectorLen <= (images * Sectors) * SectorLen /\ (images * Sectors) * SectorLen \in Nat
    BY <1>1, <1>3, <1>5, Product
  <1>8. (b + 1) * SectorLen = b * SectorLen + SectorLen /\ b * SectorLen \in Nat
    BY <1>1, <1>5
  <1>9. OnDisk(track, side, k, r) \in Nat /\ OnDisk(track, side, k, r) <= (images * Sectors) * SectorLen
    BY <1>1, <1>6, <1>7, <1>8
  <1> QED
    BY <1>9 DEF images

-----------------------------------------------------------------------------
Statuses == {F_BUSY, F_DRQ, F_TRACK0, F_NOTFOUND, F_HEADLOAD}
Lengths == 0..(SectorLen * Sectors)
Controllers ==
  [status : SUBSET Statuses, trackReg : Track, sectorReg : 0..Sectors, dataReg : Track,
   drive : Drive, side : 0..1, track : Track, lastS : BOOLEAN, irq : {0, IRQ, DRQ},
   rwLen : Lengths, wait : 0..Watchdog, type1 : BOOLEAN, ptr : Int,
   disk : Drive \cup {None}]
Transfers ==
  [drive : Drive \cup {None}, side : 0..1, track : Track, sector : 0..Sectors, len : Nat,
   mark : Drive \cup {None}]
Mountings == [Drive -> [mounted : BOOLEAN, updated : BOOLEAN]]

FdcTypes ==
  /\ fdc \in Controllers /\ xfer \in Transfers
  /\ disks \in Mountings /\ dirty \subseteq Drive

(* Data moves under the watchdog, the disk is that of the drive selected,  *)
(* and bytes of no sector are fewer than a sector has.                     *)
Moving ==
  /\ fdc.rwLen > 0 => F_BUSY \in fdc.status
  /\ F_BUSY \in fdc.status => fdc.wait > 0
  /\ fdc.disk # None => fdc.disk = fdc.drive /\ disks[fdc.drive].mounted
  /\ fdc.ptr # None => fdc.rwLen > 0
  /\ fdc.ptr = None => fdc.rwLen <= HeaderLen
Marked ==
  /\ \A d \in dirty : disks[d].updated
  /\ xfer.mark # None => disks[xfer.mark].updated

(* A transfer x that has moved q sectors and r bytes of the next, and has  *)
(* left sectors, that one included, before it.                             *)
After(f, x, q, left, r) ==
  /\ x.sector >= 1 /\ x.sector + q + left <= Sectors + 1
  /\ x.len = (q + left) * SectorLen /\ f.rwLen = left * SectorLen - r
  /\ f.ptr = OnDisk(x.track, x.side, x.sector - 1 + q, r)
  /\ f.sectorReg = x.sector + q /\ x.drive \in Drive
Within(f, x) ==
  \E q \in Nat, left \in Nat \ {0}, r \in 0..SectorLen - 1 : After(f, x, q, left, r)

FdcInv == FdcTypes /\ Moving /\ Marked /\ (fdc.ptr # None => Within(fdc, xfer))

(* A command to transfer sectors starts with the first byte of the first.  *)
LEMMA TransferStarts ==
  ASSUME NEW f \in Controllers, NEW x \in Transfers, NEW n \in Nat \ {0},
         x.sector \in Sector, x.sector + n <= Sectors + 1, x.len = SectorLen * n,
         f.rwLen = x.len, f.ptr = Position(x.side, x.track, x.sector),
         f.sectorReg = x.sector, x.drive \in Drive
  PROVE  Within(f, x)
  <1> DEFINE k == x.sector - 1
  <1>1. SectorLen \in Nat /\ SectorLen # 0 /\ Sectors \in Nat
    BY FdcAssumption
  <1>2. x.track \in Track /\ x.side \in 0..1 /\ x.sector \in Nat /\ k \in Nat /\ k + 1 = x.sector /\ k + 0 = k
    BY DEF Transfers, Sector
  <1>3. Position(x.side, x.track, k + 1) = OnDisk(x.track, x.side, k, 0)
    <2> HIDE DEF k
    <2> QED
      BY <1>2, Places
  <1>4. f.ptr = OnDisk(x.track, x.side, x.sector - 1 + 0, 0)
    BY <1>2, <1>3
  <1>5. x.len = (0 + n) * SectorLen /\ f.rwLen = n * SectorLen - 0
    <2>1. SectorLen * n = n * SectorLen /\ n * SectorLen \in Nat /\ 0 + n = n
      BY <1>1
    <2> QED
      BY <2>1
  <1>6. After(f, x, 0, n, 0)
    BY <1>1, <1>2, <1>4, <1>5 DEF After, Sector
  <1> QED
    BY <1>1, <1>6 DEF Within

SectorAfter(left, sector) == IF left % SectorLen = 0 THEN sector + 1 ELSE sector

(* The next byte is the next of its sector, or the first of the sector     *)
(* after it; the length left tells which.                                  *)
LEMMA NextByte ==
  ASSUME NEW f \in Controllers, NEW x \in Transfers, NEW g, Within(f, x), f.rwLen > 1,
         g.rwLen = f.rwLen - 1, g.ptr = f.ptr + 1,
         g.sectorReg = SectorAfter(f.rwLen - 1, f.sectorReg)
  PROVE  Within(g, x)
  <1>1. PICK q \in Nat, left \in Nat \ {0}, r \in 0..SectorLen - 1 : After(f, x, q, left, r)
    BY DEF Within
  <1> DEFINE L == SectorLen
             k == x.sector - 1 + q
  <1>2. L \in Nat /\ L # 0 /\ Sectors \in Nat /\ x.sector \in Nat /\ f.sectorReg \in Nat /\ f.rwLen \in Nat
    BY FdcAssumption DEF Transfers, Controllers, Lengths
  <1>2a. r \in Nat /\ left * L \in Nat
    BY <1>2
  <1>3. x.track \in Track /\ x.side \in 0..1 /\ k \in Nat
    BY <1>1, <1>2 DEF Transfers, After
  <1>4. f.rwLen - 1 = left * L - (r + 1) /\ f.ptr = OnDisk(x.track, x.side, k, r)
    BY <1>1, <1>2, <1>2a DEF After
  <1>5. PICK m \in Nat : left = m + 1
    <2>1. left - 1 \in Nat /\ left = (left - 1) + 1
      OBVIOUS
    <2> QED
      BY <2>1
  <1>6. left * L = m * L + L /\ m * L \in Nat
    BY <1>2, <1>5
  <1>7. f.rwLen - 1 = m * L + (L - (r + 1)) /\ L - (r + 1) \in 0..L - 1
    BY <1>2, <1>4, <1>6
  <1>8. SectorAfter(f.rwLen - 1, f.sectorReg) = IF r + 1 = L THEN f.sectorReg + 1 ELSE f.sectorReg
    <2>1. PICK s \in 0..L - 1 : s = L - (r + 1)
      BY <1>7
    <2> HIDE DEF L
    <2>2. f.rwLen - 1 = m * L + s
      BY <1>7, <2>1
    <2>0. m \in Int
      OBVIOUS
    <2>3. (m * L + s) % L = s
      BY <1>2, <2>0, <2>1, Quotient
    <2>4. (f.rwLen - 1) % SectorLen = s /\ (s = 0 <=> r + 1 = L)
      BY <1>2, <2>1, <2>2, <2>3 DEF L
    <2> QED
      BY <2>4 DEF SectorAfter
  <1>9. g.ptr = OnDisk(x.track, x.side, k, r + 1)
    <2> HIDE DEF k
    <2>1. OnDisk(x.track, x.side, k, r + 1) = OnDisk(x.track, x.side, k, r) + 1
      <3>1. \A i \in Nat : OnDisk(x.track, x.side, k, i + 1) = OnDisk(x.track, x.side, k, i) + 1
        BY <1>3, Places
      <3> QED
        BY <1>2a, <3>1
    <2> QED
      BY <1>4, <2>1
  <1>10. CASE r + 1 = L
    <2>1. g.sectorReg = x.sector + (q + 1)
      BY <1>1, <1>2, <1>8, <1>10 DEF After
    <2>2. g.ptr = OnDisk(x.track, x.side, x.sector - 1 + (q + 1), 0)
      <3>1. x.sector - 1 + (q + 1) = k + 1
        BY <1>2
      <3>2. OnDisk(x.track, x.side, k + 1, 0) = OnDisk(x.track, x.side, k, SectorLen)
        <4> HIDE DEF k
        <4> QED
          BY <1>3, Places
      <3> QED
        BY <1>9, <1>10, <3>1, <3>2
    <2>3. (q + 1) + m = q + left
      BY <1>5
    <2>4. m \in Nat \ {0} /\ g.rwLen = m * L - 0
      <3>1. g.rwLen = m * L /\ m * L > 0
        BY <1>2, <1>7, <1>10
      <3>2. m # 0
        BY <1>2, <3>1
      <3> QED
        BY <1>6, <3>1, <3>2
    <2>5. After(g, x, q + 1, m, 0)
      BY <1>1, <1>2, <1>5, <2>1, <2>2, <2>3, <2>4 DEF After
    <2> QED
      BY <1>2, <2>4, <2>5 DEF Within
  <1>11. CASE r + 1 # L
    <2>1. r + 1 \in 0..SectorLen - 1
      BY <1>2, <1>11
    <2>2. g.sectorReg = x.sector + q
      BY <1>1, <1>2, <1>8, <1>11, <2>1 DEF After
    <2>3. After(g, x, q, left, r + 1)
      BY <1>1, <1>4, <1>9, <2>2 DEF After
    <2> QED
      BY <2>1, <2>3 DEF Within
  <1> QED
    BY <1>10, <1>11

-----------------------------------------------------------------------------
(* Steps. *)
LEMMA FdcNumbers ==
  /\ {Drives, Tracks, Sectors, SectorLen, Watchdog, SectorLen * Sectors} \subseteq Nat \ {0}
  /\ HeaderLen \in 1..(SectorLen - 1) /\ SectorLen <= SectorLen * Sectors
  /\ 0 \in Track /\ 0 \in Drive /\ 1 \in Sector /\ \A n \in 0..Sectors : SectorLen * n \in 0..SectorLen * Sectors
  <1>1. /\ Drives \in Nat /\ Tracks \in Nat /\ Sectors \in Nat /\ SectorLen \in Nat /\ Watchdog \in Nat
        /\ Drives # 0 /\ Tracks # 0 /\ Sectors # 0 /\ SectorLen # 0 /\ Watchdog # 0
        /\ HeaderLen \in 1..(SectorLen - 1)
    BY FdcAssumption
  <1>2. \A m, n \in Nat : m <= n => m * SectorLen \in Nat /\ n * SectorLen \in Nat /\ m * SectorLen <= n * SectorLen
    BY <1>1, Product
  <1>3. \A n \in Nat : SectorLen * n = n * SectorLen
    BY <1>1
  <1>4. SectorLen * Sectors \in Nat /\ SectorLen <= SectorLen * Sectors
    <2>1. 1 * SectorLen <= Sectors * SectorLen /\ 1 * SectorLen = SectorLen /\ Sectors * SectorLen \in Nat
      BY <1>1, <1>2
    <2> QED
      BY <1>1, <1>3, <2>1
  <1>5. \A n \in 0..Sectors : SectorLen * n \in 0..SectorLen * Sectors
    <2>1. ASSUME NEW n \in 0..Sectors PROVE SectorLen * n \in 0..SectorLen * Sectors
      <3>1. n \in Nat /\ n <= Sectors
        BY <1>1
      <3>2. SectorLen * n \in Nat /\ SectorLen * n <= SectorLen * Sectors
        BY <1>1, <1>2, <1>3, <3>1
      <3> QED
        BY <1>4, <3>2
    <2> QED
      BY <2>1
  <1> QED
    BY <1>1, <1>4, <1>5 DEF Track, Drive, Sector

(* What the registers are given. *)
LEMMA FdcValues ==
  /\ {} \in SUBSET Statuses
  /\ \A t : {F_INDEX} \cup AtTrack0(t) \in SUBSET Statuses
  /\ \A t, b : {F_INDEX} \cup AtTrack0(t) \cup Flag(F_HEADLOAD, b) \in SUBSET Statuses
  /\ \A b : {F_INDEX, F_TRACK0} \cup Flag(F_HEADLOAD, b) \in SUBSET Statuses
  /\ {F_NOTFOUND} \in SUBSET Statuses /\ {F_BUSY, F_DRQ} \in SUBSET Statuses
  /\ 0 \in Lengths /\ HeaderLen \in Lengths /\ 0 \in 0..Watchdog /\ Watchdog \in 0..Watchdog
  /\ None \in Int /\ NoTransfer \in Transfers /\ NoTransfer.mark = None
  /\ \A t, b : F_BUSY \notin {F_INDEX} \cup AtTrack0(t) \cup Flag(F_HEADLOAD, b) /\ F_BUSY \notin {F_INDEX} \cup AtTrack0(t)
  /\ \A b : F_BUSY \notin {F_INDEX, F_TRACK0} \cup Flag(F_HEADLOAD, b)
  /\ F_BUSY # F_NOTFOUND
  BY FdcNumbers DEF Statuses, Flag, Lengths, F_BUSY, F_INDEX, F_DRQ, F_TRACK0, F_NOTFOUND, F_HEADLOAD,
     AtTrack0, None, NoTransfer, Transfers

LEMMA FdcInitially == FdcInit => FdcInv
  <1> SUFFICES ASSUME FdcInit PROVE FdcInv
    OBVIOUS
  <1>1. FdcTypes
    BY FdcNumbers DEF FdcInit, FdcTypes, Controllers, Transfers, NoTransfer, Statuses, Lengths, Mountings, None
  <1>2. Moving /\ Marked /\ fdc.ptr = None
    <2>1. Moving /\ fdc.ptr = None
      BY FdcNumbers DEF FdcInit, Moving, None
    <2>2. dirty = {} /\ xfer.mark = None
      BY FdcValues DEF FdcInit
    <2> QED
      BY <2>1, <2>2 DEF Marked
  <1> QED
    BY <1>1, <1>2 DEF FdcInv

(* A step that leaves a transfer alone. *)
LEMMA Unmoved ==
  ASSUME NEW f, NEW x, NEW g, Within(f, x),
         g.rwLen = f.rwLen, g.ptr = f.ptr, g.sectorReg = f.sectorReg
  PROVE  Within(g, x)
  BY DEF Within, After

(* Writing marks a disk and leaves it where it is. *)
Mark(old, d) == [old EXCEPT ![d].updated = TRUE]
LEMMA Marks ==
  ASSUME NEW old \in Mountings, NEW d \in Drive
  PROVE  /\ Mark(old, d) \in Mountings /\ Mark(old, d)[d].updated
         /\ \A e \in Drive : /\ Mark(old, d)[e].mounted = old[e].mounted
                             /\ old[e].updated => Mark(old, d)[e].updated
  BY DEF Mountings, Mark

(* What a command begins with, a transfer and a failed one. *)
LEMMA Begun ==
  ASSUME fdc \in Controllers
  PROVE  /\ \A b \in BOOLEAN : Command(b) \in Controllers
         /\ [Command(FALSE) EXCEPT !.status = {F_NOTFOUND}, !.irq = IRQ] \in Controllers
         /\ \A at \in Int, len \in Lengths : Started(at, len) \in Controllers
  <1>1. {} \in SUBSET Statuses /\ {F_NOTFOUND} \in SUBSET Statuses /\ {F_BUSY, F_DRQ} \in SUBSET Statuses
        /\ Watchdog \in 0..Watchdog
    BY FdcValues
  <1>2. ASSUME NEW b \in BOOLEAN PROVE Command(b) \in Controllers
    BY <1>1 DEF Controllers, Command
  <1>3. \A f \in Controllers : [f EXCEPT !.status = {F_NOTFOUND}, !.irq = IRQ] \in Controllers
    BY <1>1 DEF Controllers
  <1>4. ASSUME NEW at \in Int, NEW len \in Lengths, NEW f \in Controllers
        PROVE [f EXCEPT !.ptr = at, !.rwLen = len, !.irq = DRQ, !.wait = Watchdog,
                         !.status = {F_BUSY, F_DRQ}] \in Controllers
    <2>1. [f EXCEPT !.ptr = at, !.rwLen = len] \in Controllers
      BY DEF Controllers
    <2>2. \A g \in Controllers : [g EXCEPT !.irq = DRQ, !.wait = Watchdog] \in Controllers
      BY <1>1 DEF Controllers
    <2>3. \A g \in Controllers : [g EXCEPT !.status = {F_BUSY, F_DRQ}] \in Controllers
      BY <1>1 DEF Controllers
    <2> QED
      BY <2>1, <2>2, <2>3
  <1> QED
    BY <1>2, <1>3, <1>4 DEF Started

(* Nothing moves. *)
LEMMA Resting ==
  ASSUME Moving, fdc'.rwLen = 0, fdc'.ptr = None, F_BUSY \notin fdc'.status,
         fdc'.disk = fdc.disk, fdc'.drive = fdc.drive,
         disks'[fdc.drive].mounted = disks[fdc.drive].mounted
  PROVE  Moving'
  BY FdcNumbers DEF Moving

LEMMA FdcCommands ==
  ASSUME FdcInv, Idle
  PROVE  /\ \A load \in BOOLEAN : Restore(load) \/ SeekTrack(load) => FdcInv'
         /\ \A given, out, update \in BOOLEAN : StepHead(given, out, update) => FdcInv'
         /\ ReadAddress \/ ReadTrack \/ WriteTrack => FdcInv'
  <1>0. /\ fdc \in Controllers /\ disks \in Mountings /\ dirty \subseteq Drive /\ xfer \in Transfers
        /\ Moving /\ Marked /\ fdc.rwLen = 0 /\ fdc.ptr = None /\ fdc.disk \in Drive \cup {None}
    BY FdcNumbers DEF FdcInv, Idle, FdcTypes, Controllers, Lengths, Moving
  <1>1. ASSUME NEW load \in BOOLEAN, Restore(load) PROVE FdcInv'
    <2>1. FdcTypes'
      <3>1. fdc' \in Controllers
        <4> DEFINE s == {F_INDEX, F_TRACK0} \cup Flag(F_HEADLOAD, load)
        <4>1. fdc' = [Command(TRUE) EXCEPT !.track = 0, !.trackReg = 0, !.irq = IRQ, !.status = s]
          BY <1>1 DEF Restore
        <4>2. s \in SUBSET Statuses /\ 0 \in Track
          BY FdcNumbers, FdcValues
        <4> HIDE DEF s
        <4>3. Command(TRUE) \in Controllers
          BY <1>0, Begun
        <4>4. \A f \in Controllers : [f EXCEPT !.track = 0, !.trackReg = 0] \in Controllers
          BY <4>2 DEF Controllers
        <4>5. \A f \in Controllers : [f EXCEPT !.irq = IRQ, !.status = s] \in Controllers
          BY <4>2 DEF Controllers
        <4> QED
          BY <4>1, <4>3, <4>4, <4>5
      <3>2. disks' \in Mountings /\ dirty' \subseteq Drive /\ xfer' \in Transfers
        BY <1>0, <1>1, FdcValues DEF Command, Restore
      <3> QED
        BY <3>1, <3>2 DEF FdcTypes
    <2>2. Moving' /\ Marked'
      <3>1. fdc'.rwLen = 0 /\ fdc'.ptr = None /\ fdc'.disk = fdc.disk /\ fdc'.drive = fdc.drive
        BY <1>0, <1>1 DEF Command, Restore, Controllers
      <3>2. F_BUSY \notin fdc'.status
        BY <1>0, <1>1, FdcValues DEF Command, Restore, Controllers
      <3>3. disks' = disks /\ dirty' = dirty /\ xfer' = xfer
        BY <1>0, <1>1 DEF Command, Restore
      <3>4. Moving'
        BY <1>0, <3>1, <3>2, <3>3, Resting
      <3> QED
        BY <1>0, <3>3, <3>4 DEF Marked
    <2>3. ASSUME fdc'.ptr # None PROVE Within(fdc', xfer')
      <3>1. fdc'.ptr = None
        BY <1>0, <1>1 DEF Command, Restore, Controllers
      <3> QED
        BY <2>3, <3>1
    <2> QED
      BY <2>1, <2>2, <2>3 DEF FdcInv
  <1>2. ASSUME NEW load \in BOOLEAN, SeekTrack(load) PROVE FdcInv'
    <2>1. FdcTypes'
      <3>1. fdc' \in Controllers
        <4> DEFINE t == fdc.dataReg
                   s == {F_INDEX} \cup AtTrack0(t) \cup Flag(F_HEADLOAD, load)
        <4>1. t \in Track /\ fdc' = [Over(Command(TRUE)) EXCEPT !.track = t, !.trackReg = t, !.irq = IRQ, !.status = s]
          BY <1>2 DEF SeekTrack
        <4>2. s \in SUBSET Statuses
          BY FdcValues
        <4> HIDE DEF t, s
        <4>3. Over(Command(TRUE)) \in Controllers
          BY <1>0, Begun, FdcValues, ZenonT(60) DEF Over, Controllers
        <4>4. \A f \in Controllers : [f EXCEPT !.track = t, !.trackReg = t] \in Controllers
          BY <4>1 DEF Controllers
        <4>5. \A f \in Controllers : [f EXCEPT !.irq = IRQ, !.status = s] \in Controllers
          BY <4>2 DEF Controllers
        <4> QED
          BY <4>1, <4>3, <4>4, <4>5
      <3>2. disks' \in Mountings /\ dirty' \subseteq Drive /\ xfer' \in Transfers
        BY <1>0, <1>2, FdcValues DEF Command, Over, SeekTrack
      <3> QED
        BY <3>1, <3>2 DEF FdcTypes
    <2>2. Moving' /\ Marked'
      <3>1. fdc'.rwLen = 0 /\ fdc'.ptr = None /\ fdc'.disk = fdc.disk /\ fdc'.drive = fdc.drive
        BY <1>0, <1>2 DEF Command, Over, SeekTrack, Controllers
      <3>2. F_BUSY \notin fdc'.status
        BY <1>0, <1>2, FdcValues DEF Command, Over, SeekTrack, Controllers
      <3>3. disks' = disks /\ dirty' = dirty /\ xfer' = xfer
        BY <1>0, <1>2 DEF Command, Over, SeekTrack
      <3>4. Moving'
        BY <1>0, <3>1, <3>2, <3>3, Resting
      <3> QED
        BY <1>0, <3>3, <3>4 DEF Marked
    <2>3. ASSUME fdc'.ptr # None PROVE Within(fdc', xfer')
      <3>1. fdc'.ptr = None
        BY <1>0, <1>2 DEF Command, Over, SeekTrack, Controllers
      <3> QED
        BY <2>3, <3>1
    <2> QED
      BY <2>1, <2>2, <2>3 DEF FdcInv
  <1>3. ASSUME NEW given \in BOOLEAN, NEW out \in BOOLEAN, NEW update \in BOOLEAN, StepHead(given, out, update) PROVE FdcInv'
    <2>1. FdcTypes'
      <3>1. fdc' \in Controllers
        <4> DEFINE back == IF given THEN out ELSE fdc.lastS
                   to == IF back THEN (IF fdc.track > 0 THEN fdc.track - 1 ELSE 0) ELSE fdc.track + 1
        <4>1. back \in BOOLEAN
          BY <1>0 DEF Controllers
        <4>2. to \in Track /\ fdc' = [Command(TRUE) EXCEPT !.lastS = back, !.track = to, !.irq = IRQ,
                !.trackReg = IF update THEN to ELSE @, !.status = {F_INDEX} \cup AtTrack0(to)]
          BY <1>3 DEF StepHead
        <4> HIDE DEF back, to
        <4>3. (IF update THEN to ELSE fdc.trackReg) \in Track
          BY <1>0, <4>2 DEF Controllers
        <4>4. Command(TRUE) \in Controllers /\ Command(TRUE).trackReg = fdc.trackReg
          BY <1>0, Begun DEF Command, Controllers
        <4>5. PICK reg \in Track : reg = IF update THEN to ELSE fdc.trackReg
          BY <4>3
        <4>6. \A f \in Controllers : [f EXCEPT !.lastS = back, !.track = to, !.irq = IRQ] \in Controllers
          BY <4>1, <4>2 DEF Controllers
        <4>7. \A f \in Controllers : [f EXCEPT !.trackReg = reg, !.status = {F_INDEX} \cup AtTrack0(to)] \in Controllers
          BY FdcValues DEF Controllers
        <4>8. fdc' = [[Command(TRUE) EXCEPT !.lastS = back, !.track = to, !.irq = IRQ]
                        EXCEPT !.trackReg = reg, !.status = {F_INDEX} \cup AtTrack0(to)]
          BY <4>2, <4>4, <4>5 DEF Controllers
        <4> QED
          BY <4>4, <4>6, <4>7, <4>8
      <3>2. disks' \in Mountings /\ dirty' \subseteq Drive /\ xfer' \in Transfers
        BY <1>0, <1>3, FdcValues DEF Command, StepHead
      <3> QED
        BY <3>1, <3>2 DEF FdcTypes
    <2>2. Moving' /\ Marked'
      <3>1. fdc'.rwLen = 0 /\ fdc'.ptr = None /\ fdc'.disk = fdc.disk /\ fdc'.drive = fdc.drive
        BY <1>0, <1>3 DEF Command, StepHead, Controllers
      <3>2. F_BUSY \notin fdc'.status
        BY <1>0, <1>3, FdcValues DEF Command, StepHead, Controllers
      <3>3. disks' = disks /\ dirty' = dirty /\ xfer' = xfer
        BY <1>0, <1>3 DEF Command, StepHead
      <3>4. Moving'
        BY <1>0, <3>1, <3>2, <3>3, Resting
      <3> QED
        BY <1>0, <3>3, <3>4 DEF Marked
    <2>3. ASSUME fdc'.ptr # None PROVE Within(fdc', xfer')
      <3>1. fdc'.ptr = None
        BY <1>0, <1>3 DEF Command, StepHead, Controllers
      <3> QED
        BY <2>3, <3>1
    <2> QED
      BY <2>1, <2>2, <2>3 DEF FdcInv
  <1>4. ASSUME ReadAddress PROVE FdcInv'
    <2>1. FdcTypes'
      <3>1. fdc' \in Controllers
        <4>1. CASE fdc.disk = None
          BY <1>0, <1>4, <4>1, Begun DEF ReadAddress, Failed
        <4>2. CASE fdc.disk # None
          BY <1>0, <1>4, <4>2, Begun, FdcValues DEF ReadAddress
        <4> QED
          BY <4>1, <4>2
      <3>2. disks' \in Mountings /\ dirty' \subseteq Drive /\ xfer' \in Transfers
        BY <1>0, <1>4, FdcValues DEF Command, ReadAddress, Started, Failed
      <3> QED
        BY <3>1, <3>2 DEF FdcTypes
    <2>2. Moving' /\ Marked'
      <3>1. CASE fdc.disk = None
        <4>1. /\ fdc'.rwLen = 0 /\ fdc'.ptr = None /\ fdc'.disk = fdc.disk /\ fdc'.drive = fdc.drive
              /\ fdc'.status = {F_NOTFOUND} /\ disks' = disks /\ dirty' = dirty /\ xfer' = xfer
          BY <1>0, <1>4, <3>1 DEF Command, ReadAddress, Failed, Controllers
        <4>2. Moving'
          BY <1>0, <4>1, FdcValues, Resting
        <4> QED
          BY <1>0, <4>1, <4>2 DEF Marked
      <3>2. CASE fdc.disk # None
        <4>1. /\ fdc'.rwLen = HeaderLen /\ fdc'.ptr = None /\ fdc'.disk = fdc.disk /\ fdc'.drive = fdc.drive
              /\ fdc'.status = {F_BUSY, F_DRQ} /\ fdc'.wait = Watchdog /\ disks' = disks /\ dirty' = dirty
              /\ xfer' = NoTransfer
          BY <1>0, <1>4, <3>2 DEF Command, ReadAddress, Started, Controllers
        <4>2. Moving'
          BY <1>0, <3>2, <4>1, FdcNumbers DEF Moving
        <4>3. xfer'.mark = None
          BY <4>1, FdcValues
        <4> QED
          BY <1>0, <4>1, <4>2, <4>3 DEF Marked
      <3> QED
        BY <3>1, <3>2
    <2>3. ASSUME fdc'.ptr # None PROVE Within(fdc', xfer')
      <3>1. fdc'.ptr = None
        BY <1>0, <1>4 DEF Command, ReadAddress, Started, Failed, Controllers
      <3> QED
        BY <2>3, <3>1
    <2> QED
      BY <2>1, <2>2, <2>3 DEF FdcInv
  <1>5. ASSUME ReadTrack PROVE FdcInv'
    <2>1. FdcTypes'
      <3>1. fdc' \in Controllers
        BY <1>0, <1>5, FdcNumbers, FdcValues DEF Command, ReadTrack, Controllers
      <3>2. disks' \in Mountings /\ dirty' \subseteq Drive /\ xfer' \in Transfers
        BY <1>0, <1>5, FdcValues DEF Command, ReadTrack
      <3> QED
        BY <3>1, <3>2 DEF FdcTypes
    <2>2. Moving' /\ Marked'
      <3>1. fdc'.rwLen = 0 /\ fdc'.ptr = None /\ fdc'.disk = fdc.disk /\ fdc'.drive = fdc.drive
        BY <1>0, <1>5 DEF Command, ReadTrack, Controllers
      <3>2. F_BUSY \notin fdc'.status
        BY <1>0, <1>5, FdcValues DEF Command, ReadTrack, Controllers
      <3>3. disks' = disks /\ dirty' = dirty /\ xfer' = xfer
        BY <1>0, <1>5 DEF Command, ReadTrack
      <3>4. Moving'
        BY <1>0, <3>1, <3>2, <3>3, Resting
      <3> QED
        BY <1>0, <3>3, <3>4 DEF Marked
    <2>3. ASSUME fdc'.ptr # None PROVE Within(fdc', xfer')
      <3>1. fdc'.ptr = None
        BY <1>0, <1>5 DEF Command, ReadTrack, Controllers
      <3> QED
        BY <2>3, <3>1
    <2> QED
      BY <2>1, <2>2, <2>3 DEF FdcInv
  <1>6. ASSUME WriteTrack PROVE FdcInv'
    <2>1. FdcTypes'
      <3>1. fdc' \in Controllers
        BY <1>0, <1>6, FdcNumbers, FdcValues DEF Command, WriteTrack, Controllers
      <3>2. disks' \in Mountings /\ dirty' \subseteq Drive /\ xfer' \in Transfers
        <4>1. CASE fdc.disk = None
          BY <1>0, <1>6, <4>1 DEF WriteTrack
        <4>2. CASE fdc.disk # None
          BY <1>0, <1>6, <4>2, Marks DEF WriteTrack, Mark
        <4> QED
          BY <4>1, <4>2
      <3> QED
        BY <3>1, <3>2 DEF FdcTypes
    <2>2. Moving' /\ Marked'
      <3>1. fdc'.rwLen = 0 /\ fdc'.ptr = None /\ fdc'.disk = fdc.disk /\ fdc'.drive = fdc.drive
        BY <1>0, <1>6 DEF Command, WriteTrack, Controllers
      <3>2. F_BUSY \notin fdc'.status
        BY <1>0, <1>6 DEF Command, WriteTrack, Controllers
      <3>3. /\ \A e \in Drive : disks'[e].mounted = disks[e].mounted /\ (disks[e].updated => disks'[e].updated)
            /\ Marked'
        <4>1. CASE fdc.disk = None
          BY <1>0, <1>6, <4>1 DEF WriteTrack, Marked
        <4>2. CASE fdc.disk # None
          <5>1. PICK d \in Drive : d = fdc.disk
            BY <1>0, <4>2
          <5>2. disks' = Mark(disks, d) /\ dirty' = dirty \cup {d}
            BY <1>6, <4>2, <5>1 DEF WriteTrack, Mark
          <5>3. /\ disks'[d].updated
                /\ \A e \in Drive : disks'[e].mounted = disks[e].mounted /\ (disks[e].updated => disks'[e].updated)
            BY <1>0, <5>2, Marks
          <5>4. xfer' = xfer /\ (xfer.mark # None => xfer.mark \in Drive)
            BY <1>0, <1>6 DEF WriteTrack, Transfers
          <5> QED
            BY <1>0, <5>2, <5>3, <5>4 DEF Marked
        <4> QED
          BY <4>1, <4>2
      <3>4. fdc.drive \in Drive
        BY <1>0 DEF Controllers
      <3>5. Moving'
        BY <1>0, <3>1, <3>2, <3>3, <3>4, Resting
      <3> QED
        BY <3>3, <3>5
    <2>3. ASSUME fdc'.ptr # None PROVE Within(fdc', xfer')
      <3>1. fdc'.ptr = None
        BY <1>0, <1>6 DEF Command, WriteTrack, Controllers
      <3> QED
        BY <2>3, <3>1
    <2> QED
      BY <2>1, <2>2, <2>3 DEF FdcInv
  <1> QED
    BY <1>1, <1>2, <1>3, <1>4, <1>5, <1>6

(* The sectors of a command are on their track. *)
LEMMA FdcTransferSectors ==
  ASSUME FdcInv, NEW write \in BOOLEAN, NEW multi \in BOOLEAN, NEW side \in {None, 0, 1},
         TransferSectors(write, multi, side)
  PROVE  FdcInv'
  <1> DEFINE s == IF side = None THEN fdc.side ELSE side
             n == IF multi THEN Sectors - fdc.sectorReg + 1 ELSE 1
             len == SectorLen * n
             at == Position(s, fdc.trackReg, fdc.sectorReg)
  <1>0. /\ fdc \in Controllers /\ disks \in Mountings /\ dirty \subseteq Drive /\ xfer \in Transfers
        /\ Moving /\ Marked /\ fdc.rwLen = 0 /\ fdc.ptr = None /\ fdc.disk \in Drive \cup {None}
    BY FdcNumbers DEF FdcInv, Idle, TransferSectors, FdcTypes, Controllers, Lengths, Moving
  <1>1. CASE fdc.disk = None
    <2>1. fdc' = [Command(FALSE) EXCEPT !.status = {F_NOTFOUND}, !.irq = IRQ] /\ disks' = disks /\ dirty' = dirty /\ xfer' = xfer
      BY <1>1 DEF TransferSectors, Failed
    <2>2. fdc' \in Controllers
      BY <1>0, <2>1, Begun
    <2>3. /\ fdc'.rwLen = 0 /\ fdc'.ptr = None /\ fdc'.disk = fdc.disk /\ fdc'.drive = fdc.drive
          /\ fdc'.status = {F_NOTFOUND}
      BY <1>0, <2>1 DEF Command, Controllers
    <2>4. Moving'
      BY <1>0, <2>1, <2>3, FdcValues, Resting
    <2> QED
      BY <1>0, <2>1, <2>2, <2>3, <2>4 DEF FdcInv, FdcTypes, Marked
  <1>2. CASE fdc.disk # None
    <2>1. /\ fdc' = Started(at, len) /\ dirty' = dirty /\ fdc.sectorReg \in Sector
          /\ disks' = IF write THEN Mark(disks, fdc.disk) ELSE disks
          /\ xfer' = [drive |-> fdc.disk, side |-> s, track |-> fdc.trackReg, sector |-> fdc.sectorReg, len |-> len,
                      mark |-> IF write THEN fdc.disk ELSE None]
      BY <1>2 DEF TransferSectors, Mark
    <2>2. s \in 0..1 /\ fdc.trackReg \in Track /\ fdc.sectorReg \in Nat /\ Sectors \in Nat /\ SectorLen \in Nat \ {0}
      BY <1>0, FdcNumbers DEF Controllers, None
    <2>3. n \in 1..Sectors /\ fdc.sectorReg + n <= Sectors + 1
      BY <2>1, <2>2, FdcNumbers DEF Sector
    <2>4. at \in Nat
      <3>1. PICK k \in Nat : fdc.sectorReg = k + 1
        <4>1. fdc.sectorReg - 1 \in Nat /\ fdc.sectorReg = (fdc.sectorReg - 1) + 1
          BY <2>1, <2>2 DEF Sector
        <4> QED
          BY <4>1
      <3> HIDE DEF s
      <3>2. Position(s, fdc.trackReg, k + 1) = OnDisk(fdc.trackReg, s, k, 0) /\ OnDisk(fdc.trackReg, s, k, 0) \in Nat
        BY <2>2, Places
      <3> QED
        BY <3>1, <3>2
    <2> HIDE DEF s, n, at
    <2>5. len \in Lengths /\ len \in Nat /\ len > HeaderLen
      <3>1. n \in Nat /\ 1 <= n /\ n \in 0..Sectors
        BY <2>2, <2>3
      <3>2. SectorLen * n \in Lengths
        BY <3>1, FdcNumbers DEF Lengths
      <3>3. 1 * SectorLen <= n * SectorLen /\ n * SectorLen \in Nat
        BY <2>2, <3>1, Product
      <3>4. 1 * SectorLen = SectorLen /\ n * SectorLen = SectorLen * n
        BY <2>2, <3>1
      <3>5. HeaderLen < SectorLen /\ HeaderLen \in Nat
        BY <2>2, FdcNumbers
      <3> QED
        BY <2>2, <3>2, <3>3, <3>4, <3>5
    <2>6. xfer' \in Transfers
      <3>1. fdc.sectorReg \in 0..Sectors /\ fdc.disk \in Drive \cup {None}
        BY <1>0 DEF Controllers
      <3> HIDE DEF len
      <3> QED
        BY <2>1, <2>2, <2>5, <3>1 DEF Transfers
    <2>7. fdc' \in Controllers
      <3> HIDE DEF len
      <3> QED
        BY <1>0, <2>1, <2>4, <2>5, Begun
    <2>8. /\ fdc'.rwLen = len /\ fdc'.ptr = at /\ fdc'.wait = Watchdog /\ fdc'.status = {F_BUSY, F_DRQ}
          /\ fdc'.disk = fdc.disk /\ fdc'.drive = fdc.drive /\ fdc'.sectorReg = fdc.sectorReg
      <3> HIDE DEF len
      <3> QED
        BY <1>0, <2>1 DEF Started, Command, Controllers
    <2>9. /\ disks' \in Mountings
          /\ \A e \in Drive : disks'[e].mounted = disks[e].mounted /\ (disks[e].updated => disks'[e].updated)
      <3>1. PICK d \in Drive : d = fdc.disk
        BY <1>0, <1>2
      <3>2. disks' = Mark(disks, d) \/ disks' = disks
        BY <2>1, <3>1
      <3> QED
        BY <1>0, <3>2, Marks
    <2>10. fdc.drive \in Drive
      BY <1>0 DEF Controllers
    <2>11. Moving'
      <3> HIDE DEF len
      <3> QED
        BY <1>0, <1>2, <2>2, <2>4, <2>5, <2>8, <2>9, <2>10, FdcNumbers DEF Moving, None
    <2>12. Marked'
      <3>1. \A e \in dirty' : disks'[e].updated
        BY <1>0, <2>1, <2>9 DEF Marked
      <3>2. xfer'.mark # None => write /\ xfer'.mark = fdc.disk
        BY <2>1
      <3>3. write => disks'[fdc.disk].updated
        BY <1>0, <1>2, <2>1, Marks
      <3> QED
        BY <3>1, <3>2, <3>3 DEF Marked
    <2>13. Within(fdc', xfer')
      <3>1. /\ xfer'.sector = fdc.sectorReg /\ xfer'.len = len /\ xfer'.side = s /\ xfer'.track = fdc.trackReg
            /\ xfer'.drive = fdc.disk
        BY <2>1
      <3>2. n \in Nat \ {0} /\ fdc'.ptr = Position(xfer'.side, xfer'.track, xfer'.sector) /\ xfer'.len = SectorLen * n
        BY <2>2, <2>3, <2>8, <3>1 DEF at
      <3> HIDE DEF len
      <3>3. /\ xfer'.sector \in Sector /\ xfer'.sector + n <= Sectors + 1 /\ fdc'.rwLen = xfer'.len
            /\ fdc'.sectorReg = xfer'.sector /\ xfer'.drive \in Drive
        BY <1>0, <1>2, <2>1, <2>3, <2>8, <3>1
      <3> QED
        BY <2>6, <2>7, <3>2, <3>3, TransferStarts
    <2> QED
      BY <1>0, <2>1, <2>6, <2>7, <2>9, <2>11, <2>12, <2>13 DEF FdcInv, FdcTypes
  <1> QED
    BY <1>1, <1>2

(* A byte moved, read or written, while disks stay where they are. *)
LEMMA ByteMoved ==
  ASSUME FdcInv, NEW v \in Track, Moved(v), disks' \in Mountings, dirty' \subseteq Drive, Marked',
         \A e \in Drive : disks'[e].mounted = disks[e].mounted
  PROVE  FdcInv'
  <1> DEFINE left == fdc.rwLen - 1
             f == [fdc EXCEPT !.dataReg = v]
  <1>0. /\ fdc \in Controllers /\ xfer \in Transfers /\ Moving /\ fdc.rwLen \in Nat /\ fdc.rwLen \in Lengths
        /\ fdc.drive \in Drive /\ (fdc.ptr # None => Within(fdc, xfer)) /\ fdc.ptr \in Int
    BY DEF FdcInv, FdcTypes, Controllers, Lengths
  <1>1. /\ f \in Controllers /\ f.rwLen = fdc.rwLen /\ f.ptr = fdc.ptr /\ f.sectorReg = fdc.sectorReg /\ f.disk = fdc.disk
        /\ f.drive = fdc.drive /\ f.status = fdc.status /\ f.wait = fdc.wait
    BY <1>0 DEF Controllers
  <1>2. SectorLen \in Nat \ {0} /\ Sectors \in Nat /\ HeaderLen \in 1..SectorLen - 1
    BY FdcNumbers
  <1>3. CASE left < 0
    <2>1. fdc.rwLen = 0 /\ fdc.ptr = None
      BY <1>0, <1>3 DEF Moving
    <2>2. fdc' = f /\ xfer' = NoTransfer
      BY <1>0, <1>3 DEF Moved
    <2> HIDE DEF f
    <2>3. Moving'
      BY <1>0, <1>1, <2>1, <2>2 DEF Moving
    <2> QED
      BY <1>1, <2>1, <2>2, <2>3, FdcValues DEF FdcInv, FdcTypes
  <1>4. CASE left = 0
    <2>1. fdc' = [Over(f) EXCEPT !.status = @ \ {F_DRQ, F_BUSY}, !.irq = IRQ] /\ xfer' = NoTransfer
      BY <1>0, <1>4 DEF Moved
    <2> HIDE DEF f
    <2>2. fdc' = [[f EXCEPT !.ptr = None, !.rwLen = 0] EXCEPT !.status = f.status \ {F_DRQ, F_BUSY}, !.irq = IRQ]
      BY <1>1, <2>1 DEF Over, Controllers
    <2>3. [f EXCEPT !.ptr = None, !.rwLen = 0] \in Controllers
      BY <1>1, FdcValues DEF Controllers
    <2>4. f.status \ {F_DRQ, F_BUSY} \in SUBSET Statuses
      BY <1>1 DEF Controllers
    <2>5. \A g \in Controllers : [g EXCEPT !.status = f.status \ {F_DRQ, F_BUSY}, !.irq = IRQ] \in Controllers
      BY <2>4 DEF Controllers
    <2>6. fdc' \in Controllers
      BY <2>2, <2>3, <2>5
    <2>7. /\ fdc'.rwLen = 0 /\ fdc'.ptr = None /\ fdc'.disk = f.disk /\ fdc'.drive = f.drive
          /\ fdc'.status = f.status \ {F_DRQ, F_BUSY}
      BY <1>1, <2>2 DEF Controllers
    <2>8. Moving'
      BY <1>0, <1>1, <2>7, Resting
    <2> QED
      BY <2>1, <2>6, <2>7, <2>8, FdcValues DEF FdcInv, FdcTypes
  <1>5. CASE left > 0
    <2> DEFINE reg == SectorAfter(left, fdc.sectorReg)
               at == IF fdc.ptr = None THEN None ELSE fdc.ptr + 1
    <2>1. fdc' = [[f EXCEPT !.ptr = at, !.rwLen = left, !.wait = Watchdog] EXCEPT !.sectorReg = reg] /\ xfer' = xfer
      BY <1>0, <1>1, <1>5 DEF Moved, SectorAfter, Controllers
    <2>2. left \in Lengths /\ left \in Nat /\ at \in Int /\ fdc.rwLen > 1
      <3>1. SectorLen * Sectors \in Nat /\ None \in Int
        BY FdcNumbers DEF None
      <3>2. at \in Int
        BY <1>0, <3>1
      <3> HIDE DEF at
      <3> QED
        BY <1>0, <1>5, <3>1, <3>2 DEF Lengths
    <2> HIDE DEF f, left, at, reg
    <2>3. /\ fdc'.rwLen = left /\ fdc'.ptr = at /\ fdc'.disk = fdc.disk /\ fdc'.drive = fdc.drive
          /\ fdc'.status = fdc.status /\ fdc'.wait = Watchdog /\ fdc'.sectorReg = reg
      BY <1>1, <2>1 DEF Controllers
    <2>4. fdc.ptr # None => Within(fdc', xfer)
      <3>1. SUFFICES ASSUME fdc.ptr # None PROVE Within(fdc', xfer)
        OBVIOUS
      <3>2. at = fdc.ptr + 1
        BY <3>1 DEF at
      <3>3. /\ fdc'.rwLen = fdc.rwLen - 1 /\ fdc'.ptr = fdc.ptr + 1
            /\ fdc'.sectorReg = SectorAfter(fdc.rwLen - 1, fdc.sectorReg)
        BY <2>3, <3>2 DEF left, reg
      <3> QED
        BY <1>0, <2>2, <3>1, <3>3, NextByte
    <2>5. reg \in 0..Sectors
      <3>1. CASE fdc.ptr = None
        <4>1. left \in 0..SectorLen - 1 /\ left # 0
          BY <1>0, <1>2, <1>5, <2>2, <3>1 DEF Moving, left
        <4>2. (0 * SectorLen + left) % SectorLen = left /\ 0 * SectorLen + left = left
          <5> HIDE DEF left
          <5>1. 0 * SectorLen + left = left /\ SectorLen # 0 /\ 0 \in Int
            BY <1>2, <2>2, <4>1
          <5>2. (0 * SectorLen + left) % SectorLen = left
            BY <1>2, <4>1, <5>1, Quotient
          <5> QED BY <5>1, <5>2
        <4>3. reg = fdc.sectorReg
          BY <4>1, <4>2 DEF reg, SectorAfter
        <4> QED
          BY <1>0, <4>3 DEF Controllers
      <3>2. CASE fdc.ptr # None
        <4>1. PICK q \in Nat, n \in Nat \ {0}, r \in 0..SectorLen - 1 : After(fdc', xfer, q, n, r)
          BY <2>4, <3>2 DEF Within
        <4>2. xfer.sector \in Nat
          BY <1>0, <1>2 DEF Transfers
        <4> QED
          BY <1>2, <2>3, <4>1, <4>2 DEF After
      <3> QED
        BY <3>1, <3>2
    <2>6. fdc' \in Controllers
      <3>1. \A g \in Controllers : [g EXCEPT !.ptr = at, !.rwLen = left, !.wait = Watchdog] \in Controllers
        BY <2>2, FdcValues DEF Controllers
      <3>2. \A g \in Controllers : [g EXCEPT !.sectorReg = reg] \in Controllers
        BY <2>5 DEF Controllers
      <3> QED
        BY <1>1, <2>1, <3>1, <3>2
    <2>7. Moving'
      <3>1. fdc.ptr = None => left <= HeaderLen
        BY <1>0, <1>2, <2>2 DEF Moving, left
      <3>2. fdc.ptr # None => at # None
        <4>1. SUFFICES ASSUME fdc.ptr # None PROVE at # None
          OBVIOUS
        <4>2. PICK q \in Nat, n \in Nat \ {0}, r \in 0..SectorLen - 1 : After(fdc, xfer, q, n, r)
          BY <1>0, <4>1 DEF Within
        <4>3. xfer.sector - 1 + q \in Nat /\ r \in Nat /\ xfer.track \in Track /\ xfer.side \in 0..1
          BY <1>0, <1>2, <4>2 DEF After, Transfers
        <4>4. OnDisk(xfer.track, xfer.side, xfer.sector - 1 + q, r) \in Nat
          <5>1. \A i \in Nat : OnDisk(xfer.track, xfer.side, xfer.sector - 1 + q, i) \in Nat
            BY <4>3, Places
          <5> QED
            BY <4>3, <5>1
        <4>5. fdc.ptr \in Nat
          BY <4>2, <4>4 DEF After
        <4> QED
          BY <4>1, <4>5 DEF at, None
      <3>3. fdc.ptr = None => at = None
        BY DEF at
      <3>4. disks'[fdc.drive].mounted = disks[fdc.drive].mounted
        BY <1>0
      <3>5. Watchdog > 0
        BY FdcNumbers
      <3>6. left > 0 /\ fdc.rwLen > 0
        BY <1>0, <1>5, <2>2 DEF left
      <3> QED
        BY <1>0, <2>2, <2>3, <3>1, <3>2, <3>3, <3>4, <3>5, <3>6 DEF Moving
    <2>8. fdc'.ptr # None => Within(fdc', xfer')
      BY <2>1, <2>3, <2>4 DEF at
    <2> QED
      BY <1>0, <2>1, <2>6, <2>7, <2>8 DEF FdcInv, FdcTypes
  <1>6. left \in Int
    BY <1>0
  <1> HIDE DEF left
  <1> QED
    BY <1>3, <1>4, <1>5, <1>6

(* The data register. *)
LEMMA FdcData ==
  ASSUME FdcInv, NEW v \in Track, ReadData(v) \/ WriteData(v)
  PROVE  FdcInv'
  <1>0. /\ fdc \in Controllers /\ xfer \in Transfers /\ Moving /\ Marked /\ fdc.rwLen \in Nat
        /\ disks \in Mountings /\ dirty \subseteq Drive /\ fdc.disk \in Drive \cup {None}
        /\ (fdc.ptr # None => Within(fdc, xfer))
    BY DEF FdcInv, FdcTypes, Controllers, Lengths
  <1>1. Moved(v) /\ xfer' \in {xfer, NoTransfer}
    BY DEF ReadData, WriteData, Moved
  <1>2. xfer'.mark # None => xfer'.mark = xfer.mark
    BY <1>1, FdcValues
  <1>3. CASE disks' = disks /\ dirty' = dirty
    <2>1. Marked'
      BY <1>0, <1>2, <1>3 DEF Marked
    <2> QED
      BY <1>0, <1>1, <1>3, <2>1, ByteMoved
  <1>4. CASE WriteData(v) /\ fdc.rwLen # 0
    <2>1. PICK d \in Drive : d = fdc.disk
      BY <1>0, <1>4 DEF WriteData
    <2>2. disks' = Mark(disks, d) /\ dirty' = dirty \cup WroteTo
      BY <1>4, <2>1 DEF WriteData, Mark
    <2>3. /\ disks' \in Mountings /\ disks'[d].updated
          /\ \A e \in Drive : disks'[e].mounted = disks[e].mounted /\ (disks[e].updated => disks'[e].updated)
      BY <1>0, <2>2, Marks
    <2>4. \A e \in WroteTo : e \in Drive /\ (e = d \/ e = xfer.mark)
      BY <1>0, <2>1 DEF WroteTo, Astray, Within, After
    <2>5. xfer.mark # None => xfer.mark \in Drive /\ disks[xfer.mark].updated
      BY <1>0 DEF Marked, Transfers
    <2>6. None \notin Drive
      BY DEF None, Drive
    <2>7. Marked'
      BY <1>0, <1>2, <2>2, <2>3, <2>4, <2>5, <2>6 DEF Marked
    <2>8. dirty' \subseteq Drive
      BY <1>0, <2>2, <2>4
    <2> QED
      BY <1>1, <2>3, <2>7, <2>8, ByteMoved
  <1> QED
    BY <1>3, <1>4 DEF ReadData, WriteData

(* The other registers, the watchdog and an interrupt. *)
LEMMA FdcRegisters ==
  ASSUME FdcInv
  PROVE  /\ \A irq \in BOOLEAN : ForceInterrupt(irq) => FdcInv'
         /\ CommandWhileBusy \/ ReadStatus \/ ReadReady => FdcInv'
         /\ \A track \in Track, sector \in Sector : WriteRegister(track, sector) => FdcInv'
         /\ \A drive \in Drive, side \in 0..1 : WriteSystem(drive, side) => FdcInv'
  <1>0. /\ fdc \in Controllers /\ xfer \in Transfers /\ Moving /\ Marked /\ fdc.rwLen \in Nat /\ fdc.wait \in Nat
        /\ disks \in Mountings /\ dirty \subseteq Drive /\ fdc.disk \in Drive \cup {None} /\ fdc.drive \in Drive
        /\ (fdc.ptr # None => Within(fdc, xfer)) /\ fdc.status \subseteq Statuses
    <2>1. Watchdog \in Nat /\ SectorLen * Sectors \in Nat
      BY FdcNumbers
    <2> QED
      BY <2>1 DEF FdcInv, FdcTypes, Controllers, Lengths
  <1>1. ASSUME NEW irq \in BOOLEAN, ForceInterrupt(irq) PROVE FdcInv'
    <2>1. PICK s \in SUBSET Statuses, i \in {0, IRQ, DRQ} :
             /\ fdc' = [Over(fdc) EXCEPT !.type1 = TRUE, !.irq = i, !.status = s]
             /\ F_BUSY \notin s
      <3> DEFINE s == IF Idle THEN AtTrack0(fdc.track) \cup {F_INDEX} ELSE fdc.status \ {F_BUSY}
                 i == IF irq THEN IRQ ELSE 0
      <3>1. s \in SUBSET Statuses /\ F_BUSY \notin s
        BY <1>0, FdcValues
      <3>2. i \in {0, IRQ, DRQ}
        OBVIOUS
      <3>3. fdc' = [Over(fdc) EXCEPT !.type1 = TRUE, !.irq = i, !.status = s]
        BY <1>0, <1>1 DEF ForceInterrupt, Over, Controllers
      <3> HIDE DEF s, i
      <3> QED
        BY <3>1, <3>2, <3>3
    <2>2. xfer' = NoTransfer /\ disks' = disks /\ dirty' = dirty
      BY <1>1 DEF ForceInterrupt
    <2>3. Over(fdc) \in Controllers /\ Over(fdc).drive = fdc.drive /\ Over(fdc).disk = fdc.disk
      BY <1>0, FdcValues DEF Over, Controllers
    <2>4. \A f \in Controllers : [f EXCEPT !.type1 = TRUE, !.irq = i, !.status = s] \in Controllers
      BY DEF Controllers
    <2>5. /\ fdc'.rwLen = 0 /\ fdc'.ptr = None /\ fdc'.status = s
          /\ fdc'.disk = fdc.disk /\ fdc'.drive = fdc.drive
      BY <1>0, <2>1 DEF Over, Controllers
    <2>6. Moving'
      BY <1>0, <2>1, <2>2, <2>5, Resting
    <2> QED
      BY <1>0, <2>1, <2>2, <2>3, <2>4, <2>5, <2>6, FdcValues DEF FdcInv, FdcTypes, Marked
  <1>2. ASSUME ReadStatus PROVE FdcInv'
    <2>1. PICK s \in SUBSET Statuses : fdc' = [fdc EXCEPT !.status = s] /\ (F_BUSY \in s => F_BUSY \in fdc.status)
                                       /\ (F_BUSY \in fdc.status => F_BUSY \in s)
      <3> DEFINE s == IF fdc.type1 THEN (fdc.status \cap {F_BUSY, F_TRACK0}) \cup Flag(F_INDEX, F_INDEX \notin fdc.status)
                      ELSE fdc.status \cap {F_BUSY, F_DRQ}
      <3>1. fdc' = [fdc EXCEPT !.status = s]
        BY <1>0, <1>2 DEF ReadStatus, Controllers
      <3>2. s \in SUBSET Statuses /\ (F_BUSY \in s <=> F_BUSY \in fdc.status)
        BY <1>0 DEF Flag, Statuses, F_BUSY, F_INDEX, F_DRQ, F_TRACK0
      <3> HIDE DEF s
      <3> QED
        BY <3>1, <3>2
    <2>2. xfer' = xfer /\ disks' = disks /\ dirty' = dirty
      BY <1>2 DEF ReadStatus
    <2>3. fdc' \in Controllers
      BY <1>0, <2>1 DEF Controllers
    <2>4. /\ fdc'.rwLen = fdc.rwLen /\ fdc'.ptr = fdc.ptr /\ fdc'.status = s /\ fdc'.wait = fdc.wait
          /\ fdc'.disk = fdc.disk /\ fdc'.drive = fdc.drive /\ fdc'.sectorReg = fdc.sectorReg
      BY <1>0, <2>1 DEF Controllers
    <2>5. Moving'
      BY <1>0, <2>1, <2>2, <2>4 DEF Moving
    <2>6. fdc'.ptr # None => Within(fdc', xfer')
      BY <1>0, <2>2, <2>4, Unmoved
    <2> QED
      BY <1>0, <2>2, <2>3, <2>5, <2>6 DEF FdcInv, FdcTypes, Marked
  <1>3. ASSUME ReadReady PROVE FdcInv'
    <2>0. disks' = disks /\ dirty' = dirty /\ fdc.wait > 0
      BY <1>3 DEF ReadReady
    <2>1. CASE fdc.wait > 1
      <3>1. fdc' = [fdc EXCEPT !.wait = fdc.wait - 1] /\ xfer' = xfer
        BY <1>0, <1>3, <2>1 DEF ReadReady, Controllers
      <3>2. fdc.wait - 1 \in 0..Watchdog
        BY <1>0, <2>1, FdcNumbers DEF Controllers
      <3>3. fdc' \in Controllers
        BY <1>0, <3>1, <3>2 DEF Controllers
      <3>4. /\ fdc'.rwLen = fdc.rwLen /\ fdc'.ptr = fdc.ptr /\ fdc'.status = fdc.status /\ fdc'.wait = fdc.wait - 1
            /\ fdc'.disk = fdc.disk /\ fdc'.drive = fdc.drive /\ fdc'.sectorReg = fdc.sectorReg
        BY <1>0, <3>1 DEF Controllers
      <3>5. Moving'
        BY <1>0, <2>0, <2>1, <3>4 DEF Moving
      <3>6. fdc'.ptr # None => Within(fdc', xfer')
        BY <1>0, <3>1, <3>4, Unmoved
      <3> QED
        BY <1>0, <2>0, <3>1, <3>3, <3>5, <3>6 DEF FdcInv, FdcTypes, Marked
    <2>2. CASE ~(fdc.wait > 1)
      <3>1. PICK s \in SUBSET Statuses :
              /\ fdc' = [Over(fdc) EXCEPT !.wait = 0, !.irq = IRQ, !.status = s]
              /\ F_BUSY \notin s /\ xfer' = NoTransfer
        <4> DEFINE s == (fdc.status \ {F_DRQ, F_BUSY}) \cup {F_LOSTDATA}
        <4>1. fdc' = [Over(fdc) EXCEPT !.wait = 0, !.irq = IRQ, !.status = s] /\ xfer' = NoTransfer
          BY <1>0, <1>3, <2>2 DEF ReadReady, Over, Controllers
        <4>2. s \in SUBSET Statuses /\ F_BUSY \notin s
          BY <1>0 DEF Statuses, F_BUSY, F_LOSTDATA, F_TRACK0
        <4> HIDE DEF s
        <4> QED
          BY <4>1, <4>2
      <3>2. Over(fdc) \in Controllers
        BY <1>0, FdcValues DEF Over, Controllers
      <3>3. \A f \in Controllers : [f EXCEPT !.wait = 0, !.irq = IRQ, !.status = s] \in Controllers
        BY FdcValues DEF Controllers
      <3>4. /\ fdc'.rwLen = 0 /\ fdc'.ptr = None /\ fdc'.status = s
            /\ fdc'.disk = fdc.disk /\ fdc'.drive = fdc.drive
        BY <1>0, <3>1 DEF Over, Controllers
      <3>5. Moving'
        BY <1>0, <2>0, <3>1, <3>4, Resting
      <3> QED
        BY <1>0, <2>0, <3>1, <3>2, <3>3, <3>4, <3>5, FdcValues DEF FdcInv, FdcTypes, Marked
    <2> QED
      BY <2>1, <2>2
  <1>4. ASSUME NEW track \in Track, NEW sector \in Sector, WriteRegister(track, sector) PROVE FdcInv'
    <2>1. /\ fdc' = [fdc EXCEPT !.trackReg = track, !.sectorReg = sector] /\ F_BUSY \notin fdc.status
          /\ disks' = disks /\ dirty' = dirty /\ xfer' = xfer
      BY <1>4 DEF WriteRegister, Idle
    <2>2. fdc.rwLen = 0 /\ fdc.ptr = None
      BY <1>0, <2>1 DEF Moving
    <2>3. sector \in 0..Sectors
      BY FdcNumbers DEF Sector
    <2>4. fdc' \in Controllers
      BY <1>0, <2>1, <2>3 DEF Controllers
    <2>5. /\ fdc'.rwLen = 0 /\ fdc'.ptr = None /\ fdc'.status = fdc.status
          /\ fdc'.disk = fdc.disk /\ fdc'.drive = fdc.drive
      BY <1>0, <2>1, <2>2 DEF Controllers
    <2>6. Moving'
      BY <1>0, <2>1, <2>5, Resting
    <2> QED
      BY <1>0, <2>1, <2>4, <2>5, <2>6 DEF FdcInv, FdcTypes, Marked
  <1>5. ASSUME NEW drive \in Drive, NEW side \in 0..1, WriteSystem(drive, side) PROVE FdcInv'
    <2>1. PICK disk \in Drive \cup {None} :
            /\ fdc' = [fdc EXCEPT !.drive = drive, !.side = side, !.disk = disk]
            /\ disk = IF disks[drive].mounted THEN drive ELSE None
      BY <1>5 DEF WriteSystem
    <2>2. disks' = disks /\ dirty' = dirty /\ xfer' = xfer
      BY <1>5 DEF WriteSystem
    <2>3. fdc' \in Controllers
      BY <1>0, <2>1 DEF Controllers
    <2>4. /\ fdc'.rwLen = fdc.rwLen /\ fdc'.ptr = fdc.ptr /\ fdc'.status = fdc.status /\ fdc'.wait = fdc.wait
          /\ fdc'.disk = disk /\ fdc'.drive = drive /\ fdc'.sectorReg = fdc.sectorReg
      BY <1>0, <2>1 DEF Controllers
    <2>5. Moving'
      BY <1>0, <2>1, <2>2, <2>4 DEF Moving
    <2>6. fdc'.ptr # None => Within(fdc', xfer')
      BY <1>0, <2>2, <2>4, Unmoved
    <2> QED
      BY <1>0, <2>2, <2>3, <2>5, <2>6 DEF FdcInv, FdcTypes, Marked
  <1>6. ASSUME CommandWhileBusy PROVE FdcInv'
    <2>1. fdc' = [fdc EXCEPT !.irq = 0] /\ disks' = disks /\ dirty' = dirty /\ xfer' = xfer
      BY <1>6 DEF CommandWhileBusy
    <2>2. fdc' \in Controllers
      BY <1>0, <2>1 DEF Controllers
    <2>3. /\ fdc'.rwLen = fdc.rwLen /\ fdc'.ptr = fdc.ptr /\ fdc'.status = fdc.status /\ fdc'.wait = fdc.wait
          /\ fdc'.disk = fdc.disk /\ fdc'.drive = fdc.drive /\ fdc'.sectorReg = fdc.sectorReg
      BY <1>0, <2>1 DEF Controllers
    <2>4. Moving'
      BY <1>0, <2>1, <2>3 DEF Moving
    <2>5. fdc'.ptr # None => Within(fdc', xfer')
      BY <1>0, <2>1, <2>3, Unmoved
    <2> QED
      BY <1>0, <2>1, <2>2, <2>4, <2>5 DEF FdcInv, FdcTypes, Marked
  <1> QED
    BY <1>1, <1>2, <1>3, <1>4, <1>5, <1>6

(* A mark taken off leaves the transfer as it was. *)
LEMMA Unmarked ==
  ASSUME xfer \in Transfers, NEW d \in Drive
  PROVE  /\ Unmark(d) \in Transfers /\ Unmark(d).mark \in {xfer.mark, None} \ {d}
         /\ \A f : Within(f, xfer) => Within(f, Unmark(d))
  <1>1. None \notin Drive
    BY DEF None, Drive
  <1>2. /\ Unmark(d) \in Transfers /\ Unmark(d).mark \in {xfer.mark, None} \ {d}
        /\ Unmark(d).drive = xfer.drive /\ Unmark(d).side = xfer.side /\ Unmark(d).track = xfer.track
        /\ Unmark(d).sector = xfer.sector /\ Unmark(d).len = xfer.len
    BY <1>1 DEF Unmark, Transfers
  <1> QED
    BY <1>2 DEF Within, After

(* The host. *)
LEMMA FdcHost ==
  ASSUME FdcInv, NEW d \in Drive, Mount(d) \/ Dismount(d) \/ ResetUpdate(d)
  PROVE  FdcInv'
  <1>0. /\ fdc \in Controllers /\ xfer \in Transfers /\ Moving /\ Marked
        /\ disks \in Mountings /\ dirty \subseteq Drive /\ fdc.drive \in Drive
        /\ (fdc.ptr # None => Within(fdc, xfer))
    BY DEF FdcInv, FdcTypes, Controllers
  <1>1. CASE Mount(d) \/ Dismount(d)
    <2>1. /\ disks' \in Mountings /\ dirty' \subseteq dirty
          /\ \A e \in Drive \ {d} : disks'[e] = disks[e]
      <3>1. CASE Mount(d)
        BY <1>0, <3>1 DEF Mount, Mountings
      <3>2. CASE Dismount(d)
        BY <1>0, <3>2 DEF Dismount, Mountings
      <3> QED
        BY <1>1, <3>1, <3>2
    <2>2. Marked'
      <3>1. CASE Mount(d)
        <4>1. dirty' = dirty \ {d} /\ xfer' \in {NoTransfer, Unmark(d)}
          BY <3>1 DEF Mount
        <4>2. xfer'.mark # None => xfer'.mark = xfer.mark /\ xfer'.mark \in Drive \ {d}
          BY <1>0, <4>1, Unmarked, FdcValues DEF Transfers
        <4> QED
          BY <1>0, <2>1, <4>1, <4>2 DEF Marked
      <3>2. CASE Dismount(d)
        <4>1. \A e \in Drive : disks'[e].updated = disks[e].updated /\ dirty' = dirty
          BY <1>0, <3>2 DEF Dismount, Mountings
        <4>2. xfer' \in {xfer, NoTransfer}
          BY <3>2 DEF Dismount
        <4>3. xfer'.mark # None => xfer'.mark = xfer.mark /\ xfer'.mark \in Drive
          BY <1>0, <4>2, FdcValues DEF Transfers
        <4> QED
          BY <1>0, <4>1, <4>3 DEF Marked
      <3> QED
        BY <1>1, <3>1, <3>2
    <2>3. CASE d # fdc.drive
      <3>1. fdc' = fdc /\ xfer' \in {xfer, Unmark(d)}
        BY <1>1, <2>3 DEF Mount, Dismount
      <3>2. Moving'
        BY <1>0, <2>1, <2>3, <3>1 DEF Moving
      <3>3. xfer' \in Transfers /\ (fdc'.ptr # None => Within(fdc', xfer'))
        BY <1>0, <3>1, Unmarked
      <3> QED
        BY <1>0, <2>1, <2>2, <3>1, <3>2, <3>3 DEF FdcInv, FdcTypes
    <2>4. CASE d = fdc.drive /\ Mount(d)
      <3>1. fdc' = Cleared(fdc) /\ xfer' = NoTransfer
        BY <2>4 DEF Mount
      <3>2. \A f \in Controllers :
              [f EXCEPT !.status = {}, !.trackReg = 0, !.sectorReg = 0, !.dataReg = 0] \in Controllers
        <4>1. {} \in SUBSET Statuses /\ 0 \in Track /\ 0 \in 0..Sectors
          BY FdcNumbers, FdcValues
        <4>2. \A f \in Controllers : [f EXCEPT !.status = {}, !.trackReg = 0] \in Controllers
          BY <4>1 DEF Controllers
        <4>3. \A f \in Controllers : [f EXCEPT !.sectorReg = 0, !.dataReg = 0] \in Controllers
          BY <4>1 DEF Controllers
        <4> QED
          BY <4>2, <4>3
      <3>3. \A f \in Controllers :
              [f EXCEPT !.side = 0, !.track = 0, !.lastS = FALSE, !.irq = 0] \in Controllers
        <4>1. 0 \in Track
          BY FdcNumbers
        <4>2. \A f \in Controllers : [f EXCEPT !.side = 0, !.track = 0] \in Controllers
          <5>1. \A f \in Controllers : [f EXCEPT !.side = 0] \in Controllers
            BY DEF Controllers
          <5>2. \A f \in Controllers : [f EXCEPT !.track = 0] \in Controllers
            BY <4>1 DEF Controllers
          <5> QED
            BY <5>1, <5>2
        <4>3. \A f \in Controllers : [f EXCEPT !.lastS = FALSE, !.irq = 0] \in Controllers
          BY DEF Controllers
        <4> QED
          BY <4>2, <4>3
      <3>4. \A f \in Controllers :
              [f EXCEPT !.rwLen = 0, !.wait = 0, !.type1 = TRUE, !.ptr = None] \in Controllers
        BY FdcValues DEF Controllers
      <3>5. fdc' \in Controllers
        BY <1>0, <3>1, <3>2, <3>3, <3>4 DEF Cleared
      <3>6. /\ fdc'.rwLen = 0 /\ fdc'.ptr = None /\ fdc'.status = {}
            /\ fdc'.disk = fdc.disk /\ fdc'.drive = fdc.drive
        BY <1>0, <3>1 DEF Cleared, Controllers
      <3>7. disks'[fdc.drive].mounted
        BY <1>0, <2>4 DEF Mount, Mountings
      <3>8. Moving'
        BY <1>0, <3>6, <3>7, FdcNumbers DEF Moving
      <3> QED
        BY <1>0, <2>1, <2>2, <3>1, <3>5, <3>6, <3>8, FdcValues DEF FdcInv, FdcTypes
    <2>5. CASE d = fdc.drive /\ Dismount(d)
      <3>1. fdc' = [Over(fdc) EXCEPT !.disk = None] /\ xfer' = NoTransfer
        BY <2>5 DEF Dismount
      <3>2. fdc' \in Controllers
        BY <1>0, <3>1, FdcValues DEF Over, Controllers
      <3>3. /\ fdc'.rwLen = 0 /\ fdc'.ptr = None /\ fdc'.status = fdc.status
            /\ fdc'.disk = None /\ fdc'.wait = fdc.wait
        BY <1>0, <3>1 DEF Over, Controllers
      <3>4. Moving'
        BY <1>0, <3>3, FdcNumbers DEF Moving
      <3> QED
        BY <1>0, <2>1, <2>2, <3>1, <3>2, <3>3, <3>4, FdcValues DEF FdcInv, FdcTypes
    <2> QED
      BY <1>1, <2>3, <2>4, <2>5
  <1>2. CASE ResetUpdate(d)
    <2>1. /\ disks' \in Mountings /\ dirty' = dirty \ {d} /\ fdc' = fdc /\ xfer' = Unmark(d)
          /\ \A e \in Drive : disks'[e].mounted = disks[e].mounted
          /\ \A e \in Drive \ {d} : disks'[e].updated = disks[e].updated
      BY <1>0, <1>2 DEF ResetUpdate, Mountings
    <2>2. Moving'
      BY <1>0, <2>1 DEF Moving
    <2>3. Marked'
      <3>1. xfer'.mark # None => xfer'.mark = xfer.mark /\ xfer'.mark \in Drive \ {d}
        BY <1>0, <2>1, Unmarked DEF Transfers
      <3> QED
        BY <1>0, <2>1, <3>1 DEF Marked
    <2> QED
      BY <1>0, <2>1, <2>2, <2>3, Unmarked DEF FdcInv, FdcTypes
  <1> QED
    BY <1>1, <1>2

LEMMA FdcStep == FdcInv /\ [FdcNext]_fdcVars => FdcInv'
  <1> SUFFICES ASSUME FdcInv, [FdcNext]_fdcVars PROVE FdcInv'
    OBVIOUS
  <1>1. CASE \E b \in BOOLEAN : ForceInterrupt(b) \/ Restore(b) \/ SeekTrack(b)
    <2>1. PICK b \in BOOLEAN : ForceInterrupt(b) \/ Restore(b) \/ SeekTrack(b)
      BY <1>1
    <2>2. CASE ForceInterrupt(b)
      BY <2>2, FdcRegisters
    <2>3. CASE Restore(b) \/ SeekTrack(b)
      <3>1. Idle
        BY <2>3 DEF Restore, SeekTrack
      <3> QED
        BY <2>3, <3>1, FdcCommands
    <2> QED
      BY <2>1, <2>2, <2>3
  <1>2. CASE \E given, out, update \in BOOLEAN : StepHead(given, out, update)
    <2>1. Idle
      BY <1>2 DEF StepHead
    <2> QED
      BY <1>2, <2>1, FdcCommands
  <1>3. CASE \E write, multi \in BOOLEAN, side \in {None, 0, 1} : TransferSectors(write, multi, side)
    BY <1>3, FdcTransferSectors
  <1>4. CASE ReadAddress \/ ReadTrack \/ WriteTrack
    <2>1. Idle
      BY <1>4 DEF ReadAddress, ReadTrack, WriteTrack
    <2> QED
      BY <1>4, <2>1, FdcCommands
  <1>5. CASE CommandWhileBusy \/ ReadStatus \/ ReadReady
    BY <1>5, FdcRegisters
  <1>6. CASE \E t \in Track, s \in Sector : WriteRegister(t, s)
    BY <1>6, FdcRegisters
  <1>7. CASE \E v \in Track : ReadData(v) \/ WriteData(v)
    BY <1>7, FdcData
  <1>8. CASE \E d \in Drive, side \in 0..1 : WriteSystem(d, side)
    BY <1>8, FdcRegisters
  <1>9. CASE \E d \in Drive : Mount(d) \/ Dismount(d) \/ ResetUpdate(d)
    BY <1>9, FdcHost
  <1>10. CASE UNCHANGED fdcVars
    BY <1>10 DEF fdcVars, FdcInv, FdcTypes, Moving, Marked, Within, After
  <1> QED
    BY <1>1, <1>2, <1>3, <1>4, <1>5, <1>6, <1>7, <1>8, <1>9, <1>10 DEF FdcNext

FdcSpec == FdcInit /\ [][FdcNext]_fdcVars

LEMMA FdcInvariant == FdcSpec => []FdcInv
  BY FdcInitially, FdcStep, PTL DEF FdcSpec

(* A transfer that has moved q sectors and r bytes has moved q * SectorLen *)
(* + r bytes, and the other way round.                                     *)
LEMMA FdcExact == FdcInv => TransfersExact
  <1> SUFFICES ASSUME FdcInv PROVE TransfersExact
    OBVIOUS
  <1>0. /\ fdc \in Controllers /\ xfer \in Transfers /\ Moving /\ Marked /\ fdc.drive \in Drive
        /\ fdc.rwLen \in Int
    BY DEF FdcInv, FdcTypes, Controllers, Lengths
  <1>1. ASSUME fdc.ptr # None
        PROVE  LET done == xfer.len - fdc.rwLen
                   sector == xfer.sector + (done \div SectorLen)
               IN  /\ fdc.ptr = Position(xfer.side, xfer.track, sector) + (done % SectorLen)
                   /\ fdc.sectorReg = sector /\ sector \in Sector /\ xfer.drive \in Drive
    <2>1. PICK q \in Nat, left \in Nat \ {0}, r \in 0..SectorLen - 1 : After(fdc, xfer, q, left, r)
      BY <1>1 DEF FdcInv, Within
    <2>2. /\ SectorLen \in Nat /\ SectorLen # 0 /\ Sectors \in Nat /\ xfer.sector \in Nat
          /\ xfer.track \in Track /\ xfer.side \in 0..1 /\ r \in Nat
      BY <1>0, FdcNumbers DEF Transfers
    <2>3. PICK k \in Nat : k = xfer.sector - 1 + q
      BY <2>1, <2>2 DEF After
    <2>4. (q + left) * SectorLen = q * SectorLen + left * SectorLen /\ q * SectorLen \in Nat /\ left * SectorLen \in Nat
      BY <2>2
    <2>5. xfer.len - fdc.rwLen = q * SectorLen + r
      BY <2>1, <2>2, <2>4 DEF After
    <2>6. (q * SectorLen + r) \div SectorLen = q /\ (q * SectorLen + r) % SectorLen = r
      BY <2>2, Quotient
    <2>7. xfer.sector + q = k + 1 /\ k + 1 \in Sector
      BY <2>1, <2>2, <2>3 DEF After, Sector
    <2>8. Position(xfer.side, xfer.track, k + 1) = OnDisk(xfer.track, xfer.side, k, 0)
      BY <2>2, Places
    <2>9. OnDisk(xfer.track, xfer.side, k, r) = OnDisk(xfer.track, xfer.side, k, 0) + r
      <3> DEFINE b == Sectors * (xfer.track * 2 + xfer.side) + k
      <3>1. Sectors * (xfer.track * 2 + xfer.side) \in Nat
        <4>1. xfer.track * 2 + xfer.side \in Nat /\ \A m, n \in Nat : m * n \in Nat
          BY <2>2 DEF Track
        <4> QED
          BY <2>2, <4>1
      <3>2. b \in Nat /\ OnDisk(xfer.track, xfer.side, k, r) = b * SectorLen + r
            /\ OnDisk(xfer.track, xfer.side, k, 0) = b * SectorLen + 0
        BY <3>1 DEF OnDisk
      <3> HIDE DEF b
      <3>3. b * SectorLen \in Nat
        BY <2>2, <3>2
      <3> QED
        BY <2>2, <3>2, <3>3
    <2>10. fdc.ptr = OnDisk(xfer.track, xfer.side, k, r) /\ fdc.sectorReg = xfer.sector + q /\ xfer.drive \in Drive
      BY <2>1, <2>3 DEF After
    <2> QED
      BY <2>5, <2>6, <2>7, <2>8, <2>9, <2>10
  <1>2. /\ F_BUSY \in fdc.status => fdc.wait > 0
        /\ fdc.rwLen > 0 => F_BUSY \in fdc.status
        /\ fdc.disk # None => fdc.disk = fdc.drive /\ disks[fdc.drive].mounted
        /\ \A d \in dirty : disks[d].updated
    BY <1>0 DEF Moving, Marked
  <1> QED
    BY <1>1, <1>2 DEF TransfersExact

LEMMA FdcTyped == FdcInv => FdcTypeOK
  <1> SUFFICES ASSUME FdcInv PROVE FdcTypeOK
    OBVIOUS
  <1>0. fdc \in Controllers /\ xfer \in Transfers /\ dirty \subseteq Drive
    BY DEF FdcInv, FdcTypes
  <1>1. /\ fdc.status \subseteq Statuses /\ fdc.rwLen \in Lengths
        /\ fdc.trackReg \in Track /\ fdc.track \in Track /\ fdc.sectorReg \in 0..Sectors /\ fdc.dataReg \in Track
        /\ fdc.drive \in Drive /\ fdc.disk \in Drive \cup {None} /\ fdc.side \in 0..1
        /\ fdc.irq \in {0, IRQ, DRQ} /\ fdc.wait \in 0..Watchdog
    BY <1>0 DEF Controllers
  <1>2. fdc.ptr \in -1..(2 * Tracks * Sectors * SectorLen)
    <2>1. 2 * Tracks * Sectors * SectorLen \in Nat
      <3>1. \A m, n \in Nat : m * n \in Nat
        OBVIOUS
      <3>2. 2 * Tracks \in Nat /\ Sectors \in Nat /\ SectorLen \in Nat
        BY FdcNumbers
      <3>3. 2 * Tracks * Sectors \in Nat
        BY <3>1, <3>2
      <3> QED
        BY <3>1, <3>2, <3>3
    <2>2. CASE fdc.ptr # None
      <3>1. PICK q \in Nat, left \in Nat \ {0}, r \in 0..SectorLen - 1 : After(fdc, xfer, q, left, r)
        BY <2>2 DEF FdcInv, Within
      <3>2. Sectors \in Nat /\ xfer.sector \in Nat /\ xfer.track \in Track /\ xfer.side \in 0..1
        BY <1>0, FdcNumbers DEF Transfers
      <3>3. xfer.sector - 1 + q \in 0..Sectors - 1
        BY <3>1, <3>2 DEF After
      <3>4. fdc.ptr \in 0..(2 * Tracks * Sectors * SectorLen)
        BY <3>1, <3>2, <3>3, PlaceInImage DEF After
      <3> QED
        BY <3>4
    <2>3. CASE fdc.ptr = None
      BY <2>1, <2>3 DEF None
    <2> QED
      BY <2>2, <2>3
  <1> QED
    BY <1>0, <1>1, <1>2 DEF FdcTypeOK, Statuses, Lengths

(* Whatever the program commands, reads, writes, polls and selects, and    *)
(* whatever the host mounts, dismounts and saves meanwhile, a transfer is  *)
(* on the byte it should be on, and what was written is marked for saving  *)
(* but for bytes of a disk that is neither selected nor marked by the      *)
(* command (Fdc1793): for disks of any size and any number of drives.      *)
THEOREM TransfersCorrect == FdcInit /\ [][FdcNext]_fdcVars => []TransfersExact
  BY FdcInvariant, FdcExact, PTL DEF FdcSpec

(* The registers of the controller, its drives and the transfer under way  *)
(* keep their ranges (the members of Fdc1793).                             *)
THEOREM FdcTypesCorrect == FdcInit /\ [][FdcNext]_fdcVars => []FdcTypeOK
  BY FdcInvariant, FdcTyped, PTL DEF FdcSpec

-----------------------------------------------------------------------------
(* Words of the processor. *)
Divided(x, L) == \E q \in Int, r \in 0..L - 1 : x = q * L + r /\ x % L = r
LEMMA Remainder ==
  ASSUME NEW L \in Nat, L # 0, NEW x \in Int
  PROVE  Divided(x, L)
  <1> DEFINE d == x \div L
             m == x % L
  <1>1. x = L * d + m /\ m \in 0..L - 1 /\ d \in Int
    OBVIOUS
  <1> HIDE DEF d, m
  <1>2. L * d = d * L
    BY <1>1
  <1> QED
    BY <1>1, <1>2 DEF m, Divided

-----------------------------------------------------------------------------
(* Words. *)
WordSize == ByteSize * ByteSize

LEMMA WordCount == WordSize \in Nat \ {0} /\ ByteSize \in Nat \ {0} /\ 0 \in Word /\ 0 \in Byte /\ RstSpacing \in Nat
  <1>1. ByteSize \in Nat /\ ByteSize > 0 /\ RstSpacing \in Nat
    BY WordsAssumption
  <1>2. ByteSize * ByteSize > 0
    BY <1>1
  <1> QED
    BY <1>1, <1>2 DEF WordSize, Word, Byte

LEMMA Added ==
  ASSUME NEW w \in Int, NEW n \in Int
  PROVE  Plus(w, n) \in Word
  <1>1. \A x \in Int : x % WordSize \in 0..WordSize - 1
    <2>1. \A L \in Nat \ {0}, x \in Int : x % L \in 0..L - 1
      OBVIOUS
    <2> QED
      BY <2>1, WordCount
  <1> QED
    BY <1>1 DEF Plus, Word, WordSize

LEMMA AddedTwice ==
  ASSUME NEW w \in Int, NEW m \in Int, NEW n \in Int
  PROVE  Plus(Plus(w, m), n) = Plus(w, m + n)
  <1> DEFINE L == WordSize
  <1>0. L \in Nat /\ L # 0
    BY WordCount
  <1>1. Plus(w, m) = (w + m) % L /\ Plus(w, m + n) = (w + (m + n)) % L
    BY DEF Plus, WordSize
  <1>2. Plus(Plus(w, m), n) = (Plus(w, m) + n) % L
    BY DEF Plus, WordSize
  <1> HIDE DEF L
  <1>3. PICK q \in Int, r \in 0..L - 1 : w + m = q * L + r /\ (w + m) % L = r
    <2>1. Divided(w + m, L)
      BY <1>0, Remainder
    <2> QED
      BY <2>1 DEF Divided
  <1>4. r \in Int
    BY <1>0
  <1>5. PICK p \in Int, t \in 0..L - 1 : r + n = p * L + t /\ (r + n) % L = t
    <2>1. Divided(r + n, L)
      BY <1>0, <1>4, Remainder
    <2> QED
      BY <2>1 DEF Divided
  <1>6. w + (m + n) = (q + p) * L + t
    <2>1. (q + p) * L = q * L + p * L /\ q * L \in Int /\ p * L \in Int /\ t \in Int
      BY <1>0
    <2> QED
      BY <1>3, <1>4, <1>5, <2>1
  <1>7. ((q + p) * L + t) % L = t
    BY <1>0, Quotient
  <1> QED
    BY <1>1, <1>2, <1>3, <1>5, <1>6, <1>7

LEMMA NothingAdded ==
  ASSUME NEW w \in Word
  PROVE  Plus(w, 0) = w
  <1> DEFINE L == WordSize
  <1>0. L \in Nat /\ L # 0 /\ w \in 0..L - 1 /\ Plus(w, 0) = (w + 0) % L
    BY WordCount DEF Plus, Word, WordSize
  <1> HIDE DEF L
  <1>1. (0 * L + w) % L = w /\ 0 * L + w = w + 0
    BY <1>0, Quotient
  <1> QED
    BY <1>0, <1>1

LEMMA Joined ==
  ASSUME NEW h \in Byte, NEW l \in Byte
  PROVE  Join(h, l) \in Word /\ Low(Join(h, l)) = l /\ High(Join(h, l)) = h
  <1> DEFINE B == ByteSize
  <1>0. B \in Nat /\ B # 0 /\ h \in 0..B - 1 /\ l \in 0..B - 1
    BY WordCount DEF Byte
  <1>1. Join(h, l) = h * B + l /\ Low(Join(h, l)) = (h * B + l) % B /\ High(Join(h, l)) = (h * B + l) \div B
    BY DEF Join, Low, High
  <1>2. Word = 0..(B * B - 1)
    BY DEF Word
  <1> HIDE DEF B
  <1>3. h \in Int /\ h \in Nat /\ h + 1 <= B /\ l \in Nat
    BY <1>0
  <1>4. (h * B + l) % B = l /\ (h * B + l) \div B = h
    BY <1>0, <1>3, Quotient
  <1>5. h * B \in Nat /\ h * B + B <= B * B /\ B * B \in Nat
    <2>1. PICK k \in Nat : B = h + 1 + k
      <3>1. B - h - 1 \in Nat /\ B = h + 1 + (B - h - 1)
        BY <1>0, <1>3
      <3> QED
        BY <3>1
    <2>2. B * B = (h + 1 + k) * B /\ (h + 1 + k) * B = h * B + B + k * B /\ k * B \in Nat /\ h * B \in Nat
      BY <1>0, <1>3, <2>1
    <2> QED
      BY <1>0, <2>2
  <1>6. h * B + l \in 0..(B * B - 1)
    BY <1>0, <1>3, <1>5
  <1> QED
    BY <1>1, <1>2, <1>4, <1>6

LEMMA Halves ==
  ASSUME NEW w \in Word
  PROVE  High(w) \in Byte /\ Low(w) \in Byte
  <1> DEFINE B == ByteSize
  <1>0. B \in Nat /\ B # 0 /\ w \in 0..(B * B - 1) /\ High(w) = w \div B /\ Low(w) = w % B /\ Byte = 0..B - 1
    BY WordCount DEF Byte, Word, High, Low
  <1> HIDE DEF B
  <1>1. w \in Nat /\ B * B \in Nat /\ w < B * B
    BY <1>0
  <1>2. PICK q \in Int, r \in 0..B - 1 : w = q * B + r /\ w % B = r
    <2>1. Divided(w, B)
      BY <1>0, <1>1, Remainder
    <2> QED
      BY <2>1 DEF Divided
  <1>3. w \div B = q
    BY <1>0, <1>2, Quotient
  <1>4. q >= 0
    <2>1. ASSUME q <= -1 PROVE FALSE
      <3>1. PICK j \in Nat : j = -q - 1
        BY <2>1
      <3>2. j * B >= 0 /\ q * B = -(j * B) - B
        BY <1>0, <3>1
      <3> QED
        BY <1>0, <1>1, <1>2, <3>2
    <2> QED
      BY <2>1
  <1>5. q <= B - 1
    <2>1. ASSUME q >= B PROVE FALSE
      <3>1. PICK j \in Nat : q = B + j
        <4>1. q - B \in Nat /\ q = B + (q - B)
          BY <1>0, <2>1
        <4> QED
          BY <4>1
      <3>2. q * B = B * B + j * B /\ j * B >= 0
        BY <1>0, <3>1
      <3> QED
        BY <1>0, <1>1, <1>2, <3>2
    <2> QED
      BY <1>0, <2>1
  <1> QED
    BY <1>0, <1>2, <1>3, <1>4, <1>5

-----------------------------------------------------------------------------
(* An instruction under way: what k of its cycles have done to what a      *)
(* request saw before it.                                                  *)
States ==
  [pc : Word, sp : Word, wz : Word, ir : Opcode, mc : 0..5, flag : BOOLEAN, inte : BOOLEAN,
   iff : BOOLEAN, hlta : BOOLEAN, eiPending : BOOLEAN, stored : Nat, mem : [Word -> Byte]]
Views ==
  [pc : Word, sp : Word, mem : [Word -> Byte], inte : BOOLEAN, pending : BOOLEAN,
   shadow : BOOLEAN, halted : BOOLEAN]

Kept(s, t) ==
  /\ t.ir = s.ir /\ t.flag = s.flag /\ t.inte = s.inte /\ t.iff = s.iff
  /\ t.hlta = s.hlta /\ t.eiPending = s.eiPending

Clean(old, s) == s.mem = old.mem /\ s.stored = 0
PcPlus(old, s, n) == s.pc = Plus(old.pc, n)
SpPlus(old, s, n) == s.sp = Plus(old.sp, n)
Stored1(old, s, a, v) == s.stored = 1 /\ s.mem = [old.mem EXCEPT ![a] = v]
Stored2(old, s, a, v, b, w) == s.stored = 2 /\ s.mem = [old.mem EXCEPT ![a] = v, ![b] = w]

(* Operand bytes follow the opcode in the cycles after the first. *)
Fetched(n, k) == IF k < 1 THEN 1 ELSE IF k <= n THEN k ELSE n + 1
Operated(old, s, n, k) == PcPlus(old, s, Fetched(n, k))

StoredBy(r, k) ==
  IF StoreBytes(r) = 0 \/ k <= StoreCycle(r) THEN 0
  ELSE IF k = StoreCycle(r) + 1 THEN 1 ELSE StoreBytes(r)
Differ(m, n, c) ==
  \E at \in [1..c -> Word] : \A w \in Word : n[w] # m[w] => \E i \in 1..c : at[i] = w
DataAt(old, s, r, k) ==
  /\ Operated(old, s, ReadBytes(r), k) /\ s.sp = old.sp
  /\ s.stored = StoredBy(r, k) /\ Differ(old.mem, s.mem, s.stored)
SetSpAt(old, s, n, k) == Operated(old, s, n, k) /\ Clean(old, s)
XthlAt(old, s, k) ==
  /\ PcPlus(old, s, 1) /\ s.sp = old.sp
  /\ k <= 3 => Clean(old, s)
  /\ k = 4 => \E l \in Byte : Stored1(old, s, old.sp, l)
  /\ k >= 5 => \E h, l \in Byte : Stored2(old, s, old.sp, l, Plus(old.sp, 1), h)
PushAt(old, s, k) ==
  /\ PcPlus(old, s, 1) /\ SpPlus(old, s, IF k = 0 THEN 0 ELSE IF k <= 2 THEN -1 ELSE -2)
  /\ k <= 1 => Clean(old, s)
  /\ k \in {2, 3} => \E h \in Byte : Stored1(old, s, Plus(old.sp, -1), h)
  /\ k = 4 => \E h, l \in Byte : Stored2(old, s, Plus(old.sp, -1), h, Plus(old.sp, -2), l)
PopAt(old, s, k) ==
  PcPlus(old, s, 1) /\ Clean(old, s) /\ SpPlus(old, s, IF k <= 1 THEN 0 ELSE k - 1)
JumpAt(old, s, taken, k) ==
  Clean(old, s) /\ s.sp = old.sp /\ (Operated(old, s, 2, k) \/ (taken /\ k = 3))
PchlAt(old, s, k) == Clean(old, s) /\ s.sp = old.sp
CallAt(old, s, taken, k) ==
  LET back == Plus(old.pc, 3)
  IN  /\ Operated(old, s, 2, k) \/ (taken /\ k = 6)
      /\ ~taken => Clean(old, s) /\ s.sp = old.sp /\ k \notin {4, 5}
      /\ taken =>
           /\ SpPlus(old, s, IF k = 0 THEN 0 ELSE IF k <= 3 THEN -1 ELSE -2)
           /\ k <= 3 => Clean(old, s)
           /\ k = 4 => Stored1(old, s, Plus(old.sp, -1), High(back))
           /\ k >= 5 => Stored2(old, s, Plus(old.sp, -1), High(back), Plus(old.sp, -2), Low(back))
RstAt(old, s, n, back, k) ==
  /\ s.pc = IF k <= 3 THEN back ELSE Vector(n)
  /\ SpPlus(old, s, IF k = 0 THEN 0 ELSE IF k = 1 THEN -1 ELSE -2)
  /\ k <= 1 => Clean(old, s)
  /\ k = 2 => Stored1(old, s, Plus(old.sp, -1), High(back))
  /\ k >= 3 => Stored2(old, s, Plus(old.sp, -1), High(back), Plus(old.sp, -2), Low(back))
RetAt(old, s, k) ==
  /\ Clean(old, s) /\ SpPlus(old, s, IF k <= 1 THEN 0 ELSE k - 1)
  /\ k <= 2 => PcPlus(old, s, 1)
  /\ k = 2 => Low(s.wz) = old.mem[old.sp]
  /\ k = 3 => s.pc = Join(old.mem[Plus(old.sp, 1)], old.mem[old.sp])
RetCondAt(old, s, taken, k) ==
  IF taken THEN RetAt(old, s, IF k = 0 THEN 0 ELSE k - 1)
           ELSE Clean(old, s) /\ s.sp = old.sp /\ PcPlus(old, s, 1) /\ k \notin {2, 3}

-----------------------------------------------------------------------------
(* What the helpers do. *)
LEMMA NextRead ==
  ASSUME NEW s \in States
  PROVE  /\ ReadInstrMovePC(s) \in States /\ Kept(s, ReadInstrMovePC(s)) /\ ReadInstrMovePC(s).mc = s.mc
         /\ ReadInstrMovePC(s).pc = Plus(s.pc, 1) /\ ReadInstrMovePC(s).sp = s.sp
         /\ ReadInstrMovePC(s).mem = s.mem /\ ReadInstrMovePC(s).stored = s.stored
         /\ ReadInstrMovePC(s).wz = s.wz
  <1>1. Plus(s.pc, 1) \in Word
    BY Added DEF States, Word
  <1> QED
    BY <1>1 DEF States, ReadInstrMovePC, Kept

LEMMA Written ==
  ASSUME NEW s \in States, NEW a \in Word, NEW v \in Byte
  PROVE  /\ WriteByte(s, a, v) \in States /\ Kept(s, WriteByte(s, a, v)) /\ WriteByte(s, a, v).mc = s.mc
         /\ WriteByte(s, a, v).pc = s.pc /\ WriteByte(s, a, v).sp = s.sp
         /\ WriteByte(s, a, v).mem = [s.mem EXCEPT ![a] = v] /\ WriteByte(s, a, v).stored = s.stored + 1
         /\ WriteByte(s, a, v).wz = s.wz
  <1> DEFINE m == [s.mem EXCEPT ![a] = v]
             c == s.stored + 1
             t == [s EXCEPT !.mem = m, !.stored = c]
  <1>1. WriteByte(s, a, v) = t
    BY DEF WriteByte, States
  <1>2. m \in [Word -> Byte]
    <2>1. s.mem \in [Word -> Byte]
      BY DEF States
    <2> QED
      BY <2>1
  <1>3. c \in Nat
    <2>1. s.stored \in Nat
      BY DEF States
    <2> QED
      BY <2>1
  <1>4. m = [s.mem EXCEPT ![a] = v] /\ c = s.stored + 1
    OBVIOUS
  <1> HIDE DEF m, c
  <1>5. t \in States /\ Kept(s, t) /\ t.mc = s.mc /\ t.pc = s.pc /\ t.sp = s.sp
        /\ t.mem = m /\ t.stored = c /\ t.wz = s.wz
    BY <1>2, <1>3 DEF States, Kept
  <1> QED
    BY <1>1, <1>4, <1>5

LEMMA SpSet ==
  ASSUME NEW s \in States, NEW w \in Word
  PROVE  LET t == [s EXCEPT !.sp = w]
         IN  /\ t \in States /\ Kept(s, t) /\ t.mc = s.mc /\ t.pc = s.pc /\ t.sp = w
             /\ t.mem = s.mem /\ t.stored = s.stored /\ t.wz = s.wz
  BY DEF States, Kept

LEMMA PcSet ==
  ASSUME NEW s \in States, NEW w \in Word
  PROVE  LET t == [s EXCEPT !.pc = w]
         IN  /\ t \in States /\ Kept(s, t) /\ t.mc = s.mc /\ t.pc = w /\ t.sp = s.sp
             /\ t.mem = s.mem /\ t.stored = s.stored /\ t.wz = s.wz
  BY DEF States, Kept

LEMMA McSet ==
  ASSUME NEW s \in States, NEW c \in 0..5
  PROVE  LET t == [s EXCEPT !.mc = c]
         IN  /\ t \in States /\ Kept(s, t) /\ t.mc = c /\ t.pc = s.pc /\ t.sp = s.sp
             /\ t.mem = s.mem /\ t.stored = s.stored /\ t.wz = s.wz
  BY DEF States, Kept

LEMMA WzSet ==
  ASSUME NEW s \in States, NEW w \in Word
  PROVE  LET t == [s EXCEPT !.wz = w]
         IN  /\ t \in States /\ Kept(s, t) /\ t.mc = s.mc /\ t.pc = s.pc /\ t.sp = s.sp
             /\ t.mem = s.mem /\ t.stored = s.stored /\ t.wz = w
  BY DEF States, Kept

LEMMA StackRead ==
  ASSUME NEW s \in States, NEW a \in Word
  PROVE  /\ ReadZ(s) = [s EXCEPT !.wz = Join(High(s.wz), s.mem[s.sp])]
         /\ Join(High(s.wz), s.mem[s.sp]) \in Word
         /\ Low(Join(High(s.wz), s.mem[s.sp])) = s.mem[s.sp]
         /\ ReadW(s, a) = [s EXCEPT !.wz = Join(s.mem[a], Low(s.wz))]
         /\ Join(s.mem[a], Low(s.wz)) \in Word
         /\ PopByte(s) = [s EXCEPT !.sp = Plus(s.sp, 1)] /\ Plus(s.sp, 1) \in Word
  <1>0. s.wz \in Word /\ s.sp \in Word /\ s.mem[s.sp] \in Byte /\ s.mem[a] \in Byte
    BY DEF States
  <1>1. s.wz \in Word /\ s.sp \in Word /\ s.mem[s.sp] \in Byte /\ s.mem[a] \in Byte /\ s.sp \in Int
    BY <1>0 DEF Word
  <1>2. High(s.wz) \in Byte /\ Low(s.wz) \in Byte
    BY <1>1, Halves
  <1>3. Join(High(s.wz), s.mem[s.sp]) \in Word /\ Low(Join(High(s.wz), s.mem[s.sp])) = s.mem[s.sp]
    BY <1>1, <1>2, Joined
  <1>4. Join(s.mem[a], Low(s.wz)) \in Word
    BY <1>1, <1>2, Joined
  <1>5. Plus(s.sp, 1) \in Word
    BY <1>1, Added
  <1> QED
    BY <1>3, <1>4, <1>5 DEF ReadZ, ReadW, PopByte, States

(* Bytes stored are bytes that differ. *)
LEMMA NoneDiffer ==
  ASSUME NEW m
  PROVE  Differ(m, m, 0)
  <1>1. [i \in 1..0 |-> 0] \in [1..0 -> Word]
    BY WordCount
  <1> QED
    BY <1>1 DEF Differ

LEMMA OneMoreDiffers ==
  ASSUME NEW m \in [Word -> Byte], NEW n \in [Word -> Byte], NEW c \in Nat, Differ(m, n, c),
         NEW a \in Word, NEW v \in Byte
  PROVE  Differ(m, [n EXCEPT ![a] = v], c + 1)
  <1>1. PICK at \in [1..c -> Word] : \A w \in Word : n[w] # m[w] => \E i \in 1..c : at[i] = w
    BY DEF Differ
  <1> DEFINE more == [i \in 1..(c + 1) |-> IF i = c + 1 THEN a ELSE at[i]]
             p == [n EXCEPT ![a] = v]
  <1>2. more \in [1..(c + 1) -> Word]
    OBVIOUS
  <1>3. ASSUME NEW w \in Word, p[w] # m[w] PROVE \E i \in 1..(c + 1) : more[i] = w
    <2>1. CASE w = a
      <3>1. c + 1 \in 1..(c + 1) /\ more[c + 1] = a
        OBVIOUS
      <3> QED
        BY <2>1, <3>1
    <2>2. CASE w # a
      <3>1. PICK i \in 1..c : at[i] = w
        BY <1>1, <1>3, <2>2
      <3>2. i \in 1..(c + 1) /\ more[i] = w
        BY <3>1
      <3> QED
        BY <3>2
    <2> QED
      BY <2>1, <2>2
  <1> HIDE DEF more, p
  <1>4. Differ(m, p, c + 1)
    BY <1>2, <1>3 DEF Differ
  <1> QED
    BY <1>4 DEF p

LEMMA RoutineRuns ==
  ASSUME NEW s, NEW r, Routine(s.ir) = r
  PROVE  /\ r \in {"one", "move", "load", "DAD"} => Micro(s) = {s}
         /\ r = "immediate" => Micro(s) = MVIRegData(s)
         /\ r \in {"IN", "OUT"} => Micro(s) = PortAccess(s)
         /\ r = "LXI" => Micro(s) = LXI(s)
         /\ r = "LDA" => Micro(s) = LDA(s)
         /\ r = "LHLD" => Micro(s) = LHLD(s)
         /\ r = "STAX" => Micro(s) = STAX(s)
         /\ r = "MOV_M" => Micro(s) = MOVMemReg(s)
         /\ r = "update" => Micro(s) = INRMem(s)
         /\ r = "MVI_M" => Micro(s) = MVIMemData(s)
         /\ r = "STA" => Micro(s) = STA(s)
         /\ r = "SHLD" => Micro(s) = SHLD(s)
         /\ r = "LXI_SP" => Micro(s) = LXI_SP(s)
         /\ r = "SPHL" => Micro(s) = SPHL(s)
         /\ r = "INX_SP" => Micro(s) = StepSP(s, 1)
         /\ r = "DCX_SP" => Micro(s) = StepSP(s, -1)
         /\ r = "XTHL" => Micro(s) = XTHL(s)
         /\ r = "PUSH" => Micro(s) = PUSH(s)
         /\ r = "POP" => Micro(s) = POP(s)
         /\ r = "JMP" => Micro(s) = JMP(s, TRUE)
         /\ r = "JCond" => Micro(s) = JMP(s, s.flag)
         /\ r = "PCHL" => Micro(s) = PCHL(s)
         /\ r = "CALL" => Micro(s) = CALL(s, TRUE)
         /\ r = "CCond" => Micro(s) = CALL(s, s.flag)
         /\ r = "RST" => Micro(s) = RST(s, (s.ir \div 8) % 8)
         /\ r = "RET" => Micro(s) = RET(s)
         /\ r = "RETCond" => Micro(s) = RETCond(s, s.flag)
         /\ r = "DI" => Micro(s) = {[s EXCEPT !.inte = FALSE]}
         /\ r = "EI" => Micro(s) = {[s EXCEPT !.inte = TRUE, !.eiPending = TRUE]}
         /\ r = "HLT" => Micro(s) = HLT(s)
  BY DEF Micro

-----------------------------------------------------------------------------
(* One cycle of a routine takes what k cycles have done to what k + 1 do. *)
Goes(s, t) == t \in States /\ Kept(s, t) /\ s.mc <= t.mc /\ t.mc < Cycles(s.ir)

LEMMA OperandRead ==
  ASSUME NEW old \in Views, NEW s \in States, NEW n \in 0..2, Operated(old, s, n, s.mc)
  PROVE  LET t == Operands(s, n)
         IN  /\ t \in States /\ Kept(s, t) /\ t.mc = s.mc /\ Operated(old, t, n, s.mc + 1)
             /\ t.sp = s.sp /\ t.mem = s.mem /\ t.stored = s.stored /\ t.wz = s.wz
  <1>1. s.mc \in 0..5 /\ old.pc \in Int
    BY DEF States, Views, Word
  <1>2. CASE s.mc \in 1..n
    <2>1. Operands(s, n) = ReadInstrMovePC(s)
      BY <1>2 DEF Operands
    <2>2. Fetched(n, s.mc) = s.mc /\ Fetched(n, s.mc + 1) = s.mc + 1
      BY <1>1, <1>2 DEF Fetched
    <2>3. s.pc = Plus(old.pc, s.mc)
      BY <2>2 DEF Operated, PcPlus
    <2>4. Plus(s.pc, 1) = Plus(old.pc, s.mc + 1)
      <3>1. s.mc \in Int /\ 1 \in Int
        BY <1>1
      <3>2. Plus(Plus(old.pc, s.mc), 1) = Plus(old.pc, s.mc + 1)
        BY <1>1, <3>1, AddedTwice
      <3> QED
        BY <2>3, <3>2
    <2> QED
      BY <2>1, <2>2, <2>4, NextRead DEF Operated, PcPlus
  <1>3. CASE s.mc \notin 1..n
    <2>1. Operands(s, n) = s
      BY <1>3 DEF Operands
    <2>2. Fetched(n, s.mc) = Fetched(n, s.mc + 1)
      BY <1>1, <1>3 DEF Fetched
    <2> QED
      BY <2>1, <2>2 DEF Operated, PcPlus, Kept
  <1> QED
    BY <1>2, <1>3

(* Routines that move data. *)
StoresNow(r, k) == StoreBytes(r) > 0 /\ StoreCycle(r) <= k /\ k < StoreCycle(r) + StoreBytes(r)

LEMMA DataRuns ==
  ASSUME NEW s \in States, NEW r \in DataRoutines, Routine(s.ir) = r, NEW t \in Micro(s)
  PROVE  LET u == Operands(s, ReadBytes(r))
         IN  IF StoresNow(r, s.mc) THEN \E a \in Word, v \in Byte : t = WriteByte(u, a, v) ELSE t = u
  <1>1. s.mc \in 0..5
    BY DEF States
  <1>2. s.mc \in {1} <=> s.mc = 1
    OBVIOUS
  <1>3. Operands(s, 0) = s /\ \A n \in 0..2 : Operands(s, n).mc = s.mc
    <2>1. \A n \in 0..2 : Operands(s, n).mc = s.mc
      BY NextRead DEF Operands
    <2> QED
      BY <1>1, <2>1 DEF Operands
  <1>4. ASSUME NEW u, NEW cycles, t \in StoreAt(u, cycles)
        PROVE  IF u.mc \in cycles THEN \E a \in Word, v \in Byte : t = WriteByte(u, a, v) ELSE t = u
    BY <1>4 DEF StoreAt
  <1>5. CASE r \in {"one", "move", "load", "DAD"}
    <2>1. ReadBytes(r) = 0 /\ ~StoresNow(r, s.mc)
      BY <1>5 DEF ReadBytes, StoresNow, StoreBytes
    <2>2. Micro(s) = {s}
      BY <1>5, RoutineRuns
    <2> QED
      BY <1>3, <2>1, <2>2
  <1>6. CASE r \in {"immediate", "IN", "OUT", "LXI", "LDA", "LHLD"}
    <2>1. ~StoresNow(r, s.mc)
      BY <1>6 DEF StoresNow, StoreBytes
    <2>2. Micro(s) = {Operands(s, ReadBytes(r))}
      BY <1>6, RoutineRuns DEF ReadBytes, MVIRegData, PortAccess, LXI, LDA, LHLD
    <2> QED
      BY <2>1, <2>2
  <1>7. CASE r = "STAX"
    <2>1. t \in StoreAt(s, {1})
      BY <1>7, RoutineRuns DEF STAX
    <2> QED
      BY <1>1, <1>3, <1>4, <1>7, <2>1 DEF ReadBytes, StoresNow, StoreBytes, StoreCycle
  <1>8. CASE r = "MOV_M"
    <2>1. t \in StoreAt(s, {1})
      BY <1>8, RoutineRuns DEF MOVMemReg
    <2> QED
      BY <1>1, <1>3, <1>4, <1>8, <2>1 DEF ReadBytes, StoresNow, StoreBytes, StoreCycle
  <1>9. CASE r = "update"
    <2>1. t \in StoreAt(s, {2})
      BY <1>9, RoutineRuns DEF INRMem
    <2> QED
      BY <1>1, <1>3, <1>4, <1>9, <2>1 DEF ReadBytes, StoresNow, StoreBytes, StoreCycle
  <1>10. CASE r = "MVI_M"
    <2>1. t \in StoreAt(Operands(s, 1), {2})
      BY <1>10, RoutineRuns DEF MVIMemData
    <2>2. Operands(s, 1).mc = s.mc
      BY <1>3
    <2> QED
      BY <1>1, <1>4, <1>10, <2>1, <2>2 DEF ReadBytes, StoresNow, StoreBytes, StoreCycle
  <1>11. CASE r = "STA"
    <2>1. t \in StoreAt(Operands(s, 2), {3})
      BY <1>11, RoutineRuns DEF STA
    <2>2. Operands(s, 2).mc = s.mc
      BY <1>3
    <2> QED
      BY <1>1, <1>4, <1>11, <2>1, <2>2 DEF ReadBytes, StoresNow, StoreBytes, StoreCycle
  <1>12. CASE r = "SHLD"
    <2>1. t \in StoreAt(Operands(s, 2), {3, 4})
      BY <1>12, RoutineRuns DEF SHLD
    <2>2. Operands(s, 2).mc = s.mc
      BY <1>3
    <2> QED
      BY <1>1, <1>4, <1>12, <2>1, <2>2 DEF ReadBytes, StoresNow, StoreBytes, StoreCycle
  <1> QED
    BY <1>5, <1>6, <1>7, <1>8, <1>9, <1>10, <1>11, <1>12 DEF DataRoutines

LEMMA DataCycle ==
  ASSUME NEW old \in Views, NEW s \in States, NEW r \in DataRoutines, Routine(s.ir) = r,
         s.mc < Cycles(s.ir), DataAt(old, s, r, s.mc), NEW t \in Micro(s)
  PROVE  Goes(s, t) /\ t.mc = s.mc /\ DataAt(old, t, r, t.mc + 1)
  <1> DEFINE n == ReadBytes(r)
             u == Operands(s, n)
  <1>1. n \in 0..2
    BY DEF ReadBytes
  <1>2. s.mc \in 0..5 /\ old.mem \in [Word -> Byte] /\ s.stored \in Nat /\ s.mem \in [Word -> Byte]
    BY DEF States, Views
  <1>3. /\ Operated(old, s, n, s.mc) /\ s.sp = old.sp
        /\ s.stored = StoredBy(r, s.mc) /\ Differ(old.mem, s.mem, s.stored)
    BY DEF DataAt
  <1>4. /\ u \in States /\ Kept(s, u) /\ u.mc = s.mc /\ Operated(old, u, n, s.mc + 1)
        /\ u.sp = s.sp /\ u.mem = s.mem /\ u.stored = s.stored
    BY <1>1, <1>3, OperandRead
  <1>5. IF StoresNow(r, s.mc) THEN \E a \in Word, v \in Byte : t = WriteByte(u, a, v) ELSE t = u
    BY DataRuns
  <1>6. StoreCycle(r) \in 1..3 /\ StoreBytes(r) \in 0..2
    BY DEF StoreCycle, StoreBytes
  <1> HIDE DEF n, u
  <1>7. CASE StoresNow(r, s.mc)
    <2>1. PICK a \in Word, v \in Byte : t = WriteByte(u, a, v)
      BY <1>5, <1>7
    <2>2. /\ t \in States /\ Kept(u, t) /\ t.mc = u.mc /\ t.pc = u.pc /\ t.sp = u.sp
          /\ t.mem = [u.mem EXCEPT ![a] = v] /\ t.stored = u.stored + 1
      BY <1>4, <2>1, Written
    <2>3. Differ(old.mem, t.mem, t.stored)
      BY <1>2, <1>3, <1>4, <2>2, OneMoreDiffers
    <2>4. StoredBy(r, s.mc + 1) = StoredBy(r, s.mc) + 1
      BY <1>2, <1>6, <1>7 DEF StoredBy, StoresNow
    <2>5. Operated(old, t, n, s.mc + 1)
      BY <1>4, <2>2 DEF Operated, PcPlus
    <2> QED
      BY <1>2, <1>3, <1>4, <2>2, <2>3, <2>4, <2>5 DEF Goes, Kept, DataAt, n
  <1>8. CASE ~StoresNow(r, s.mc)
    <2>1. t = u
      BY <1>5, <1>8
    <2>2. StoredBy(r, s.mc + 1) = StoredBy(r, s.mc)
      BY <1>2, <1>6, <1>8 DEF StoredBy, StoresNow
    <2> QED
      BY <1>2, <1>3, <1>4, <2>1, <2>2 DEF Goes, Kept, DataAt, n
  <1> QED
    BY <1>7, <1>8

(* SP and PC as they were, and some steps on. *)
LEMMA StepsOn ==
  ASSUME NEW old \in Views
  PROVE  /\ Plus(old.sp, 0) = old.sp /\ Plus(old.pc, 0) = old.pc
         /\ \A m, n \in Int : Plus(Plus(old.sp, m), n) = Plus(old.sp, m + n)
         /\ \A m, n \in Int : Plus(Plus(old.pc, m), n) = Plus(old.pc, m + n)
         /\ \A n \in Int : Plus(old.sp, n) \in Word /\ Plus(old.pc, n) \in Word
         /\ old.sp \in Word /\ old.pc \in Word
  <1>1. old.sp \in Word /\ old.pc \in Word
    BY DEF Views
  <1>2. old.sp \in Int /\ old.pc \in Int
    BY <1>1 DEF Word
  <1>3. Plus(old.sp, 0) = old.sp /\ Plus(old.pc, 0) = old.pc
    BY <1>1, NothingAdded
  <1>4. \A m, n \in Int : Plus(Plus(old.sp, m), n) = Plus(old.sp, m + n)
    BY <1>2, AddedTwice
  <1>5. \A m, n \in Int : Plus(Plus(old.pc, m), n) = Plus(old.pc, m + n)
    BY <1>2, AddedTwice
  <1>6. \A n \in Int : Plus(old.sp, n) \in Word /\ Plus(old.pc, n) \in Word
    BY <1>2, Added
  <1> QED
    BY <1>1, <1>3, <1>4, <1>5, <1>6

(* The steps there are. *)
LEMMA SpSteps ==
  ASSUME NEW old \in Views
  PROVE  /\ Plus(old.sp, 0) = old.sp /\ Plus(Plus(old.sp, -1), -1) = Plus(old.sp, -2)
         /\ Plus(Plus(old.sp, 1), 1) = Plus(old.sp, 2)
         /\ Plus(old.sp, -1) \in Word /\ Plus(old.sp, -2) \in Word
         /\ Plus(old.sp, 1) \in Word /\ Plus(old.sp, 2) \in Word /\ old.sp \in Word
         /\ Plus(old.pc, 1) \in Word /\ Plus(old.pc, 3) \in Word /\ old.pc \in Word
  <1>1. Plus(Plus(old.sp, -1), -1) = Plus(old.sp, -1 + -1) /\ -1 + -1 = -2
    BY StepsOn
  <1>2. Plus(Plus(old.sp, 1), 1) = Plus(old.sp, 1 + 1) /\ 1 + 1 = 2
    BY StepsOn
  <1>3. \A n \in Int : Plus(old.sp, n) \in Word /\ Plus(old.pc, n) \in Word
    BY StepsOn
  <1>4. Plus(old.sp, 0) = old.sp /\ old.sp \in Word /\ old.pc \in Word
    BY StepsOn
  <1>5. -2 \in Int /\ -1 \in Int /\ 1 \in Int /\ 2 \in Int /\ 3 \in Int
    OBVIOUS
  <1>6. Plus(old.sp, -1) \in Word /\ Plus(old.sp, -2) \in Word
    BY <1>3, <1>5
  <1>7. Plus(old.sp, 1) \in Word /\ Plus(old.sp, 2) \in Word
    BY <1>3, <1>5
  <1>8. Plus(old.pc, 1) \in Word /\ Plus(old.pc, 3) \in Word
    BY <1>3, <1>5
  <1> QED
    BY <1>1, <1>2, <1>4, <1>6, <1>7, <1>8

LEMMA SetSpCycle ==
  ASSUME NEW old \in Views, NEW s \in States, NEW r \in {"LXI_SP", "SPHL", "INX_SP", "DCX_SP"},
         Routine(s.ir) = r, NEW n \in {0, 2}, r = "LXI_SP" <=> n = 2,
         s.mc < Cycles(s.ir), s.mc <= n \/ r # "LXI_SP", SetSpAt(old, s, n, s.mc), NEW t \in Micro(s)
  PROVE  Goes(s, t) /\ t.mc = s.mc /\ SetSpAt(old, t, n, t.mc + 1)
  <1>1. s.mc \in 0..5 /\ s.sp \in Word /\ n \in 0..2
    BY DEF States
  <1>2. Operated(old, s, n, s.mc) /\ Clean(old, s)
    BY DEF SetSpAt
  <1>3. ASSUME NEW u \in States, Kept(s, u), u.mc = s.mc, Operated(old, u, n, s.mc + 1),
               u.mem = s.mem, u.stored = s.stored,
               t = u \/ \E w \in Word : t = [u EXCEPT !.sp = w]
        PROVE  Goes(s, t) /\ t.mc = s.mc /\ SetSpAt(old, t, n, t.mc + 1)
    <2>1. /\ t \in States /\ Kept(u, t) /\ t.mc = u.mc /\ t.pc = u.pc
          /\ t.mem = u.mem /\ t.stored = u.stored
      <3>1. CASE t = u
        BY <1>3, <3>1 DEF Kept
      <3>2. CASE \E w \in Word : t = [u EXCEPT !.sp = w]
        <4>1. PICK w \in Word : t = [u EXCEPT !.sp = w]
          BY <3>2
        <4> QED
          BY <1>3, <4>1, SpSet
      <3> QED
        BY <1>3, <3>1, <3>2
    <2> QED
      BY <1>1, <1>2, <1>3, <2>1 DEF Goes, Kept, SetSpAt, Operated, PcPlus, Clean
  <1>4. CASE r = "LXI_SP"
    <2>0. n = 2 /\ s.mc \in 0..2
      BY <1>1, <1>4
    <2>1. t \in LXI_SP(s) /\ n = 2 /\ s.mc \in 0..2
      BY <1>4, <2>0, RoutineRuns
    <2> DEFINE u == Operands(s, n)
    <2>2. /\ u \in States /\ Kept(s, u) /\ u.mc = s.mc /\ Operated(old, u, n, s.mc + 1)
          /\ u.mem = s.mem /\ u.stored = s.stored
      BY <1>1, <1>2, OperandRead
    <2>3. s.mc \in {1, 2} => u = ReadInstrMovePC(s)
      BY <2>1 DEF Operands
    <2>4. s.mc = 0 => u = s
      BY <2>1 DEF Operands
    <2>5. u.sp \in Word
      BY <2>2 DEF States
    <2> HIDE DEF u
    <2>6. High(u.sp) \in Byte /\ Low(u.sp) \in Byte
      BY <2>5, Halves
    <2>7. t = u \/ \E w \in Word : t = [u EXCEPT !.sp = w]
      <3>1. CASE s.mc = 0
        BY <2>1, <2>4, <3>1 DEF LXI_SP
      <3>2. CASE s.mc = 1
        <4>1. PICK l \in Byte : t = [u EXCEPT !.sp = Join(High(u.sp), l)]
          BY <2>1, <2>2, <2>3, <3>2 DEF LXI_SP, States
        <4> QED
          BY <2>6, <4>1, Joined
      <3>3. CASE s.mc = 2
        <4>1. PICK h \in Byte : t = [u EXCEPT !.sp = Join(h, Low(u.sp))]
          BY <2>1, <2>2, <2>3, <3>3 DEF LXI_SP, States
        <4> QED
          BY <2>6, <4>1, Joined
      <3> QED
        BY <2>1, <3>1, <3>2, <3>3
    <2> QED
      BY <1>3, <2>2, <2>7
  <1>5. CASE r # "LXI_SP"
    <2>1. n = 0 /\ Operated(old, s, n, s.mc + 1)
      BY <1>1, <1>2, <1>5 DEF Operated, Fetched
    <2>2. t = s \/ \E w \in Word : t = [s EXCEPT !.sp = w]
      <3>1. CASE r = "SPHL"
        <4>1. t \in SPHL(s)
          BY <3>1, RoutineRuns
        <4> QED
          BY <4>1 DEF SPHL
      <3>2. ASSUME NEW m \in {1, -1}, t \in StepSP(s, m)
            PROVE  t = s \/ \E w \in Word : t = [s EXCEPT !.sp = w]
        <4>1. s.sp \in Int /\ m \in Int
          BY <1>1 DEF Word
        <4>2. Plus(s.sp, m) \in Word
          BY <4>1, Added
        <4>3. t = s \/ t = [s EXCEPT !.sp = Plus(s.sp, m)]
          BY <3>2 DEF StepSP, States
        <4> QED
          BY <4>2, <4>3
      <3>3. CASE r = "INX_SP"
        <4>1. t \in StepSP(s, 1)
          BY <3>3, RoutineRuns
        <4> QED
          BY <3>2, <4>1
      <3>4. CASE r = "DCX_SP"
        <4>1. t \in StepSP(s, -1)
          BY <3>4, RoutineRuns
        <4> QED
          BY <3>2, <4>1
      <3> QED
        BY <1>5, <3>1, <3>3, <3>4
    <2>3. Kept(s, s)
      BY DEF Kept
    <2> QED
      BY <1>3, <2>1, <2>2, <2>3
  <1> QED
    BY <1>4, <1>5

(* A byte written where SP points. *)
LEMMA FirstStored ==
  ASSUME NEW old \in Views, NEW s \in States, NEW a \in Word, NEW v \in Byte, Clean(old, s)
  PROVE  LET t == WriteByte(s, a, v)
         IN  /\ t \in States /\ Kept(s, t) /\ t.mc = s.mc /\ t.pc = s.pc /\ t.sp = s.sp
             /\ Stored1(old, t, a, v)
  BY Written DEF Clean, Stored1

LEMMA SecondStored ==
  ASSUME NEW old \in Views, NEW s \in States, NEW a \in Word, NEW v \in Byte, NEW b \in Word, NEW w \in Byte,
         Stored1(old, s, b, w)
  PROVE  LET t == WriteByte(s, a, v)
         IN  /\ t \in States /\ Kept(s, t) /\ t.mc = s.mc /\ t.pc = s.pc /\ t.sp = s.sp
             /\ Stored2(old, t, b, w, a, v)
  <1>1. /\ WriteByte(s, a, v).mem = [[old.mem EXCEPT ![b] = w] EXCEPT ![a] = v]
        /\ WriteByte(s, a, v).stored = 2
    BY Written DEF Stored1
  <1>2. Stored2(old, WriteByte(s, a, v), b, w, a, v)
    BY <1>1 DEF Stored2
  <1> QED
    BY <1>2, Written

LEMMA PushCycle ==
  ASSUME NEW old \in Views, NEW s \in States, Routine(s.ir) = "PUSH", Cycles(s.ir) = 4,
         s.mc < 4, PushAt(old, s, s.mc), NEW t \in Micro(s)
  PROVE  Goes(s, t) /\ t.mc = s.mc /\ PushAt(old, t, t.mc + 1)
  <1>0. t \in PUSH(s)
    BY RoutineRuns
  <1>1. t \in PUSH(s) /\ s.mc \in 0..3 /\ s.sp \in Word
    BY <1>0 DEF States
  <1>2. PcPlus(old, s, 1) /\ SpPlus(old, s, IF s.mc = 0 THEN 0 ELSE IF s.mc <= 2 THEN -1 ELSE -2)
    BY DEF PushAt
  <1>3. CASE s.mc = 0
    <2>1. t = [s EXCEPT !.sp = Plus(s.sp, -1)] /\ SpPlus(old, s, 0) /\ Clean(old, s)
      BY <1>1, <1>2, <1>3 DEF PUSH, PushAt
    <2>2. /\ t \in States /\ Kept(s, t) /\ t.mc = s.mc /\ t.pc = s.pc /\ SpPlus(old, t, -1)
          /\ t.mem = s.mem /\ t.stored = s.stored
      BY <2>1, SpSet, SpSteps DEF SpPlus
    <2> QED
      BY <1>2, <1>3, <2>1, <2>2 DEF Goes, PushAt, PcPlus, Clean
  <1>4. CASE s.mc = 1
    <2>1. SpPlus(old, s, -1) /\ Clean(old, s)
      BY <1>2, <1>4 DEF PushAt
    <2>2. PICK h \in Byte : t = WriteByte(s, s.sp, h)
      BY <1>1, <1>4 DEF PUSH
    <2>3. /\ t \in States /\ Kept(s, t) /\ t.mc = s.mc /\ t.pc = s.pc /\ t.sp = s.sp
          /\ Stored1(old, t, s.sp, h)
      BY <1>1, <2>1, <2>2, FirstStored
    <2>4. Stored1(old, t, Plus(old.sp, -1), h)
      BY <2>1, <2>3 DEF SpPlus
    <2> QED
      BY <1>2, <1>4, <2>1, <2>3, <2>4 DEF Goes, PushAt, PcPlus, SpPlus
  <1>5. CASE s.mc = 2
    <2>1. SpPlus(old, s, -1)
      BY <1>2, <1>5
    <2>2. t = [s EXCEPT !.sp = Plus(s.sp, -1)]
      BY <1>1, <1>5 DEF PUSH
    <2>3. PICK h \in Byte : Stored1(old, s, Plus(old.sp, -1), h)
      BY <1>5 DEF PushAt
    <2>4. /\ t \in States /\ Kept(s, t) /\ t.mc = s.mc /\ t.pc = s.pc /\ SpPlus(old, t, -2)
          /\ t.mem = s.mem /\ t.stored = s.stored
      BY <2>1, <2>2, SpSet, SpSteps DEF SpPlus
    <2>5. Stored1(old, t, Plus(old.sp, -1), h)
      BY <2>3, <2>4 DEF Stored1
    <2> QED
      BY <1>2, <1>5, <2>4, <2>5 DEF Goes, PushAt, PcPlus
  <1>6. CASE s.mc = 3
    <2>1. SpPlus(old, s, -2)
      BY <1>2, <1>6
    <2>2. PICK l \in Byte : t = WriteByte(s, s.sp, l)
      BY <1>1, <1>6 DEF PUSH
    <2>3. PICK h \in Byte : Stored1(old, s, Plus(old.sp, -1), h)
      BY <1>6 DEF PushAt
    <2>6. PICK a \in Word : a = Plus(old.sp, -1)
      BY SpSteps
    <2>7. Stored1(old, s, a, h)
      BY <2>3, <2>6
    <2>4. /\ t \in States /\ Kept(s, t) /\ t.mc = s.mc /\ t.pc = s.pc /\ t.sp = s.sp
          /\ Stored2(old, t, a, h, s.sp, l)
      BY <1>1, <2>2, <2>7, SecondStored
    <2>5. Stored2(old, t, Plus(old.sp, -1), h, Plus(old.sp, -2), l)
      BY <2>1, <2>4, <2>6 DEF SpPlus
    <2> QED
      BY <1>2, <1>6, <2>1, <2>4, <2>5 DEF Goes, PushAt, PcPlus, SpPlus
  <1> QED
    BY <1>1, <1>3, <1>4, <1>5, <1>6

LEMMA PopCycle ==
  ASSUME NEW old \in Views, NEW s \in States, Routine(s.ir) = "POP", Cycles(s.ir) = 3,
         s.mc < 3, PopAt(old, s, s.mc), NEW t \in Micro(s)
  PROVE  Goes(s, t) /\ t.mc = s.mc /\ PopAt(old, t, t.mc + 1)
  <1>0. t \in POP(s)
    BY RoutineRuns
  <1>1. t \in POP(s) /\ s.mc \in 0..2
    BY <1>0 DEF States
  <1>2. PcPlus(old, s, 1) /\ Clean(old, s) /\ SpPlus(old, s, IF s.mc <= 1 THEN 0 ELSE s.mc - 1)
    BY DEF PopAt
  <1>3. CASE s.mc = 0
    BY <1>1, <1>2, <1>3 DEF POP, Goes, PopAt, Kept
  <1>4. CASE s.mc \in {1, 2}
    <2>1. t = [s EXCEPT !.sp = Plus(s.sp, 1)]
      BY <1>1, <1>4 DEF POP, PopByte
    <2>2. Plus(s.sp, 1) = Plus(old.sp, s.mc) /\ Plus(old.sp, s.mc) \in Word
      BY <1>2, <1>4, SpSteps DEF SpPlus
    <2>3. /\ t \in States /\ Kept(s, t) /\ t.mc = s.mc /\ t.pc = s.pc /\ SpPlus(old, t, s.mc)
          /\ t.mem = s.mem /\ t.stored = s.stored
      BY <2>1, <2>2, SpSet DEF SpPlus
    <2> QED
      BY <1>2, <1>4, <2>3 DEF Goes, PopAt, PcPlus, Clean
  <1> QED
    BY <1>1, <1>3, <1>4

LEMMA XthlCycle ==
  ASSUME NEW old \in Views, NEW s \in States, Routine(s.ir) = "XTHL", Cycles(s.ir) = 6,
         s.mc < 6, XthlAt(old, s, s.mc), NEW t \in Micro(s)
  PROVE  Goes(s, t) /\ t.mc = s.mc /\ XthlAt(old, t, t.mc + 1)
  <1>0. t \in XTHL(s)
    BY RoutineRuns
  <1>1. t \in XTHL(s) /\ s.mc \in 0..5 /\ s.sp \in Word
    BY <1>0 DEF States
  <1>2. PcPlus(old, s, 1) /\ s.sp = old.sp /\ Plus(old.sp, 1) \in Word
    BY StepsOn DEF XthlAt
  <1>3. CASE s.mc \in {0, 5}
    BY <1>1, <1>2, <1>3 DEF XTHL, Goes, XthlAt, Kept
  <1>4. CASE s.mc \in {1, 2}
    <2>1. Clean(old, s)
      BY <1>4 DEF XthlAt
    <2>2. \E w \in Word : t = [s EXCEPT !.wz = w]
      BY <1>1, <1>2, <1>4, StackRead DEF XTHL
    <2>3. /\ t \in States /\ Kept(s, t) /\ t.mc = s.mc /\ t.pc = s.pc /\ t.sp = s.sp
          /\ t.mem = s.mem /\ t.stored = s.stored
      BY <2>2, WzSet
    <2> QED
      BY <1>2, <1>4, <2>1, <2>3 DEF Goes, XthlAt, PcPlus, Clean
  <1>5. CASE s.mc = 3
    <2>1. Clean(old, s)
      BY <1>5 DEF XthlAt
    <2>2. PICK l \in Byte : t = WriteByte(s, s.sp, l)
      BY <1>1, <1>5 DEF XTHL
    <2>3. /\ t \in States /\ Kept(s, t) /\ t.mc = s.mc /\ t.pc = s.pc /\ t.sp = s.sp
          /\ Stored1(old, t, old.sp, l)
      BY <1>1, <1>2, <2>1, <2>2, FirstStored
    <2> QED
      BY <1>2, <1>5, <2>3 DEF Goes, XthlAt, PcPlus
  <1>6. CASE s.mc = 4
    <2>1. PICK l \in Byte : Stored1(old, s, old.sp, l)
      BY <1>6 DEF XthlAt
    <2>2. PICK h \in Byte : t = WriteByte(s, Plus(s.sp, 1), h)
      BY <1>1, <1>6 DEF XTHL
    <2>4. PICK a \in Word, b \in Word : a = old.sp /\ b = Plus(old.sp, 1)
      BY <1>1, <1>2
    <2>5. Stored1(old, s, a, l) /\ t = WriteByte(s, b, h)
      BY <1>2, <2>1, <2>2, <2>4
    <2>3. /\ t \in States /\ Kept(s, t) /\ t.mc = s.mc /\ t.pc = s.pc /\ t.sp = s.sp
          /\ Stored2(old, t, a, l, b, h)
      BY <2>4, <2>5, SecondStored
    <2> QED
      BY <1>2, <1>6, <2>3, <2>4 DEF Goes, XthlAt, PcPlus
  <1> QED
    BY <1>1, <1>3, <1>4, <1>5, <1>6

LEMMA JumpCycle ==
  ASSUME NEW old \in Views, NEW s \in States, NEW taken \in BOOLEAN, NEW t \in JMP(s, taken),
         Cycles(s.ir) = 3, s.mc < 3, JumpAt(old, s, taken, s.mc)
  PROVE  Goes(s, t) /\ t.mc = s.mc /\ JumpAt(old, t, taken, t.mc + 1)
  <1>1. s.mc \in 0..2 /\ Clean(old, s) /\ s.sp = old.sp /\ Operated(old, s, 2, s.mc)
    BY DEF States, JumpAt
  <1>2. CASE taken /\ s.mc = 2
    <2>1. PICK w \in Word : t = [s EXCEPT !.pc = w]
      BY <1>2 DEF JMP
    <2> QED
      BY <1>1, <1>2, <2>1, PcSet DEF Goes, JumpAt, Clean
  <1>3. CASE ~(taken /\ s.mc = 2)
    <2>1. t = Operands(s, 2)
      BY <1>1, <1>3 DEF JMP, Operands
    <2>2. /\ t \in States /\ Kept(s, t) /\ t.mc = s.mc /\ Operated(old, t, 2, s.mc + 1)
          /\ t.sp = s.sp /\ t.mem = s.mem /\ t.stored = s.stored
      BY <1>1, <2>1, OperandRead
    <2> QED
      BY <1>1, <2>2 DEF Goes, JumpAt, Clean
  <1> QED
    BY <1>2, <1>3

LEMMA PchlCycle ==
  ASSUME NEW old, NEW s \in States, NEW t \in PCHL(s), Cycles(s.ir) = 2, s.mc < 2, PchlAt(old, s, s.mc)
  PROVE  Goes(s, t) /\ t.mc = s.mc /\ PchlAt(old, t, t.mc + 1)
  <1>1. s.mc \in 0..1 /\ Clean(old, s) /\ s.sp = old.sp /\ Kept(s, s)
    BY DEF States, PchlAt, Kept
  <1>2. CASE s.mc = 1
    <2>1. PICK w \in Word : t = [s EXCEPT !.pc = w]
      BY <1>2 DEF PCHL
    <2> QED
      BY <1>1, <1>2, <2>1, PcSet DEF Goes, PchlAt, Clean
  <1>3. CASE s.mc = 0
    BY <1>1, <1>3 DEF Goes, PchlAt, PCHL
  <1> QED
    BY <1>1, <1>2, <1>3

(* A call's return address is put under the stack byte by byte. *)
LEMMA HighStored ==
  ASSUME NEW old \in Views, NEW s \in States, NEW v \in Byte, Clean(old, s), SpPlus(old, s, -1)
  PROVE  LET t == [WriteByte(s, s.sp, v) EXCEPT !.sp = Plus(@, -1)]
         IN  /\ t \in States /\ Kept(s, t) /\ t.mc = s.mc /\ t.pc = s.pc /\ SpPlus(old, t, -2)
             /\ Stored1(old, t, Plus(old.sp, -1), v)
  <1> DEFINE u == WriteByte(s, s.sp, v)
             t == [u EXCEPT !.sp = Plus(u.sp, -1)]
  <1>1. /\ u \in States /\ Kept(s, u) /\ u.mc = s.mc /\ u.pc = s.pc /\ u.sp = s.sp
        /\ Stored1(old, u, Plus(old.sp, -1), v)
    BY FirstStored, SpSteps DEF SpPlus
  <1>2. [u EXCEPT !.sp = Plus(@, -1)] = t
    BY <1>1 DEF States
  <1> HIDE DEF u
  <1>3. Plus(u.sp, -1) = Plus(old.sp, -2) /\ Plus(old.sp, -2) \in Word
    BY <1>1, SpSteps DEF SpPlus
  <1>4. /\ t \in States /\ Kept(u, t) /\ t.mc = u.mc /\ t.pc = u.pc /\ SpPlus(old, t, -2)
        /\ t.mem = u.mem /\ t.stored = u.stored
    BY <1>1, <1>3, SpSet DEF SpPlus
  <1>5. Kept(s, t) /\ Stored1(old, t, Plus(old.sp, -1), v)
    BY <1>1, <1>4 DEF Kept, Stored1
  <1> HIDE DEF t
  <1>6. t \in States /\ Kept(s, t) /\ t.mc = s.mc /\ t.pc = s.pc /\ SpPlus(old, t, -2)
        /\ Stored1(old, t, Plus(old.sp, -1), v)
    BY <1>1, <1>4, <1>5
  <1> QED
    BY <1>2, <1>6 DEF u

LEMMA LowStored ==
  ASSUME NEW old \in Views, NEW s \in States, NEW v \in Byte, NEW h \in Byte,
         Stored1(old, s, Plus(old.sp, -1), h), SpPlus(old, s, -2)
  PROVE  LET t == WriteByte(s, s.sp, v)
         IN  /\ t \in States /\ Kept(s, t) /\ t.mc = s.mc /\ t.pc = s.pc /\ SpPlus(old, t, -2)
             /\ Stored2(old, t, Plus(old.sp, -1), h, Plus(old.sp, -2), v)
  <1>1. Plus(old.sp, -1) \in Word /\ Plus(old.sp, -2) \in Word /\ s.sp = Plus(old.sp, -2)
    BY SpSteps DEF SpPlus
  <1>2. LET t == WriteByte(s, s.sp, v)
        IN  /\ t \in States /\ Kept(s, t) /\ t.mc = s.mc /\ t.pc = s.pc /\ t.sp = s.sp
            /\ Stored2(old, t, Plus(old.sp, -1), h, s.sp, v)
    BY <1>1, SecondStored
  <1> QED
    BY <1>1, <1>2 DEF SpPlus

LEMMA CallCycle ==
  ASSUME NEW old \in Views, NEW s \in States, NEW taken \in BOOLEAN, NEW t \in CALL(s, taken),
         Cycles(s.ir) = 6, s.mc < 6, CallAt(old, s, taken, s.mc)
  PROVE  Goes(s, t) /\ CallAt(old, t, taken, t.mc + 1)
  <1> DEFINE back == Plus(old.pc, 3)
  <1>0. back \in Word /\ High(back) \in Byte /\ Low(back) \in Byte
    <2>1. back \in Word
      BY SpSteps
    <2> QED
      BY <2>1, Halves
  <1>1. s.mc \in 0..5 /\ Operated(old, s, 2, s.mc) /\ Plus(s.sp, -1) \in Word
    <2>1. s.mc \in 0..5 /\ s.sp \in Word
      BY DEF States
    <2>2. s.sp \in Int
      BY <2>1 DEF Word
    <2> QED
      BY <2>1, <2>2, Added DEF CallAt
  <1>2. s.mc >= 3 => s.pc = back
    BY <1>1 DEF Operated, PcPlus, Fetched
  <1>3. CASE s.mc \in {1, 2}
    <2>1. t = Operands(s, 2)
      BY <1>3 DEF CALL, Operands
    <2>2. /\ t \in States /\ Kept(s, t) /\ t.mc = s.mc /\ Operated(old, t, 2, s.mc + 1)
          /\ t.sp = s.sp /\ t.mem = s.mem /\ t.stored = s.stored
      BY <1>1, <2>1, OperandRead
    <2> QED
      BY <1>3, <2>2 DEF Goes, CallAt, Clean, SpPlus
  <1>4. CASE s.mc = 0
    <2>1. Operated(old, s, 2, 1)
      BY <1>1, <1>4 DEF Operated, Fetched
    <2>2. CASE taken
      <3>1. t = [s EXCEPT !.sp = Plus(s.sp, -1)] /\ Clean(old, s) /\ s.sp = old.sp
        BY <1>4, <2>2, SpSteps DEF CALL, CallAt, SpPlus
      <3> QED
        BY <1>1, <1>4, <2>1, <2>2, <3>1, SpSet, SpSteps DEF Goes, CallAt, Clean, SpPlus, Operated, PcPlus
    <2>3. CASE ~taken
      <3>1. t = [s EXCEPT !.sp = s.sp]
        BY <1>4, <2>3 DEF CALL
      <3>2. t = s
        BY <3>1 DEF States
      <3> QED
        BY <1>4, <2>1, <2>3, <3>2 DEF Goes, CallAt, Kept
    <2> QED
      BY <2>2, <2>3
  <1>5. CASE s.mc = 3 /\ taken
    <2>1. Clean(old, s) /\ SpPlus(old, s, -1) /\ t = [WriteByte(s, s.sp, High(back)) EXCEPT !.sp = Plus(@, -1)]
      BY <1>2, <1>5 DEF CALL, CallAt
    <2>2. /\ t \in States /\ Kept(s, t) /\ t.mc = s.mc /\ t.pc = s.pc /\ SpPlus(old, t, -2)
          /\ Stored1(old, t, Plus(old.sp, -1), High(back))
      BY <1>0, <2>1, HighStored
    <2>3. Operated(old, t, 2, 4)
      BY <1>1, <1>5, <2>2 DEF Operated, PcPlus, Fetched
    <2> QED
      BY <1>5, <2>2, <2>3 DEF Goes, CallAt
  <1>6. CASE s.mc = 3 /\ ~taken
    <2>1. t = [s EXCEPT !.mc = 5] /\ Clean(old, s) /\ s.sp = old.sp
      BY <1>6 DEF CALL, CallAt
    <2>2. /\ t \in States /\ Kept(s, t) /\ t.mc = 5 /\ t.pc = s.pc /\ t.sp = s.sp
          /\ t.mem = s.mem /\ t.stored = s.stored
      <3>1. 5 \in 0..5
        OBVIOUS
      <3> QED
        BY <2>1, <3>1, McSet
    <2>3. Operated(old, t, 2, 6)
      BY <1>1, <1>6, <2>2 DEF Operated, PcPlus, Fetched
    <2> QED
      BY <1>6, <2>1, <2>2, <2>3 DEF Goes, CallAt, Clean
  <1>7. CASE s.mc = 4
    <2>1. taken /\ t = WriteByte(s, s.sp, Low(back))
      BY <1>2, <1>7 DEF CALL, CallAt
    <2>2. SpPlus(old, s, -2) /\ Stored1(old, s, Plus(old.sp, -1), High(back))
      BY <1>7, <2>1 DEF CallAt
    <2>3. /\ t \in States /\ Kept(s, t) /\ t.mc = s.mc /\ t.pc = s.pc /\ SpPlus(old, t, -2)
          /\ Stored2(old, t, Plus(old.sp, -1), High(back), Plus(old.sp, -2), Low(back))
      BY <1>0, <2>1, <2>2, LowStored
    <2>4. Operated(old, t, 2, 5)
      BY <1>1, <1>7, <2>3 DEF Operated, PcPlus, Fetched
    <2> QED
      BY <1>7, <2>1, <2>3, <2>4 DEF Goes, CallAt
  <1>8. CASE s.mc = 5
    <2>1. PICK w \in Word : t = [s EXCEPT !.pc = w]
      BY <1>8 DEF CALL
    <2>2. /\ taken /\ SpPlus(old, s, -2)
          /\ Stored2(old, s, Plus(old.sp, -1), High(back), Plus(old.sp, -2), Low(back))
      BY <1>8 DEF CallAt
    <2>3. /\ t \in States /\ Kept(s, t) /\ t.mc = s.mc /\ t.sp = s.sp
          /\ t.mem = s.mem /\ t.stored = s.stored
      BY <2>1, PcSet
    <2> QED
      BY <1>8, <2>2, <2>3 DEF Goes, CallAt, SpPlus, Stored2
  <1> QED
    BY <1>1, <1>3, <1>4, <1>5, <1>6, <1>7, <1>8

LEMMA RstCycle ==
  ASSUME NEW old \in Views, NEW s \in States, NEW n \in Int, NEW back \in Word, NEW t \in RST(s, n),
         Cycles(s.ir) = 4, s.mc < 4, RstAt(old, s, n, back, s.mc), Vector(n) \in Word
  PROVE  Goes(s, t) /\ t.mc = s.mc /\ RstAt(old, t, n, back, t.mc + 1)
  <1>0. High(back) \in Byte /\ Low(back) \in Byte
    BY Halves
  <1>1. s.mc \in 0..3 /\ s.pc = back
    <2>1. s.mc \in 0..3
      BY DEF States
    <2> QED
      BY <2>1 DEF RstAt
  <1>2. CASE s.mc = 0
    <2>1. t = [s EXCEPT !.sp = Plus(s.sp, -1)] /\ Clean(old, s) /\ s.sp = old.sp
      BY <1>2, SpSteps DEF RST, RstAt, SpPlus
    <2> QED
      BY <1>1, <1>2, <2>1, SpSet, SpSteps DEF Goes, RstAt, Clean, SpPlus
  <1>3. CASE s.mc = 1
    <2>1. Clean(old, s) /\ SpPlus(old, s, -1) /\ t = [WriteByte(s, s.sp, High(back)) EXCEPT !.sp = Plus(@, -1)]
      BY <1>1, <1>3 DEF RST, RstAt
    <2>2. /\ t \in States /\ Kept(s, t) /\ t.mc = s.mc /\ t.pc = s.pc /\ SpPlus(old, t, -2)
          /\ Stored1(old, t, Plus(old.sp, -1), High(back))
      BY <1>0, <2>1, HighStored
    <2> QED
      BY <1>1, <1>3, <2>2 DEF Goes, RstAt
  <1>4. CASE s.mc = 2
    <2>1. t = WriteByte(s, s.sp, Low(back))
      BY <1>1, <1>4 DEF RST
    <2>2. SpPlus(old, s, -2) /\ Stored1(old, s, Plus(old.sp, -1), High(back))
      BY <1>4 DEF RstAt
    <2>3. /\ t \in States /\ Kept(s, t) /\ t.mc = s.mc /\ t.pc = s.pc /\ SpPlus(old, t, -2)
          /\ Stored2(old, t, Plus(old.sp, -1), High(back), Plus(old.sp, -2), Low(back))
      BY <1>0, <2>1, <2>2, LowStored
    <2> QED
      BY <1>1, <1>4, <2>3 DEF Goes, RstAt
  <1>5. CASE s.mc = 3
    <2>1. t = [s EXCEPT !.pc = Vector(n)]
      BY <1>5 DEF RST
    <2>2. /\ SpPlus(old, s, -2)
          /\ Stored2(old, s, Plus(old.sp, -1), High(back), Plus(old.sp, -2), Low(back))
      BY <1>5 DEF RstAt
    <2>3. /\ t \in States /\ Kept(s, t) /\ t.mc = s.mc /\ t.sp = s.sp /\ t.pc = Vector(n)
          /\ t.mem = s.mem /\ t.stored = s.stored
      BY <2>1, PcSet
    <2> QED
      BY <1>5, <2>2, <2>3 DEF Goes, RstAt, SpPlus, Stored2
  <1> QED
    BY <1>1, <1>2, <1>3, <1>4, <1>5

LEMMA RetLow ==
  ASSUME NEW old \in Views, NEW s \in States, RetAt(old, s, 1)
  PROVE  LET t == PopByte(ReadZ(s))
         IN  t \in States /\ Kept(s, t) /\ t.mc = s.mc /\ RetAt(old, t, 2)
  <1>1. Clean(old, s) /\ SpPlus(old, s, 0) /\ PcPlus(old, s, 1) /\ s.sp = old.sp
    BY SpSteps DEF RetAt, SpPlus
  <1> DEFINE z == Join(High(s.wz), s.mem[s.sp])
             u == [s EXCEPT !.wz = z]
  <1>2. z \in Word /\ Low(z) = old.mem[old.sp] /\ ReadZ(s) = u
    <2>1. s.sp \in Word /\ s.mem = old.mem
      BY <1>1 DEF States, Clean
    <2> QED
      BY <1>1, <2>1, StackRead
  <1> HIDE DEF z
  <1>3. /\ u \in States /\ Kept(s, u) /\ u.mc = s.mc /\ u.pc = s.pc /\ u.sp = old.sp
        /\ u.mem = s.mem /\ u.stored = s.stored /\ u.wz = z
    BY <1>1, <1>2, WzSet
  <1> HIDE DEF u
  <1> DEFINE t == [u EXCEPT !.sp = Plus(u.sp, 1)]
  <1>4. PopByte(u) = t /\ Plus(u.sp, 1) = Plus(old.sp, 1) /\ Plus(old.sp, 1) \in Word
    BY <1>3, SpSteps DEF PopByte, States
  <1>5. /\ t \in States /\ Kept(u, t) /\ t.mc = u.mc /\ t.pc = u.pc /\ t.sp = Plus(old.sp, 1)
        /\ t.mem = u.mem /\ t.stored = u.stored /\ t.wz = u.wz
    BY <1>3, <1>4, SpSet
  <1> HIDE DEF t
  <1>6. Kept(s, t) /\ RetAt(old, t, 2)
    BY <1>1, <1>2, <1>3, <1>5 DEF Kept, RetAt, Clean, SpPlus, PcPlus
  <1> QED
    BY <1>2, <1>3, <1>4, <1>5, <1>6

LEMMA RetHigh ==
  ASSUME NEW old \in Views, NEW s \in States, RetAt(old, s, 2),
         NEW t \in {[PopByte(u) EXCEPT !.pc = u.wz] : u \in {ReadW(s, s.sp)}}
  PROVE  t \in States /\ Kept(s, t) /\ t.mc = s.mc /\ RetAt(old, t, 3)
  <1>1. Clean(old, s) /\ s.sp = Plus(old.sp, 1) /\ Low(s.wz) = old.mem[old.sp]
    BY DEF RetAt, SpPlus
  <1> DEFINE w == Join(s.mem[s.sp], Low(s.wz))
             u == [s EXCEPT !.wz = w]
  <1>2. /\ w \in Word /\ w = Join(old.mem[Plus(old.sp, 1)], old.mem[old.sp])
        /\ ReadW(s, s.sp) = u
    <2>1. s.sp \in Word /\ s.mem = old.mem
      BY <1>1 DEF States, Clean
    <2> QED
      BY <1>1, <2>1, StackRead
  <1> HIDE DEF w
  <1>3. /\ u \in States /\ Kept(s, u) /\ u.mc = s.mc /\ u.sp = Plus(old.sp, 1)
        /\ u.mem = s.mem /\ u.stored = s.stored /\ u.wz = w
    BY <1>1, <1>2, WzSet
  <1> HIDE DEF u
  <1> DEFINE v == [u EXCEPT !.sp = Plus(u.sp, 1)]
  <1>4. PopByte(u) = v /\ Plus(u.sp, 1) = Plus(old.sp, 2) /\ Plus(old.sp, 2) \in Word
    BY <1>3, SpSteps DEF PopByte, States
  <1>5. /\ v \in States /\ Kept(u, v) /\ v.mc = u.mc /\ v.sp = Plus(old.sp, 2)
        /\ v.mem = u.mem /\ v.stored = u.stored /\ v.wz = w
    BY <1>3, <1>4, SpSet
  <1> HIDE DEF v
  <1>6. t = [v EXCEPT !.pc = w]
    BY <1>2, <1>3, <1>4
  <1>7. /\ t \in States /\ Kept(v, t) /\ t.mc = v.mc /\ t.pc = w /\ t.sp = v.sp
        /\ t.mem = v.mem /\ t.stored = v.stored
    BY <1>2, <1>5, <1>6, PcSet
  <1>8. Kept(s, t) /\ RetAt(old, t, 3)
    BY <1>1, <1>2, <1>3, <1>5, <1>7 DEF Kept, RetAt, Clean, SpPlus
  <1> QED
    BY <1>3, <1>5, <1>7, <1>8

LEMMA RetCycle ==
  ASSUME NEW old \in Views, NEW s \in States, NEW t \in RET(s),
         Cycles(s.ir) = 3, s.mc < 3, RetAt(old, s, s.mc)
  PROVE  Goes(s, t) /\ t.mc = s.mc /\ RetAt(old, t, t.mc + 1)
  <1>1. s.mc \in 0..2
    BY DEF States
  <1>2. CASE s.mc = 0
    <2>1. t = s
      BY <1>2 DEF RET
    <2> QED
      BY <1>2, <2>1 DEF Goes, Kept, RetAt
  <1>3. CASE s.mc = 1
    <2>1. t = PopByte(ReadZ(s))
      BY <1>3 DEF RET
    <2>2. t \in States /\ Kept(s, t) /\ t.mc = s.mc /\ RetAt(old, t, 2)
      BY <1>3, <2>1, RetLow
    <2> QED
      BY <1>3, <2>2 DEF Goes
  <1>4. CASE s.mc = 2
    <2>1. t \in {[PopByte(u) EXCEPT !.pc = u.wz] : u \in {ReadW(s, s.sp)}}
      BY <1>4 DEF RET
    <2>2. t \in States /\ Kept(s, t) /\ t.mc = s.mc /\ RetAt(old, t, 3)
      BY <1>4, <2>1, RetHigh
    <2> QED
      BY <1>4, <2>2 DEF Goes
  <1> QED
    BY <1>1, <1>2, <1>3, <1>4

LEMMA RetCondCycle ==
  ASSUME NEW old \in Views, NEW s \in States, NEW taken \in BOOLEAN, NEW t \in RETCond(s, taken),
         Cycles(s.ir) = 4, s.mc < 4, RetCondAt(old, s, taken, s.mc)
  PROVE  Goes(s, t) /\ RetCondAt(old, t, taken, t.mc + 1)
  <1>1. s.mc \in 0..3
    BY DEF States
  <1>2. CASE s.mc = 0
    <2>1. t = s
      BY <1>2 DEF RETCond
    <2> QED
      BY <1>2, <2>1 DEF Goes, Kept, RetCondAt
  <1>3. CASE s.mc = 1 /\ taken
    <2>1. t = s
      BY <1>3 DEF RETCond
    <2> QED
      BY <1>3, <2>1 DEF Goes, Kept, RetCondAt, RetAt
  <1>4. CASE s.mc = 1 /\ ~taken
    <2>1. t = [s EXCEPT !.mc = 3] /\ Clean(old, s) /\ s.sp = old.sp /\ PcPlus(old, s, 1)
      BY <1>4 DEF RETCond, RetCondAt
    <2>2. /\ t \in States /\ Kept(s, t) /\ t.mc = 3 /\ t.pc = s.pc /\ t.sp = s.sp
          /\ t.mem = s.mem /\ t.stored = s.stored
      <3>1. 3 \in 0..5
        OBVIOUS
      <3> QED
        BY <2>1, <3>1, McSet
    <2> QED
      BY <1>4, <2>1, <2>2 DEF Goes, RetCondAt, Clean, PcPlus
  <1>5. CASE s.mc = 2
    <2>1. t = PopByte(ReadZ(s)) /\ taken /\ RetAt(old, s, 1)
      BY <1>5 DEF RETCond, RetCondAt
    <2>2. t \in States /\ Kept(s, t) /\ t.mc = s.mc /\ RetAt(old, t, 2)
      BY <2>1, RetLow
    <2> QED
      BY <1>5, <2>1, <2>2 DEF Goes, RetCondAt
  <1>6. CASE s.mc = 3
    <2>1. /\ t \in {[PopByte(u) EXCEPT !.pc = u.wz] : u \in {ReadW(s, s.sp)}}
          /\ taken /\ RetAt(old, s, 2)
      BY <1>6 DEF RETCond, RetCondAt
    <2>2. t \in States /\ Kept(s, t) /\ t.mc = s.mc /\ RetAt(old, t, 3)
      BY <2>1, RetHigh
    <2> QED
      BY <1>6, <2>1, <2>2 DEF Goes, RetCondAt
  <1> QED
    BY <1>1, <1>2, <1>3, <1>4, <1>5, <1>6

-----------------------------------------------------------------------------
(* What k cycles of an instruction have done. *)
RstNumber(op) == (op \div 8) % 8
At(old, s, k) ==
  LET r == Routine(s.ir)
  IN  /\ r \in DataRoutines => DataAt(old, s, r, k)
      /\ r = "LXI_SP" => SetSpAt(old, s, 2, k)
      /\ r \in {"SPHL", "INX_SP", "DCX_SP"} => SetSpAt(old, s, 0, k)
      /\ r = "XTHL" => XthlAt(old, s, k)
      /\ r = "PUSH" => PushAt(old, s, k)
      /\ r = "POP" => PopAt(old, s, k)
      /\ r = "JMP" => JumpAt(old, s, TRUE, k)
      /\ r = "JCond" => JumpAt(old, s, s.flag, k)
      /\ r = "PCHL" => PchlAt(old, s, k)
      /\ r = "CALL" => CallAt(old, s, TRUE, k)
      /\ r = "CCond" => CallAt(old, s, s.flag, k)
      /\ r = "RST" => RstAt(old, s, RstNumber(s.ir), Plus(old.pc, 1), k)
      /\ r = "RET" => RetAt(old, s, k)
      /\ r = "RETCond" => RetCondAt(old, s, s.flag, k)

Plain(op) == op \in Opcode \ Odd /\ Routine(op) \notin {"HLT", "DI", "EI"}

LEMMA Begins ==
  ASSUME NEW old \in Views, NEW s \in States, Clean(old, s), s.sp = old.sp, PcPlus(old, s, 1)
  PROVE  At(old, s, 0)
  <1>1. \A n \in 0..2 : Operated(old, s, n, 0)
    BY DEF Operated, Fetched
  <1>2. \A r \in DataRoutines : DataAt(old, s, r, 0)
    <2>1. ASSUME NEW r \in DataRoutines PROVE DataAt(old, s, r, 0)
      <3>1. ReadBytes(r) \in 0..2 /\ StoredBy(r, 0) = 0
        BY DEF ReadBytes, StoredBy, StoreCycle
      <3>2. Differ(old.mem, s.mem, 0) /\ s.stored = 0
        BY NoneDiffer DEF Clean
      <3> QED
        BY <1>1, <3>1, <3>2 DEF DataAt
    <2> QED
      BY <2>1
  <1>3. SpPlus(old, s, 0)
    BY SpSteps DEF SpPlus
  <1>4. SetSpAt(old, s, 0, 0) /\ SetSpAt(old, s, 2, 0) /\ XthlAt(old, s, 0) /\ PushAt(old, s, 0) /\ PopAt(old, s, 0)
    BY <1>1, <1>3 DEF SetSpAt, XthlAt, PushAt, PopAt
  <1>5. \A taken : JumpAt(old, s, taken, 0) /\ CallAt(old, s, taken, 0) /\ RetCondAt(old, s, taken, 0)
    BY <1>1, <1>3 DEF JumpAt, CallAt, RetCondAt, RetAt
  <1>6. PchlAt(old, s, 0) /\ RetAt(old, s, 0) /\ \A n : RstAt(old, s, n, Plus(old.pc, 1), 0)
    BY <1>3 DEF PchlAt, RetAt, RstAt, PcPlus
  <1> QED
    BY <1>2, <1>4, <1>5, <1>6 DEF At

LEMMA Vectors ==
  ASSUME NEW n \in Int
  PROVE  Vector(n) \in Word
  <1>1. n * RstSpacing \in Int /\ n * RstSpacing + 0 = n * RstSpacing
    BY WordCount
  <1>2. Plus(n * RstSpacing, 0) \in Word
    BY <1>1, Added
  <1> QED
    BY <1>1, <1>2 DEF Vector, Plus

LEMMA CycleDone ==
  ASSUME NEW old \in Views, NEW s \in States, Plain(s.ir), s.mc < Cycles(s.ir), At(old, s, s.mc),
         NEW t \in Micro(s)
  PROVE  Goes(s, t) /\ At(old, t, t.mc + 1)
  <1> DEFINE r == Routine(s.ir)
  <1>1. Agree(s.ir) /\ s.flag \in BOOLEAN /\ s.mc \in 0..5
    BY TablesAgree DEF Plain, States
  <1>2. ASSUME Goes(s, t) PROVE Routine(t.ir) = r /\ t.flag = s.flag /\ t.ir = s.ir
    BY <1>2 DEF Goes, Kept
  <1>3. CASE r \in DataRoutines
    <2>1. Goes(s, t) /\ DataAt(old, t, r, t.mc + 1)
      BY <1>3, DataCycle DEF At
    <2> QED
      BY <1>2, <1>3, <2>1 DEF At, DataRoutines
  <1>4. CASE r = "LXI_SP"
    <2>1. Cycles(s.ir) = 3
      BY <1>1, <1>4 DEF Agree, Is, DataRoutines
    <2>2. SetSpAt(old, s, 2, s.mc) /\ s.mc <= 2
      BY <1>1, <1>4, <2>1 DEF At
    <2>3. Goes(s, t) /\ SetSpAt(old, t, 2, t.mc + 1)
      BY <1>4, <2>2, SetSpCycle
    <2> QED
      BY <1>2, <1>4, <2>3 DEF At, DataRoutines
  <1>5. CASE r \in {"SPHL", "INX_SP", "DCX_SP"}
    <2>1. SetSpAt(old, s, 0, s.mc)
      BY <1>5 DEF At
    <2>2. Goes(s, t) /\ SetSpAt(old, t, 0, t.mc + 1)
      BY <1>5, <2>1, SetSpCycle
    <2> QED
      BY <1>2, <1>5, <2>2 DEF At, DataRoutines
  <1>6. CASE r = "XTHL"
    <2>1. Cycles(s.ir) = 6 /\ XthlAt(old, s, s.mc)
      BY <1>1, <1>6 DEF Agree, Is, DataRoutines, At
    <2>2. Goes(s, t) /\ XthlAt(old, t, t.mc + 1)
      BY <1>6, <2>1, XthlCycle
    <2> QED
      BY <1>2, <1>6, <2>2 DEF At, DataRoutines
  <1>7. CASE r = "PUSH"
    <2>1. Cycles(s.ir) = 4 /\ PushAt(old, s, s.mc)
      BY <1>1, <1>7 DEF Agree, Is, DataRoutines, At
    <2>2. Goes(s, t) /\ PushAt(old, t, t.mc + 1)
      BY <1>7, <2>1, PushCycle
    <2> QED
      BY <1>2, <1>7, <2>2 DEF At, DataRoutines
  <1>8. CASE r = "POP"
    <2>1. Cycles(s.ir) = 3 /\ PopAt(old, s, s.mc)
      BY <1>1, <1>8 DEF Agree, Is, DataRoutines, At
    <2>2. Goes(s, t) /\ PopAt(old, t, t.mc + 1)
      BY <1>8, <2>1, PopCycle
    <2> QED
      BY <1>2, <1>8, <2>2 DEF At, DataRoutines
  <1>9. CASE r = "JMP"
    <2>1. Cycles(s.ir) = 3 /\ JumpAt(old, s, TRUE, s.mc)
      BY <1>1, <1>9 DEF Agree, Is, DataRoutines, At
    <2>2. t \in JMP(s, TRUE)
      BY <1>9, RoutineRuns
    <2>3. Goes(s, t) /\ JumpAt(old, t, TRUE, t.mc + 1)
      BY <2>1, <2>2, JumpCycle
    <2> QED
      BY <1>2, <1>9, <2>3 DEF At, DataRoutines
  <1>10. CASE r = "JCond"
    <2>1. Cycles(s.ir) = 3 /\ JumpAt(old, s, s.flag, s.mc)
      BY <1>1, <1>10 DEF Agree, Is, DataRoutines, At
    <2>2. t \in JMP(s, s.flag)
      BY <1>10, RoutineRuns
    <2>3. Goes(s, t) /\ JumpAt(old, t, s.flag, t.mc + 1)
      BY <1>1, <2>1, <2>2, JumpCycle
    <2> QED
      BY <1>2, <1>10, <2>3 DEF At, DataRoutines
  <1>11. CASE r = "PCHL"
    <2>1. Cycles(s.ir) = 2 /\ PchlAt(old, s, s.mc)
      BY <1>1, <1>11 DEF Agree, Is, DataRoutines, At
    <2>2. t \in PCHL(s)
      BY <1>11, RoutineRuns
    <2>3. Goes(s, t) /\ PchlAt(old, t, t.mc + 1)
      BY <2>1, <2>2, PchlCycle
    <2> QED
      BY <1>2, <1>11, <2>3 DEF At, DataRoutines
  <1>12. CASE r = "CALL"
    <2>1. Cycles(s.ir) = 6 /\ CallAt(old, s, TRUE, s.mc)
      BY <1>1, <1>12 DEF Agree, Is, DataRoutines, At
    <2>2. t \in CALL(s, TRUE)
      BY <1>12, RoutineRuns
    <2>3. Goes(s, t) /\ CallAt(old, t, TRUE, t.mc + 1)
      BY <2>1, <2>2, CallCycle
    <2> QED
      BY <1>2, <1>12, <2>3 DEF At, DataRoutines
  <1>13. CASE r = "CCond"
    <2>1. Cycles(s.ir) = 6 /\ CallAt(old, s, s.flag, s.mc)
      BY <1>1, <1>13 DEF Agree, Is, DataRoutines, At
    <2>2. t \in CALL(s, s.flag)
      BY <1>13, RoutineRuns
    <2>3. Goes(s, t) /\ CallAt(old, t, s.flag, t.mc + 1)
      BY <1>1, <2>1, <2>2, CallCycle
    <2> QED
      BY <1>2, <1>13, <2>3 DEF At, DataRoutines
  <1>14. CASE r = "RST"
    <2> DEFINE n == RstNumber(s.ir)
               back == Plus(old.pc, 1)
    <2>1. Cycles(s.ir) = 4 /\ RstAt(old, s, n, back, s.mc)
      BY <1>1, <1>14 DEF Agree, Is, DataRoutines, At
    <2>2. t \in RST(s, n)
      BY <1>14, RoutineRuns DEF RstNumber
    <2>3. n \in Int /\ back \in Word
      <3>1. s.ir \in 0..255
        BY DEF Plain, Opcode
      <3> QED
        BY <3>1, SpSteps DEF RstNumber
    <2> HIDE DEF n, back
    <2>4. Vector(n) \in Word
      BY <2>3, Vectors
    <2>5. Goes(s, t) /\ RstAt(old, t, n, back, t.mc + 1)
      BY <2>1, <2>2, <2>3, <2>4, RstCycle
    <2>6. t.ir = s.ir /\ Routine(t.ir) = "RST"
      BY <1>2, <1>14, <2>5
    <2> QED
      BY <2>5, <2>6 DEF At, DataRoutines, n, back
  <1>15. CASE r = "RET"
    <2>1. Cycles(s.ir) = 3 /\ RetAt(old, s, s.mc)
      BY <1>1, <1>15 DEF Agree, Is, DataRoutines, At
    <2>2. t \in RET(s)
      BY <1>15, RoutineRuns
    <2>3. Goes(s, t) /\ RetAt(old, t, t.mc + 1)
      BY <2>1, <2>2, RetCycle
    <2> QED
      BY <1>2, <1>15, <2>3 DEF At, DataRoutines
  <1>16. CASE r = "RETCond"
    <2>1. Cycles(s.ir) = 4 /\ RetCondAt(old, s, s.flag, s.mc)
      BY <1>1, <1>16 DEF Agree, Is, DataRoutines, At
    <2>2. t \in RETCond(s, s.flag)
      BY <1>16, RoutineRuns
    <2>3. Goes(s, t) /\ RetCondAt(old, t, s.flag, t.mc + 1)
      BY <1>1, <2>1, <2>2, RetCondCycle
    <2> QED
      BY <1>2, <1>16, <2>3 DEF At, DataRoutines
  <1>17. \/ r \in DataRoutines
         \/ r \in {"LXI_SP", "SPHL", "INX_SP", "DCX_SP", "XTHL", "PUSH", "POP", "JMP", "JCond",
                   "PCHL", "CALL", "CCond", "RST", "RET", "RETCond"}
    BY <1>1 DEF Agree, Plain
  <1> HIDE DEF r
  <1> QED
    BY <1>3, <1>4, <1>5, <1>6, <1>7, <1>8, <1>9, <1>10, <1>11, <1>12, <1>13, <1>14, <1>15,
       <1>16, <1>17

-----------------------------------------------------------------------------
(* Isa's words and tables are the same. *)
LEMMA SameWords ==
  /\ ISA!Word = Word /\ ISA!Byte = Byte
  /\ \A w, n : ISA!Plus(w, n) = Plus(w, n)
  /\ \A h, l : ISA!Join(h, l) = Join(h, l)
  /\ \A w : ISA!High(w) = High(w) /\ ISA!Low(w) = Low(w)
  /\ \A n : ISA!Vector(n) = Vector(n)
  BY DEF ISA!Word, Word, ISA!Byte, Byte, ISA!Plus, Plus, ISA!Join, Join, ISA!High, High,
         ISA!Low, Low, ISA!Vector, Vector

LEMMA SameTables ==
  /\ \A op : ISA!GetInstrLen(op) = GetInstrLen(op)
  /\ \A op : ISA!GetInstrType(op) = GetInstrType(op)
  <1>1. ISA!INSTR_LENS = INSTR_LENS
    BY DEF ISA!INSTR_LENS, INSTR_LENS, ISA!Same, Same
  <1>2. ISA!INSTR_TYPES = INSTR_TYPES
    BY DEF ISA!INSTR_TYPES, INSTR_TYPES, ISA!Same, Same
  <1>3. \A table, op : ISA!Entry(table, op) = Entry(table, op)
    BY DEF ISA!Entry, Entry
  <1> QED
    BY <1>1, <1>2, <1>3 DEF ISA!GetInstrLen, GetInstrLen, ISA!GetInstrType, GetInstrType

(* An instruction ends in state s. *)
Ended(s) ==
  /\ seen'.pc = s.pc /\ seen'.sp = s.sp /\ seen'.mem = s.mem /\ last'.stored = s.stored

LEMMA DataEnds ==
  ASSUME seen \in Views, NEW s \in States, NEW len \in Int, NEW n \in 0..2, Ended(s), ISA!Ordinary,
         PcPlus(seen, s, len), s.sp = seen.sp, s.stored = n, Differ(seen.mem, s.mem, n)
  PROVE  ISA!Data(len, n)
  <1>1. s.mem \in [Word -> Byte]
    BY DEF States
  <1>2. PICK at \in [1..n -> Word] :
          \A w \in Word : s.mem[w] # seen.mem[w] => \E i \in 1..n : at[i] = w
    BY DEF Differ
  <1>3. seen'.mem = s.mem
    BY DEF Ended
  <1>4. /\ at \in [1..n -> ISA!Word]
        /\ seen'.mem \in [ISA!Word -> ISA!Byte]
        /\ \A w \in ISA!Word : seen'.mem[w] # seen.mem[w] => \E i \in 1..n : at[i] = w
    BY <1>1, <1>2, <1>3, SameWords
  <1>5. seen'.pc = ISA!Plus(seen.pc, len) /\ last'.stored = n /\ seen'.sp = seen.sp
    BY SameWords DEF Ended, PcPlus
  <1> QED
    BY <1>4, <1>5 DEF ISA!Data

LEMMA NothingWritten ==
  ASSUME seen \in Views, NEW s \in States, NEW len \in Int, Ended(s), ISA!Ordinary,
         PcPlus(seen, s, len), s.sp = seen.sp, Clean(seen, s)
  PROVE  ISA!Data(len, 0)
  <1>1. Differ(seen.mem, s.mem, 0)
    BY NoneDiffer DEF Clean
  <1> QED
    BY <1>1, DataEnds DEF Clean

LEMMA SpMoves ==
  ASSUME NEW s \in States, NEW len \in Int, Ended(s), ISA!Ordinary, PcPlus(seen, s, len), Clean(seen, s)
  PROVE  ISA!MoveSP(len)
  <1>1. s.sp \in Word
    BY DEF States
  <1> QED
    BY <1>1, SameWords DEF ISA!MoveSP, Ended, PcPlus, Clean

LEMMA Jumps ==
  ASSUME NEW s \in States, Ended(s), ISA!Ordinary, Clean(seen, s), s.sp = seen.sp
  PROVE  ISA!Jump
  <1>1. s.pc \in Word
    BY DEF States
  <1> QED
    BY <1>1, SameWords DEF ISA!Jump, Ended, Clean

LEMMA Exchanges ==
  ASSUME NEW s \in States, Ended(s), ISA!Ordinary, XthlAt(seen, s, 6)
  PROVE  ISA!Exchange
  <1>1. PICK h \in Byte, l \in Byte : Stored2(seen, s, seen.sp, l, Plus(seen.sp, 1), h)
    BY DEF XthlAt
  <1>2. s.pc = Plus(seen.pc, 1) /\ s.sp = seen.sp
    BY DEF XthlAt, PcPlus
  <1> QED
    BY <1>1, <1>2, SameWords DEF ISA!Exchange, Ended, Stored2

LEMMA Pushes ==
  ASSUME NEW s \in States, Ended(s), ISA!Ordinary, PushAt(seen, s, 4)
  PROVE  ISA!PushAny
  <1>1. PICK h \in Byte, l \in Byte : Stored2(seen, s, Plus(seen.sp, -1), h, Plus(seen.sp, -2), l)
    BY DEF PushAt
  <1>2. s.pc = Plus(seen.pc, 1) /\ s.sp = Plus(seen.sp, -2)
    BY DEF PushAt, PcPlus, SpPlus
  <1> QED
    BY <1>1, <1>2, SameWords DEF ISA!PushAny, ISA!Push, Ended, Stored2

LEMMA Pops ==
  ASSUME NEW s \in States, Ended(s), ISA!Ordinary, PopAt(seen, s, 3)
  PROVE  ISA!PopAny
  <1>1. s.pc = Plus(seen.pc, 1) /\ s.sp = Plus(seen.sp, 2) /\ Clean(seen, s)
    BY DEF PopAt, PcPlus, SpPlus
  <1> QED
    BY <1>1, SameWords DEF ISA!PopAny, Ended, Clean

LEMMA Returns ==
  ASSUME NEW s \in States, Ended(s), ISA!Ordinary, RetAt(seen, s, 3)
  PROVE  ISA!Return
  <1>1. /\ s.pc = Join(seen.mem[Plus(seen.sp, 1)], seen.mem[seen.sp])
        /\ s.sp = Plus(seen.sp, 2) /\ Clean(seen, s)
    BY DEF RetAt, SpPlus
  <1> QED
    BY <1>1, SameWords DEF ISA!Return, ISA!StackTop, Ended, Clean

LEMMA Calls ==
  ASSUME NEW s \in States, NEW len \in Int, NEW w, Ended(s), ISA!Ordinary, s.pc = w, SpPlus(seen, s, -2),
         Stored2(seen, s, Plus(seen.sp, -1), High(Plus(seen.pc, len)), Plus(seen.sp, -2), Low(Plus(seen.pc, len)))
  PROVE  ISA!Call(len, w)
  BY SameWords DEF ISA!Call, ISA!Push, Ended, SpPlus, Stored2

(* What an opcode is executed as, by its type. *)
LEMMA ExecutedAs ==
  ASSUME NEW op \in Opcode \ Odd, NEW len, GetInstrLen(op) = len
  PROVE  /\ GetInstrType(op) = 0 /\ (ISA!Data(len, 0) \/ \E w \in Word : ISA!Call(len, w)) => ISA!Execute(op)
         /\ GetInstrType(op) = 1 /\ (\E w \in Word : ISA!Call(len, w)) => ISA!Execute(op)
         /\ GetInstrType(op) = 2 /\ (ISA!Data(len, 0) \/ ISA!Jump) => ISA!Execute(op)
         /\ GetInstrType(op) = 3 /\ ISA!Jump => ISA!Execute(op)
         /\ GetInstrType(op) = 4 /\ (ISA!Data(len, 0) \/ ISA!Return) => ISA!Execute(op)
         /\ GetInstrType(op) = 5 /\ ISA!Return => ISA!Execute(op)
         /\ GetInstrType(op) = 6 /\ ISA!Jump => ISA!Execute(op)
         /\ GetInstrType(op) = 7 /\ ISA!Call(len, Vector((op \div 8) % 8)) => ISA!Execute(op)
         /\ GetInstrType(op) = 8 /\ ISA!Other(op) => ISA!Execute(op)
  <1>1. ISA!GetInstrLen(op) = len /\ ISA!GetInstrType(op) = GetInstrType(op)
    BY SameTables
  <1>2. ISA!Word = Word /\ ISA!Vector((op \div 8) % 8) = Vector((op \div 8) % 8)
    BY SameWords
  <1>3. GetInstrType(op) = 0 /\ (ISA!Data(len, 0) \/ \E w \in Word : ISA!Call(len, w)) => ISA!Execute(op)
    BY <1>1, <1>2 DEF ISA!Execute
  <1>4. GetInstrType(op) = 1 /\ (\E w \in Word : ISA!Call(len, w)) => ISA!Execute(op)
    BY <1>1, <1>2 DEF ISA!Execute
  <1>5. GetInstrType(op) = 2 /\ (ISA!Data(len, 0) \/ ISA!Jump) => ISA!Execute(op)
    BY <1>1, <1>2 DEF ISA!Execute
  <1>6. GetInstrType(op) = 3 /\ ISA!Jump => ISA!Execute(op)
    BY <1>1, <1>2 DEF ISA!Execute
  <1>7. GetInstrType(op) = 4 /\ (ISA!Data(len, 0) \/ ISA!Return) => ISA!Execute(op)
    BY <1>1, <1>2 DEF ISA!Execute
  <1>8. GetInstrType(op) = 5 /\ ISA!Return => ISA!Execute(op)
    BY <1>1, <1>2 DEF ISA!Execute
  <1>9. GetInstrType(op) = 6 /\ ISA!Jump => ISA!Execute(op)
    BY <1>1, <1>2 DEF ISA!Execute
  <1>10. GetInstrType(op) = 7 /\ ISA!Call(len, Vector((op \div 8) % 8)) => ISA!Execute(op)
    BY <1>1, <1>2 DEF ISA!Execute
  <1>11. GetInstrType(op) = 8 /\ ISA!Other(op) => ISA!Execute(op)
    BY <1>1, <1>2 DEF ISA!Execute
  <1> QED
    BY <1>3, <1>4, <1>5, <1>6, <1>7, <1>8, <1>9, <1>10, <1>11

LEMMA OtherIs ==
  ASSUME NEW op \in Opcode \ Odd, NEW len, GetInstrLen(op) = len
  PROVE  /\ op = 118 /\ ISA!Halt => ISA!Other(op)
         /\ op = 243 /\ ISA!DisableInterrupts => ISA!Other(op)
         /\ op = 251 /\ ISA!EnableInterrupts => ISA!Other(op)
         /\ op = 227 /\ ISA!Exchange => ISA!Other(op)
         /\ op \in {49, 51, 59, 249} /\ ISA!MoveSP(len) => ISA!Other(op)
         /\ op \in {197, 213, 229, 245} /\ ISA!PushAny => ISA!Other(op)
         /\ op \in {193, 209, 225, 241} /\ ISA!PopAny => ISA!Other(op)
         /\ op \notin SpecialOpcodes /\ ISA!Data(len, ISA!Stores(op)) => ISA!Other(op)
  <1>1. ISA!GetInstrLen(op) = len
    BY SameTables
  <1> QED
    BY <1>1 DEF ISA!Other, SpecialOpcodes

LEMMA OrdinaryEnds ==
  ASSUME seen \in Views, NEW s \in States, Plain(s.ir), At(seen, s, Cycles(s.ir)), Ended(s), ISA!Ordinary
  PROVE  ISA!Execute(s.ir)
  <1> DEFINE r == Routine(s.ir)
  <1>1. Agree(s.ir) /\ s.flag \in BOOLEAN /\ s.ir \in Opcode \ Odd /\ s.pc \in Word
    BY TablesAgree DEF Plain, States
  <1>2. Fetched(0, 2) = 1 /\ Fetched(2, 3) = 3 /\ Fetched(2, 6) = 3
    BY DEF Fetched
  <1>3. CASE r \in DataRoutines
    <2>1. DataAgrees(s.ir)
      BY <1>1, <1>3 DEF Agree, DataRoutines
    <2> DEFINE k == Cycles(s.ir)
               len == 1 + ReadBytes(r)
    <2>2. /\ GetInstrLen(s.ir) = len /\ GetInstrType(s.ir) = 8 /\ s.ir \notin SpecialOpcodes
          /\ k \in 1..5 /\ k > ReadBytes(r) /\ ISA!Stores(s.ir) = StoreBytes(r)
          /\ StoreBytes(r) > 0 => k >= StoreCycle(r) + StoreBytes(r)
      BY <2>1 DEF DataAgrees, Is
    <2>3. ReadBytes(r) \in 0..2 /\ StoreBytes(r) \in 0..2 /\ StoreCycle(r) \in 1..3
      BY DEF ReadBytes, StoreBytes, StoreCycle
    <2>4. DataAt(seen, s, r, k)
      BY <1>3 DEF At
    <2> HIDE DEF k
    <2>5. Fetched(ReadBytes(r), k) = len
      BY <2>2, <2>3 DEF Fetched
    <2>6. StoredBy(r, k) = StoreBytes(r)
      BY <2>2, <2>3 DEF StoredBy
    <2>7. /\ PcPlus(seen, s, len) /\ s.sp = seen.sp /\ s.stored = StoreBytes(r)
          /\ Differ(seen.mem, s.mem, StoreBytes(r))
      BY <2>4, <2>5, <2>6 DEF DataAt, Operated
    <2>8. len \in Int
      BY <2>3
    <2> HIDE DEF len
    <2>9. ISA!Data(len, StoreBytes(r))
      BY <2>3, <2>7, <2>8, DataEnds
    <2> QED
      BY <1>1, <2>2, <2>9, OtherIs, ExecutedAs
  <1>4. CASE r = "LXI_SP"
    <2>1. s.ir = 49 /\ Is(s.ir, 3, 3, 8)
      BY <1>1, <1>4 DEF Agree, DataRoutines
    <2>2. PcPlus(seen, s, 3) /\ Clean(seen, s)
      BY <1>2, <1>4, <2>1 DEF At, Is, SetSpAt, Operated
    <2>3. ISA!MoveSP(3)
      BY <2>2, SpMoves
    <2> QED
      BY <1>1, <2>1, <2>3, OtherIs, ExecutedAs DEF Is
  <1>5. CASE r \in {"SPHL", "INX_SP", "DCX_SP"}
    <2>1. s.ir \in {51, 59, 249} /\ Is(s.ir, 2, 1, 8)
      BY <1>1, <1>5 DEF Agree, DataRoutines
    <2>2. PcPlus(seen, s, 1) /\ Clean(seen, s)
      BY <1>2, <1>5, <2>1 DEF At, Is, SetSpAt, Operated
    <2>3. ISA!MoveSP(1)
      BY <2>2, SpMoves
    <2> QED
      BY <1>1, <2>1, <2>3, OtherIs, ExecutedAs DEF Is
  <1>6. CASE r = "XTHL"
    <2>1. s.ir = 227 /\ Is(s.ir, 6, 1, 8)
      BY <1>1, <1>6 DEF Agree, DataRoutines
    <2>2. ISA!Exchange
      BY <1>6, <2>1, Exchanges DEF At, Is
    <2> QED
      BY <1>1, <2>1, <2>2, OtherIs, ExecutedAs DEF Is
  <1>7. CASE r = "PUSH"
    <2>1. s.ir \in {197, 213, 229, 245} /\ Is(s.ir, 4, 1, 8)
      BY <1>1, <1>7 DEF Agree, DataRoutines
    <2>2. ISA!PushAny
      BY <1>7, <2>1, Pushes DEF At, Is
    <2> QED
      BY <1>1, <2>1, <2>2, OtherIs, ExecutedAs DEF Is
  <1>8. CASE r = "POP"
    <2>1. s.ir \in {193, 209, 225, 241} /\ Is(s.ir, 3, 1, 8)
      BY <1>1, <1>8 DEF Agree, DataRoutines
    <2>2. ISA!PopAny
      BY <1>8, <2>1, Pops DEF At, Is
    <2> QED
      BY <1>1, <2>1, <2>2, OtherIs, ExecutedAs DEF Is
  <1>9. CASE r = "JMP"
    <2>1. Is(s.ir, 3, 3, 3)
      BY <1>1, <1>9 DEF Agree, DataRoutines
    <2>2. ISA!Jump
      BY <1>9, <2>1, Jumps DEF At, Is, JumpAt
    <2> QED
      BY <1>1, <2>1, <2>2, ExecutedAs DEF Is
  <1>10. CASE r = "JCond"
    <2>1. Is(s.ir, 3, 3, 2)
      BY <1>1, <1>10 DEF Agree, DataRoutines
    <2>2. JumpAt(seen, s, s.flag, 3)
      BY <1>10, <2>1 DEF At, Is
    <2>3. ISA!Jump
      BY <2>2, Jumps DEF JumpAt
    <2> QED
      BY <1>1, <2>1, <2>3, ExecutedAs DEF Is
  <1>11. CASE r = "PCHL"
    <2>1. Is(s.ir, 2, 1, 6)
      BY <1>1, <1>11 DEF Agree, DataRoutines
    <2>2. ISA!Jump
      BY <1>11, <2>1, Jumps DEF At, Is, PchlAt
    <2> QED
      BY <1>1, <2>1, <2>2, ExecutedAs DEF Is
  <1>12. ASSUME CallAt(seen, s, TRUE, 6) PROVE \E w \in Word : ISA!Call(3, w)
    <2>1. SpPlus(seen, s, -2) /\ Stored2(seen, s, Plus(seen.sp, -1), High(Plus(seen.pc, 3)), Plus(seen.sp, -2), Low(Plus(seen.pc, 3)))
      BY <1>12 DEF CallAt
    <2>2. ISA!Call(3, s.pc)
      BY <2>1, Calls
    <2> QED
      BY <1>1, <2>2
  <1>13. CASE r = "CALL"
    <2>1. Is(s.ir, 6, 3, 1)
      BY <1>1, <1>13 DEF Agree, DataRoutines
    <2>2. CallAt(seen, s, TRUE, 6)
      BY <1>13, <2>1 DEF At, Is
    <2> QED
      BY <1>1, <1>12, <2>1, <2>2, ExecutedAs DEF Is
  <1>14. CASE r = "CCond"
    <2>1. Is(s.ir, 6, 3, 0)
      BY <1>1, <1>14 DEF Agree, DataRoutines
    <2>2. CallAt(seen, s, s.flag, 6)
      BY <1>14, <2>1 DEF At, Is
    <2>3. CASE s.flag = TRUE
      BY <1>1, <1>12, <2>1, <2>2, <2>3, ExecutedAs DEF Is
    <2>4. CASE s.flag = FALSE
      <3>1. PcPlus(seen, s, 3) /\ Clean(seen, s) /\ s.sp = seen.sp
        BY <1>2, <2>2, <2>4 DEF CallAt, Operated
      <3>2. ISA!Data(3, 0)
        BY <3>1, NothingWritten
      <3> QED
        BY <1>1, <2>1, <3>2, ExecutedAs DEF Is
    <2> QED
      BY <1>1, <2>3, <2>4
  <1>15. CASE r = "RST"
    <2> DEFINE n == RstNumber(s.ir)
    <2>1. Is(s.ir, 4, 1, 7)
      BY <1>1, <1>15 DEF Agree, DataRoutines
    <2>2. RstAt(seen, s, n, Plus(seen.pc, 1), 4)
      BY <1>15, <2>1 DEF At, Is
    <2> HIDE DEF n
    <2>3. /\ SpPlus(seen, s, -2) /\ s.pc = Vector(n)
          /\ Stored2(seen, s, Plus(seen.sp, -1), High(Plus(seen.pc, 1)), Plus(seen.sp, -2), Low(Plus(seen.pc, 1)))
      BY <2>2 DEF RstAt
    <2>4. ISA!Call(1, Vector(n))
      BY <2>3, Calls
    <2> QED
      BY <1>1, <2>1, <2>4, ExecutedAs DEF Is, n, RstNumber
  <1>16. CASE r = "RET"
    <2>1. Is(s.ir, 3, 1, 5)
      BY <1>1, <1>16 DEF Agree, DataRoutines
    <2>2. ISA!Return
      BY <1>16, <2>1, Returns DEF At, Is
    <2> QED
      BY <1>1, <2>1, <2>2, ExecutedAs DEF Is
  <1>17. CASE r = "RETCond"
    <2>1. Is(s.ir, 4, 1, 4)
      BY <1>1, <1>17 DEF Agree, DataRoutines
    <2>2. RetCondAt(seen, s, s.flag, 4)
      BY <1>17, <2>1 DEF At, Is
    <2>3. CASE s.flag = TRUE
      <3>1. RetAt(seen, s, 3)
        BY <2>2, <2>3 DEF RetCondAt
      <3>2. ISA!Return
        BY <3>1, Returns
      <3> QED
        BY <1>1, <2>1, <3>2, ExecutedAs DEF Is
    <2>4. CASE s.flag = FALSE
      <3>1. PcPlus(seen, s, 1) /\ Clean(seen, s) /\ s.sp = seen.sp
        BY <2>2, <2>4 DEF RetCondAt
      <3>2. ISA!Data(1, 0)
        BY <3>1, NothingWritten
      <3> QED
        BY <1>1, <2>1, <3>2, ExecutedAs DEF Is
    <2> QED
      BY <1>1, <2>3, <2>4
  <1>18. \/ r \in DataRoutines
         \/ r \in {"LXI_SP", "SPHL", "INX_SP", "DCX_SP", "XTHL", "PUSH", "POP", "JMP", "JCond",
                   "PCHL", "CALL", "CCond", "RST", "RET", "RETCond"}
    BY <1>1 DEF Agree, Plain
  <1> HIDE DEF r
  <1> QED
    BY <1>3, <1>4, <1>5, <1>6, <1>7, <1>8, <1>9, <1>10, <1>11, <1>13, <1>14, <1>15,
       <1>16, <1>17, <1>18

-----------------------------------------------------------------------------
(* The invariant.  Between instructions a request sees the registers; an   *)
(* interrupt that ended a HLT is still latched.                            *)
Ready(old, s) ==
  /\ s.mc = 0 /\ old = Shown(s) /\ s.stored = 0
  /\ s.hlta => s.iff /\ ~s.eiPending
Waiting(old, s) ==
  /\ s.mc = 1 /\ s.hlta /\ s.ir = 118 /\ Routine(118) = "HLT" /\ old = Shown(s) /\ s.stored = 0
  /\ ~s.iff /\ ~s.eiPending

Asked(p, enabled) == {p, p \/ enabled}
(* The interrupt was accepted, or the instruction fetched though one may   *)
(* have been asked for in EI's shadow.                                     *)
Accepted(old, s) ==
  /\ s.ir = OPCODE_RST7 /\ ~old.shadow /\ TRUE \in Asked(old.pending, old.inte)
  /\ ~s.inte /\ ~s.iff /\ RstAt(old, s, 7, old.pc, s.mc)
Pended(old, s) ==
  \E p \in Asked(old.pending, old.inte) : (p => old.shadow) /\ s.iff \in Asked(p, old.inte)
HaltAt(old, s) == Clean(old, s) /\ s.sp = old.sp /\ s.pc = old.pc /\ s.mc = 1
Running(old, s) ==
  /\ s.ir \in Program /\ s.inte = old.inte /\ Pended(old, s)
  /\ \/ Plain(s.ir) /\ At(old, s, s.mc)
     \/ Routine(s.ir) = "HLT" /\ HaltAt(old, s)
Midway(old, s) ==
  /\ s.mc # 0 /\ s.mc < Cycles(s.ir) /\ ~s.hlta /\ ~s.eiPending /\ ~old.halted
  /\ Accepted(old, s) \/ Running(old, s)

CpuStates(old, s) ==
  /\ s \in States /\ old \in Views
  /\ Ready(old, s) \/ Waiting(old, s) \/ Midway(old, s)
CpuInv == CpuStates(seen, cpu)

IsaStep ==
  \/ last' = Underway /\ UNCHANGED seen
  \/ ISA!Reset \/ ISA!Execute(last'.op) \/ ISA!Wait \/ ISA!Interrupt

-----------------------------------------------------------------------------
LEMMA Latches ==
  ASSUME NEW s \in States, NEW irq \in BOOLEAN
  PROVE  LET t == Latch(s, irq)
         IN  /\ t \in States /\ t.mc = s.mc /\ t.pc = s.pc /\ t.sp = s.sp /\ t.wz = s.wz
             /\ t.mem = s.mem /\ t.stored = s.stored /\ t.ir = s.ir /\ t.flag = s.flag
             /\ t.inte = s.inte /\ t.hlta = s.hlta /\ t.eiPending = s.eiPending
             /\ t.iff = (s.iff \/ (irq /\ s.inte))
  <1>1. (s.iff \/ (irq /\ s.inte)) \in BOOLEAN
    BY DEF States
  <1> QED
    BY <1>1 DEF Latch, States

(* Only what a request sees and the opcode matter.                         *)
Alike(s, t) ==
  /\ t.pc = s.pc /\ t.sp = s.sp /\ t.mem = s.mem /\ t.stored = s.stored /\ t.wz = s.wz
  /\ t.ir = s.ir /\ t.flag = s.flag

LEMMA AlikeAt ==
  ASSUME NEW old, NEW s, NEW t, Alike(s, t), NEW k
  PROVE  /\ At(old, s, k) => At(old, t, k)
         /\ \A n, back : RstAt(old, s, n, back, k) => RstAt(old, t, n, back, k)
         /\ Clean(old, s) => Clean(old, t)
  <1>1. /\ Clean(old, s) <=> Clean(old, t)
        /\ \A n : PcPlus(old, s, n) <=> PcPlus(old, t, n)
        /\ \A n : SpPlus(old, s, n) <=> SpPlus(old, t, n)
        /\ \A a, v : Stored1(old, s, a, v) <=> Stored1(old, t, a, v)
        /\ \A a, v, b, w : Stored2(old, s, a, v, b, w) <=> Stored2(old, t, a, v, b, w)
    BY DEF Alike, Clean, PcPlus, SpPlus, Stored1, Stored2
  <1>2. \A n : Operated(old, s, n, k) <=> Operated(old, t, n, k)
    BY <1>1 DEF Operated
  <1>3. \A r : DataAt(old, s, r, k) => DataAt(old, t, r, k)
    BY <1>2 DEF DataAt, Alike
  <1>4. \A n : SetSpAt(old, s, n, k) => SetSpAt(old, t, n, k)
    BY <1>1, <1>2 DEF SetSpAt
  <1>5. XthlAt(old, s, k) => XthlAt(old, t, k)
    BY <1>1 DEF XthlAt, Alike
  <1>6. PushAt(old, s, k) => PushAt(old, t, k)
    BY <1>1 DEF PushAt
  <1>7. PopAt(old, s, k) => PopAt(old, t, k)
    BY <1>1 DEF PopAt
  <1>8. \A taken : JumpAt(old, s, taken, k) => JumpAt(old, t, taken, k)
    BY <1>1, <1>2 DEF JumpAt, Alike
  <1>9. PchlAt(old, s, k) => PchlAt(old, t, k)
    BY <1>1 DEF PchlAt, Alike
  <1>10. \A taken : CallAt(old, s, taken, k) => CallAt(old, t, taken, k)
    BY <1>1, <1>2 DEF CallAt, Alike
  <1>11. \A n, back : RstAt(old, s, n, back, k) => RstAt(old, t, n, back, k)
    BY <1>1 DEF RstAt, Alike
  <1>12. \A i : RetAt(old, s, i) => RetAt(old, t, i)
    BY <1>1 DEF RetAt, Alike
  <1>13. \A taken : RetCondAt(old, s, taken, k) => RetCondAt(old, t, taken, k)
    BY <1>1, <1>12 DEF RetCondAt, Alike
  <1>14. ASSUME At(old, s, k) PROVE At(old, t, k)
    <2> DEFINE r == Routine(s.ir)
               n == RstNumber(s.ir)
               f == s.flag
    <2>0. Routine(t.ir) = r /\ RstNumber(t.ir) = n
      BY DEF Alike
    <2>1. f = t.flag
      BY DEF Alike
    <2>2. /\ r \in DataRoutines => DataAt(old, s, r, k)
          /\ r = "LXI_SP" => SetSpAt(old, s, 2, k)
          /\ r \in {"SPHL", "INX_SP", "DCX_SP"} => SetSpAt(old, s, 0, k)
          /\ r = "XTHL" => XthlAt(old, s, k)
          /\ r = "PUSH" => PushAt(old, s, k)
          /\ r = "POP" => PopAt(old, s, k)
      BY <1>14 DEF At
    <2>3. /\ r = "JMP" => JumpAt(old, s, TRUE, k)
          /\ r = "JCond" => JumpAt(old, s, f, k)
          /\ r = "PCHL" => PchlAt(old, s, k)
          /\ r = "CALL" => CallAt(old, s, TRUE, k)
          /\ r = "CCond" => CallAt(old, s, f, k)
      BY <1>14 DEF At
    <2>4. /\ r = "RST" => RstAt(old, s, n, Plus(old.pc, 1), k)
          /\ r = "RET" => RetAt(old, s, k)
          /\ r = "RETCond" => RetCondAt(old, s, f, k)
      BY <1>14 DEF At
    <2> HIDE DEF r, n, f
    <2>5. /\ r \in DataRoutines => DataAt(old, t, r, k)
          /\ r = "LXI_SP" => SetSpAt(old, t, 2, k)
          /\ r \in {"SPHL", "INX_SP", "DCX_SP"} => SetSpAt(old, t, 0, k)
          /\ r = "XTHL" => XthlAt(old, t, k)
          /\ r = "PUSH" => PushAt(old, t, k)
          /\ r = "POP" => PopAt(old, t, k)
      BY <1>3, <1>4, <1>5, <1>6, <1>7, <2>2
    <2>6. /\ r = "JMP" => JumpAt(old, t, TRUE, k)
          /\ r = "JCond" => JumpAt(old, t, f, k)
          /\ r = "PCHL" => PchlAt(old, t, k)
          /\ r = "CALL" => CallAt(old, t, TRUE, k)
          /\ r = "CCond" => CallAt(old, t, f, k)
      BY <1>8, <1>9, <1>10, <2>3
    <2>7. /\ r = "RST" => RstAt(old, t, n, Plus(old.pc, 1), k)
          /\ r = "RET" => RetAt(old, t, k)
          /\ r = "RETCond" => RetCondAt(old, t, f, k)
      BY <1>11, <1>12, <1>13, <2>4
    <2>8. JumpAt(old, t, f, k) => JumpAt(old, t, t.flag, k)
      BY <2>1, Zenon
    <2>9. CallAt(old, t, f, k) => CallAt(old, t, t.flag, k)
      BY <2>1, Zenon
    <2>10. RetCondAt(old, t, f, k) => RetCondAt(old, t, t.flag, k)
      BY <2>1, Zenon
    <2>11. /\ Routine(t.ir) \in DataRoutines => DataAt(old, t, Routine(t.ir), k)
           /\ Routine(t.ir) = "LXI_SP" => SetSpAt(old, t, 2, k)
           /\ Routine(t.ir) \in {"SPHL", "INX_SP", "DCX_SP"} => SetSpAt(old, t, 0, k)
           /\ Routine(t.ir) = "XTHL" => XthlAt(old, t, k)
           /\ Routine(t.ir) = "PUSH" => PushAt(old, t, k)
           /\ Routine(t.ir) = "POP" => PopAt(old, t, k)
      BY <2>0, <2>5
    <2>12. /\ Routine(t.ir) = "JMP" => JumpAt(old, t, TRUE, k)
           /\ Routine(t.ir) = "JCond" => JumpAt(old, t, t.flag, k)
           /\ Routine(t.ir) = "PCHL" => PchlAt(old, t, k)
           /\ Routine(t.ir) = "CALL" => CallAt(old, t, TRUE, k)
           /\ Routine(t.ir) = "CCond" => CallAt(old, t, t.flag, k)
      BY <2>0, <2>6, <2>8, <2>9
    <2>13. /\ Routine(t.ir) = "RST" => RstAt(old, t, RstNumber(t.ir), Plus(old.pc, 1), k)
           /\ Routine(t.ir) = "RET" => RetAt(old, t, k)
           /\ Routine(t.ir) = "RETCond" => RetCondAt(old, t, t.flag, k)
      BY <2>0, <2>7, <2>10
    <2> QED
      BY <2>11, <2>12, <2>13 DEF At
  <1> QED
    BY <1>1, <1>11, <1>14

LEMMA Advances ==
  ASSUME NEW s \in States, s.mc < Cycles(s.ir), Cycles(s.ir) \in 1..6
  PROVE  LET t == Advance(s)
         IN  /\ t \in States /\ Alike(s, t) /\ t.inte = s.inte /\ t.iff = s.iff
             /\ t.hlta = s.hlta /\ t.eiPending = s.eiPending
             /\ t.mc = IF s.mc + 1 = Cycles(s.ir) THEN 0 ELSE s.mc + 1
  <1> DEFINE c == IF s.mc + 1 = Cycles(s.ir) THEN 0 ELSE s.mc + 1
  <1>1. s.mc \in 0..5
    BY DEF States
  <1>2. (s.mc + 1) % Cycles(s.ir) = c /\ c \in 0..5
    BY <1>1
  <1>3. Advance(s) = [s EXCEPT !.mc = c]
    BY <1>2 DEF Advance, States
  <1> HIDE DEF c
  <1> DEFINE t == [s EXCEPT !.mc = c]
  <1>4. /\ t \in States /\ Alike(s, t) /\ t.inte = s.inte /\ t.iff = s.iff
        /\ t.hlta = s.hlta /\ t.eiPending = s.eiPending /\ t.mc = c
    BY <1>2 DEF States, Alike
  <1> QED
    BY <1>3, <1>4 DEF c

LEMMA CycleCount ==
  ASSUME NEW op \in Opcode \ Odd
  PROVE  Cycles(op) \in 1..6
  <1>1. Agree(op)
    BY TablesAgree
  <1>2. CASE DataAgrees(op)
    BY <1>2 DEF DataAgrees
  <1>3. CASE ~DataAgrees(op)
    BY <1>1, <1>3 DEF Agree, Is
  <1> QED
    BY <1>2, <1>3

LEMMA BetweenIs ==
  ASSUME NEW s \in States
  PROVE  LET t == Between(s)
         IN  /\ t \in States /\ Shown(t) = Shown(s) /\ Shown(s) \in Views
             /\ t.mc = s.mc /\ t.hlta = s.hlta /\ t.iff = s.iff /\ t.eiPending = s.eiPending
             /\ t.stored = 0 /\ (s.mc # 0 => t.ir = s.ir)
  <1>1. 0 \in Word /\ 0 \in Opcode /\ 0 \in Nat
    BY WordCount DEF Opcode
  <1> DEFINE i == IF s.mc = 0 THEN 0 ELSE s.ir
             t == [s EXCEPT !.wz = 0, !.stored = 0, !.flag = FALSE, !.ir = i]
  <1>2. Between(s) = t
    BY DEF Between, States
  <1>3. i \in Opcode /\ (s.mc # 0 => i = s.ir)
    BY <1>1 DEF States
  <1> HIDE DEF i
  <1>4. /\ t \in States /\ t.mc = s.mc /\ t.hlta = s.hlta /\ t.iff = s.iff
        /\ t.eiPending = s.eiPending /\ t.stored = 0 /\ t.ir = i
        /\ t.pc = s.pc /\ t.sp = s.sp /\ t.mem = s.mem /\ t.inte = s.inte
    BY <1>1, <1>3 DEF States
  <1> HIDE DEF t
  <1>5. Shown(t) = Shown(s)
    BY <1>4 DEF Shown
  <1>6. Shown(s) \in Views
    BY DEF Shown, States, Views
  <1> QED
    BY <1>2, <1>3, <1>4, <1>5, <1>6

LEMMA ShownIs ==
  ASSUME NEW s
  PROVE  /\ Shown(s).pc = s.pc /\ Shown(s).sp = s.sp /\ Shown(s).mem = s.mem
         /\ Shown(s).inte = s.inte /\ Shown(s).pending = s.iff /\ Shown(s).shadow = s.eiPending
         /\ Shown(s).halted = (s.hlta /\ s.mc # 0)
  BY DEF Shown

(* An instruction is over. *)
LEMMA SameEnd ==
  ASSUME NEW s \in States, s.mc = 0, s.hlta => s.iff /\ ~s.eiPending, Show(s)
  PROVE  /\ CpuInv' /\ Ended(s) /\ last'.op = s.ir
         /\ seen'.inte = s.inte /\ seen'.pending = s.iff /\ seen'.shadow = s.eiPending
         /\ seen'.halted = FALSE
  <1>1. cpu' = Between(s) /\ seen' = Shown(s) /\ last' = [op |-> s.ir, stored |-> s.stored]
    BY DEF Show, IsInstructionExecuted
  <1>2. Ready(seen', cpu')
    BY <1>1, BetweenIs DEF Ready
  <1>3. CpuInv'
    BY <1>1, <1>2, BetweenIs DEF CpuInv, CpuStates
  <1>4. Ended(s) /\ last'.op = s.ir
    BY <1>1, ShownIs DEF Ended
  <1> QED
    BY <1>1, <1>3, <1>4, ShownIs

(* An instruction goes on. *)
LEMMA GoesOn ==
  ASSUME seen \in Views, NEW s \in States, Midway(seen, s), Show(s)
  PROVE  CpuInv' /\ IsaStep
  <1>1. cpu' = s /\ seen' = seen /\ last' = Underway
    BY DEF Show, IsInstructionExecuted, Midway
  <1>2. CpuInv'
    BY <1>1 DEF CpuInv, CpuStates
  <1> QED
    BY <1>1, <1>2 DEF IsaStep

LEMMA PlainStep ==
  ASSUME seen \in Views, NEW u \in States, u.ir \in Program, Plain(u.ir), ~u.hlta, ~u.eiPending,
         ~seen.halted, u.inte = seen.inte, Pended(seen, u), u.mc < Cycles(u.ir),
         At(seen, u, u.mc), NEW t \in Micro(u), Show(Advance(t))
  PROVE  CpuInv' /\ IsaStep
  <1> DEFINE a == Advance(t)
             n == Cycles(u.ir)
  <1>1. n \in 1..6
    BY CycleCount DEF Plain
  <1>2. Goes(u, t) /\ At(seen, t, t.mc + 1)
    BY CycleDone
  <1>3. /\ t \in States /\ t.ir = u.ir /\ t.flag = u.flag /\ t.inte = u.inte /\ t.iff = u.iff
        /\ t.hlta = u.hlta /\ t.eiPending = u.eiPending /\ t.mc < n /\ t.mc \in 0..5
    BY <1>2 DEF Goes, Kept, States
  <1>4. /\ a \in States /\ Alike(t, a) /\ a.inte = u.inte /\ a.iff = u.iff
        /\ a.hlta = u.hlta /\ a.eiPending = u.eiPending
        /\ a.mc = IF t.mc + 1 = n THEN 0 ELSE t.mc + 1
    BY <1>1, <1>3, Advances
  <1>5. a.ir = u.ir
    BY <1>3, <1>4 DEF Alike
  <1>6. At(seen, a, t.mc + 1)
    BY <1>2, <1>4, AlikeAt
  <1> HIDE DEF a, n
  <1>7. CASE t.mc + 1 = n
    <2>1. a.mc = 0
      BY <1>4, <1>7
    <2>2. /\ CpuInv' /\ Ended(a) /\ last'.op = a.ir
          /\ seen'.inte = a.inte /\ seen'.pending = a.iff /\ seen'.shadow = a.eiPending
          /\ seen'.halted = FALSE
      BY <1>4, <2>1, SameEnd DEF a
    <2>3. PICK p \in Asked(seen.pending, seen.inte) : (p => seen.shadow) /\ u.iff \in Asked(p, seen.inte)
      BY DEF Pended
    <2>4. p \in ISA!Asked(seen.pending, seen.inte) /\ u.iff \in ISA!Asked(p, seen.inte)
      BY <2>3 DEF Asked, ISA!Asked
    <2>5. ISA!Instruction(seen.inte)
      BY <1>4, <2>2, <2>3, <2>4 DEF ISA!Instruction
    <2>6. seen'.shadow = FALSE
      BY <1>4, <2>2 DEF States
    <2>7. ISA!Ordinary
      BY <2>5, <2>6 DEF ISA!Ordinary
    <2>8. At(seen, a, Cycles(a.ir)) /\ Plain(a.ir)
      BY <1>5, <1>6, <1>7 DEF n
    <2>9. ISA!Execute(a.ir)
      BY <1>4, <2>2, <2>7, <2>8, OrdinaryEnds
    <2>10. ISA!Execute(last'.op)
      BY <2>2, <2>9
    <2> QED
      BY <2>2, <2>10 DEF IsaStep
  <1>8. CASE t.mc + 1 # n
    <2>1. a.mc = t.mc + 1 /\ a.mc # 0 /\ a.mc < n
      BY <1>1, <1>3, <1>4, <1>8
    <2>2. Pended(seen, a)
      BY <1>4 DEF Pended
    <2>3. Running(seen, a)
      BY <1>4, <1>5, <1>6, <2>1, <2>2 DEF Running
    <2>4. Midway(seen, a)
      BY <1>4, <1>5, <2>1, <2>3 DEF Midway, n
    <2> QED
      BY <1>4, <2>4, GoesOn DEF a
  <1> QED
    BY <1>7, <1>8

-----------------------------------------------------------------------------
(* The call of vector 7 that accepts an interrupt. *)
LEMMA InterruptStep ==
  ASSUME seen \in Views, NEW u \in States, Accepted(seen, u), u.mc < 4, ~u.hlta, ~u.eiPending,
         ~seen.halted, NEW t \in Micro(u), Show(Advance(t))
  PROVE  CpuInv' /\ IsaStep
  <1> DEFINE a == Advance(t)
  <1>1. Routine(u.ir) = "RST" /\ Cycles(u.ir) = 4 /\ (u.ir \div 8) % 8 = 7
    BY InterruptIsRst7 DEF Accepted, Is
  <1>2. Micro(u) = RST(u, (u.ir \div 8) % 8)
    BY <1>1, RoutineRuns
  <1>3. 7 \in Int /\ seen.pc \in Word
    BY DEF Views
  <1>4. Vector(7) \in Word
    BY <1>3, Vectors
  <1>5. RstAt(seen, u, 7, seen.pc, u.mc) /\ t \in RST(u, 7)
    BY <1>1, <1>2 DEF Accepted
  <1>6. Goes(u, t) /\ t.mc = u.mc /\ RstAt(seen, t, 7, seen.pc, t.mc + 1)
    BY <1>1, <1>3, <1>4, <1>5, RstCycle
  <1>7. /\ t \in States /\ t.ir = OPCODE_RST7 /\ ~t.inte /\ ~t.iff /\ ~t.hlta /\ ~t.eiPending
        /\ t.mc < 4 /\ t.mc \in 0..5 /\ Cycles(t.ir) = 4
    BY <1>1, <1>6 DEF Goes, Kept, States, Accepted
  <1>8. /\ a \in States /\ Alike(t, a) /\ a.inte = t.inte /\ a.iff = t.iff /\ a.hlta = t.hlta
        /\ a.eiPending = t.eiPending /\ a.mc = IF t.mc + 1 = 4 THEN 0 ELSE t.mc + 1
    BY <1>7, Advances
  <1>9. RstAt(seen, a, 7, seen.pc, t.mc + 1) /\ a.ir = OPCODE_RST7
    BY <1>6, <1>7, <1>8, AlikeAt DEF Alike
  <1> HIDE DEF a
  <1>10. CASE t.mc + 1 = 4
    <2>1. a.mc = 0 /\ RstAt(seen, a, 7, seen.pc, 4)
      BY <1>8, <1>9, <1>10
    <2>2. /\ CpuInv' /\ Ended(a)
          /\ seen'.inte = a.inte /\ seen'.pending = a.iff /\ seen'.shadow = a.eiPending
          /\ seen'.halted = FALSE
      BY <1>7, <1>8, <2>1, SameEnd DEF a
    <2>3. /\ a.pc = Vector(7) /\ a.sp = Plus(seen.sp, -2)
          /\ Stored2(seen, a, Plus(seen.sp, -1), High(seen.pc), Plus(seen.sp, -2), Low(seen.pc))
      BY <2>1 DEF RstAt, SpPlus
    <2>4. /\ a.inte = FALSE /\ a.iff = FALSE /\ a.eiPending = FALSE
          /\ seen.shadow = FALSE /\ seen.halted = FALSE
      BY <1>7, <1>8 DEF States, Views, Accepted
    <2>5. TRUE \in ISA!Asked(seen.pending, seen.inte) /\ ~seen.shadow
      BY DEF Accepted, Asked, ISA!Asked
    <2>6. ISA!Interrupt
      BY <2>2, <2>3, <2>4, <2>5, SameWords DEF ISA!Interrupt, ISA!Push, Ended, Stored2
    <2> QED
      BY <2>2, <2>6 DEF IsaStep
  <1>11. CASE t.mc + 1 # 4
    <2>1. a.mc = t.mc + 1 /\ a.mc # 0 /\ a.mc < 4
      BY <1>7, <1>8, <1>11
    <2>2. Accepted(seen, a)
      BY <1>7, <1>8, <1>9, <2>1 DEF Accepted
    <2>3. Midway(seen, a)
      BY <1>7, <1>8, <1>9, <2>1, <2>2 DEF Midway
    <2> QED
      BY <1>8, <2>3, GoesOn DEF a
  <1> QED
    BY <1>10, <1>11

(* DI and EI. *)
LEMMA EnableStep ==
  ASSUME seen \in Views, NEW u \in States, u.ir \in Opcode \ Odd, Routine(u.ir) \in {"DI", "EI"},
         u.mc = 0, ~u.hlta, ~u.eiPending, ~seen.halted,
         u.iff \in Asked(seen.pending, seen.inte), u.iff => seen.shadow,
         Clean(seen, u), u.sp = seen.sp, PcPlus(seen, u, 1), NEW t \in Micro(u), Show(Advance(t))
  PROVE  CpuInv' /\ IsaStep
  <1> DEFINE a == Advance(t)
             on == Routine(u.ir) = "EI"
  <1>1. /\ Routine(u.ir) = "DI" => u.ir = 243
        /\ Routine(u.ir) = "EI" => u.ir = 251
        /\ Is(u.ir, 1, 1, 8)
    <2>1. Agree(u.ir)
      BY TablesAgree
    <2> QED
      BY <2>1 DEF Agree, DataRoutines
  <1>2. /\ t \in States /\ t.ir = u.ir /\ t.mc = 0 /\ t.pc = u.pc /\ t.sp = u.sp /\ t.mem = u.mem
        /\ t.stored = u.stored /\ t.iff = u.iff /\ t.hlta = u.hlta
        /\ t.inte = on /\ t.eiPending = on
    <2>1. CASE Routine(u.ir) = "DI"
      <3>0. Micro(u) = {[u EXCEPT !.inte = FALSE]}
        BY <2>1, RoutineRuns
      <3>1. t = [u EXCEPT !.inte = FALSE]
        BY <3>0
      <3>2. on = FALSE
        BY <2>1
      <3> HIDE DEF on
      <3> QED
        BY <3>1, <3>2 DEF States
    <2>2. CASE Routine(u.ir) = "EI"
      <3>0. Micro(u) = {[u EXCEPT !.inte = TRUE, !.eiPending = TRUE]}
        BY <2>2, RoutineRuns
      <3>1. t = [u EXCEPT !.inte = TRUE, !.eiPending = TRUE]
        BY <3>0
      <3>2. on = TRUE
        BY <2>2
      <3> HIDE DEF on
      <3> QED
        BY <3>1, <3>2 DEF States
    <2> QED
      BY <2>1, <2>2
  <1>3. Cycles(t.ir) = 1
    BY <1>1, <1>2 DEF Is
  <1>4. /\ a \in States /\ Alike(t, a) /\ a.inte = on /\ a.iff = u.iff /\ a.hlta = u.hlta
        /\ a.eiPending = on /\ a.mc = 0
    BY <1>2, <1>3, Advances
  <1>5. on \in BOOLEAN
    OBVIOUS
  <1> HIDE DEF a
  <1>6. /\ CpuInv' /\ Ended(a) /\ last'.op = u.ir
        /\ seen'.inte = on /\ seen'.pending = u.iff /\ seen'.shadow = on
        /\ seen'.halted = FALSE
    BY <1>2, <1>4, SameEnd DEF a, Alike
  <1>7. /\ seen'.pc = Plus(seen.pc, 1) /\ seen'.sp = seen.sp /\ seen'.mem = seen.mem
        /\ last'.stored = 0
    BY <1>2, <1>4, <1>6 DEF Ended, Alike, Clean, PcPlus
  <1>8. /\ u.iff \in ISA!Asked(seen.pending, seen.inte) /\ u.iff \in ISA!Asked(u.iff, on)
    BY DEF Asked, ISA!Asked
  <1> HIDE DEF on
  <1>9. ISA!Instruction(on)
    BY <1>6, <1>8 DEF ISA!Instruction
  <1>10. GetInstrType(u.ir) = 8 /\ GetInstrLen(u.ir) = 1
    BY <1>1 DEF Is
  <1>11. CASE Routine(u.ir) = "DI"
    <2>1. on = FALSE
      BY <1>11 DEF on
    <2>2. ISA!DisableInterrupts
      BY <1>6, <1>7, <1>9, <2>1, SameWords DEF ISA!DisableInterrupts
    <2>3. ISA!Other(u.ir)
      BY <1>1, <1>10, <1>11, <2>2, OtherIs
    <2>4. ISA!Execute(u.ir)
      BY <1>10, <2>3, ExecutedAs
    <2> QED
      BY <1>6, <2>4 DEF IsaStep
  <1>12. CASE Routine(u.ir) = "EI"
    <2>1. on = TRUE
      BY <1>12 DEF on
    <2>2. ISA!EnableInterrupts
      BY <1>6, <1>7, <1>9, <2>1, SameWords DEF ISA!EnableInterrupts
    <2>3. ISA!Other(u.ir)
      BY <1>1, <1>10, <1>12, <2>2, OtherIs
    <2>4. ISA!Execute(u.ir)
      BY <1>10, <2>3, ExecutedAs
    <2> QED
      BY <1>6, <2>4 DEF IsaStep
  <1> QED
    BY <1>11, <1>12

-----------------------------------------------------------------------------
(* HLT: its first cycle steps back onto itself. *)
LEMMA HaltBegins ==
  ASSUME seen \in Views, NEW u \in States, u.ir \in Program \ Odd, Routine(u.ir) = "HLT",
         u.mc = 0, ~u.hlta, ~u.eiPending, ~seen.halted, u.inte = seen.inte, Pended(seen, u),
         Clean(seen, u), u.sp = seen.sp, PcPlus(seen, u, 1), NEW t \in Micro(u), Show(Advance(t))
  PROVE  CpuInv' /\ IsaStep
  <1> DEFINE a == Advance(t)
  <1>1. Cycles(u.ir) = 2
    <2>1. Agree(u.ir)
      BY TablesAgree, ProgramAssumption
    <2> QED
      BY <2>1 DEF Agree, DataRoutines, Is
  <1>2. t = [u EXCEPT !.pc = Plus(u.pc, -1)]
    <2>1. t \in HLT(u)
      BY RoutineRuns
    <2> QED
      BY <2>1 DEF HLT, States
  <1>3. u.pc = Plus(seen.pc, 1)
    BY DEF PcPlus
  <1>4. Plus(u.pc, -1) = seen.pc
    <2>1. 1 \in Int /\ -1 \in Int /\ 1 + -1 = 0
      OBVIOUS
    <2>2. Plus(Plus(seen.pc, 1), -1) = Plus(seen.pc, 0) /\ Plus(seen.pc, 0) = seen.pc
      BY <2>1, StepsOn
    <2> QED
      BY <1>3, <2>2
  <1>5. seen.pc \in Word
    BY DEF Views
  <1>6. t \in States /\ Kept(u, t) /\ t.mc = 0 /\ t.pc = seen.pc /\ t.sp = u.sp
        /\ t.mem = u.mem /\ t.stored = u.stored
    BY <1>2, <1>4, <1>5, PcSet
  <1>7. Cycles(t.ir) = 2 /\ t.ir = u.ir
    BY <1>1, <1>6 DEF Kept
  <1>8. /\ a \in States /\ Alike(t, a) /\ a.inte = t.inte /\ a.iff = t.iff /\ a.hlta = t.hlta
        /\ a.eiPending = t.eiPending /\ a.mc = 1
    BY <1>6, <1>7, Advances
  <1> HIDE DEF a
  <1>9. HaltAt(seen, a) /\ a.ir = u.ir
    BY <1>6, <1>7, <1>8 DEF HaltAt, Clean, Alike
  <1>10. Pended(seen, a) /\ a.inte = seen.inte /\ ~a.hlta /\ ~a.eiPending
    BY <1>6, <1>8 DEF Pended, Kept
  <1>11. Midway(seen, a)
    BY <1>1, <1>8, <1>9, <1>10 DEF Midway, Running
  <1> QED
    BY <1>8, <1>11, GoesOn DEF a

(* Its second cycle leaves it when an interrupt is latched and halts       *)
(* otherwise.                                                              *)
LEMMA HaltCycle ==
  ASSUME NEW u \in States, u.ir = 118, Routine(118) = "HLT", Cycles(118) = 2,
         u.mc = 1, ~u.eiPending, u.stored = 0, NEW t \in Micro(u), Show(Advance(t))
  PROVE  /\ CpuInv'
         /\ seen'.pc = (IF u.iff THEN Plus(u.pc, 1) ELSE u.pc)
         /\ seen'.sp = u.sp /\ seen'.mem = u.mem /\ last'.stored = 0 /\ last'.op = 118
         /\ seen'.inte = u.inte /\ seen'.pending = u.iff /\ seen'.shadow = FALSE
         /\ seen'.halted = ~u.iff
  <1> DEFINE a == Advance(t)
  <1>1. t \in HLT(u)
    BY RoutineRuns
  <1>2. CASE u.iff
    <2>1. t = ReadInstrMovePC(u)
      BY <1>1, <1>2 DEF HLT
    <2>2. t \in States /\ Kept(u, t) /\ t.mc = 1 /\ t.pc = Plus(u.pc, 1) /\ t.sp = u.sp
          /\ t.mem = u.mem /\ t.stored = 0
      BY <2>1, NextRead
    <2>3. t.ir = 118 /\ Cycles(t.ir) = 2
      BY <2>2 DEF Kept
    <2>4. /\ a \in States /\ Alike(t, a) /\ a.inte = t.inte /\ a.iff = t.iff /\ a.hlta = t.hlta
          /\ a.eiPending = t.eiPending /\ a.mc = 0
      BY <2>2, <2>3, Advances
    <2> HIDE DEF a
    <2>5. a.iff /\ ~a.eiPending /\ a.iff = TRUE /\ a.eiPending = FALSE /\ u.iff = TRUE
      BY <1>2, <2>2, <2>4 DEF Kept, States
    <2>6. /\ CpuInv' /\ Ended(a) /\ last'.op = a.ir
          /\ seen'.inte = a.inte /\ seen'.pending = a.iff /\ seen'.shadow = a.eiPending
          /\ seen'.halted = FALSE
      BY <2>4, <2>5, SameEnd DEF a
    <2> QED
      BY <1>2, <2>2, <2>3, <2>4, <2>5, <2>6, ZenonT(60) DEF Ended, Alike, Kept
  <1>3. CASE ~u.iff
    <2>1. t = [u EXCEPT !.hlta = TRUE, !.mc = 0]
      BY <1>1, <1>3 DEF HLT
    <2>2. /\ t \in States /\ t.mc = 0 /\ t.ir = 118 /\ t.pc = u.pc /\ t.sp = u.sp /\ t.mem = u.mem
          /\ t.stored = 0 /\ t.inte = u.inte /\ t.iff = u.iff /\ t.hlta = TRUE
          /\ t.eiPending = u.eiPending /\ Cycles(t.ir) = 2
      <3>1. 0 \in 0..5 /\ TRUE \in BOOLEAN
        OBVIOUS
      <3>2. /\ t \in States /\ t.mc = 0 /\ t.ir = u.ir /\ t.pc = u.pc /\ t.sp = u.sp /\ t.mem = u.mem
            /\ t.stored = u.stored /\ t.inte = u.inte /\ t.iff = u.iff /\ t.hlta = TRUE
            /\ t.eiPending = u.eiPending
        BY <2>1, <3>1 DEF States
      <3> QED
        BY <3>2
    <2>3. /\ a \in States /\ Alike(t, a) /\ a.inte = t.inte /\ a.iff = t.iff /\ a.hlta = t.hlta
          /\ a.eiPending = t.eiPending /\ a.mc = 1
      BY <2>2, Advances
    <2>4. /\ Show(a) /\ a.mc # 0 /\ a.hlta
      BY <2>2, <2>3
    <2> HIDE DEF a
    <2>5. cpu' = Between(a) /\ seen' = Shown(a) /\ last' = [op |-> a.ir, stored |-> a.stored]
      BY <2>4 DEF Show, IsInstructionExecuted
    <2>6. ~a.iff /\ ~a.eiPending /\ u.iff = FALSE /\ a.eiPending = FALSE
      BY <1>3, <2>2, <2>3 DEF States
    <2>7. a.ir = 118 /\ a.stored = 0 /\ a.pc = u.pc /\ a.sp = u.sp /\ a.mem = u.mem
      BY <2>2, <2>3 DEF Alike
    <2>8. Waiting(seen', cpu')
      BY <2>3, <2>4, <2>5, <2>6, <2>7, BetweenIs DEF Waiting
    <2>9. CpuInv'
      BY <2>3, <2>5, <2>8, BetweenIs DEF CpuInv, CpuStates
    <2>10. /\ seen'.pc = u.pc /\ seen'.sp = u.sp /\ seen'.mem = u.mem /\ seen'.inte = u.inte
           /\ seen'.pending = u.iff /\ seen'.shadow = FALSE /\ seen'.halted = TRUE
      BY <2>2, <2>3, <2>4, <2>5, <2>6, <2>7, ShownIs, ZenonT(60)
    <2> QED
      BY <1>3, <2>5, <2>6, <2>7, <2>9, <2>10
  <1> QED
    BY <1>2, <1>3

LEMMA HaltOpcode ==
  ASSUME NEW op \in Opcode \ Odd, Routine(op) = "HLT"
  PROVE  op = 118 /\ Is(op, 2, 1, 8)
  <1>1. Agree(op)
    BY TablesAgree
  <1> QED
    BY <1>1 DEF Agree, DataRoutines

LEMMA HaltEnds ==
  ASSUME seen \in Views, NEW u \in States, u.ir \in Opcode \ Odd, Routine(u.ir) = "HLT",
         HaltAt(seen, u), ~u.hlta, ~u.eiPending, ~seen.halted, u.inte = seen.inte, Pended(seen, u),
         NEW t \in Micro(u), Show(Advance(t))
  PROVE  CpuInv' /\ IsaStep
  <1>1. u.ir = 118 /\ Routine(118) = "HLT" /\ Is(118, 2, 1, 8) /\ 118 \in Opcode \ Odd
    BY HaltOpcode
  <1>2. u.mc = 1 /\ u.stored = 0 /\ u.mem = seen.mem /\ u.sp = seen.sp /\ u.pc = seen.pc
    BY DEF HaltAt, Clean
  <1>3. /\ CpuInv'
        /\ seen'.pc = (IF u.iff THEN Plus(u.pc, 1) ELSE u.pc)
        /\ seen'.sp = u.sp /\ seen'.mem = u.mem /\ last'.stored = 0 /\ last'.op = 118
        /\ seen'.inte = u.inte /\ seen'.pending = u.iff /\ seen'.shadow = FALSE
        /\ seen'.halted = ~u.iff
    BY <1>1, <1>2, HaltCycle DEF Is
  <1>4. PICK p \in Asked(seen.pending, seen.inte) : (p => seen.shadow) /\ u.iff \in Asked(p, seen.inte)
    BY DEF Pended
  <1>5. p \in ISA!Asked(seen.pending, seen.inte) /\ u.iff \in ISA!Asked(p, seen.inte)
    BY <1>4 DEF Asked, ISA!Asked
  <1>6. seen'.pc = IF u.iff THEN ISA!Plus(seen.pc, 1) ELSE seen.pc
    BY <1>2, <1>3, SameWords
  <1>7. ISA!Halt
    BY <1>2, <1>3, <1>4, <1>5, <1>6 DEF ISA!Halt
  <1>8. ISA!Execute(118)
    BY <1>1, <1>7, OtherIs, ExecutedAs DEF Is
  <1> QED
    BY <1>3, <1>8 DEF IsaStep

LEMMA WaitStep ==
  ASSUME seen \in Views, NEW u \in States, u.ir = 118, u.mc = 1, u.hlta, ~u.eiPending,
         u.stored = 0, u.pc = seen.pc, u.sp = seen.sp, u.mem = seen.mem, u.inte = seen.inte,
         ~seen.shadow, seen.halted, u.iff \in Asked(seen.pending, seen.inte),
         NEW t \in Micro(u), Show(Advance(t)), Routine(118) = "HLT"
  PROVE  CpuInv' /\ IsaStep
  <1>1. 118 \in Opcode \ Odd /\ Is(118, 2, 1, 8)
    BY HaltOpcode DEF Opcode, Odd
  <1>2. /\ CpuInv'
        /\ seen'.pc = (IF u.iff THEN Plus(u.pc, 1) ELSE u.pc)
        /\ seen'.sp = u.sp /\ seen'.mem = u.mem /\ last'.stored = 0 /\ last'.op = 118
        /\ seen'.inte = u.inte /\ seen'.pending = u.iff /\ seen'.shadow = FALSE
        /\ seen'.halted = ~u.iff
    BY <1>1, HaltCycle DEF Is
  <1>3. u.iff \in ISA!Asked(seen.pending, seen.inte)
    BY DEF Asked, ISA!Asked
  <1>4. seen'.pc = IF seen'.pending THEN ISA!Plus(seen.pc, 1) ELSE seen.pc
    BY <1>2, SameWords
  <1>5. seen.shadow = FALSE
    BY DEF Views
  <1>6. ISA!Wait
    BY <1>2, <1>3, <1>4, <1>5, ZenonT(60) DEF ISA!Wait
  <1> QED
    BY <1>2, <1>6 DEF IsaStep

LEMMA StillPended ==
  ASSUME NEW old \in Views, NEW s \in States, NEW irq \in BOOLEAN, Pended(old, s), s.inte = old.inte
  PROVE  Pended(old, Latch(s, irq))
  <1>1. Latch(s, irq).iff = (s.iff \/ (irq /\ s.inte))
    BY Latches
  <1>2. s.iff \in BOOLEAN /\ old.pending \in BOOLEAN /\ old.inte \in BOOLEAN
    BY DEF States, Views
  <1>3. PICK p \in Asked(old.pending, old.inte) : (p => old.shadow) /\ s.iff \in Asked(p, old.inte)
    BY DEF Pended
  <1>4. (s.iff \/ (irq /\ s.inte)) \in Asked(p, old.inte)
    BY <1>2, <1>3 DEF Asked
  <1> QED
    BY <1>1, <1>3, <1>4 DEF Pended

LEMMA MidwayStep ==
  ASSUME seen \in Views, cpu \in States, Midway(seen, cpu), NEW irq \in BOOLEAN, Program \cap Odd = {},
         NEW b \in Begin(Latch(cpu, irq)), NEW t \in Micro(b), Show(Advance(t))
  PROVE  CpuInv' /\ IsaStep
  <1> DEFINE u == Latch(cpu, irq)
  <1>1. /\ u \in States /\ u.mc = cpu.mc /\ u.ir = cpu.ir /\ u.inte = cpu.inte /\ u.hlta = cpu.hlta
        /\ u.eiPending = cpu.eiPending /\ Alike(cpu, u) /\ u.iff = (cpu.iff \/ (irq /\ cpu.inte))
    BY Latches DEF Alike
  <1> HIDE DEF u
  <1>2. b = u
    BY <1>1 DEF Begin, Midway, u
  <1>3. /\ u.mc # 0 /\ u.mc < Cycles(u.ir) /\ ~u.hlta /\ ~u.eiPending /\ ~seen.halted
    BY <1>1 DEF Midway
  <1>4. CASE Accepted(seen, cpu)
    <2>1. RstAt(seen, u, 7, seen.pc, u.mc)
      BY <1>1, <1>4, AlikeAt DEF Accepted
    <2>2. Accepted(seen, u)
      BY <1>1, <1>4, <2>1 DEF Accepted
    <2>3. u.mc < 4
      BY <1>1, <1>3, <1>4, InterruptIsRst7 DEF Is, Accepted
    <2> QED
      BY <1>1, <1>2, <1>3, <2>2, <2>3, InterruptStep
  <1>5. CASE Running(seen, cpu)
    <2>1. /\ u.ir \in Program /\ u.inte = seen.inte
      BY <1>1, <1>5 DEF Running
    <2>2. Pended(seen, u)
      BY <1>5, StillPended DEF Running, u
    <2>3. u.ir \in Opcode \ Odd
      BY <2>1, ProgramAssumption
    <2>4. CASE Plain(cpu.ir) /\ At(seen, cpu, cpu.mc)
      <3>1. Plain(u.ir) /\ At(seen, u, u.mc)
        BY <1>1, <2>4, AlikeAt
      <3> QED
        BY <1>1, <1>2, <1>3, <2>1, <2>2, <3>1, PlainStep
    <2>5. CASE Routine(cpu.ir) = "HLT" /\ HaltAt(seen, cpu)
      <3>1. Routine(u.ir) = "HLT" /\ HaltAt(seen, u)
        BY <1>1, <2>5 DEF HaltAt, Clean, Alike
      <3> QED
        BY <1>1, <1>2, <1>3, <2>1, <2>2, <2>3, <3>1, HaltEnds
    <2> QED
      BY <1>5, <2>4, <2>5 DEF Running
  <1> QED
    BY <1>4, <1>5 DEF Midway

LEMMA WaitingStep ==
  ASSUME seen \in Views, cpu \in States, Waiting(seen, cpu), NEW irq \in BOOLEAN,
         NEW b \in Begin(Latch(cpu, irq)), NEW t \in Micro(b), Show(Advance(t))
  PROVE  CpuInv' /\ IsaStep
  <1> DEFINE u == Latch(cpu, irq)
  <1>1. /\ u \in States /\ u.mc = 1 /\ u.ir = 118 /\ u.inte = cpu.inte /\ u.hlta
        /\ ~u.eiPending /\ u.stored = 0 /\ u.pc = cpu.pc /\ u.sp = cpu.sp /\ u.mem = cpu.mem
        /\ u.iff = (cpu.iff \/ (irq /\ cpu.inte)) /\ Routine(118) = "HLT"
    BY Latches DEF Waiting
  <1> HIDE DEF u
  <1>2. b = u
    BY <1>1 DEF Begin, u
  <1>3. /\ seen.pc = cpu.pc /\ seen.sp = cpu.sp /\ seen.mem = cpu.mem /\ seen.inte = cpu.inte
        /\ seen.pending = cpu.iff /\ ~seen.shadow /\ seen.halted
    <2>1. /\ seen.pc = cpu.pc /\ seen.sp = cpu.sp /\ seen.mem = cpu.mem /\ seen.inte = cpu.inte
          /\ seen.pending = cpu.iff /\ seen.shadow = cpu.eiPending
          /\ seen.halted = (cpu.hlta /\ cpu.mc # 0)
      BY ShownIs DEF Waiting
    <2>2. cpu.eiPending = FALSE /\ (cpu.hlta /\ cpu.mc # 0) = TRUE
      BY DEF Waiting, States
    <2>3. seen.shadow = FALSE /\ seen.halted = TRUE
      BY <2>1, <2>2
    <2> QED
      BY <2>1, <2>3
  <1>4. u.iff \in Asked(seen.pending, seen.inte)
    <2>1. cpu.iff \in BOOLEAN /\ cpu.inte \in BOOLEAN
      BY DEF States
    <2> QED
      BY <1>1, <1>3, <2>1 DEF Asked
  <1> QED
    BY <1>1, <1>2, <1>3, <1>4, WaitStep

(* A new instruction, or an interrupt. *)
LEMMA ReadyStep ==
  ASSUME seen \in Views, cpu \in States, Ready(seen, cpu), NEW irq \in BOOLEAN, Program \cap Odd = {},
         NEW b \in Begin(Latch(cpu, irq)), NEW t \in Micro(b), Show(Advance(t))
  PROVE  CpuInv' /\ IsaStep
  <1> DEFINE u == Latch(cpu, irq)
  <1>1. /\ u \in States /\ u.mc = 0 /\ u.inte = cpu.inte /\ u.hlta = cpu.hlta
        /\ u.eiPending = cpu.eiPending /\ u.stored = 0 /\ u.pc = cpu.pc /\ u.sp = cpu.sp
        /\ u.mem = cpu.mem /\ u.iff = (cpu.iff \/ (irq /\ cpu.inte))
    BY Latches DEF Ready
  <1>2. /\ seen.pc = cpu.pc /\ seen.sp = cpu.sp /\ seen.mem = cpu.mem /\ seen.inte = cpu.inte
        /\ seen.pending = cpu.iff /\ seen.shadow = cpu.eiPending /\ ~seen.halted
    BY ShownIs DEF Ready
  <1>3. /\ cpu.iff \in BOOLEAN /\ cpu.inte \in BOOLEAN /\ cpu.eiPending \in BOOLEAN /\ cpu.hlta \in BOOLEAN
    BY DEF States
  <1>4. u.iff \in Asked(seen.pending, seen.inte)
    BY <1>1, <1>2, <1>3 DEF Asked
  <1> HIDE DEF u
  <1>5. Clean(seen, u) /\ u.pc = seen.pc /\ u.sp = seen.sp
    BY <1>1, <1>2 DEF Clean
  <1>6. CASE Interrupted(u)
    <2>1. b = AcceptInterrupt(u)
      BY <1>1, <1>6 DEF Begin, u
    <2>2. OPCODE_RST7 \in Opcode
      BY DEF OPCODE_RST7, Opcode
    <2>3. /\ b \in States /\ b.mc = 0 /\ b.ir = OPCODE_RST7 /\ ~b.inte /\ ~b.iff /\ ~b.hlta
          /\ b.eiPending = u.eiPending /\ b.pc = u.pc /\ b.sp = u.sp /\ b.mem = u.mem /\ b.stored = u.stored
      BY <1>1, <2>1, <2>2 DEF AcceptInterrupt, States
    <2>4. ~b.eiPending /\ ~seen.shadow /\ u.iff
      BY <1>1, <1>2, <1>6, <2>3 DEF Interrupted
    <2>5. TRUE \in Asked(seen.pending, seen.inte)
      <3>1. u.iff = TRUE
        BY <1>1, <2>4 DEF States
      <3> QED
        BY <1>4, <3>1
    <2>6. RstAt(seen, b, 7, seen.pc, 0)
      <3>1. SpPlus(seen, b, 0)
        BY <1>5, <2>3, SpSteps DEF SpPlus
      <3> QED
        BY <1>5, <2>3, <3>1 DEF RstAt, Clean
    <2>7. Accepted(seen, b)
      BY <2>3, <2>4, <2>5, <2>6 DEF Accepted
    <2> QED
      BY <1>2, <2>3, <2>4, <2>7, InterruptStep
  <1>7. CASE ~Interrupted(u)
    <2>0. PICK op \in Program : \E flag \in Flags(op) : b = Fetch(u, op, flag)
      BY <1>1, <1>7 DEF Begin, u
    <2>1. PICK flag \in Flags(op) : b = Fetch(u, op, flag)
      BY <2>0
    <2>2. op \in Opcode \ Odd /\ flag \in BOOLEAN
      BY ProgramAssumption DEF Flags
    <2>3. /\ b \in States /\ b.mc = 0 /\ b.ir = op /\ b.inte = u.inte /\ b.iff = u.iff /\ b.hlta = u.hlta
          /\ ~b.eiPending /\ b.pc = Plus(u.pc, 1) /\ b.sp = u.sp /\ b.mem = u.mem /\ b.stored = u.stored
      <3> DEFINE v == ReadInstrMovePC(u)
      <3>1. /\ v \in States /\ Kept(u, v) /\ v.mc = u.mc /\ v.pc = Plus(u.pc, 1) /\ v.sp = u.sp
            /\ v.mem = u.mem /\ v.stored = u.stored
        BY <1>1, NextRead
      <3>2. b = [v EXCEPT !.eiPending = FALSE, !.ir = op, !.flag = flag]
        BY <2>1 DEF Fetch
      <3> HIDE DEF v
      <3> QED
        BY <1>1, <2>2, <3>1, <3>2 DEF States, Kept
    <2>4. Clean(seen, b) /\ b.sp = seen.sp /\ PcPlus(seen, b, 1)
      BY <1>5, <2>3 DEF Clean, PcPlus
    <2>5. b.iff => seen.shadow
      BY <1>1, <1>2, <1>7, <2>3 DEF Interrupted
    <2>6. ~b.hlta
      <3>1. cpu.hlta => u.iff /\ ~u.eiPending
        BY <1>1 DEF Ready
      <3> QED
        BY <1>1, <1>7, <2>3, <3>1 DEF Interrupted
    <2>7. Pended(seen, b) /\ b.inte = seen.inte
      BY <1>1, <1>2, <1>4, <2>3, <2>5 DEF Pended, Asked
    <2>8. CASE Routine(op) = "HLT"
      BY <1>2, <2>1, <2>2, <2>3, <2>4, <2>6, <2>7, <2>8, HaltBegins
    <2>9. CASE Routine(op) \in {"DI", "EI"}
      BY <1>2, <1>4, <2>2, <2>3, <2>4, <2>5, <2>6, <2>9, EnableStep
    <2>10. CASE Routine(op) \notin {"HLT", "DI", "EI"}
      <3>1. Plain(op)
        BY <2>2, <2>10 DEF Plain
      <3>2. At(seen, b, 0)
        BY <2>3, <2>4, Begins
      <3>3. Cycles(op) \in 1..6
        BY <2>2, CycleCount
      <3> QED
        BY <1>2, <2>1, <2>3, <2>6, <2>7, <3>1, <3>2, <3>3, PlainStep
    <2> QED
      BY <2>8, <2>9, <2>10
  <1> QED
    BY <1>6, <1>7

-----------------------------------------------------------------------------
LEMMA RegistersAre ==
  ASSUME NEW mem \in [Word -> Byte]
  PROVE  LET s == Registers(mem)
         IN  /\ s \in States /\ Ready(Shown(s), s) /\ Shown(s) \in Views
             /\ Shown(s).pc = 0 /\ Shown(s).sp = 0 /\ Shown(s).mem = mem /\ Shown(s).inte = FALSE
             /\ Shown(s).pending = FALSE /\ Shown(s).shadow = FALSE /\ Shown(s).halted = FALSE
  <1> DEFINE s == Registers(mem)
  <1>1. 0 \in Word /\ 0 \in Opcode /\ 0 \in Nat /\ 0 \in 0..5
    BY WordCount DEF Opcode
  <1>2. s \in States
    BY <1>1 DEF Registers, States
  <1>3. /\ s.pc = 0 /\ s.sp = 0 /\ s.mem = mem /\ s.inte = FALSE /\ s.iff = FALSE
        /\ s.eiPending = FALSE /\ s.hlta = FALSE /\ s.mc = 0 /\ s.stored = 0
    BY DEF Registers
  <1> HIDE DEF s
  <1>4. Shown(s) \in Views
    BY <1>2, BetweenIs
  <1>5. /\ Shown(s).pc = 0 /\ Shown(s).sp = 0 /\ Shown(s).mem = mem /\ Shown(s).inte = FALSE
        /\ Shown(s).pending = FALSE /\ Shown(s).shadow = FALSE /\ Shown(s).halted = FALSE
    BY <1>3 DEF Shown
  <1>6. Ready(Shown(s), s)
    BY <1>3 DEF Ready
  <1> QED
    BY <1>2, <1>4, <1>5, <1>6 DEF s

LEMMA CpuStarted ==
  ASSUME CpuInit
  PROVE  CpuInv /\ ISA!Init
  <1> DEFINE mem == [w \in Word |-> 0]
  <1>1. mem \in [Word -> Byte]
    BY WordCount
  <1>2. cpu = Registers(mem) /\ seen = Shown(cpu) /\ last.stored = 0
    BY DEF CpuInit
  <1> HIDE DEF mem
  <1>3. CpuInv
    BY <1>1, <1>2, RegistersAre DEF CpuInv, CpuStates
  <1>4. /\ seen.pc = 0 /\ seen.sp = 0 /\ seen.mem = mem /\ seen.inte = FALSE /\ seen.pending = FALSE
        /\ seen.shadow = FALSE /\ seen.halted = FALSE
    BY <1>1, <1>2, RegistersAre
  <1>5. mem \in [ISA!Word -> ISA!Byte]
    BY <1>1, SameWords
  <1> QED
    BY <1>2, <1>3, <1>4, <1>5 DEF ISA!Init

LEMMA ResetStep ==
  ASSUME CpuInv, CpuReset
  PROVE  CpuInv' /\ IsaStep
  <1>1. PICK mem : mem = cpu.mem
    OBVIOUS
  <1>2. mem \in [Word -> Byte]
    BY <1>1 DEF CpuInv, CpuStates, States
  <1>3. cpu' = Registers(mem) /\ seen' = Shown(cpu') /\ last'.stored = 0
    BY <1>1 DEF CpuReset
  <1>4. CpuInv'
    BY <1>2, <1>3, RegistersAre DEF CpuInv, CpuStates
  <1>5. seen.mem = mem
    <2>1. CASE Ready(seen, cpu) \/ Waiting(seen, cpu)
      BY <1>1, <2>1, ShownIs DEF Ready, Waiting
    <2>2. CASE Midway(seen, cpu)
      BY <2>2 DEF Midway, CpuReset, IsInstructionExecuted
    <2> QED
      BY <2>1, <2>2 DEF CpuInv, CpuStates
  <1>6. /\ seen'.pc = 0 /\ seen'.sp = 0 /\ seen'.mem = mem /\ seen'.inte = FALSE /\ seen'.pending = FALSE
        /\ seen'.shadow = FALSE /\ seen'.halted = FALSE
    BY <1>2, <1>3, RegistersAre
  <1>7. ISA!Reset
    BY <1>3, <1>5, <1>6 DEF ISA!Reset
  <1> QED
    BY <1>4, <1>7 DEF IsaStep

LEMMA CycleStep ==
  ASSUME CpuInv, Program \cap Odd = {}, NEW irq \in BOOLEAN, ExecuteMachineCycle(irq)
  PROVE  CpuInv' /\ IsaStep
  <1>1. PICK s \in UNION {Decode(t) : t \in Begin(Latch(cpu, irq))} : Show(s)
    BY DEF ExecuteMachineCycle
  <1>2. PICK b \in Begin(Latch(cpu, irq)) : \E t \in Micro(b) : s = Advance(t)
    BY <1>1 DEF Decode
  <1>4. PICK t \in Micro(b) : s = Advance(t)
    BY <1>2
  <1>3. seen \in Views /\ cpu \in States
    BY DEF CpuInv, CpuStates
  <1> QED
    BY <1>1, <1>3, <1>4, ReadyStep, WaitingStep, MidwayStep DEF CpuInv, CpuStates

LEMMA CpuSteps ==
  ASSUME CpuInv, [CpuNext]_cpuVars, Program \cap Odd = {}
  PROVE  CpuInv' /\ [IsaStep]_cpuVars
  <1>1. CASE CpuReset
    BY <1>1, ResetStep
  <1>2. CASE \E irq \in BOOLEAN : ExecuteMachineCycle(irq)
    BY <1>2, CycleStep
  <1>3. CASE UNCHANGED cpuVars
    BY <1>3 DEF cpuVars, CpuInv, CpuStates
  <1> QED
    BY <1>1, <1>2, <1>3 DEF CpuNext

(* The processor, whose routines run one machine cycle at a time           *)
(* (ExecuteMachineCycle(), Decode()), shows requests whole instructions.   *)
THEOREM CpuIsIsa ==
  ASSUME Program \cap Odd = {}
  PROVE  CpuInit /\ [][CpuNext]_cpuVars => ImplementsIsa
  <1>1. CpuInit => CpuInv /\ ISA!Init
    BY CpuStarted
  <1>2. CpuInv /\ [CpuNext]_cpuVars =>
          CpuInv' /\ [ \/ last' = Underway /\ UNCHANGED seen
                       \/ ISA!Reset \/ ISA!Execute(last'.op) \/ ISA!Wait \/ ISA!Interrupt ]_cpuVars
    BY CpuSteps DEF IsaStep
  <1> QED
    BY <1>1, <1>2, PTL DEF ImplementsIsa

(* No instruction has written more than two bytes. *)
LEMMA FewStored ==
  ASSUME NEW old, NEW s \in States, Plain(s.ir), s.mc < Cycles(s.ir), At(old, s, s.mc)
  PROVE  s.stored \in 0..2
  <1> DEFINE r == Routine(s.ir)
             k == s.mc
  <1>1. Agree(s.ir) /\ k \in 0..5 /\ s.flag \in BOOLEAN
    BY TablesAgree DEF Plain, States
  <1>2. /\ Clean(old, s) => s.stored \in 0..2
        /\ \A a, v : Stored1(old, s, a, v) => s.stored \in 0..2
        /\ \A a, v, b, w : Stored2(old, s, a, v, b, w) => s.stored \in 0..2
    BY DEF Clean, Stored1, Stored2
  <1>3. \A f : RetAt(old, s, f) => Clean(old, s)
    BY DEF RetAt
  <1>4. CASE r \in DataRoutines
    BY <1>4 DEF At, DataAt, StoredBy, StoreBytes
  <1>5. CASE r \in {"LXI_SP", "SPHL", "INX_SP", "DCX_SP", "POP", "PCHL", "RET"}
    BY <1>2, <1>3, <1>5 DEF At, SetSpAt, PopAt, PchlAt
  <1>6. CASE r = "XTHL"
    <2>1. XthlAt(old, s, k)
      BY <1>6 DEF At
    <2> QED
      BY <1>1, <1>2, <2>1 DEF XthlAt
  <1>7. CASE r = "PUSH"
    <2>1. PushAt(old, s, k) /\ k < 4
      BY <1>1, <1>7 DEF At, Agree, Is, DataRoutines
    <2> QED
      BY <1>1, <1>2, <2>1 DEF PushAt
  <1>8. CASE r \in {"JMP", "JCond"}
    BY <1>2, <1>8 DEF At, JumpAt
  <1>9. CASE r \in {"CALL", "CCond"}
    <2>1. \A taken \in BOOLEAN : CallAt(old, s, taken, k) => s.stored \in 0..2
      BY <1>1, <1>2 DEF CallAt
    <2> QED
      BY <1>1, <1>9, <2>1 DEF At
  <1>10. CASE r = "RST"
    <2>1. RstAt(old, s, RstNumber(s.ir), Plus(old.pc, 1), k)
      BY <1>10 DEF At
    <2> QED
      BY <1>1, <1>2, <2>1 DEF RstAt
  <1>11. CASE r = "RETCond"
    BY <1>1, <1>2, <1>3, <1>11 DEF At, RetCondAt
  <1>12. \/ r \in DataRoutines
         \/ r \in {"LXI_SP", "SPHL", "INX_SP", "DCX_SP", "XTHL", "PUSH", "POP", "JMP", "JCond",
                   "PCHL", "CALL", "CCond", "RST", "RET", "RETCond"}
    BY <1>1 DEF Agree, Plain
  <1> HIDE DEF r, k
  <1> QED
    BY <1>4, <1>5, <1>6, <1>7, <1>8, <1>9, <1>10, <1>11, <1>12

LEMMA Typed ==
  ASSUME CpuInv, Program \cap Odd = {}
  PROVE  CpuTypeOK
  <1>1. cpu \in States
    BY DEF CpuInv, CpuStates
  <1>2. cpu.stored \in 0..2 /\ (cpu.mc # 0 => cpu.mc < Cycles(cpu.ir))
    <2>1. CASE Ready(seen, cpu)
      BY <2>1 DEF Ready
    <2>2. CASE Waiting(seen, cpu)
      <3>1. 118 \in Opcode \ Odd /\ Routine(118) = "HLT" /\ cpu.ir = 118 /\ cpu.mc = 1 /\ cpu.stored = 0
        BY <2>2 DEF Waiting, Opcode, Odd
      <3>2. Cycles(118) = 2
        BY <3>1, HaltOpcode DEF Is
      <3> QED
        BY <3>1, <3>2
    <2>3. CASE Midway(seen, cpu)
      <3>1. cpu.mc < Cycles(cpu.ir) /\ cpu.mc \in 0..5
        BY <1>1, <2>3 DEF Midway, States
      <3>2. CASE Accepted(seen, cpu)
        <4>1. RstAt(seen, cpu, 7, seen.pc, cpu.mc)
          BY <3>2 DEF Accepted
        <4> QED
          BY <3>1, <4>1 DEF RstAt, Clean, Stored1, Stored2
      <3>3. CASE Running(seen, cpu)
        <4>1. CASE Plain(cpu.ir) /\ At(seen, cpu, cpu.mc)
          BY <1>1, <3>1, <4>1, FewStored
        <4>2. CASE HaltAt(seen, cpu)
          BY <3>1, <4>2 DEF HaltAt, Clean
        <4> QED
          BY <3>3, <4>1, <4>2 DEF Running
      <3> QED
        BY <2>3, <3>2, <3>3 DEF Midway
    <2> QED
      BY <2>1, <2>2, <2>3 DEF CpuInv, CpuStates
  <1> QED
    BY <1>1, <1>2 DEF CpuTypeOK, States

(* What the processor keeps stays in range, and no cycle is reached that   *)
(* the opcode does not have (CpuI8080::State, M_CYCLES).                   *)
THEOREM CpuTypesCorrect ==
  ASSUME Program \cap Odd = {}
  PROVE  CpuInit /\ [][CpuNext]_cpuVars => []CpuTypeOK
  <1>1. CpuInit => CpuInv
    BY CpuStarted
  <1>2. CpuInv /\ [CpuNext]_cpuVars => CpuInv'
    BY CpuSteps
  <1>3. CpuInv => CpuTypeOK
    BY Typed
  <1> QED
    BY <1>1, <1>2, <1>3, PTL

-----------------------------------------------------------------------------
(* What holds at 0, and at k + 1 when it holds at k, holds up to n.        *)
LEMMA Induct ==
  ASSUME NEW n \in Nat, NEW S, 0 \in S, \A k \in 0..n - 1 : k \in S => k + 1 \in S
  PROVE  \A k \in 0..n : k \in S
  <1> DEFINE T == (0..n) \ S
  <1>1. SUFFICES ASSUME T # {} PROVE FALSE
    OBVIOUS
  <1>2. T \subseteq Nat
    OBVIOUS
  <1> HIDE DEF T
  <1>3. PICK x \in T : \A y \in T : ~ (<<y, x>> \in OpToRel(<, Nat))
    BY <1>1, <1>2, WFMin, NatLessThanWellFounded, Zenon
  <1>4. \A y \in T : ~ (y < x)
    BY <1>2, <1>3, Zenon DEF OpToRel
  <1>5. x \in 0..n /\ x \notin S /\ \A y \in 0..n : y < x => y \in S
    BY <1>4 DEF T
  <1>6. x # 0 /\ x - 1 \in 0..n - 1 /\ x - 1 \in S
    BY <1>5
  <1>7. (x - 1) + 1 \in S
    BY <1>6
  <1> QED
    BY <1>5, <1>7

(* A loop of n rounds: there is a function that holds the value after each  *)
(* round, and what every round keeps holds of them all.                     *)
Loops(n, T, first, round) ==
  \E f \in [0..n -> T] : f[0] = first /\ \A i \in 1..n : f[i] = round[i][f[i - 1]]

LEMMA LoopExists ==
  ASSUME NEW n \in Nat, NEW T, NEW first \in T, NEW round \in [1..n -> [T -> T]]
  PROVE  Loops(n, T, first, round)
  <1> DEFINE Loop(f, m) == f[0] = first /\ \A i \in 1..m : f[i] = round[i][f[i - 1]]
             Some(m) == \E f \in [0..m -> T] : Loop(f, m)
             S == {m \in 0..n : Some(m)}
  <1>1. Some(0)
    <2>1. [i \in 0..0 |-> first] \in [0..0 -> T] /\ Loop([i \in 0..0 |-> first], 0)
      OBVIOUS
    <2> HIDE DEF Loop
    <2> QED
      BY <2>1
  <1>2. ASSUME NEW m \in 0..n - 1, Some(m)
        PROVE  Some(m + 1)
    <2>1. PICK f \in [0..m -> T] : Loop(f, m)
      BY <1>2
    <2> DEFINE final == round[m + 1][f[m]]
               g == [i \in 0..m + 1 |-> IF i <= m THEN f[i] ELSE final]
    <2>2. m \in Nat /\ m \in 0..m /\ m + 1 \in 1..n
      OBVIOUS
    <2>3. f[m] \in T
      BY <2>2
    <2>4. final \in T
      BY <2>2, <2>3
    <2>5. f[0] = first /\ \A i \in 1..m : f[i] = round[i][f[i - 1]]
      BY <2>1
    <2>6. final = round[m + 1][f[m]]
      OBVIOUS
    <2> HIDE DEF final
    <2>7. \A i \in 0..m + 1 : g[i] = IF i <= m THEN f[i] ELSE final
      OBVIOUS
    <2>8. \A i \in 0..m : i \in 0..m + 1 /\ i <= m /\ g[i] = f[i]
      BY <2>2, <2>7
    <2>9. g[m + 1] = final
      BY <2>2, <2>7
    <2>10. g \in [0..m + 1 -> T]
      <3>1. \A i \in 0..m + 1 : (IF i <= m THEN f[i] ELSE final) \in T
        BY <2>2, <2>4
      <3> QED
        BY <3>1
    <2> HIDE DEF g
    <2>11. g[0] = first
      <3>1. 0 \in 0..m
        BY <2>2
      <3> QED
        BY <2>5, <2>8, <3>1
    <2>12. ASSUME NEW i \in 1..m + 1
           PROVE  g[i] = round[i][g[i - 1]]
      <3>1. CASE i <= m
        <4>1. i - 1 \in 0..m /\ i \in 0..m /\ i \in 1..m
          BY <2>2, <3>1
        <4> QED
          BY <2>5, <2>8, <4>1
      <3>2. CASE i = m + 1
        <4>1. i - 1 = m /\ m \in 0..m
          BY <2>2, <3>2
        <4> QED
          BY <2>6, <2>8, <2>9, <3>2, <4>1
      <3>3. i <= m \/ i = m + 1
        BY <2>2
      <3> QED
        BY <3>1, <3>2, <3>3
    <2>13. Loop(g, m + 1)
      BY <2>11, <2>12
    <2> HIDE DEF Loop
    <2> QED
      BY <2>10, <2>13
  <1> HIDE DEF Some
  <1>3. 0 \in S /\ \A m \in 0..n - 1 : m \in S => m + 1 \in S
    BY <1>1, <1>2
  <1>4. \A m \in 0..n : m \in S
    <2> HIDE DEF S
    <2> QED
      BY <1>3, Induct
  <1>5. Some(n)
    BY <1>4
  <1> QED
    BY <1>5 DEF Some, Loops

LEMMA LoopKeeps ==
  ASSUME NEW n \in Nat, NEW T, NEW f, f[0] \in T, \A i \in 1..n : f[i - 1] \in T => f[i] \in T
  PROVE  \A i \in 0..n : f[i] \in T
  <1> DEFINE S == {i \in 0..n : f[i] \in T}
  <1>1. 0 \in S
    OBVIOUS
  <1>2. ASSUME NEW k \in 0..n - 1, k \in S
        PROVE  k + 1 \in S
    <2>1. k + 1 \in 1..n /\ (k + 1) - 1 = k
      OBVIOUS
    <2> QED
      BY <1>2, <2>1
  <1> HIDE DEF S
  <1>3. \A k \in 0..n : k \in S
    BY <1>1, <1>2, Induct
  <1> QED
    BY <1>3 DEF S

-----------------------------------------------------------------------------
(* The ports. *)
IOs == [cw : Byte8, a : Byte8, b : Byte8, c : Byte8, ruslat : 0..1, hwColor : Byte8, brdColorIdx : 0..15,
        palette : [Color -> Byte8], reqDisplayMode : BOOLEAN, mode512 : BOOLEAN, port : Byte8, byte : Byte8,
        outTimer : Nat, paletteTimer : Nat, modeTimer : Nat]

LEMMA BitIs ==
  ASSUME NEW v \in Byte8
  PROVE  /\ BitOf(v, 0) = (v \div 1) % 2 /\ BitOf(v, 1) = (v \div 2) % 2 /\ BitOf(v, 2) = (v \div 4) % 2
         /\ BitOf(v, 3) = (v \div 8) % 2 /\ BitOf(v, 4) = (v \div 16) % 2 /\ BitOf(v, 5) = (v \div 32) % 2
         /\ BitOf(v, 6) = (v \div 64) % 2 /\ BitOf(v, 7) = (v \div 128) % 2
         /\ \A i \in 0..7 : BitOf(v, i) \in 0..1
  <1>1. /\ BitOf(v, 0) = (v \div 1) % 2 /\ BitOf(v, 1) = (v \div 2) % 2 /\ BitOf(v, 2) = (v \div 4) % 2
        /\ BitOf(v, 3) = (v \div 8) % 2 /\ BitOf(v, 4) = (v \div 16) % 2 /\ BitOf(v, 5) = (v \div 32) % 2
        /\ BitOf(v, 6) = (v \div 64) % 2 /\ BitOf(v, 7) = (v \div 128) % 2
    BY DEF BitOf, Weight
  <1>2. ASSUME NEW i \in 0..7 PROVE BitOf(v, i) \in 0..1
    <2>1. i = 0 \/ i = 1 \/ i = 2 \/ i = 3 \/ i = 4 \/ i = 5 \/ i = 6 \/ i = 7
      OBVIOUS
    <2>2. \A n \in Nat : n % 2 \in 0..1
      OBVIOUS
    <2> QED BY <1>1, <2>1, <2>2 DEF Byte8
  <1> QED BY <1>1, <1>2

(* A byte is the sum of its bits, and no other bits have that sum.         *)
SumOf(b) == b[0] + 2 * b[1] + 4 * b[2] + 8 * b[3] + 16 * b[4] + 32 * b[5] + 64 * b[6] + 128 * b[7]
LEMMA BitsOfSum ==
  ASSUME NEW b, \A i \in 0..7 : b[i] \in 0..1
  PROVE  SumOf(b) \in Byte8 /\ \A i \in 0..7 : BitOf(SumOf(b), i) = b[i]
  <1> DEFINE b0 == b[0] 
             b1 == b[1]
             b2 == b[2]
             b3 == b[3]
             b4 == b[4]
             b5 == b[5]
             b6 == b[6]
             b7 == b[7]
             v == b0 + 2 * b1 + 4 * b2 + 8 * b3 + 16 * b4 + 32 * b5 + 64 * b6 + 128 * b7
  <1>1. b0 \in 0..1 /\ b1 \in 0..1 /\ b2 \in 0..1 /\ b3 \in 0..1 /\ b4 \in 0..1 /\ b5 \in 0..1
        /\ b6 \in 0..1 /\ b7 \in 0..1
    OBVIOUS
  <1>2. SumOf(b) = v
    BY DEF SumOf
  <1> HIDE DEF b0, b1, b2, b3, b4, b5, b6, b7
  <1>3. v \in 0..255
    BY <1>1
  <1>4. /\ (v \div 1) % 2 = b0 /\ (v \div 2) % 2 = b1 /\ (v \div 4) % 2 = b2 /\ (v \div 8) % 2 = b3
        /\ (v \div 16) % 2 = b4 /\ (v \div 32) % 2 = b5 /\ (v \div 64) % 2 = b6 /\ (v \div 128) % 2 = b7
    BY <1>1
  <1> HIDE DEF v
  <1>5. v \in Byte8
    BY <1>3 DEF Byte8
  <1>6. /\ BitOf(v, 0) = b[0] /\ BitOf(v, 1) = b[1] /\ BitOf(v, 2) = b[2] /\ BitOf(v, 3) = b[3]
        /\ BitOf(v, 4) = b[4] /\ BitOf(v, 5) = b[5] /\ BitOf(v, 6) = b[6] /\ BitOf(v, 7) = b[7]
    BY <1>4, <1>5, BitIs DEF b0, b1, b2, b3, b4, b5, b6, b7
  <1>7. \A i \in 0..7 : i = 0 \/ i = 1 \/ i = 2 \/ i = 3 \/ i = 4 \/ i = 5 \/ i = 6 \/ i = 7
    OBVIOUS
  <1> QED BY <1>2, <1>5, <1>6, <1>7

LEMMA SumOfBits ==
  ASSUME NEW v \in Byte8
  PROVE  v = SumOf([i \in 0..7 |-> BitOf(v, i)])
  <1> DEFINE b == [i \in 0..7 |-> BitOf(v, i)]
  <1>1. /\ b[0] = (v \div 1) % 2 /\ b[1] = (v \div 2) % 2 /\ b[2] = (v \div 4) % 2 /\ b[3] = (v \div 8) % 2
        /\ b[4] = (v \div 16) % 2 /\ b[5] = (v \div 32) % 2 /\ b[6] = (v \div 64) % 2 /\ b[7] = (v \div 128) % 2
    BY BitIs
  <1>2. v = ((v \div 1) % 2) + 2 * ((v \div 2) % 2) + 4 * ((v \div 4) % 2) + 8 * ((v \div 8) % 2)
            + 16 * ((v \div 16) % 2) + 32 * ((v \div 32) % 2) + 64 * ((v \div 64) % 2) + 128 * ((v \div 128) % 2)
    BY DEF Byte8
  <1> HIDE DEF b
  <1>3. v = SumOf(b)
    BY <1>1, <1>2 DEF SumOf
  <1> QED BY <1>3 DEF b

LEMMA SetBitBits ==
  ASSUME NEW v \in Byte8, NEW i \in 0..7, NEW s \in 0..1
  PROVE  /\ SetBit(v, i, s) \in Byte8
         /\ \A j \in 0..7 : BitOf(SetBit(v, i, s), j) = IF j = i THEN s ELSE BitOf(v, j)
  <1> DEFINE b == [j \in 0..7 |-> BitOf(v, j)]
             d == [j \in 0..7 |-> IF j = i THEN s ELSE BitOf(v, j)]
  <1>1. \A j \in 0..7 : b[j] \in 0..1 /\ d[j] \in 0..1 /\ d[j] = IF j = i THEN s ELSE b[j]
    BY BitIs
  <1>2. v = SumOf(b)
    BY SumOfBits
  <1>3. b[i] = BitOf(v, i)
    OBVIOUS
  <1>4. \A j \in 0..7 : d[j] = IF j = i THEN s ELSE BitOf(v, j)
    OBVIOUS
  <1> HIDE DEF b, d
  <1>5. SumOf(d) = SumOf(b) + (s - b[i]) * Weight[i + 1]
    <2>1. /\ b[0] \in 0..1 /\ b[1] \in 0..1 /\ b[2] \in 0..1 /\ b[3] \in 0..1 /\ b[4] \in 0..1
          /\ b[5] \in 0..1 /\ b[6] \in 0..1 /\ b[7] \in 0..1
          /\ d[0] \in 0..1 /\ d[1] \in 0..1 /\ d[2] \in 0..1 /\ d[3] \in 0..1 /\ d[4] \in 0..1
          /\ d[5] \in 0..1 /\ d[6] \in 0..1 /\ d[7] \in 0..1
      BY <1>1
    <2>2. i = 0 \/ i = 1 \/ i = 2 \/ i = 3 \/ i = 4 \/ i = 5 \/ i = 6 \/ i = 7
      OBVIOUS
    <2>3. /\ d[0] = IF 0 = i THEN s ELSE b[0]
          /\ d[1] = IF 1 = i THEN s ELSE b[1]
          /\ d[2] = IF 2 = i THEN s ELSE b[2]
          /\ d[3] = IF 3 = i THEN s ELSE b[3]
          /\ d[4] = IF 4 = i THEN s ELSE b[4]
          /\ d[5] = IF 5 = i THEN s ELSE b[5]
          /\ d[6] = IF 6 = i THEN s ELSE b[6]
          /\ d[7] = IF 7 = i THEN s ELSE b[7]
      BY <1>1
    <2>4. /\ Weight[0 + 1] = 1 /\ Weight[1 + 1] = 2 /\ Weight[2 + 1] = 4 /\ Weight[3 + 1] = 8
          /\ Weight[4 + 1] = 16 /\ Weight[5 + 1] = 32 /\ Weight[6 + 1] = 64 /\ Weight[7 + 1] = 128
      BY DEF Weight
    <2> DEFINE more == (s - b[i]) * Weight[i + 1]
               e0 == b[0]
               e1 == b[1]
               e2 == b[2]
               e3 == b[3]
               e4 == b[4]
               e5 == b[5]
               e6 == b[6]
               e7 == b[7]
    <2> SUFFICES SumOf(d) = SumOf(b) + more
      OBVIOUS
    <2>5. /\ e0 \in 0..1 /\ e1 \in 0..1 /\ e2 \in 0..1 /\ e3 \in 0..1 /\ e4 \in 0..1
          /\ e5 \in 0..1 /\ e6 \in 0..1 /\ e7 \in 0..1
      BY <2>1
    <2>6. SumOf(b) = e0 + 2 * e1 + 4 * e2 + 8 * e3 + 16 * e4 + 32 * e5 + 64 * e6 + 128 * e7
      BY DEF SumOf
    <2>7. CASE i = 0
      <3>1. more = 1 * (s - e0)
        BY <2>1, <2>4, <2>7
      <3>2. SumOf(d) = s + 2 * e1 + 4 * e2 + 8 * e3 + 16 * e4 + 32 * e5 + 64 * e6 + 128 * e7
        BY <2>3, <2>7 DEF SumOf
      <3> HIDE DEF more, e0, e1, e2, e3, e4, e5, e6, e7
      <3> QED BY <2>5, <2>6, <3>1, <3>2
    <2>8. CASE i = 1
      <3>1. more = 2 * (s - e1)
        BY <2>1, <2>4, <2>8
      <3>2. SumOf(d) = e0 + 2 * s + 4 * e2 + 8 * e3 + 16 * e4 + 32 * e5 + 64 * e6 + 128 * e7
        BY <2>3, <2>8 DEF SumOf
      <3> HIDE DEF more, e0, e1, e2, e3, e4, e5, e6, e7
      <3> QED BY <2>5, <2>6, <3>1, <3>2
    <2>9. CASE i = 2
      <3>1. more = 4 * (s - e2)
        BY <2>1, <2>4, <2>9
      <3>2. SumOf(d) = e0 + 2 * e1 + 4 * s + 8 * e3 + 16 * e4 + 32 * e5 + 64 * e6 + 128 * e7
        BY <2>3, <2>9 DEF SumOf
      <3> HIDE DEF more, e0, e1, e2, e3, e4, e5, e6, e7
      <3> QED BY <2>5, <2>6, <3>1, <3>2
    <2>10. CASE i = 3
      <3>1. more = 8 * (s - e3)
        BY <2>1, <2>4, <2>10
      <3>2. SumOf(d) = e0 + 2 * e1 + 4 * e2 + 8 * s + 16 * e4 + 32 * e5 + 64 * e6 + 128 * e7
        BY <2>3, <2>10 DEF SumOf
      <3> HIDE DEF more, e0, e1, e2, e3, e4, e5, e6, e7
      <3> QED BY <2>5, <2>6, <3>1, <3>2
    <2>11. CASE i = 4
      <3>1. more = 16 * (s - e4)
        BY <2>1, <2>4, <2>11
      <3>2. SumOf(d) = e0 + 2 * e1 + 4 * e2 + 8 * e3 + 16 * s + 32 * e5 + 64 * e6 + 128 * e7
        BY <2>3, <2>11 DEF SumOf
      <3> HIDE DEF more, e0, e1, e2, e3, e4, e5, e6, e7
      <3> QED BY <2>5, <2>6, <3>1, <3>2
    <2>12. CASE i = 5
      <3>1. more = 32 * (s - e5)
        BY <2>1, <2>4, <2>12
      <3>2. SumOf(d) = e0 + 2 * e1 + 4 * e2 + 8 * e3 + 16 * e4 + 32 * s + 64 * e6 + 128 * e7
        BY <2>3, <2>12 DEF SumOf
      <3> HIDE DEF more, e0, e1, e2, e3, e4, e5, e6, e7
      <3> QED BY <2>5, <2>6, <3>1, <3>2
    <2>13. CASE i = 6
      <3>1. more = 64 * (s - e6)
        BY <2>1, <2>4, <2>13
      <3>2. SumOf(d) = e0 + 2 * e1 + 4 * e2 + 8 * e3 + 16 * e4 + 32 * e5 + 64 * s + 128 * e7
        BY <2>3, <2>13 DEF SumOf
      <3> HIDE DEF more, e0, e1, e2, e3, e4, e5, e6, e7
      <3> QED BY <2>5, <2>6, <3>1, <3>2
    <2>14. CASE i = 7
      <3>1. more = 128 * (s - e7)
        BY <2>1, <2>4, <2>14
      <3>2. SumOf(d) = e0 + 2 * e1 + 4 * e2 + 8 * e3 + 16 * e4 + 32 * e5 + 64 * e6 + 128 * s
        BY <2>3, <2>14 DEF SumOf
      <3> HIDE DEF more, e0, e1, e2, e3, e4, e5, e6, e7
      <3> QED BY <2>5, <2>6, <3>1, <3>2
    <2> QED BY <2>2, <2>7, <2>8, <2>9, <2>10, <2>11, <2>12, <2>13, <2>14
  <1>6. SetBit(v, i, s) = SumOf(d)
    BY <1>2, <1>3, <1>5 DEF SetBit
  <1> QED BY <1>1, <1>4, <1>6, BitsOfSum

LEMMA ByteHalves ==
  ASSUME NEW v \in Byte8
  PROVE  (v \div 2) % 8 \in 0..7 /\ v % 2 \in 0..1 /\ v % 16 \in 0..15
  BY DEF Byte8

Handled(i, port, v) ==
  /\ port = 0 /\ v < 128 =>
       PortOutHandling(i, port, v) = [RusLat(i) EXCEPT !.c = SetBit(@, (v \div 2) % 8, v % 2)]
  /\ port = 0 /\ v >= 128 =>
       PortOutHandling(i, port, v) = [PortB(PortC([RusLat(i) EXCEPT !.cw = v], 0), 0) EXCEPT !.a = 0]
  /\ port = 1 => PortOutHandling(i, port, v) = PortC(i, v)
  /\ port = 2 => PortOutHandling(i, port, v) = PortB(i, v)
  /\ port = 3 => PortOutHandling(i, port, v) = [i EXCEPT !.a = v]
  /\ port \notin 0..3 => PortOutHandling(i, port, v) \in {[i EXCEPT !.hwColor = v], i}
LEMMA HandlingIs ==
  ASSUME NEW i, NEW port, NEW v \in Byte8
  PROVE  Handled(i, port, v)
  <1> DEFINE A == port = 0 /\ v < 128
             B == port = 0 /\ v >= 128
             r1 == [RusLat(i) EXCEPT !.c = SetBit(@, (v \div 2) % 8, v % 2)]
             r2 == [PortB(PortC([RusLat(i) EXCEPT !.cw = v], 0), 0) EXCEPT !.a = 0]
             r3 == PortC(i, v)
             r4 == PortB(i, v)
             r5 == [i EXCEPT !.a = v]
             r6 == [i EXCEPT !.hwColor = v]
             r == PortOutHandling(i, port, v)
  <1>1. r = CASE A -> r1 [] B -> r2 [] port = 1 -> r3 [] port = 2 -> r4 [] port = 3 -> r5
              [] port \in PaletteOut -> r6 [] OTHER -> i
    BY Zenon DEF PortOutHandling
  <1>2. A => ~B /\ port = 0
    BY DEF Byte8
  <1>3. B => ~A /\ port = 0
    BY DEF Byte8
  <1>4. port # 0 => ~A /\ ~B
    OBVIOUS
  <1>5. port \in PaletteOut => port \notin 0..3
    BY DEF PaletteOut
  <1> HIDE DEF A, B, r1, r2, r3, r4, r5, r6, r
  <1>6. A => r = r1
    BY <1>1, <1>2, <1>5
  <1>7. B => r = r2
    BY <1>1, <1>3, <1>5
  <1>8. (port = 1 => r = r3) /\ (port = 2 => r = r4) /\ (port = 3 => r = r5)
    BY <1>1, <1>4, <1>5
  <1>9. port \notin 0..3 => r \in {r6, i}
    BY <1>1, <1>4
  <1> QED BY <1>6, <1>7, <1>8, <1>9 DEF A, B, r1, r2, r3, r4, r5, r6, r, Handled

LEMMA HandlingTyped ==
  ASSUME NEW i \in IOs, NEW port, NEW v \in Byte8
  PROVE  PortOutHandling(i, port, v) \in IOs
  <1>0. Handled(i, port, v)
    BY HandlingIs
  <1>1. RusLat(i) \in IOs /\ RusLat(i).c = i.c
    <2>1. BitOf(i.c, 3) \in 0..1
      BY BitIs DEF IOs
    <2> QED BY <2>1 DEF RusLat, IOs
  <1>2. ASSUME NEW x \in IOs, NEW w \in Byte8 PROVE PortB(x, w) \in IOs /\ PortC(x, w) \in IOs
    <2>1. w % 16 \in 0..15 /\ (BitOf(w, 4) = 1) \in BOOLEAN /\ BitOf(x.c, 3) \in 0..1
      BY ByteHalves, BitIs DEF IOs
    <2>2. PortB(x, w) \in IOs
      BY <2>1 DEF PortB, IOs
    <2>3. PortC(x, w) \in IOs
      BY <2>1 DEF PortC, RusLat, IOs
    <2> QED BY <2>2, <2>3
  <1>3. CASE port = 0 /\ v < 128
    <2>1. SetBit(i.c, (v \div 2) % 8, v % 2) \in Byte8
      <3>1. i.c \in Byte8
        BY DEF IOs
      <3> QED BY <3>1, ByteHalves, SetBitBits
    <2> DEFINE x == RusLat(i)
               w == SetBit(x.c, (v \div 2) % 8, v % 2)
    <2>2. PortOutHandling(i, port, v) = [x EXCEPT !.c = w]
      BY <1>3, <1>0, Zenon DEF Handled
    <2> HIDE DEF x, w
    <2>3. [x EXCEPT !.c = w] \in IOs
      BY <1>1, <2>1 DEF IOs, x, w
    <2> QED BY <2>2, <2>3
  <1>4. CASE port = 0 /\ v >= 128
    <2> DEFINE x == [RusLat(i) EXCEPT !.cw = v]
               y == PortC(x, 0)
               z == PortB(y, 0)
    <2>1. x \in IOs
      BY <1>1 DEF IOs
    <2>2. 0 \in Byte8
      BY DEF Byte8
    <2> HIDE DEF x
    <2>3. y \in IOs
      BY <1>2, <2>1, <2>2
    <2> HIDE DEF y
    <2>4. z \in IOs
      BY <1>2, <2>2, <2>3
    <2>5. PortOutHandling(i, port, v) = [z EXCEPT !.a = 0]
      BY <1>4, <1>0, Zenon DEF Handled, x, y
    <2> HIDE DEF z
    <2> QED BY <2>2, <2>4, <2>5 DEF IOs
  <1>5. CASE port # 0
    <2>1. [i EXCEPT !.a = v] \in IOs /\ [i EXCEPT !.hwColor = v] \in IOs
      BY DEF IOs
    <2>2. PortB(i, v) \in IOs /\ PortC(i, v) \in IOs
      BY <1>2
    <2>3. port = 1 \/ port = 2 \/ port = 3 \/ port \notin 0..3
      BY <1>5
    <2>4. /\ port = 1 => PortOutHandling(i, port, v) = PortC(i, v)
          /\ port = 2 => PortOutHandling(i, port, v) = PortB(i, v)
          /\ port = 3 => PortOutHandling(i, port, v) = [i EXCEPT !.a = v]
          /\ port \notin 0..3 => PortOutHandling(i, port, v) \in {[i EXCEPT !.hwColor = v], i}
      BY <1>0, Zenon DEF Handled
    <2> QED BY <2>1, <2>2, <2>3, <2>4
  <1>6. v < 128 \/ v >= 128
    BY DEF Byte8
  <1> QED BY <1>3, <1>4, <1>5, <1>6

LEMMA HandlingLeaves ==
  ASSUME NEW i \in IOs, NEW port, NEW v \in Byte8
  PROVE  LET out == PortOutHandling(i, port, v)
         IN  /\ out.port = i.port /\ out.byte = i.byte /\ out.outTimer = i.outTimer
             /\ out.paletteTimer = i.paletteTimer /\ out.modeTimer = i.modeTimer
  <1> DEFINE AsBefore(o) == /\ o.port = i.port /\ o.byte = i.byte /\ o.outTimer = i.outTimer
                        /\ o.paletteTimer = i.paletteTimer /\ o.modeTimer = i.modeTimer
             out == PortOutHandling(i, port, v)
  <1>0. Handled(i, port, v)
    BY HandlingIs
  <1>1. /\ port = 0 /\ v < 128 => out = [RusLat(i) EXCEPT !.c = SetBit(@, (v \div 2) % 8, v % 2)]
        /\ port = 0 /\ v >= 128 => out = [PortB(PortC([RusLat(i) EXCEPT !.cw = v], 0), 0) EXCEPT !.a = 0]
        /\ port = 1 => out = PortC(i, v)
        /\ port = 2 => out = PortB(i, v)
        /\ port = 3 => out = [i EXCEPT !.a = v]
        /\ port \notin 0..3 => out \in {[i EXCEPT !.hwColor = v], i}
    BY <1>0, Zenon DEF Handled
  <1> HIDE DEF out
  <1>2. CASE port = 0 /\ v < 128
    <2> DEFINE w == SetBit(RusLat(i).c, (v \div 2) % 8, v % 2)
    <2>1. out = [RusLat(i) EXCEPT !.c = w]
      BY <1>1, <1>2
    <2> HIDE DEF w
    <2> QED BY <2>1 DEF RusLat, IOs, out
  <1>3. CASE port = 0 /\ v >= 128
    <2>1. out = [PortB(PortC([RusLat(i) EXCEPT !.cw = v], 0), 0) EXCEPT !.a = 0]
      BY <1>1, <1>3
    <2> DEFINE x == [RusLat(i) EXCEPT !.cw = v]
               y == PortC(x, 0)
               z == PortB(y, 0)
    <2>2. AsBefore(x) /\ x = [x EXCEPT !.cw = v]
      BY DEF RusLat, IOs
    <2>3. AsBefore(y)
      <3> HIDE DEF x
      <3> QED BY <2>2 DEF PortC, RusLat
    <2>4. AsBefore(z)
      <3> HIDE DEF y
      <3> QED BY <2>3 DEF PortB
    <2>5. AsBefore([z EXCEPT !.a = 0])
      <3> HIDE DEF z
      <3> QED BY <2>4
    <2> QED BY <2>1, <2>5 DEF out
  <1>4. CASE port # 0
    <2>1. port = 1 \/ port = 2 \/ port = 3 \/ port \notin 0..3
      BY <1>4
    <2>2. AsBefore(PortC(i, v)) /\ AsBefore(PortB(i, v)) /\ AsBefore([i EXCEPT !.a = v]) /\ AsBefore([i EXCEPT !.hwColor = v])
      BY DEF PortC, PortB, RusLat, IOs
    <2> QED BY <1>1, <2>1, <2>2 DEF out
  <1>5. v < 128 \/ v >= 128
    BY DEF Byte8
  <1> QED BY <1>2, <1>3, <1>4, <1>5

(* The latches an OUT sets. *)
LatchBytes(i) == <<i.cw, i.a, i.b, i.c>>
LEMMA OutLatches ==
  ASSUME NEW i \in IOs, NEW port \in 0..3, NEW v \in Byte8
  PROVE  LatchBytes(PortOutHandling(i, port, v)) =
           CASE port = 0 /\ v < 128 -> <<i.cw, i.a, i.b, SetBit(i.c, (v \div 2) % 8, v % 2)>>
             [] port = 0 /\ v >= 128 -> <<v, 0, 0, 0>>
             [] port = 1 -> <<i.cw, i.a, i.b, v>>
             [] port = 2 -> <<i.cw, i.a, v, i.c>>
             [] port = 3 -> <<i.cw, v, i.b, i.c>>
  <1> DEFINE o == PortOutHandling(i, port, v)
             x == RusLat(i)
  <1>0. Handled(i, port, v)
    BY HandlingIs
  <1>1. x \in IOs /\ x.c = i.c /\ x.cw = i.cw /\ x.a = i.a /\ x.b = i.b
    <2>1. BitOf(i.c, 3) \in 0..1
      BY BitIs DEF IOs
    <2> QED BY <2>1 DEF RusLat, IOs
  <1>2. CASE port = 0 /\ v < 128
    <2> DEFINE w == SetBit(x.c, (v \div 2) % 8, v % 2)
    <2>1. o = [x EXCEPT !.c = w]
      BY <1>2, <1>0, Zenon DEF Handled
    <2> HIDE DEF x, w, o
    <2>2. LatchBytes(o) = <<i.cw, i.a, i.b, w>>
      BY <1>1, <2>1 DEF LatchBytes, IOs
    <2>3. w = SetBit(i.c, (v \div 2) % 8, v % 2)
      BY <1>1 DEF w
    <2>4. ~(v >= 128) /\ ~(port = 1) /\ ~(port = 2) /\ ~(port = 3)
      BY <1>2 DEF Byte8
    <2> QED BY <1>2, <2>2, <2>3, <2>4, Zenon DEF o
  <1>3. CASE port = 0 /\ v >= 128
    <2> DEFINE y == [x EXCEPT !.cw = v]
               z == PortB(PortC(y, 0), 0)
    <2>1. o = [z EXCEPT !.a = 0]
      BY <1>3, <1>0, Zenon DEF Handled
    <2>2. y \in IOs /\ y.cw = v
      BY <1>1 DEF IOs
    <2> HIDE DEF x, y
    <2>3. PortC(y, 0) = [[y EXCEPT !.ruslat = BitOf(y.c, 3)] EXCEPT !.c = 0]
      BY DEF PortC, RusLat
    <2>4. z.cw = v /\ z.b = 0 /\ z.c = 0 /\ [z EXCEPT !.a = 0].a = 0 /\ [z EXCEPT !.a = 0].cw = v
          /\ [z EXCEPT !.a = 0].b = 0 /\ [z EXCEPT !.a = 0].c = 0
      BY <2>2, <2>3 DEF PortB, IOs
    <2> HIDE DEF z, o
    <2>5. LatchBytes(o) = <<v, 0, 0, 0>>
      BY <2>1, <2>4 DEF LatchBytes
    <2>6. ~(v < 128)
      BY <1>3 DEF Byte8
    <2> QED BY <1>3, <2>5, <2>6 DEF o
  <1>4. CASE port = 1
    <2>1. o = PortC(i, v)
      BY <1>4, <1>0, Zenon DEF Handled
    <2> HIDE DEF o
    <2>2. LatchBytes(o) = <<i.cw, i.a, i.b, v>>
      BY <2>1 DEF LatchBytes, PortC, RusLat, IOs
    <2> QED BY <1>4, <2>2 DEF o
  <1>5. CASE port = 2
    <2>1. o = PortB(i, v)
      BY <1>5, <1>0, Zenon DEF Handled
    <2> HIDE DEF o
    <2>2. LatchBytes(o) = <<i.cw, i.a, v, i.c>>
      BY <2>1 DEF LatchBytes, PortB, IOs
    <2> QED BY <1>5, <2>2 DEF o
  <1>6. CASE port = 3
    <2>1. o = [i EXCEPT !.a = v]
      BY <1>6, <1>0, Zenon DEF Handled
    <2> HIDE DEF o
    <2>2. LatchBytes(o) = <<i.cw, v, i.b, i.c>>
      BY <2>1 DEF LatchBytes, IOs
    <2> QED BY <1>6, <2>2 DEF o
  <1>7. port = 0 => v < 128 \/ v >= 128
    BY DEF Byte8
  <1> QED BY <1>2, <1>3, <1>4, <1>5, <1>6, <1>7

(* One pixel of port handling: the timers go on, an OUT that is due        *)
(* happens.                                                                *)
LEMMA TryDoes ==
  ASSUME NEW i \in IOs, NEW x
  PROVE  LET t == TryToCommit(i, x)
             out == IF i.outTimer = 1 THEN PortOutHandling(i, i.port, i.byte) ELSE i
         IN  /\ t \in IOs /\ t.port = i.port /\ t.byte = i.byte /\ t.outTimer = Tick(i.outTimer)
             /\ t.paletteTimer = Tick(i.paletteTimer) /\ t.modeTimer = Tick(i.modeTimer)
             /\ LatchBytes(t) = LatchBytes(out)
  <1> DEFINE t == TryToCommit(i, x)
             out == IF i.outTimer = 1 THEN PortOutHandling(i, i.port, i.byte) ELSE i
             palette == IF i.paletteTimer = 1 THEN [out.palette EXCEPT ![x] = out.hwColor] ELSE out.palette
             mode == IF i.modeTimer = 1 THEN out.reqDisplayMode ELSE out.mode512
  <1>1. out \in IOs
    BY HandlingTyped DEF IOs
  <1>2. out.port = i.port /\ out.byte = i.byte /\ out.outTimer = i.outTimer
        /\ out.paletteTimer = i.paletteTimer /\ out.modeTimer = i.modeTimer
    <2>1. CASE i.outTimer = 1
      <3>1. out = PortOutHandling(i, i.port, i.byte) /\ i.byte \in Byte8
        BY <2>1 DEF IOs
      <3> HIDE DEF out
      <3> QED BY <3>1, HandlingLeaves
    <2>2. CASE i.outTimer # 1
      BY <2>2
    <2> QED BY <2>1, <2>2
  <1>3. t = [out EXCEPT !.outTimer = Tick(out.outTimer), !.paletteTimer = Tick(out.paletteTimer),
                        !.modeTimer = Tick(out.modeTimer), !.palette = palette, !.mode512 = mode]
    BY Zenon DEF TryToCommit
  <1> HIDE DEF t, out
  <1>4. palette \in [Color -> Byte8] /\ mode \in BOOLEAN
    BY <1>1 DEF IOs
  <1>5. Tick(out.outTimer) \in Nat /\ Tick(out.paletteTimer) \in Nat /\ Tick(out.modeTimer) \in Nat
    BY <1>1 DEF IOs, Tick
  <1> HIDE DEF palette, mode
  <1>6. t \in IOs /\ t.port = out.port /\ t.byte = out.byte /\ t.outTimer = Tick(out.outTimer)
        /\ t.paletteTimer = Tick(out.paletteTimer) /\ t.modeTimer = Tick(out.modeTimer)
        /\ LatchBytes(t) = LatchBytes(out)
    BY <1>1, <1>3, <1>4, <1>5 DEF IOs, LatchBytes
  <1> QED BY <1>2, <1>6 DEF t, out

LEMMA SameLatches ==
  ASSUME NEW i \in IOs, NEW j \in IOs, LatchBytes(i) = LatchBytes(j), NEW port, NEW v \in Byte8
  PROVE  LatchBytes(PortOutHandling(i, port, v)) = LatchBytes(PortOutHandling(j, port, v))
  <1>1. i.cw = j.cw /\ i.a = j.a /\ i.b = j.b /\ i.c = j.c
    BY DEF LatchBytes
  <1>2. CASE port \in 0..3
    BY <1>1, <1>2, OutLatches
  <1>3. CASE port \notin 0..3
    <2>1. ASSUME NEW x \in IOs
          PROVE  LatchBytes(PortOutHandling(x, port, v)) = LatchBytes(x)
      <3>1. Handled(x, port, v)
        BY HandlingIs
      <3>2. PortOutHandling(x, port, v) \in {[x EXCEPT !.hwColor = v], x}
        BY <1>3, <3>1, Zenon DEF Handled
      <3> QED BY <3>2 DEF LatchBytes, IOs
    <2> QED BY <2>1
  <1> QED BY <1>2, <1>3

(* An OUT has happened when the timers have run down.                      *)
LEMMA CommittedDoes ==
  ASSUME NEW i \in IOs, i.outTimer = OutCommitTime
  PROVE  Committed(i) \in IOs /\ LatchBytes(Committed(i)) = LatchBytes(PortOutHandling(i, i.port, i.byte))
  <1> DEFINE n == DisplayModeTime
             T == IOs
             Round(g) == TryToCommit(g, g.brdColorIdx)
             Eq(f) == f = [m \in 0..n |-> IF m = 0 THEN i ELSE TryToCommit(f[m - 1], f[m - 1].brdColorIdx)]
             after == CHOOSE f : Eq(f)
             round == [m \in 1..n |-> [g \in T |-> Round(g)]]
             done == LatchBytes(PortOutHandling(i, i.port, i.byte))
  <1>0. n \in Nat /\ OutCommitTime \in Nat /\ OutCommitTime > 0 /\ i.byte \in Byte8
    BY IOAssumption DEF IOs
  <1>1. Committed(i) = after[n]
    BY Zenon DEF Committed
  <1> HIDE DEF n
  <1>2. \A g \in T : Round(g) \in T
    BY TryDoes
  <1>3. Eq(after)
    <2>1. \A m \in 1..n, g \in T : round[m][g] = Round(g)
      <3> HIDE DEF Round, T
      <3> QED OBVIOUS
    <2>2. round \in [1..n -> [T -> T]]
      <3> HIDE DEF Round, T
      <3> QED BY <1>2
    <2> HIDE DEF T, round
    <2>3. Loops(n, T, i, round)
      <3>1. i \in T
        BY DEF T
      <3> QED BY <1>0, <2>2, <3>1, LoopExists
    <2>4. PICK f \in [0..n -> T] : f[0] = i /\ \A m \in 1..n : f[m] = round[m][f[m - 1]]
      BY <2>3, Zenon DEF Loops
    <2> DEFINE Value(m) == IF m = 0 THEN i ELSE TryToCommit(f[m - 1], f[m - 1].brdColorIdx)
    <2>5. ASSUME NEW m \in 0..n PROVE f[m] = Value(m)
      <3>1. CASE m = 0
        BY <2>4, <3>1
      <3>2. CASE m # 0
        <4>1. m \in 1..n /\ m - 1 \in 0..n
          BY <1>0, <3>2
        <4>2. f[m - 1] \in T
          BY <2>4, <4>1
        <4>3. f[m] = Round(f[m - 1])
          BY <2>1, <2>4, <4>1, <4>2
        <4> QED BY <3>2, <4>3
      <3> QED BY <3>1, <3>2
    <2>6. f = [m \in 0..n |-> Value(m)]
      <3> HIDE DEF Value
      <3> QED BY <2>4, <2>5
    <2>7. Eq(f)
      BY <2>6, Zenon
    <2> HIDE DEF Eq
    <2>8. Eq(CHOOSE g : Eq(g))
      BY <2>7, Zenon
    <2> QED BY <2>8, Zenon
  <1>4. after[0] = i /\ \A m \in 1..n : after[m] = Round(after[m - 1])
    <2> HIDE DEF after
    <2>1. \A m \in 0..n : after[m] = IF m = 0 THEN i ELSE TryToCommit(after[m - 1], after[m - 1].brdColorIdx)
      BY <1>3, Zenon
    <2>2. 0 \in 0..n /\ \A m \in 1..n : m \in 0..n /\ m # 0
      BY <1>0
    <2> QED BY <2>1, <2>2
  <1> DEFINE On(g, m) == /\ g \in IOs /\ g.port = i.port /\ g.byte = i.byte
                         /\ IF m < OutCommitTime THEN g.outTimer = OutCommitTime - m /\ LatchBytes(g) = LatchBytes(i)
                            ELSE g.outTimer = 0 /\ LatchBytes(g) = done
             S == {m \in 0..n : On(after[m], m)}
  <1> HIDE DEF after, done
  <1>5. 0 \in S
    BY <1>0, <1>4
  <1>6. ASSUME NEW m \in 0..n - 1, m \in S PROVE m + 1 \in S
    <2> DEFINE g == after[m]
               h == after[m + 1]
    <2>1. m + 1 \in 1..n /\ m + 1 \in 0..n /\ (m + 1) - 1 = m /\ m \in Nat
      BY <1>0
    <2>2. h = TryToCommit(g, g.brdColorIdx)
      BY <1>4, <2>1
    <2>3. On(g, m)
      BY <1>6
    <2> HIDE DEF g, h
    <2> DEFINE out == IF g.outTimer = 1 THEN PortOutHandling(g, g.port, g.byte) ELSE g
    <2>4. /\ h \in IOs /\ h.port = g.port /\ h.byte = g.byte /\ h.outTimer = Tick(g.outTimer)
          /\ LatchBytes(h) = LatchBytes(out)
      BY <2>2, <2>3, TryDoes
    <2>5. On(h, m + 1)
      <3>1. CASE m >= OutCommitTime
        <4>1. g.outTimer = 0 /\ LatchBytes(g) = done /\ ~(m + 1 < OutCommitTime)
          BY <1>0, <2>1, <2>3, <3>1
        <4> QED BY <2>3, <2>4, <4>1 DEF Tick
      <3>2. CASE m < OutCommitTime - 1
        <4>1. g.outTimer = OutCommitTime - m /\ LatchBytes(g) = LatchBytes(i) /\ m + 1 < OutCommitTime
          BY <1>0, <2>1, <2>3, <3>2
        <4>2. g.outTimer # 1 /\ Tick(g.outTimer) = OutCommitTime - (m + 1)
          BY <1>0, <2>1, <3>2, <4>1 DEF Tick
        <4> QED BY <2>3, <2>4, <4>1, <4>2
      <3>3. CASE m = OutCommitTime - 1
        <4>1. g.outTimer = 1 /\ LatchBytes(g) = LatchBytes(i) /\ ~(m + 1 < OutCommitTime) /\ Tick(g.outTimer) = 0
          BY <1>0, <2>1, <2>3, <3>3 DEF Tick
        <4>2. LatchBytes(out) = done
          <5>1. LatchBytes(PortOutHandling(g, i.port, i.byte)) = LatchBytes(PortOutHandling(i, i.port, i.byte))
            BY <1>0, <2>3, <4>1, SameLatches
          <5> QED BY <2>3, <4>1, <5>1 DEF done
        <4> QED BY <2>3, <2>4, <4>1, <4>2
      <3> QED BY <1>0, <2>1, <3>1, <3>2, <3>3
    <2> QED BY <2>1, <2>5 DEF h
  <1> HIDE DEF S
  <1>7. n \in S
    <2>1. \A m \in 0..n : m \in S
      BY <1>0, <1>5, <1>6, Induct
    <2> QED BY <1>0, <2>1
  <1>8. On(after[n], n) /\ ~(n < OutCommitTime)
    <2>1. OutCommitTime <= n
      BY IOAssumption DEF n
    <2> QED BY <1>0, <1>7, <2>1 DEF S
  <1> QED BY <1>1, <1>8 DEF done

(* The columns the pressed keys of the selected rows pull down are those   *)
(* that read as zeros.                                                     *)
LEMMA RowsRead ==
  ASSUME NEW k, NEW rows
  PROVE  LET low == {p[2] : p \in {q \in k.pressed : BitOf(rows, q[1]) = 0}}
         IN  /\ ReadRows(k, rows) \in Byte8
             /\ \A i \in 0..7 : BitOf(ReadRows(k, rows), i) = IF i \in low THEN 0 ELSE 1
  <1> DEFINE low == {p[2] : p \in {q \in k.pressed : BitOf(rows, q[1]) = 0}}
             n == 8
             T == Nat
             Eq(f) == f = [i \in 0..8 |-> IF i = 0 THEN 0 ELSE f[i - 1] + (IF i - 1 \in low THEN 0 ELSE Weight[i])]
             sum == CHOOSE f : Eq(f)
             round == [i \in 1..8 |-> [g \in T |-> g + (IF i - 1 \in low THEN 0 ELSE Weight[i])]]
             b == [i \in 0..7 |-> IF i \in low THEN 0 ELSE 1]
  <1>1. ReadRows(k, rows) = sum[8]
    BY Zenon DEF ReadRows
  <1> HIDE DEF low
  <1>2. \A i \in 1..8 : Weight[i] \in Nat
    BY DEF Weight
  <1>3. Eq(sum)
    <2>1. round \in [1..8 -> [T -> T]]
      <3>1. \A i \in 1..8, g \in T : g + (IF i - 1 \in low THEN 0 ELSE Weight[i]) \in T
        BY <1>2
      <3> QED BY <3>1
    <2>2. \A i \in 1..8, g \in T : round[i][g] = g + (IF i - 1 \in low THEN 0 ELSE Weight[i])
      OBVIOUS
    <2> HIDE DEF round, n
    <2>3. Loops(n, T, 0, round)
      <3>1. n \in Nat /\ 0 \in T /\ round \in [1..n -> [T -> T]]
        BY <2>1 DEF n
      <3> HIDE DEF T
      <3> QED BY <3>1, LoopExists
    <2>4. PICK f \in [0..n -> T] : f[0] = 0 /\ \A i \in 1..n : f[i] = round[i][f[i - 1]]
      BY <2>3, Zenon DEF Loops
    <2> DEFINE Value(i) == IF i = 0 THEN 0 ELSE f[i - 1] + (IF i - 1 \in low THEN 0 ELSE Weight[i])
    <2>5. ASSUME NEW i \in 0..8 PROVE f[i] = Value(i)
      <3>1. CASE i = 0
        BY <2>4, <3>1
      <3>2. CASE i # 0
        <4>1. i \in 1..8 /\ i - 1 \in 0..8 /\ n = 8
          BY <3>2 DEF n
        <4>2. f[i - 1] \in T
          BY <2>4, <4>1
        <4>3. f[i] = f[i - 1] + (IF i - 1 \in low THEN 0 ELSE Weight[i])
          BY <2>2, <2>4, <4>1, <4>2
        <4> QED BY <3>2, <4>3
      <3> QED BY <3>1, <3>2
    <2>6. f = [i \in 0..8 |-> Value(i)]
      <3> HIDE DEF Value
      <3> QED BY <2>4, <2>5 DEF n
    <2>7. Eq(f)
      BY <2>6, Zenon
    <2> HIDE DEF Eq
    <2>8. Eq(CHOOSE g : Eq(g))
      BY <2>7, Zenon
    <2> QED BY <2>8, Zenon
  <1> HIDE DEF sum
  <1>4. sum[0] = 0 /\ \A i \in 1..8 : sum[i] = sum[i - 1] + (IF i - 1 \in low THEN 0 ELSE Weight[i])
    <2>1. \A i \in 0..8 : sum[i] = IF i = 0 THEN 0 ELSE sum[i - 1] + (IF i - 1 \in low THEN 0 ELSE Weight[i])
      BY <1>3, Zenon
    <2>2. 0 \in 0..8 /\ \A i \in 1..8 : i \in 0..8 /\ i # 0
      OBVIOUS
    <2> QED BY <2>1, <2>2
  <1>5. sum[8] = SumOf(b)
    <2> DEFINE e(i) == IF i \in low THEN 0 ELSE 1
    <2>1. /\ Weight[1] = 1 /\ Weight[2] = 2 /\ Weight[3] = 4 /\ Weight[4] = 8
          /\ Weight[5] = 16 /\ Weight[6] = 32 /\ Weight[7] = 64 /\ Weight[8] = 128
      BY DEF Weight
    <2>2. \A i \in 0..7 : e(i) \in 0..1 /\ b[i] = e(i)
      OBVIOUS
    <2>3. /\ sum[1] = sum[0] + 1 * e(0) /\ sum[2] = sum[1] + 2 * e(1) /\ sum[3] = sum[2] + 4 * e(2)
          /\ sum[4] = sum[3] + 8 * e(3) /\ sum[5] = sum[4] + 16 * e(4) /\ sum[6] = sum[5] + 32 * e(5)
          /\ sum[7] = sum[6] + 64 * e(6) /\ sum[8] = sum[7] + 128 * e(7)
      BY <1>4, <2>1
    <2> HIDE DEF e, b
    <2>4. /\ e(0) \in 0..1 /\ e(1) \in 0..1 /\ e(2) \in 0..1 /\ e(3) \in 0..1
          /\ e(4) \in 0..1 /\ e(5) \in 0..1 /\ e(6) \in 0..1 /\ e(7) \in 0..1
      BY <2>2
    <2>5. sum[8] = e(0) + 2 * e(1) + 4 * e(2) + 8 * e(3) + 16 * e(4) + 32 * e(5) + 64 * e(6) + 128 * e(7)
      BY <1>4, <2>3, <2>4
    <2> QED BY <2>2, <2>5 DEF SumOf
  <1>6. \A i \in 0..7 : b[i] \in 0..1 /\ b[i] = IF i \in low THEN 0 ELSE 1
    OBVIOUS
  <1> HIDE DEF b
  <1>7. SumOf(b) \in Byte8 /\ \A i \in 0..7 : BitOf(SumOf(b), i) = IF i \in low THEN 0 ELSE 1
    BY <1>6, BitsOfSum
  <1> QED BY <1>1, <1>5, <1>7 DEF low

(* The keys beside the matrix are not in it, and each of its keys has a    *)
(* place.                                                                  *)
Beside == SSKeys \cup USKeys \cup RusKeys
LEMMA KeyPlaces ==
  ASSUME NEW key, InMatrix(key)
  PROVE  key \notin Beside /\ Place(key) \in (0..7) \X (0..7)
  <1>1. CASE key = "GRAVE"
    BY <1>1 DEF Beside, SSKeys, USKeys, RusKeys, Place
  <1>2. CASE key # "GRAVE"
    <2>1. PICK r \in 1..8, c \in 1..8 : Matrix[r][c] = key
      BY <1>2 DEF InMatrix
    <2> DEFINE PlaceOf(p) == Matrix[p[1] + 1][p[2] + 1] = key
               place == CHOOSE p \in (0..7) \X (0..7) : PlaceOf(p)
    <2>2. <<r - 1, c - 1>> \in (0..7) \X (0..7) /\ PlaceOf(<<r - 1, c - 1>>)
      <3>1. (r - 1) + 1 = r /\ (c - 1) + 1 = c
        OBVIOUS
      <3> QED BY <2>1, <3>1
    <2>3. Place(key) = place
      BY <1>2, Zenon DEF Place
    <2>4. place \in (0..7) \X (0..7)
      <3> HIDE DEF PlaceOf
      <3> QED BY <2>2, Zenon
    <2>5. key \notin Beside
      <3> DEFINE row == Matrix[r]
      <3>1. (r = 1 \/ r = 2 \/ r = 3 \/ r = 4 \/ r = 5 \/ r = 6 \/ r = 7 \/ r = 8)
            /\ (c = 1 \/ c = 2 \/ c = 3 \/ c = 4 \/ c = 5 \/ c = 6 \/ c = 7 \/ c = 8)
        OBVIOUS
      <3>2. CASE r = 1
        <4>1. row = <<"TAB", "RALT", "RETURN", "BACKSPACE", "LEFT", "UP", "RIGHT", "DOWN">>
          BY <3>2 DEF Matrix
        <4> HIDE DEF row
        <4>2. key \in {"TAB", "RALT", "RETURN", "BACKSPACE", "LEFT", "UP", "RIGHT", "DOWN"}
          <5>1. row[c] = key
            BY <2>1 DEF row
          <5> QED BY <3>1, <4>1, <5>1
        <4> QED BY <4>2 DEF Beside, SSKeys, USKeys, RusKeys
      <3>3. CASE r = 2
        <4>1. row = <<"F7", "F8", "ESCAPE", "F1", "F2", "F3", "F4", "F5">>
          BY <3>3 DEF Matrix
        <4> HIDE DEF row
        <4>2. key \in {"F7", "F8", "ESCAPE", "F1", "F2", "F3", "F4", "F5"}
          <5>1. row[c] = key
            BY <2>1 DEF row
          <5> QED BY <3>1, <4>1, <5>1
        <4> QED BY <4>2 DEF Beside, SSKeys, USKeys, RusKeys
      <3>4. CASE r = 3
        <4>1. row = <<"0", "1", "2", "3", "4", "5", "6", "7">>
          BY <3>4 DEF Matrix
        <4> HIDE DEF row
        <4>2. key \in {"0", "1", "2", "3", "4", "5", "6", "7"}
          <5>1. row[c] = key
            BY <2>1 DEF row
          <5> QED BY <3>1, <4>1, <5>1
        <4> QED BY <4>2 DEF Beside, SSKeys, USKeys, RusKeys
      <3>5. CASE r = 4
        <4>1. row = <<"8", "9", "APOSTROPHE", "SEMICOLON", "COMMA", "PLUS", "PERIOD", "SLASH">>
          BY <3>5 DEF Matrix
        <4> HIDE DEF row
        <4>2. key \in {"8", "9", "APOSTROPHE", "SEMICOLON", "COMMA", "PLUS", "PERIOD", "SLASH"}
          <5>1. row[c] = key
            BY <2>1 DEF row
          <5> QED BY <3>1, <4>1, <5>1
        <4> QED BY <4>2 DEF Beside, SSKeys, USKeys, RusKeys
      <3>6. CASE r = 5
        <4>1. row = <<"MINUS", "A", "B", "C", "D", "E", "F", "G">>
          BY <3>6 DEF Matrix
        <4> HIDE DEF row
        <4>2. key \in {"MINUS", "A", "B", "C", "D", "E", "F", "G"}
          <5>1. row[c] = key
            BY <2>1 DEF row
          <5> QED BY <3>1, <4>1, <5>1
        <4> QED BY <4>2 DEF Beside, SSKeys, USKeys, RusKeys
      <3>7. CASE r = 6
        <4>1. row = <<"H", "I", "J", "K", "L", "M", "N", "O">>
          BY <3>7 DEF Matrix
        <4> HIDE DEF row
        <4>2. key \in {"H", "I", "J", "K", "L", "M", "N", "O"}
          <5>1. row[c] = key
            BY <2>1 DEF row
          <5> QED BY <3>1, <4>1, <5>1
        <4> QED BY <4>2 DEF Beside, SSKeys, USKeys, RusKeys
      <3>8. CASE r = 7
        <4>1. row = <<"P", "Q", "R", "S", "T", "U", "V", "W">>
          BY <3>8 DEF Matrix
        <4> HIDE DEF row
        <4>2. key \in {"P", "Q", "R", "S", "T", "U", "V", "W"}
          <5>1. row[c] = key
            BY <2>1 DEF row
          <5> QED BY <3>1, <4>1, <5>1
        <4> QED BY <4>2 DEF Beside, SSKeys, USKeys, RusKeys
      <3>9. CASE r = 8
        <4>1. row = <<"X", "Y", "Z", "LBRACKET", "BACKSLASH", "RBRACKET", "NONE", "SPACE">>
          BY <3>9 DEF Matrix
        <4> HIDE DEF row
        <4>2. key \in {"X", "Y", "Z", "LBRACKET", "BACKSLASH", "RBRACKET", "NONE", "SPACE"}
          <5>1. row[c] = key
            BY <2>1 DEF row
          <5> QED BY <3>1, <4>1, <5>1
        <4> QED BY <4>2 DEF Beside, SSKeys, USKeys, RusKeys
      <3> QED BY <3>1, <3>2, <3>3, <3>4, <3>5, <3>6, <3>7, <3>8, <3>9
    <2> QED BY <2>3, <2>4, <2>5
  <1> QED BY <1>1, <1>2

(* What holds between the program, the host and the 8255. *)
KbType == [pressed : SUBSET ((0..7) \X (0..7)), ss : BOOLEAN, us : BOOLEAN, rus : BOOLEAN]
InputsAre(s, i) ==
  /\ "C low" \in s <=> BitOf(i.cw, 0) = 1
  /\ "B" \in s <=> BitOf(i.cw, 1) = 1
  /\ "C high" \in s <=> BitOf(i.cw, 3) = 1
  /\ "A" \in s <=> BitOf(i.cw, 4) = 1
LatchIs(l, i) == l = [a |-> i.a, b |-> i.b, c |-> Bits(i.c)]
KeysAre ==
  /\ kb \in KbType /\ held \subseteq Keys
  /\ kb.pressed = {Place(k) : k \in {l \in held : InMatrix(l)}}
  /\ kb.ss <=> Down(SSKeys)
  /\ kb.us <=> Down(USKeys)
  /\ kb.rus <=> Down(RusKeys)
PortsInv == pio \in IOs /\ LatchIs(latch, pio) /\ InputsAre(inputs, pio) /\ KeysAre

LEMMA BitsIs ==
  ASSUME NEW v \in Byte8
  PROVE  \A i \in 0..7 : i \in Bits(v) <=> BitOf(v, i) = 1
  BY DEF Bits

LEMMA OutTyped ==
  ASSUME NEW i \in IOs, NEW port \in 0..3, NEW v \in Byte8
  PROVE  LET o == PortOut(i, port, v)
         IN  o \in IOs /\ o.outTimer = OutCommitTime /\ o.port = port /\ o.byte = v /\ LatchBytes(o) = LatchBytes(i)
  <1>1. OutCommitTime \in Nat /\ PaletteCommitTime \in Nat /\ DisplayModeTime \in Nat /\ port \in Byte8
    BY IOAssumption DEF Byte8
  <1> DEFINE p == IF port \in PaletteOut THEN PaletteCommitTime ELSE i.paletteTimer
             m == IF port = DisplayModeOut THEN DisplayModeTime ELSE i.modeTimer
             o == PortOut(i, port, v)
  <1>2. o = [i EXCEPT !.port = port, !.byte = v, !.outTimer = OutCommitTime, !.paletteTimer = p, !.modeTimer = m]
    BY Zenon DEF PortOut
  <1>3. p \in Nat /\ m \in Nat
    BY <1>1 DEF IOs
  <1> HIDE DEF p, m, o
  <1>4. o \in IOs /\ o.outTimer = OutCommitTime /\ o.port = port /\ o.byte = v /\ LatchBytes(o) = LatchBytes(i)
    BY <1>1, <1>2, <1>3 DEF IOs, LatchBytes
  <1> QED BY <1>4 DEF o

LEMMA OutKeeps ==
  ASSUME PortsInv, NEW port \in 0..3, NEW v \in Byte8, Out(port, v)
  PROVE  PortsInv'
  <1> DEFINE o == PortOut(pio, port, v)
             n == Committed(o)
             i == pio
  <1>1. i \in IOs /\ LatchIs(latch, i) /\ InputsAre(inputs, i) /\ KeysAre
    BY DEF PortsInv
  <1>2. pio' = n /\ kb' = kb /\ held' = held
    BY Zenon DEF Out
  <1>3. KeysAre'
    BY <1>1, <1>2 DEF KeysAre, Down
  <1>4. o \in IOs /\ o.outTimer = OutCommitTime /\ o.port = port /\ o.byte = v /\ LatchBytes(o) = LatchBytes(i)
    BY <1>1, OutTyped
  <1>6. n \in IOs /\ LatchBytes(n) = LatchBytes(PortOutHandling(i, port, v))
    <2> HIDE DEF o, n, i
    <2>1. n \in IOs /\ LatchBytes(n) = LatchBytes(PortOutHandling(o, port, v))
      BY <1>4, CommittedDoes DEF n
    <2>2. LatchBytes(PortOutHandling(o, port, v)) = LatchBytes(PortOutHandling(i, port, v))
      BY <1>1, <1>4, SameLatches
    <2> QED BY <2>1, <2>2
  <1> HIDE DEF o, n
  <1>7. n.cw \in Byte8 /\ n.a \in Byte8 /\ n.b \in Byte8 /\ n.c \in Byte8
        /\ i.cw \in Byte8 /\ i.a \in Byte8 /\ i.b \in Byte8 /\ i.c \in Byte8
    BY <1>1, <1>6 DEF IOs
  <1>8. latch = [a |-> i.a, b |-> i.b, c |-> Bits(i.c)]
    BY <1>1 DEF LatchIs
  <1> DEFINE New(cw, a, b, c) == n.cw = cw /\ n.a = a /\ n.b = b /\ n.c = c
  <1> DEFINE q == (v \div 2) % 8
             one == v % 2 = 1
             R1 == [latch EXCEPT !.c = IF one THEN @ \cup {q} ELSE @ \ {q}]
             R3 == [latch EXCEPT !.c = Bits(v)]
             R4 == [latch EXCEPT !.b = v]
             R5 == [latch EXCEPT !.a = v]
  <1>10. latch' = CASE port = 0 /\ v >= 128 -> AllCleared [] port = 0 /\ v < 128 -> R1
                    [] port = 1 -> R3 [] port = 2 -> R4 [] port = 3 -> R5
    BY Zenon DEF Out
  <1>11. /\ port = 0 /\ v >= 128 => latch' = AllCleared
         /\ port = 0 /\ v < 128 => latch' = R1
         /\ port = 1 => latch' = R3
         /\ port = 2 => latch' = R4
         /\ port = 3 => latch' = R5
    <2> DEFINE A == port = 0 /\ v >= 128
               B == port = 0 /\ v < 128
               R0 == AllCleared
    <2>1. (A => port = 0) /\ (B => port = 0 /\ ~A)
      BY DEF Byte8
    <2>2. latch' = CASE A -> R0 [] B -> R1 [] port = 1 -> R3 [] port = 2 -> R4 [] port = 3 -> R5
      BY <1>10, Zenon
    <2> HIDE DEF A, B, R0, R1, R3, R4, R5
    <2>3. (A => latch' = R0) /\ (B => latch' = R1)
      BY <2>1, <2>2
    <2>4. (port = 1 => latch' = R3) /\ (port = 2 => latch' = R4) /\ (port = 3 => latch' = R5)
      BY <2>1, <2>2
    <2> QED BY <2>3, <2>4, Zenon DEF A, B, R0
  <1>12. /\ port = 0 /\ v < 128 => LatchBytes(n) = <<i.cw, i.a, i.b, SetBit(i.c, q, v % 2)>>
         /\ port = 0 /\ v >= 128 => LatchBytes(n) = <<v, 0, 0, 0>>
         /\ port = 1 => LatchBytes(n) = <<i.cw, i.a, i.b, v>>
         /\ port = 2 => LatchBytes(n) = <<i.cw, i.a, v, i.c>>
         /\ port = 3 => LatchBytes(n) = <<i.cw, v, i.b, i.c>>
    <2> DEFINE A == port = 0 /\ v >= 128
               B == port = 0 /\ v < 128
               L1 == <<i.cw, i.a, i.b, SetBit(i.c, q, v % 2)>>
               L0 == <<v, 0, 0, 0>>
               L3 == <<i.cw, i.a, i.b, v>>
               L4 == <<i.cw, i.a, v, i.c>>
               L5 == <<i.cw, v, i.b, i.c>>
               L == LatchBytes(n)
    <2>1. (A => port = 0) /\ (B => port = 0 /\ ~A)
      BY DEF Byte8
    <2>2. L = CASE B -> L1 [] A -> L0 [] port = 1 -> L3 [] port = 2 -> L4 [] port = 3 -> L5
      BY <1>1, <1>6, OutLatches, Zenon
    <2> HIDE DEF A, B, L0, L1, L3, L4, L5, L
    <2>3. (A => L = L0) /\ (B => L = L1)
      BY <2>1, <2>2
    <2>4. (port = 1 => L = L3) /\ (port = 2 => L = L4) /\ (port = 3 => L = L5)
      BY <2>1, <2>2
    <2> QED BY <2>3, <2>4, Zenon DEF A, B, L0, L1, L3, L4, L5, L
  <1>13. (port # 0 \/ v < 128) => inputs' = inputs
    BY Zenon DEF Out
  <1>9. LatchIs(latch', n) /\ InputsAre(inputs', n)
    <2> DEFINE w == SetBit(i.c, q, v % 2)
    <2>0. q \in 0..7 /\ v % 2 \in 0..1 /\ (v < 128 \/ v >= 128)
      BY ByteHalves DEF Byte8
    <2>1. CASE port = 0 /\ v < 128
      <3>1. n.cw = i.cw /\ n.a = i.a /\ n.b = i.b /\ n.c = w
        BY <1>12, <2>1 DEF LatchBytes
      <3>2. \A j \in 0..7 : BitOf(w, j) = IF j = q THEN v % 2 ELSE BitOf(i.c, j)
        <4> HIDE DEF q, i
        <4> QED BY <1>7, <2>0, SetBitBits
      <3>3. Bits(w) = IF one THEN Bits(i.c) \cup {q} ELSE Bits(i.c) \ {q}
        <4> HIDE DEF w, q, i
        <4> QED BY <2>0, <3>2 DEF Bits
      <3>4. latch' = R1
        BY <1>11, <2>1, Zenon
      <3>5. inputs' = inputs
        BY <1>13, <2>1, Zenon
      <3> HIDE DEF w, q, i, one
      <3>6. latch' = [a |-> n.a, b |-> n.b, c |-> Bits(n.c)]
        BY <1>8, <3>1, <3>3, <3>4
      <3> QED BY <1>1, <3>1, <3>5, <3>6 DEF LatchIs, InputsAre
    <2>2. CASE port = 0 /\ v >= 128
      <3>1. n.cw = v /\ n.a = 0 /\ n.b = 0 /\ n.c = 0
        BY <1>12, <2>2 DEF LatchBytes
      <3>2. latch' = AllCleared
        BY <1>11, <2>2, Zenon
      <3>3. Bits(0) = {}
        <4>1. 0 \in Byte8
          BY DEF Byte8
        <4>2. \A j \in 0..7 : BitOf(0, j) # 1
          <5>1. \A j \in 0..7 : j = 0 \/ j = 1 \/ j = 2 \/ j = 3 \/ j = 4 \/ j = 5 \/ j = 6 \/ j = 7
            OBVIOUS
          <5> QED BY <4>1, <5>1, BitIs
        <4> QED BY <4>2 DEF Bits
      <3>4. ~(port # 0 \/ v < 128)
        BY <2>2 DEF Byte8
      <3> DEFINE Half(h) == CASE h = "C low" -> 0 [] h = "B" -> 1 [] h = "C high" -> 3 [] h = "A" -> 4
      <3>5. inputs' = {h \in {"C low", "B", "C high", "A"} : Half(h) \in Bits(v)}
        BY <3>4, Zenon DEF Out
      <3>6. Half("C low") = 0 /\ Half("B") = 1 /\ Half("C high") = 3 /\ Half("A") = 4
        OBVIOUS
      <3> HIDE DEF Half
      <3>7. (0 \in Bits(v) <=> BitOf(v, 0) = 1) /\ (1 \in Bits(v) <=> BitOf(v, 1) = 1)
            /\ (3 \in Bits(v) <=> BitOf(v, 3) = 1) /\ (4 \in Bits(v) <=> BitOf(v, 4) = 1)
        BY BitsIs
      <3>8. InputsAre(inputs', n)
        BY <3>1, <3>5, <3>6, <3>7 DEF InputsAre
      <3> QED BY <3>1, <3>2, <3>3, <3>8 DEF LatchIs, AllCleared
    <2>3. CASE port # 0
      <3>1. inputs' = inputs
        BY <1>13, <2>3, Zenon
      <3>2. CASE port = 1
        <4>1. n.cw = i.cw /\ n.a = i.a /\ n.b = i.b /\ n.c = v /\ latch' = R3
          BY <1>11, <1>12, <3>2 DEF LatchBytes
        <4>2. InputsAre(inputs', n)
          BY <1>1, <3>1, <4>1, Zenon DEF InputsAre
        <4> HIDE DEF i
        <4>3. LatchIs(latch', n)
          BY <1>8, <4>1 DEF LatchIs
        <4> QED BY <4>2, <4>3
      <3>3. CASE port = 2
        <4>1. n.cw = i.cw /\ n.a = i.a /\ n.b = v /\ n.c = i.c /\ latch' = R4
          BY <1>11, <1>12, <3>3 DEF LatchBytes
        <4>2. InputsAre(inputs', n)
          BY <1>1, <3>1, <4>1, Zenon DEF InputsAre
        <4> HIDE DEF i
        <4>3. LatchIs(latch', n)
          BY <1>8, <4>1 DEF LatchIs
        <4> QED BY <4>2, <4>3
      <3>4. CASE port = 3
        <4>1. n.cw = i.cw /\ n.a = v /\ n.b = i.b /\ n.c = i.c /\ latch' = R5
          BY <1>11, <1>12, <3>4 DEF LatchBytes
        <4>2. InputsAre(inputs', n)
          BY <1>1, <3>1, <4>1, Zenon DEF InputsAre
        <4> HIDE DEF i
        <4>3. LatchIs(latch', n)
          BY <1>8, <4>1 DEF LatchIs
        <4> QED BY <4>2, <4>3
      <3> QED BY <2>3, <3>2, <3>3, <3>4
    <2> QED BY <2>0, <2>1, <2>2, <2>3
  <1> QED BY <1>2, <1>3, <1>6, <1>9 DEF PortsInv, LatchIs, InputsAre

(* What a key does to the keyboard. *)
KeyHandled(k, key, down) ==
  /\ key \in SSKeys => KeyHandling(k, key, down) = [k EXCEPT !.ss = down]
  /\ key \in USKeys => KeyHandling(k, key, down) = [k EXCEPT !.us = down]
  /\ key \in RusKeys => KeyHandling(k, key, down) = [k EXCEPT !.rus = down]
  /\ InMatrix(key) => KeyHandling(k, key, down) =
       [k EXCEPT !.pressed = IF down THEN @ \cup {Place(key)} ELSE @ \ {Place(key)}]
  /\ key \notin Beside /\ ~InMatrix(key) => KeyHandling(k, key, down) = k
LEMMA KeyHow ==
  ASSUME NEW k, NEW key, NEW down
  PROVE  KeyHandled(k, key, down)
  <1> DEFINE A == key \in SSKeys
             B == key \in USKeys
             C == key \in RusKeys
             D == InMatrix(key)
             r1 == [k EXCEPT !.ss = down]
             r2 == [k EXCEPT !.us = down]
             r3 == [k EXCEPT !.rus = down]
             r4 == [k EXCEPT !.pressed = IF down THEN @ \cup {Place(key)} ELSE @ \ {Place(key)}]
             r == KeyHandling(k, key, down)
  <1>1. r = CASE A -> r1 [] B -> r2 [] C -> r3 [] D -> r4 [] OTHER -> k
    BY Zenon DEF KeyHandling
  <1>2. (A => ~B /\ ~C) /\ (B => ~C)
    BY DEF SSKeys, USKeys, RusKeys
  <1>3. D => ~A /\ ~B /\ ~C
    BY KeyPlaces, Zenon DEF Beside
  <1>4. key \in Beside <=> A \/ B \/ C
    BY Zenon DEF Beside
  <1> HIDE DEF A, B, C, D, r1, r2, r3, r4, r
  <1>5. (A => r = r1) /\ (B => r = r2)
    BY <1>1, <1>2, <1>3
  <1>6. (C => r = r3) /\ (D => r = r4)
    BY <1>1, <1>2, <1>3
  <1>7. key \notin Beside /\ ~D => r = k
    BY <1>1, <1>4
  <1> QED BY <1>5, <1>6, <1>7, Zenon DEF A, B, C, D, r1, r2, r3, r4, r, KeyHandled

LEMMA KeyKeeps ==
  ASSUME PortsInv, NEW key \in Keys, NEW down \in BOOLEAN, Key(key, down)
  PROVE  PortsInv'
  <1>1. pio' = pio /\ latch' = latch /\ inputs' = inputs
        /\ kb' = KeyHandling(kb, key, down)
        /\ held' = IF down THEN held \cup {key} ELSE held \ {key}
    BY Zenon DEF Key
  <1>0. KeyHandled(kb, key, down)
    BY KeyHow
  <1>2. KeysAre
    BY DEF PortsInv
  <1>3. held' \subseteq Keys
    BY <1>1, <1>2 DEF KeysAre
  <1>4. \A k \in held : k \in Keys
    BY <1>2 DEF KeysAre
  <1> DEFINE AsBefore(set) == Down(set)' <=> Down(set)
             Now(set) == Down(set)' <=> down
  <1>5. ASSUME NEW set, key \notin set PROVE Down(set)' <=> Down(set)
    BY <1>1, <1>5 DEF Down
  <1>6. ASSUME NEW set, key \in set, \A k \in held : k \in set => k = key
        PROVE  Down(set)' <=> down
    BY <1>1, <1>6 DEF Down
  <1>7. /\ key \in SSKeys => \A k \in held : k \in SSKeys => k = key
        /\ key \in USKeys => \A k \in held : k \in USKeys => k = key
        /\ key \in RusKeys => \A k \in held : k \in RusKeys => k = key
    <2>1. \A k \in held : key = k \/ (~(key \in SSKeys /\ k \in SSKeys) /\ ~(key \in RusKeys /\ k \in RusKeys))
      BY <1>4, PortsAssumption
    <2>2. \A k, l \in USKeys : k = l
      BY DEF USKeys
    <2> QED BY <2>1, <2>2, Zenon
  <1> DEFINE Pressed(set) == {Place(k) : k \in {l \in set : InMatrix(l)}}
  <1>8. kb \in KbType /\ kb.pressed = Pressed(held) /\ (kb.ss <=> Down(SSKeys)) /\ (kb.us <=> Down(USKeys))
        /\ (kb.rus <=> Down(RusKeys))
    BY <1>2 DEF KeysAre
  <1>9. ~InMatrix(key) => Pressed(held') = Pressed(held)
    <2>1. ~InMatrix(key) => {l \in held' : InMatrix(l)} = {l \in held : InMatrix(l)}
      BY <1>1
    <2> QED BY <2>1, Zenon
  <1>10. KeysAre'
    <2> DEFINE New(p, s, u, r) == kb'.pressed = p /\ kb'.ss = s /\ kb'.us = u /\ kb'.rus = r /\ kb' \in KbType
    <2> HIDE DEF Pressed
    <2>1. CASE key \in SSKeys
      <3>1. kb' = [kb EXCEPT !.ss = down]
        BY <1>0, <1>1, <2>1, Zenon DEF KeyHandled
      <3>2. New(kb.pressed, down, kb.us, kb.rus)
        BY <1>8, <3>1 DEF KbType
      <3>3. key \notin USKeys /\ key \notin RusKeys /\ ~InMatrix(key)
        <4>1. key \notin USKeys /\ key \notin RusKeys
          BY <2>1 DEF SSKeys, USKeys, RusKeys
        <4> QED BY <2>1, <4>1, KeyPlaces, Zenon DEF Beside
      <3>4. (Down(SSKeys)' <=> down) /\ (Down(USKeys)' <=> Down(USKeys)) /\ (Down(RusKeys)' <=> Down(RusKeys))
        BY <1>5, <1>6, <1>7, <2>1, <3>3, Zenon
      <3>5. kb'.pressed = Pressed(held') /\ (kb'.ss <=> down) /\ (kb'.us <=> Down(USKeys)) /\ (kb'.rus <=> Down(RusKeys))
        BY <1>8, <1>9, <3>2, <3>3, Zenon
      <3> QED BY <1>3, <3>2, <3>4, <3>5, Zenon DEF KeysAre, Pressed
    <2>2. CASE key \in USKeys
      <3>1. kb' = [kb EXCEPT !.us = down]
        BY <1>0, <1>1, <2>2, Zenon DEF KeyHandled
      <3>2. New(kb.pressed, kb.ss, down, kb.rus)
        BY <1>8, <3>1 DEF KbType
      <3>3. key \notin SSKeys /\ key \notin RusKeys /\ ~InMatrix(key)
        <4>1. key \notin SSKeys /\ key \notin RusKeys
          BY <2>2 DEF SSKeys, USKeys, RusKeys
        <4> QED BY <2>2, <4>1, KeyPlaces, Zenon DEF Beside
      <3>4. (Down(USKeys)' <=> down) /\ (Down(SSKeys)' <=> Down(SSKeys)) /\ (Down(RusKeys)' <=> Down(RusKeys))
        BY <1>5, <1>6, <1>7, <2>2, <3>3, Zenon
      <3>5. kb'.pressed = Pressed(held') /\ (kb'.us <=> down) /\ (kb'.ss <=> Down(SSKeys)) /\ (kb'.rus <=> Down(RusKeys))
        BY <1>8, <1>9, <3>2, <3>3, Zenon
      <3> QED BY <1>3, <3>2, <3>4, <3>5, Zenon DEF KeysAre, Pressed
    <2>3. CASE key \in RusKeys
      <3>1. kb' = [kb EXCEPT !.rus = down]
        BY <1>0, <1>1, <2>3, Zenon DEF KeyHandled
      <3>2. New(kb.pressed, kb.ss, kb.us, down)
        BY <1>8, <3>1 DEF KbType
      <3>3. key \notin SSKeys /\ key \notin USKeys /\ ~InMatrix(key)
        <4>1. key \notin SSKeys /\ key \notin USKeys
          BY <2>3 DEF SSKeys, USKeys, RusKeys
        <4> QED BY <2>3, <4>1, KeyPlaces, Zenon DEF Beside
      <3>4. (Down(RusKeys)' <=> down) /\ (Down(SSKeys)' <=> Down(SSKeys)) /\ (Down(USKeys)' <=> Down(USKeys))
        BY <1>5, <1>6, <1>7, <2>3, <3>3, Zenon
      <3>5. kb'.pressed = Pressed(held') /\ (kb'.rus <=> down) /\ (kb'.ss <=> Down(SSKeys)) /\ (kb'.us <=> Down(USKeys))
        BY <1>8, <1>9, <3>2, <3>3, Zenon
      <3> QED BY <1>3, <3>2, <3>4, <3>5, Zenon DEF KeysAre, Pressed
    <2>4. CASE key \notin Beside
      <3>1. key \notin SSKeys /\ key \notin USKeys /\ key \notin RusKeys
        BY <2>4, Zenon DEF Beside
      <3>2. (Down(RusKeys)' <=> Down(RusKeys)) /\ (Down(SSKeys)' <=> Down(SSKeys)) /\ (Down(USKeys)' <=> Down(USKeys))
        BY <1>5, <3>1, Zenon
      <3> DEFINE p == IF down THEN kb.pressed \cup {Place(key)} ELSE kb.pressed \ {Place(key)}
      <3>3. kb' \in KbType /\ kb'.ss = kb.ss /\ kb'.us = kb.us /\ kb'.rus = kb.rus /\ kb'.pressed = Pressed(held')
        <4>1. CASE InMatrix(key)
          <5>1. kb' = [kb EXCEPT !.pressed = p]
            BY <1>0, <1>1, <4>1, Zenon DEF KeyHandled
          <5>2. p \subseteq (0..7) \X (0..7)
            <6>1. Place(key) \in (0..7) \X (0..7)
              BY <4>1, KeyPlaces
            <6>2. kb.pressed \subseteq (0..7) \X (0..7)
              BY <1>8 DEF KbType
            <6> QED BY <6>1, <6>2, Zenon
          <5>3. p = Pressed(held')
            <6>1. \A k \in held : key = k \/ ~InMatrix(k) \/ Place(key) # Place(k)
              BY <1>4, <4>1, PortsAssumption
            <6>2. CASE down
              <7>1. held' = held \cup {key}
                BY <1>1, <6>2
              <7>2. Pressed(held') = Pressed(held) \cup {Place(key)}
                BY <4>1, <7>1, Zenon DEF Pressed
              <7> QED BY <1>8, <6>2, <7>2, Zenon
            <6>3. CASE ~down
              <7>1. held' = held \ {key}
                BY <1>1, <6>3
              <7>2. Pressed(held') = Pressed(held) \ {Place(key)}
                BY <6>1, <7>1, Zenon DEF Pressed
              <7> QED BY <1>8, <6>3, <7>2, Zenon
            <6> QED BY <6>2, <6>3
          <5> HIDE DEF p
          <5> QED BY <1>8, <5>1, <5>2, <5>3 DEF KbType
        <4>2. CASE ~InMatrix(key)
          <5>1. kb' = kb
            BY <1>0, <1>1, <2>4, <4>2, Zenon DEF KeyHandled
          <5> QED BY <1>8, <1>9, <4>2, <5>1, Zenon
        <4> QED BY <4>1, <4>2
      <3>4. (kb'.rus <=> Down(RusKeys)) /\ (kb'.ss <=> Down(SSKeys)) /\ (kb'.us <=> Down(USKeys))
        BY <1>8, <3>3, Zenon
      <3> QED BY <1>3, <3>2, <3>3, <3>4, Zenon DEF KeysAre, Pressed
    <2> QED BY <2>1, <2>2, <2>3, <2>4, Zenon DEF Beside
  <1>11. LatchIs(latch', pio') /\ InputsAre(inputs', pio') /\ pio' \in IOs
    BY <1>1, Zenon DEF PortsInv
  <1> QED BY <1>10, <1>11 DEF PortsInv, LatchIs, InputsAre

(* Hardware::Init() sets every latch of the 8255. *)
LEMMA InitialLatches ==
  /\ IOInit \in IOs
  /\ LatchIs([a |-> 255, b |-> 255, c |-> 0..7], IOInit)
  /\ InputsAre({"C high"}, IOInit)
  <1>1. IOInit \in IOs
    <2>1. [i \in Color |-> 0] \in [Color -> Byte8]
      BY DEF Byte8
    <2> DEFINE none == [i \in Color |-> 0]
    <2> HIDE DEF none
    <2> QED BY <2>1 DEF IOInit, IOs, Byte8, none
  <1>2. IOInit.cw = 8 /\ IOInit.a = 255 /\ IOInit.b = 255 /\ IOInit.c = 255
    BY DEF IOInit
  <1>3. Bits(255) = 0..7
    <2>1. 255 \in Byte8
      BY DEF Byte8
    <2>2. \A j \in 0..7 : BitOf(255, j) = 1
      <3>1. \A j \in 0..7 : j = 0 \/ j = 1 \/ j = 2 \/ j = 3 \/ j = 4 \/ j = 5 \/ j = 6 \/ j = 7
        OBVIOUS
      <3> QED BY <2>1, <3>1, BitIs
    <2> QED BY <2>2 DEF Bits
  <1>4. BitOf(8, 0) = 0 /\ BitOf(8, 1) = 0 /\ BitOf(8, 3) = 1 /\ BitOf(8, 4) = 0
    <2>1. 8 \in Byte8
      BY DEF Byte8
    <2> QED BY <2>1, BitIs
  <1>5. InputsAre({"C high"}, IOInit)
    BY <1>2, <1>4 DEF InputsAre
  <1>6. LatchIs([a |-> 255, b |-> 255, c |-> 0..7], IOInit)
    BY <1>2, <1>3, Zenon DEF LatchIs
  <1> QED BY <1>1, <1>5, <1>6

LEMMA ResetLatches ==
  ASSUME NEW i \in IOs
  PROVE  /\ IOReset(i) \in IOs
         /\ LatchIs([a |-> 255, b |-> 255, c |-> 0..7], IOReset(i))
         /\ InputsAre({"C high"}, IOReset(i))
         /\ IOReset(i).outTimer = 0 /\ IOReset(i).paletteTimer = 0 /\ IOReset(i).modeTimer = 0
  <1> DEFINE r == IOReset(i)
             start == IOInit
  <1>1. start \in IOs /\ i.reqDisplayMode \in BOOLEAN
    BY InitialLatches DEF IOs
  <1>2. start.outTimer = 0 /\ start.paletteTimer = 0 /\ start.modeTimer = 0
    BY DEF IOInit
  <1>7. r = [start EXCEPT !.reqDisplayMode = i.reqDisplayMode]
    BY Zenon DEF IOReset
  <1> HIDE DEF r, start
  <1>3. r \in IOs
    BY <1>1, <1>7 DEF IOs
  <1>4. /\ r.cw = start.cw /\ r.a = start.a /\ r.b = start.b /\ r.c = start.c
        /\ r.outTimer = 0 /\ r.paletteTimer = 0 /\ r.modeTimer = 0
    BY <1>1, <1>2, <1>7 DEF IOs
  <1> DEFINE l == [a |-> 255, b |-> 255, c |-> 0..7]
  <1> HIDE DEF l
  <1>5. LatchIs(l, r)
    BY <1>4, InitialLatches, Zenon DEF LatchIs, l, start
  <1>6. InputsAre({"C high"}, r)
    BY <1>4, InitialLatches, Zenon DEF InputsAre, start
  <1> QED BY <1>3, <1>4, <1>5, <1>6, Zenon DEF r, l

LEMMA PortsInitially == PortsInit => PortsInv
  <1> SUFFICES ASSUME PortsInit PROVE PortsInv
    OBVIOUS
  <1>1. pio \in IOs /\ LatchIs(latch, pio) /\ InputsAre(inputs, pio)
    BY InitialLatches, Zenon DEF PortsInit
  <1>2. kb = KeyboardInit /\ held = {}
    BY DEF PortsInit
  <1>3. KeysAre
    BY <1>2 DEF KeysAre, KeyboardInit, KbType, Down
  <1> QED BY <1>1, <1>3 DEF PortsInv

LEMMA PortsStep == PortsInv /\ [PortsNext]_portVars => PortsInv'
  <1> SUFFICES ASSUME PortsInv, [PortsNext]_portVars PROVE PortsInv'
    OBVIOUS
  <1>1. ASSUME NEW p \in DOMAIN Sent, NEW v \in Sent[p], Out(p, v) PROVE PortsInv'
    <2>1. p \in 0..3 /\ v \in Byte8
      BY PortsAssumption
    <2> QED BY <1>1, <2>1, OutKeeps
  <1>2. ASSUME NEW key \in Keys, NEW down \in BOOLEAN, Key(key, down) PROVE PortsInv'
    BY <1>2, KeyKeeps
  <1>3. ASSUME PortsReset PROVE PortsInv'
    <2>1. pio' \in IOs /\ LatchIs(latch', pio') /\ InputsAre(inputs', pio')
      BY <1>3, ResetLatches, Zenon DEF PortsReset, PortsInv
    <2>2. kb' = kb /\ held' = held
      BY <1>3 DEF PortsReset
    <2>3. KeysAre'
      BY <2>2 DEF PortsInv, KeysAre, Down
    <2> QED BY <2>1, <2>3 DEF PortsInv, LatchIs, InputsAre
  <1>4. ASSUME UNCHANGED portVars PROVE PortsInv'
    BY <1>4 DEF PortsInv, portVars, LatchIs, InputsAre, KeysAre, Down
  <1> QED BY <1>1, <1>2, <1>3, <1>4 DEF PortsNext

(* What the ports read. *)
LEMMA ReadHow ==
  ASSUME NEW i, NEW k
  PROVE  /\ PortInHandling(i, k, 1) =
              (IF BitOf(i.cw, 0) = 1 THEN 11 ELSE i.c % 16)
              + (IF BitOf(i.cw, 3) = 1
                 THEN (IF k.ss THEN 0 ELSE 32) + (IF k.us THEN 0 ELSE 64) + (IF k.rus THEN 0 ELSE 128)
                 ELSE (i.c \div 16) * 16)
         /\ PortInHandling(i, k, 2) = IF BitOf(i.cw, 1) = 1 THEN ReadRows(k, i.a) ELSE i.b
         /\ PortInHandling(i, k, 3) = IF BitOf(i.cw, 4) = 1 THEN 255 ELSE i.a
  <1>1. Weight[5 + 1] = 32 /\ Weight[6 + 1] = 64 /\ Weight[7 + 1] = 128
    BY DEF Weight
  <1>2. PortInHandling(i, k, 2) = IF BitOf(i.cw, 1) = 1 THEN ReadRows(k, i.a) ELSE i.b
    BY DEF PortInHandling
  <1>3. PortInHandling(i, k, 3) = IF BitOf(i.cw, 4) = 1 THEN 255 ELSE i.a
    BY DEF PortInHandling
  <1>4. PortInHandling(i, k, 1) =
          (IF BitOf(i.cw, 0) = 1 THEN 11 ELSE i.c % 16)
          + (IF BitOf(i.cw, 3) = 1
             THEN (IF k.ss THEN 0 ELSE Weight[5 + 1]) + (IF k.us THEN 0 ELSE Weight[6 + 1])
                  + (IF k.rus THEN 0 ELSE Weight[7 + 1])
             ELSE (i.c \div 16) * 16)
    BY DEF PortInHandling
  <1> QED BY <1>1, <1>2, <1>3, <1>4

(* Port C, bit by bit. *)
PortCByte(c, lowIn, highIn, s, u, r) ==
  (IF lowIn THEN 11 ELSE c % 16)
  + (IF highIn THEN (IF s THEN 0 ELSE 32) + (IF u THEN 0 ELSE 64) + (IF r THEN 0 ELSE 128)
     ELSE (c \div 16) * 16)
PortCIs(v, c, lowIn, highIn, s, u, r) ==
  /\ v \in Byte8
  /\ \A i \in 0..3 : BitOf(v, i) = 1 <=> IF lowIn THEN i # 2 ELSE BitOf(c, i) = 1
  /\ BitOf(v, 4) = 1 <=> ~highIn /\ BitOf(c, 4) = 1
  /\ BitOf(v, 5) = 1 <=> IF highIn THEN ~s ELSE BitOf(c, 5) = 1
  /\ BitOf(v, 6) = 1 <=> IF highIn THEN ~u ELSE BitOf(c, 6) = 1
  /\ BitOf(v, 7) = 1 <=> IF highIn THEN ~r ELSE BitOf(c, 7) = 1
LEMMA PortCReads ==
  ASSUME NEW c \in Byte8, NEW lowIn \in BOOLEAN, NEW highIn \in BOOLEAN,
         NEW s \in BOOLEAN, NEW u \in BOOLEAN, NEW r \in BOOLEAN
  PROVE  PortCIs(PortCByte(c, lowIn, highIn, s, u, r), c, lowIn, highIn, s, u, r)
  <1> DEFINE low == IF lowIn THEN 11 ELSE c % 16
             e5 == IF s THEN 0 ELSE 32
             e6 == IF u THEN 0 ELSE 64
             e7 == IF r THEN 0 ELSE 128
             high == IF highIn THEN e5 + e6 + e7 ELSE (c \div 16) * 16
             v == low + high
             B(w, i) == BitOf(w, i) = 1
  <1>1. low \in 0..15
    BY DEF Byte8
  <1>2. /\ e5 \in {0, 32} /\ e6 \in {0, 64} /\ e7 \in {0, 128}
        /\ (e5 = 0 <=> s) /\ (e6 = 0 <=> u) /\ (e7 = 0 <=> r)
    OBVIOUS
  <1>3. (c \div 16) \in 0..15
    BY DEF Byte8
  <1> DEFINE nib == IF highIn THEN (e5 \div 16) + (e6 \div 16) + (e7 \div 16) ELSE c \div 16
  <1>4. nib \in 0..15 /\ high = nib * 16
    <2> HIDE DEF e5, e6, e7
    <2> QED BY <1>2, <1>3
  <1>5. v = low + nib * 16
    <2> HIDE DEF nib, low, high
    <2> QED BY <1>4
  <1> DEFINE w == low + nib * 16
  <1>6. w \in Byte8
    <2> HIDE DEF nib, low
    <2> QED BY <1>1, <1>4 DEF Byte8
  <1>7. /\ (w \div 1) % 2 = (low \div 1) % 2 /\ (w \div 2) % 2 = (low \div 2) % 2
        /\ (w \div 4) % 2 = (low \div 4) % 2 /\ (w \div 8) % 2 = (low \div 8) % 2
        /\ (w \div 16) % 2 = nib % 2 /\ (w \div 32) % 2 = (nib \div 2) % 2
        /\ (w \div 64) % 2 = (nib \div 4) % 2 /\ (w \div 128) % 2 = (nib \div 8) % 2
    <2> HIDE DEF nib, low
    <2>1. (w \div 1) % 2 = (low \div 1) % 2
      BY <1>1, <1>4
    <2>2. (w \div 2) % 2 = (low \div 2) % 2
      BY <1>1, <1>4
    <2>3. (w \div 4) % 2 = (low \div 4) % 2
      BY <1>1, <1>4
    <2>4. (w \div 8) % 2 = (low \div 8) % 2
      BY <1>1, <1>4
    <2>5. (w \div 16) % 2 = nib % 2
      BY <1>1, <1>4
    <2>6. (w \div 32) % 2 = (nib \div 2) % 2
      BY <1>1, <1>4
    <2>7. (w \div 64) % 2 = (nib \div 4) % 2
      BY <1>1, <1>4
    <2>8. (w \div 128) % 2 = (nib \div 8) % 2
      BY <1>1, <1>4
    <2> QED BY <2>1, <2>2, <2>3, <2>4, <2>5, <2>6, <2>7, <2>8
  <1>8. /\ (low \div 1) % 2 = 1 <=> IF lowIn THEN TRUE ELSE (c \div 1) % 2 = 1
        /\ (low \div 2) % 2 = 1 <=> IF lowIn THEN TRUE ELSE (c \div 2) % 2 = 1
        /\ (low \div 4) % 2 = 1 <=> IF lowIn THEN FALSE ELSE (c \div 4) % 2 = 1
        /\ (low \div 8) % 2 = 1 <=> IF lowIn THEN TRUE ELSE (c \div 8) % 2 = 1
    BY DEF Byte8
  <1>9. /\ nib % 2 = 1 <=> ~highIn /\ (c \div 16) % 2 = 1
        /\ (nib \div 2) % 2 = 1 <=> IF highIn THEN ~s ELSE (c \div 32) % 2 = 1
        /\ (nib \div 4) % 2 = 1 <=> IF highIn THEN ~u ELSE (c \div 64) % 2 = 1
        /\ (nib \div 8) % 2 = 1 <=> IF highIn THEN ~r ELSE (c \div 128) % 2 = 1
    <2>1. CASE highIn
      <3> HIDE DEF e5, e6, e7
      <3> QED BY <1>2, <2>1
    <2>2. CASE ~highIn
      <3>1. nib = c \div 16
        BY <2>2
      <3> HIDE DEF nib
      <3>2. ((c \div 16) \div 2) % 2 = (c \div 32) % 2 /\ ((c \div 16) \div 4) % 2 = (c \div 64) % 2
            /\ ((c \div 16) \div 8) % 2 = (c \div 128) % 2
        BY DEF Byte8
      <3> QED BY <2>2, <3>1, <3>2
    <2> QED BY <2>1, <2>2
  <1> HIDE DEF low, nib
  <1>10. /\ BitOf(w, 0) = (w \div 1) % 2 /\ BitOf(w, 1) = (w \div 2) % 2 /\ BitOf(w, 2) = (w \div 4) % 2
         /\ BitOf(w, 3) = (w \div 8) % 2 /\ BitOf(w, 4) = (w \div 16) % 2 /\ BitOf(w, 5) = (w \div 32) % 2
         /\ BitOf(w, 6) = (w \div 64) % 2 /\ BitOf(w, 7) = (w \div 128) % 2
    BY <1>6, BitIs
  <1>11. /\ BitOf(c, 0) = (c \div 1) % 2 /\ BitOf(c, 1) = (c \div 2) % 2 /\ BitOf(c, 2) = (c \div 4) % 2
         /\ BitOf(c, 3) = (c \div 8) % 2 /\ BitOf(c, 4) = (c \div 16) % 2 /\ BitOf(c, 5) = (c \div 32) % 2
         /\ BitOf(c, 6) = (c \div 64) % 2 /\ BitOf(c, 7) = (c \div 128) % 2
    BY BitIs
  <1>12. /\ B(w, 0) <=> IF lowIn THEN TRUE ELSE B(c, 0)
         /\ B(w, 1) <=> IF lowIn THEN TRUE ELSE B(c, 1)
         /\ B(w, 2) <=> IF lowIn THEN FALSE ELSE B(c, 2)
         /\ B(w, 3) <=> IF lowIn THEN TRUE ELSE B(c, 3)
    BY <1>7, <1>8, <1>10, <1>11
  <1>13. /\ B(w, 4) <=> ~highIn /\ B(c, 4)
         /\ B(w, 5) <=> IF highIn THEN ~s ELSE B(c, 5)
         /\ B(w, 6) <=> IF highIn THEN ~u ELSE B(c, 6)
         /\ B(w, 7) <=> IF highIn THEN ~r ELSE B(c, 7)
    BY <1>7, <1>9, <1>10, <1>11
  <1> HIDE DEF w, B
  <1>14. \A i \in 0..3 : B(w, i) <=> IF lowIn THEN i # 2 ELSE B(c, i)
    <2>1. \A i \in 0..3 : i = 0 \/ i = 1 \/ i = 2 \/ i = 3
      OBVIOUS
    <2> QED BY <1>12, <2>1
  <1>15. v = w
    BY <1>5 DEF w
  <1> HIDE DEF v, high
  <1>16. v \in Byte8 /\ (\A i \in 0..3 : B(v, i) <=> IF lowIn THEN i # 2 ELSE B(c, i))
         /\ (B(v, 4) <=> ~highIn /\ B(c, 4)) /\ (B(v, 5) <=> IF highIn THEN ~s ELSE B(c, 5))
         /\ (B(v, 6) <=> IF highIn THEN ~u ELSE B(c, 6)) /\ (B(v, 7) <=> IF highIn THEN ~r ELSE B(c, 7))
    BY <1>6, <1>13, <1>14, <1>15
  <1>17. v = PortCByte(c, lowIn, highIn, s, u, r)
    BY Zenon DEF v, low, high, e5, e6, e7, PortCByte
  <1> QED BY <1>16, <1>17, Zenon DEF B, PortCIs

LEMMA PortsTyped == PortsInv => PortsTypeOK
  <1> SUFFICES ASSUME PortsInv PROVE PortsTypeOK
    OBVIOUS
  <1>1. pio \in IOs /\ KeysAre
    BY DEF PortsInv
  <1>2. /\ pio.cw \in Byte8 /\ pio.a \in Byte8 /\ pio.b \in Byte8 /\ pio.c \in Byte8 /\ pio.hwColor \in Byte8
        /\ pio.port \in Byte8 /\ pio.byte \in Byte8 /\ pio.ruslat \in 0..1 /\ pio.palette \in [Color -> Byte8]
    BY <1>1 DEF IOs
  <1>3. {pio.cw, pio.a, pio.b, pio.c, pio.hwColor, pio.port, pio.byte} \subseteq Byte8
    BY <1>2, Zenon
  <1>4. /\ kb.pressed \subseteq (0..7) \X (0..7) /\ {kb.ss, kb.us, kb.rus} \subseteq BOOLEAN /\ held \subseteq Keys
    BY <1>1 DEF KeysAre, KbType
  <1> QED BY <1>2, <1>3, <1>4 DEF PortsTypeOK

LEMMA PortsSays == PortsInv => PortsExact
  <1> SUFFICES ASSUME PortsInv PROVE PortsExact
    OBVIOUS
  <1> DEFINE i == pio
             lowIn == BitOf(i.cw, 0) = 1
             bIn == BitOf(i.cw, 1) = 1
             highIn == BitOf(i.cw, 3) = 1
             aIn == BitOf(i.cw, 4) = 1
  <1>1. i \in IOs /\ LatchIs(latch, i) /\ InputsAre(inputs, i) /\ KeysAre
    BY DEF PortsInv
  <1>2. i.a \in Byte8 /\ i.b \in Byte8 /\ i.c \in Byte8 /\ i.cw \in Byte8
    BY <1>1 DEF IOs
  <1>3. latch.a = i.a /\ latch.b = i.b /\ latch.c = Bits(i.c)
    BY <1>1 DEF LatchIs
  <1>4. /\ "C low" \in inputs <=> lowIn
        /\ "B" \in inputs <=> bIn
        /\ "C high" \in inputs <=> highIn
        /\ "A" \in inputs <=> aIn
    BY <1>1, Zenon DEF InputsAre
  <1>5. kb.ss \in BOOLEAN /\ kb.us \in BOOLEAN /\ kb.rus \in BOOLEAN
        /\ kb.pressed \in SUBSET ((0..7) \X (0..7))
    BY <1>1 DEF KeysAre, KbType
  <1>6. (kb.ss <=> Down(SSKeys)) /\ (kb.us <=> Down(USKeys)) /\ (kb.rus <=> Down(RusKeys))
        /\ kb.pressed = {Place(k) : k \in {l \in held : InMatrix(l)}}
    BY <1>1, Zenon DEF KeysAre
  <1> DEFINE v1 == PortCByte(i.c, lowIn, highIn, kb.ss, kb.us, kb.rus)
             v2 == IF bIn THEN ReadRows(kb, i.a) ELSE i.b
             v3 == IF aIn THEN 255 ELSE i.a
  <1>7. In(1) = Bits(v1) /\ In(2) = Bits(v2) /\ In(3) = Bits(v3)
    BY ReadHow, ZenonT(40) DEF In, PortCByte
  <1>8. \A k \in held : InMatrix(k) => Place(k) \in (0..7) \X (0..7)
    BY KeyPlaces, Zenon
  <1>9. ASSUME NEW x \in 0..7
        PROVE  x \in In(2) <=>
                 IF "B" \in inputs
                 THEN \A key \in held : InMatrix(key) => Place(key)[1] \in Bits(latch.a) \/ Place(key)[2] # x
                 ELSE x \in Bits(latch.b)
    <2>1. CASE bIn
      <3> DEFINE low == {p[2] : p \in {q \in kb.pressed : BitOf(i.a, q[1]) = 0}}
      <3>1. v2 = ReadRows(kb, i.a)
        BY <2>1
      <3>2. ReadRows(kb, i.a) \in Byte8 /\ BitOf(ReadRows(kb, i.a), x) = IF x \in low THEN 0 ELSE 1
        BY RowsRead, Zenon
      <3>3. x \in In(2) <=> x \notin low
        <4> HIDE DEF low, v2
        <4>1. x \in Bits(v2) <=> BitOf(v2, x) = 1
          BY DEF Bits
        <4> QED BY <1>7, <3>1, <3>2, <4>1
      <3>4. x \in low <=> \E p \in kb.pressed : BitOf(i.a, p[1]) = 0 /\ p[2] = x
        BY Zenon
      <3>5. x \in low <=> \E k \in held : InMatrix(k) /\ BitOf(i.a, Place(k)[1]) = 0 /\ Place(k)[2] = x
        BY <1>6, <3>4, Zenon
      <3>6. \A k \in held : InMatrix(k) => (Place(k)[1] \in Bits(latch.a) <=> BitOf(i.a, Place(k)[1]) # 0)
        <4> SUFFICES ASSUME NEW k \in held, InMatrix(k)
                     PROVE  Place(k)[1] \in Bits(latch.a) <=> BitOf(i.a, Place(k)[1]) # 0
          OBVIOUS
        <4> DEFINE row == Place(k)[1]
        <4>1. row \in 0..7
          BY <1>8
        <4> HIDE DEF row
        <4>2. BitOf(i.a, row) \in 0..1
          BY <1>2, <4>1, BitIs
        <4>3. row \in Bits(latch.a) <=> BitOf(i.a, row) # 0
          BY <1>3, <4>1, <4>2 DEF Bits
        <4> QED BY <4>3 DEF row
      <3> HIDE DEF low, bIn, i
      <3> QED BY <1>4, <2>1, <3>3, <3>5, <3>6, Zenon
    <2>2. CASE ~bIn
      <3>1. v2 = i.b
        BY <2>2
      <3> HIDE DEF v2, bIn
      <3> QED BY <1>3, <1>4, <1>7, <2>2, <3>1, ZenonT(60)
    <2> QED BY <2>1, <2>2
  <1>10. /\ \A x \in 0..3 : BitOf(v1, x) = 1 <=> IF lowIn THEN x # 2 ELSE BitOf(i.c, x) = 1
         /\ BitOf(v1, 4) = 1 <=> ~highIn /\ BitOf(i.c, 4) = 1
         /\ BitOf(v1, 5) = 1 <=> IF highIn THEN ~kb.ss ELSE BitOf(i.c, 5) = 1
         /\ BitOf(v1, 6) = 1 <=> IF highIn THEN ~kb.us ELSE BitOf(i.c, 6) = 1
         /\ BitOf(v1, 7) = 1 <=> IF highIn THEN ~kb.rus ELSE BitOf(i.c, 7) = 1
    <2>1. lowIn \in BOOLEAN /\ highIn \in BOOLEAN
      OBVIOUS
    <2> DEFINE i1 == lowIn
               i2 == highIn
               c == i.c
    <2>2. c \in Byte8 /\ i1 \in BOOLEAN /\ i2 \in BOOLEAN /\ v1 = PortCByte(c, i1, i2, kb.ss, kb.us, kb.rus)
          /\ i.c = c /\ (i1 <=> lowIn) /\ (i2 <=> highIn)
      BY <1>2, <2>1
    <2> HIDE DEF i1, i2, c, v1, lowIn, highIn
    <2>3. PortCIs(v1, c, i1, i2, kb.ss, kb.us, kb.rus)
      BY <1>5, <2>2, PortCReads
    <2> QED BY <2>2, <2>3, Zenon DEF PortCIs
  <1>11. \A x \in 0..7 : (x \in In(1) <=> BitOf(v1, x) = 1) /\ (x \in latch.c <=> BitOf(i.c, x) = 1)
    <2> HIDE DEF v1
    <2> QED BY <1>3, <1>7 DEF Bits
  <1>12. \A x \in 0..3 : x \in In(1) <=> IF "C low" \in inputs THEN x # 2 ELSE x \in latch.c
    <2>1. \A x \in 0..3 : x \in 0..7
      OBVIOUS
    <2> HIDE DEF v1, lowIn
    <2> QED BY <1>4, <1>10, <1>11, <2>1, Zenon
  <1> DEFINE KeyOf(x) == CASE x = 5 -> SSKeys [] x = 6 -> USKeys [] x = 7 -> RusKeys
  <1>13. KeyOf(5) = SSKeys /\ KeyOf(6) = USKeys /\ KeyOf(7) = RusKeys
    <2> DEFINE a == SSKeys
               b == USKeys
               c == RusKeys
    <2> HIDE DEF a, b, c
    <2>1. /\ (CASE 5 = 5 -> a [] 5 = 6 -> b [] 5 = 7 -> c) = a
          /\ (CASE 6 = 5 -> a [] 6 = 6 -> b [] 6 = 7 -> c) = b
          /\ (CASE 7 = 5 -> a [] 7 = 6 -> b [] 7 = 7 -> c) = c
      OBVIOUS
    <2> QED BY <2>1, Zenon DEF a, b, c
  <1>14. \A x \in 4..7 : x \in In(1) <=>
           IF "C high" \in inputs THEN x > 4 /\ ~Down(KeyOf(x)) ELSE x \in latch.c
    <2> HIDE DEF v1, highIn, KeyOf
    <2>1. 4 \in 0..7 /\ 5 \in 0..7 /\ 6 \in 0..7 /\ 7 \in 0..7 /\ ~(4 > 4) /\ 5 > 4 /\ 6 > 4 /\ 7 > 4
      OBVIOUS
    <2>2. 4 \in In(1) <=> IF "C high" \in inputs THEN 4 > 4 /\ ~Down(KeyOf(4)) ELSE 4 \in latch.c
      BY <1>4, <1>10, <1>11, <2>1, Zenon
    <2>3. 5 \in In(1) <=> IF "C high" \in inputs THEN 5 > 4 /\ ~Down(KeyOf(5)) ELSE 5 \in latch.c
      BY <1>4, <1>6, <1>10, <1>11, <1>13, <2>1, Zenon
    <2>4. 6 \in In(1) <=> IF "C high" \in inputs THEN 6 > 4 /\ ~Down(KeyOf(6)) ELSE 6 \in latch.c
      BY <1>4, <1>6, <1>10, <1>11, <1>13, <2>1, Zenon
    <2>5. 7 \in In(1) <=> IF "C high" \in inputs THEN 7 > 4 /\ ~Down(KeyOf(7)) ELSE 7 \in latch.c
      BY <1>4, <1>6, <1>10, <1>11, <1>13, <2>1, Zenon
    <2>6. \A x \in 4..7 : x = 4 \/ x = 5 \/ x = 6 \/ x = 7
      OBVIOUS
    <2> QED BY <2>2, <2>3, <2>4, <2>5, <2>6, Zenon
  <1>15. In(3) = IF "A" \in inputs THEN 0..7 ELSE Bits(latch.a)
    <2>1. Bits(255) = 0..7
      <3>1. Bits(IOInit.c) = 0..7
        BY InitialLatches DEF LatchIs
      <3> QED BY <3>1 DEF IOInit
    <2>2. v3 = IF aIn THEN 255 ELSE i.a
      OBVIOUS
    <2> HIDE DEF v3, aIn
    <2> QED BY <1>3, <1>4, <1>7, <2>1, <2>2
  <1> HIDE DEF v1, v2, v3
  <1> QED BY <1>9, <1>12, <1>14, <1>15, Zenon DEF PortsExact

-----------------------------------------------------------------------------
(* The display: what an OUT does while it is pending.  Timed sets what     *)
(* handling an OUT leaves alone.                                           *)
Timed(i, o, p, m, colors, mode) ==
  [i EXCEPT !.outTimer = o, !.paletteTimer = p, !.modeTimer = m, !.palette = colors, !.mode512 = mode]
Timings == [o : Nat, p : Nat, m : Nat, colors : [Color -> Byte8], mode : BOOLEAN]

LEMMA TimedIs ==
  ASSUME NEW i \in IOs, NEW o \in Nat, NEW p \in Nat, NEW m \in Nat,
         NEW colors \in [Color -> Byte8], NEW mode \in BOOLEAN
  PROVE  LET x == Timed(i, o, p, m, colors, mode)
         IN  /\ x \in IOs /\ x.outTimer = o /\ x.paletteTimer = p /\ x.modeTimer = m
             /\ x.palette = colors /\ x.mode512 = mode /\ x.port = i.port /\ x.byte = i.byte
             /\ x.hwColor = i.hwColor /\ x.reqDisplayMode = i.reqDisplayMode
             /\ x.brdColorIdx = i.brdColorIdx /\ x.c = i.c /\ x.a = i.a /\ x.b = i.b
  BY DEF Timed, IOs

LEMMA TimedKeeps ==
  ASSUME NEW i \in IOs, NEW o, NEW p, NEW m, NEW colors, NEW mode
  PROVE  LET x == Timed(i, o, p, m, colors, mode)
         IN  x.palette = colors /\ x.mode512 = mode /\ x.hwColor = i.hwColor /\ x.reqDisplayMode = i.reqDisplayMode
  BY DEF Timed, IOs

LEMMA TimedTwice ==
  ASSUME NEW i \in IOs, NEW o, NEW p, NEW m, NEW colors, NEW mode,
         NEW oo, NEW pp, NEW mm, NEW colors2, NEW mode2
  PROVE  Timed(Timed(i, o, p, m, colors, mode), oo, pp, mm, colors2, mode2) = Timed(i, oo, pp, mm, colors2, mode2)
  BY DEF Timed, IOs

LEMMA TimedAsIs ==
  ASSUME NEW i \in IOs
  PROVE  Timed(i, i.outTimer, i.paletteTimer, i.modeTimer, i.palette, i.mode512) = i
  BY DEF Timed, IOs

LEMMA RusLatTimed ==
  ASSUME NEW i \in IOs, NEW o, NEW p, NEW m, NEW colors, NEW mode
  PROVE  RusLat(Timed(i, o, p, m, colors, mode)) = Timed(RusLat(i), o, p, m, colors, mode) /\ RusLat(i) \in IOs
         /\ RusLat(i).c = i.c
  <1>1. BitOf(i.c, 3) \in 0..1
    BY BitIs DEF IOs
  <1> QED BY <1>1 DEF RusLat, Timed, IOs

LEMMA PortBTimed ==
  ASSUME NEW i \in IOs, NEW o, NEW p, NEW m, NEW colors, NEW mode, NEW v \in Byte8
  PROVE  PortB(Timed(i, o, p, m, colors, mode), v) = Timed(PortB(i, v), o, p, m, colors, mode)
         /\ PortB(i, v) \in IOs
  <1>1. v % 16 \in 0..15 /\ (BitOf(v, 4) = 1) \in BOOLEAN
    BY ByteHalves
  <1> QED BY <1>1 DEF PortB, Timed, IOs

LEMMA SetATimed ==
  ASSUME NEW i \in IOs, NEW o, NEW p, NEW m, NEW colors, NEW mode, NEW v \in Byte8
  PROVE  [Timed(i, o, p, m, colors, mode) EXCEPT !.a = v] = Timed([i EXCEPT !.a = v], o, p, m, colors, mode)
         /\ [i EXCEPT !.a = v] \in IOs
  BY DEF Timed, IOs

LEMMA SetCTimed ==
  ASSUME NEW i \in IOs, NEW o, NEW p, NEW m, NEW colors, NEW mode, NEW v \in Byte8
  PROVE  [Timed(i, o, p, m, colors, mode) EXCEPT !.c = v] = Timed([i EXCEPT !.c = v], o, p, m, colors, mode)
         /\ [i EXCEPT !.c = v] \in IOs
  BY DEF Timed, IOs

LEMMA SetCwTimed ==
  ASSUME NEW i \in IOs, NEW o, NEW p, NEW m, NEW colors, NEW mode, NEW v \in Byte8
  PROVE  [Timed(i, o, p, m, colors, mode) EXCEPT !.cw = v] = Timed([i EXCEPT !.cw = v], o, p, m, colors, mode)
         /\ [i EXCEPT !.cw = v] \in IOs
  BY DEF Timed, IOs

LEMMA SetHwColorTimed ==
  ASSUME NEW i \in IOs, NEW o, NEW p, NEW m, NEW colors, NEW mode, NEW v \in Byte8
  PROVE  [Timed(i, o, p, m, colors, mode) EXCEPT !.hwColor = v] = Timed([i EXCEPT !.hwColor = v], o, p, m, colors, mode)
         /\ [i EXCEPT !.hwColor = v] \in IOs
  BY DEF Timed, IOs

LEMMA PortCTimed ==
  ASSUME NEW i \in IOs, NEW o, NEW p, NEW m, NEW colors, NEW mode, NEW v \in Byte8
  PROVE  PortC(Timed(i, o, p, m, colors, mode), v) = Timed(PortC(i, v), o, p, m, colors, mode)
         /\ PortC(i, v) \in IOs
  <1> DEFINE x == RusLat(i)
  <1>1. x \in IOs /\ RusLat(Timed(i, o, p, m, colors, mode)) = Timed(x, o, p, m, colors, mode)
    BY RusLatTimed
  <1> HIDE DEF x
  <1>2. [Timed(x, o, p, m, colors, mode) EXCEPT !.c = v] = Timed([x EXCEPT !.c = v], o, p, m, colors, mode)
        /\ [x EXCEPT !.c = v] \in IOs
    BY <1>1, SetCTimed
  <1> QED BY <1>1, <1>2 DEF PortC, x

LEMMA HandlingTimed ==
  ASSUME NEW i \in IOs, NEW o, NEW p, NEW m, NEW colors, NEW mode, NEW port, NEW v \in Byte8
  PROVE  PortOutHandling(Timed(i, o, p, m, colors, mode), port, v)
           = Timed(PortOutHandling(i, port, v), o, p, m, colors, mode)
  <1> DEFINE T(x) == Timed(x, o, p, m, colors, mode)
             ti == T(i)
  <1>1. Handled(i, port, v) /\ Handled(ti, port, v)
    BY HandlingIs
  <1>2. CASE port = 0 /\ v < 128
    <2> DEFINE x == RusLat(i)
               w == SetBit(i.c, (v \div 2) % 8, v % 2)
    <2>1. RusLat(ti) = T(x) /\ x \in IOs /\ x.c = i.c
      BY RusLatTimed
    <2>2. T(x).c = x.c
      <3> HIDE DEF x
      <3> QED BY <2>1 DEF Timed, IOs
    <2>3. w \in Byte8
      <3>1. i.c \in Byte8
        BY DEF IOs
      <3> QED BY <3>1, ByteHalves, SetBitBits
    <2>4. PortOutHandling(i, port, v) = [x EXCEPT !.c = SetBit(@, (v \div 2) % 8, v % 2)]
          /\ PortOutHandling(ti, port, v) = [RusLat(ti) EXCEPT !.c = SetBit(@, (v \div 2) % 8, v % 2)]
      BY <1>1, <1>2, Zenon DEF Handled
    <2>5. PortOutHandling(i, port, v) = [x EXCEPT !.c = w] /\ PortOutHandling(ti, port, v) = [T(x) EXCEPT !.c = w]
      <3> HIDE DEF x, T, ti
      <3> QED BY <2>1, <2>2, <2>4
    <2> HIDE DEF x, w, ti
    <2>6. [T(x) EXCEPT !.c = w] = T([x EXCEPT !.c = w])
      BY <2>1, <2>3, SetCTimed
    <2> QED BY <2>5, <2>6 DEF ti
  <1>3. CASE port = 0 /\ v >= 128
    <2> DEFINE x == RusLat(i)
               y == [x EXCEPT !.cw = v]
               z == PortC(y, 0)
               u == PortB(z, 0)
    <2>0. 0 \in Byte8
      BY DEF Byte8
    <2>1. RusLat(ti) = T(x) /\ x \in IOs
      BY RusLatTimed
    <2>2. PortOutHandling(i, port, v) = [u EXCEPT !.a = 0]
          /\ PortOutHandling(ti, port, v) = [PortB(PortC([RusLat(ti) EXCEPT !.cw = v], 0), 0) EXCEPT !.a = 0]
      BY <1>1, <1>3, Zenon DEF Handled
    <2> HIDE DEF x, ti
    <2>3. [T(x) EXCEPT !.cw = v] = T(y) /\ y \in IOs
      BY <2>1, SetCwTimed
    <2> HIDE DEF y
    <2>4. PortC(T(y), 0) = T(z) /\ z \in IOs
      BY <2>0, <2>3, PortCTimed
    <2> HIDE DEF z
    <2>5. PortB(T(z), 0) = T(u) /\ u \in IOs
      BY <2>0, <2>4, PortBTimed
    <2> HIDE DEF u
    <2>6. [T(u) EXCEPT !.a = 0] = T([u EXCEPT !.a = 0])
      BY <2>0, <2>5, SetATimed
    <2> HIDE DEF T
    <2>7. PortOutHandling(ti, port, v) = T(PortOutHandling(i, port, v))
      BY <2>1, <2>2, <2>3, <2>4, <2>5, <2>6
    <2> QED BY <2>7 DEF T, ti
  <1>4. CASE port = 1
    <2>1. PortOutHandling(i, port, v) = PortC(i, v) /\ PortOutHandling(ti, port, v) = PortC(ti, v)
      BY <1>1, <1>4, Zenon DEF Handled
    <2> QED BY <2>1, PortCTimed
  <1>5. CASE port = 2
    <2>1. PortOutHandling(i, port, v) = PortB(i, v) /\ PortOutHandling(ti, port, v) = PortB(ti, v)
      BY <1>1, <1>5, Zenon DEF Handled
    <2> QED BY <2>1, PortBTimed
  <1>6. CASE port = 3
    <2>1. PortOutHandling(i, port, v) = [i EXCEPT !.a = v] /\ PortOutHandling(ti, port, v) = [ti EXCEPT !.a = v]
      BY <1>1, <1>6, Zenon DEF Handled
    <2> QED BY <2>1, SetATimed
  <1>7. CASE port \notin 0..3
    <2>1. CASE port \in PaletteOut
      <3>1. ASSUME NEW x PROVE PortOutHandling(x, port, v) = [x EXCEPT !.hwColor = v]
        BY <2>1 DEF PortOutHandling, PaletteOut
      <3>2. PortOutHandling(i, port, v) = [i EXCEPT !.hwColor = v] /\ PortOutHandling(ti, port, v) = [ti EXCEPT !.hwColor = v]
        BY <3>1
      <3> QED BY <3>2, SetHwColorTimed
    <2>2. CASE port \notin PaletteOut
      <3>1. ASSUME NEW x PROVE PortOutHandling(x, port, v) = x
        BY <1>7, <2>2 DEF PortOutHandling
      <3> QED BY <3>1
    <2> QED BY <2>1, <2>2
  <1>8. port = 0 => v < 128 \/ v >= 128
    BY DEF Byte8
  <1> QED BY <1>2, <1>3, <1>4, <1>5, <1>6, <1>7, <1>8

(* The OUT i has pending, after k pixels; e is the colour index of the     *)
(* pixel at which the palette is set.                                      *)
Remains(timer, k) == IF timer > k THEN timer - k ELSE 0
Done(timer, k) == timer # 0 /\ k >= timer
Committing(i) == PortOutHandling(i, i.port, i.byte)
IoAt(i, k, e) ==
  LET h == Committing(i)
  IN  Timed(IF Done(i.outTimer, k) THEN h ELSE i,
            Remains(i.outTimer, k), Remains(i.paletteTimer, k), Remains(i.modeTimer, k),
            IF Done(i.paletteTimer, k) THEN [i.palette EXCEPT ![e] = h.hwColor] ELSE i.palette,
            IF Done(i.modeTimer, k) THEN h.reqDisplayMode ELSE i.mode512)
Pending(i) ==
  /\ i.outTimer = 0 => i.paletteTimer = 0 /\ i.modeTimer = 0
  /\ i.paletteTimer # 0 => i.outTimer <= i.paletteTimer /\ i.port \in PaletteOut
  /\ i.modeTimer # 0 => i.outTimer <= i.modeTimer

LEMMA HandlingKeeps ==
  ASSUME NEW i \in IOs
  PROVE  LET h == Committing(i)
         IN  /\ h \in IOs /\ h.outTimer = i.outTimer /\ h.paletteTimer = i.paletteTimer
             /\ h.modeTimer = i.modeTimer /\ h.palette = i.palette /\ h.mode512 = i.mode512
             /\ h.port = i.port /\ h.byte = i.byte
  <1> DEFINE h == Committing(i)
  <1>1. i.byte \in Byte8 /\ i.outTimer \in Nat /\ i.paletteTimer \in Nat /\ i.modeTimer \in Nat
        /\ i.palette \in [Color -> Byte8] /\ i.mode512 \in BOOLEAN
    BY DEF IOs
  <1>2. h \in IOs
    BY <1>1, HandlingTyped DEF Committing
  <1> DEFINE own == Timed(i, i.outTimer, i.paletteTimer, i.modeTimer, i.palette, i.mode512)
  <1>3. own = i
    BY TimedAsIs
  <1>4. PortOutHandling(own, i.port, i.byte)
          = Timed(h, i.outTimer, i.paletteTimer, i.modeTimer, i.palette, i.mode512)
    BY <1>1, HandlingTimed DEF Committing
  <1>5. h = Timed(h, i.outTimer, i.paletteTimer, i.modeTimer, i.palette, i.mode512)
    <2> HIDE DEF own
    <2> QED BY <1>3, <1>4 DEF Committing
  <1>6. h.port = i.port /\ h.byte = i.byte
    BY <1>1, HandlingLeaves DEF Committing
  <1> HIDE DEF h
  <1>7. /\ h.outTimer = i.outTimer /\ h.paletteTimer = i.paletteTimer
        /\ h.modeTimer = i.modeTimer /\ h.palette = i.palette /\ h.mode512 = i.mode512
    <2> DEFINE o == i.outTimer
               p == i.paletteTimer
               m == i.modeTimer
               cs == i.palette
               md == i.mode512
    <2>1. o \in Nat /\ p \in Nat /\ m \in Nat /\ cs \in [Color -> Byte8] /\ md \in BOOLEAN
          /\ h = Timed(h, o, p, m, cs, md)
      BY <1>1, <1>5
    <2> HIDE DEF o, p, m, cs, md
    <2>2. h.outTimer = o /\ h.paletteTimer = p /\ h.modeTimer = m /\ h.palette = cs /\ h.mode512 = md
      BY <1>2, <2>1, TimedIs
    <2> QED BY <2>2 DEF o, p, m, cs, md
  <1> QED BY <1>2, <1>6, <1>7 DEF h

LEMMA IoTyped ==
  ASSUME NEW i \in IOs, NEW k \in Nat, NEW e
  PROVE  /\ IoAt(i, k, e) \in IOs
         /\ IoAt(i, k, e).port = i.port /\ IoAt(i, k, e).byte = i.byte
         /\ IoAt(i, k, e).outTimer = Remains(i.outTimer, k)
         /\ IoAt(i, k, e).paletteTimer = Remains(i.paletteTimer, k)
         /\ IoAt(i, k, e).modeTimer = Remains(i.modeTimer, k)
         /\ IoAt(i, k, e).a = IF Done(i.outTimer, k) THEN Committing(i).a ELSE i.a
         /\ IoAt(i, k, e).brdColorIdx = IF Done(i.outTimer, k) THEN Committing(i).brdColorIdx ELSE i.brdColorIdx
  <1> DEFINE h == Committing(i)
             base == IF Done(i.outTimer, k) THEN h ELSE i
             colors == IF Done(i.paletteTimer, k) THEN [i.palette EXCEPT ![e] = h.hwColor] ELSE i.palette
             mode == IF Done(i.modeTimer, k) THEN h.reqDisplayMode ELSE i.mode512
  <1>1. h \in IOs /\ h.port = i.port /\ h.byte = i.byte
    BY HandlingKeeps
  <1>2. Remains(i.outTimer, k) \in Nat /\ Remains(i.paletteTimer, k) \in Nat /\ Remains(i.modeTimer, k) \in Nat
    BY DEF IOs, Remains
  <1>3. IoAt(i, k, e) = Timed(base, Remains(i.outTimer, k), Remains(i.paletteTimer, k), Remains(i.modeTimer, k), colors, mode)
    BY Zenon DEF IoAt
  <1> HIDE DEF h
  <1>4. base \in IOs /\ base.port = i.port /\ base.byte = i.byte
    BY <1>1
  <1>5. colors \in [Color -> Byte8] /\ mode \in BOOLEAN
    <2>1. h.hwColor \in Byte8 /\ h.reqDisplayMode \in BOOLEAN /\ i.palette \in [Color -> Byte8] /\ i.mode512 \in BOOLEAN
      BY <1>1 DEF IOs
    <2> QED BY <2>1
  <1>6. base.a = (IF Done(i.outTimer, k) THEN h.a ELSE i.a)
        /\ base.brdColorIdx = IF Done(i.outTimer, k) THEN h.brdColorIdx ELSE i.brdColorIdx
    OBVIOUS
  <1> DEFINE o == Remains(i.outTimer, k)
             p == Remains(i.paletteTimer, k)
             m == Remains(i.modeTimer, k)
             x == IoAt(i, k, e)
  <1>7. x = Timed(base, o, p, m, colors, mode) /\ o \in Nat /\ p \in Nat /\ m \in Nat
    BY <1>2, <1>3
  <1> HIDE DEF base, colors, mode, o, p, m, x
  <1>8. /\ x \in IOs /\ x.port = base.port /\ x.byte = base.byte /\ x.outTimer = o /\ x.paletteTimer = p
        /\ x.modeTimer = m /\ x.a = base.a /\ x.brdColorIdx = base.brdColorIdx
    BY <1>4, <1>5, <1>7, TimedIs
  <1> QED BY <1>4, <1>6, <1>8, Zenon DEF h, o, p, m, x

LEMMA IoAtFirst ==
  ASSUME NEW i \in IOs, NEW e
  PROVE  IoAt(i, 0, e) = i
  <1>1. i.outTimer \in Nat /\ i.paletteTimer \in Nat /\ i.modeTimer \in Nat
    BY DEF IOs
  <1>2. ASSUME NEW t \in Nat PROVE Remains(t, 0) = t /\ ~Done(t, 0)
    BY DEF Remains, Done
  <1>3. IoAt(i, 0, e) = Timed(i, i.outTimer, i.paletteTimer, i.modeTimer, i.palette, i.mode512)
    BY <1>1, <1>2 DEF IoAt
  <1> QED BY <1>3, TimedAsIs

LEMMA IoGoesOn ==
  ASSUME NEW i \in IOs, Pending(i), NEW k \in Nat, NEW e, NEW c, k + 1 = i.paletteTimer => c = e
  PROVE  TryToCommit(IoAt(i, k, e), c) = IoAt(i, k + 1, e)
  <1> DEFINE h == Committing(i)
             x == IoAt(i, k, e)
             ot == i.outTimer
             pt == i.paletteTimer
             mt == i.modeTimer
             base(n) == IF Done(ot, n) THEN h ELSE i
             colors(n) == IF Done(pt, n) THEN [i.palette EXCEPT ![e] = h.hwColor] ELSE i.palette
             mode(n) == IF Done(mt, n) THEN h.reqDisplayMode ELSE i.mode512
             out == IF x.outTimer = 1 THEN PortOutHandling(x, x.port, x.byte) ELSE x
             newColors == IF x.paletteTimer = 1 THEN [out.palette EXCEPT ![c] = out.hwColor] ELSE out.palette
             newMode == IF x.modeTimer = 1 THEN out.reqDisplayMode ELSE out.mode512
  <1>1. /\ h \in IOs /\ h.outTimer = ot /\ h.paletteTimer = pt /\ h.modeTimer = mt
        /\ h.palette = i.palette /\ h.mode512 = i.mode512
    BY HandlingKeeps
  <1>2. /\ x \in IOs /\ x.port = i.port /\ x.byte = i.byte /\ x.outTimer = Remains(ot, k)
        /\ x.paletteTimer = Remains(pt, k) /\ x.modeTimer = Remains(mt, k)
    BY IoTyped
  <1>3. \A n : IoAt(i, n, e) = Timed(base(n), Remains(ot, n), Remains(pt, n), Remains(mt, n), colors(n), mode(n))
    BY Zenon DEF IoAt
  <1>4. x = Timed(base(k), Remains(ot, k), Remains(pt, k), Remains(mt, k), colors(k), mode(k))
    BY <1>3, Zenon
  <1>5. ot \in Nat /\ pt \in Nat /\ mt \in Nat
    BY DEF IOs
  <1>6. /\ ot = 0 => pt = 0 /\ mt = 0
        /\ pt # 0 => ot <= pt
        /\ mt # 0 => ot <= mt
    BY DEF Pending
  <1>7. TryToCommit(x, c) = Timed(out, Tick(out.outTimer), Tick(out.paletteTimer), Tick(out.modeTimer), newColors, newMode)
    BY Zenon DEF TryToCommit, Timed
  <1> HIDE DEF h, x, ot, pt, mt
  <1>8. \A t \in Nat : Tick(Remains(t, k)) = Remains(t, k + 1)
    BY DEF Tick, Remains
  <1>9. \A t \in Nat : Remains(t, k) = 1 <=> t = k + 1
    BY DEF Remains
  <1>10. \A t \in Nat : Done(t, k + 1) <=> Done(t, k) \/ t = k + 1
    BY DEF Done
  <1>11. \A t \in Nat : Remains(t, k) \in Nat
    BY DEF Remains
  <1>12. CASE ot = k + 1
    <2>1. x.outTimer = 1
      BY <1>2, <1>5, <1>9, <1>12
    <2>2. ~Done(ot, k) /\ ~Done(pt, k) /\ ~Done(mt, k)
      BY <1>5, <1>6, <1>12 DEF Done
    <2> DEFINE lo == Remains(ot, k)
               lp == Remains(pt, k)
               lm == Remains(mt, k)
    <2>3. x = Timed(i, lo, lp, lm, i.palette, i.mode512)
      BY <1>4, <2>2
    <2>4. i.byte \in Byte8 /\ i.palette \in [Color -> Byte8] /\ i.mode512 \in BOOLEAN
      BY DEF IOs
    <2>5. PortOutHandling(x, i.port, i.byte) = Timed(h, lo, lp, lm, i.palette, i.mode512)
      BY <2>3, <2>4, HandlingTimed DEF h, Committing
    <2>6. out = Timed(h, lo, lp, lm, i.palette, i.mode512)
      BY <1>2, <2>1, <2>5
    <2>7. lo \in Nat /\ lp \in Nat /\ lm \in Nat
      BY <1>5, <1>11
    <2> HIDE DEF lo, lp, lm, out
    <2>8. /\ out \in IOs /\ out.outTimer = lo /\ out.paletteTimer = lp /\ out.modeTimer = lm
          /\ out.palette = i.palette /\ out.mode512 = i.mode512 /\ out.hwColor = h.hwColor
          /\ out.reqDisplayMode = h.reqDisplayMode
      <3> DEFINE y == Timed(h, lo, lp, lm, i.palette, i.mode512)
      <3>1. /\ y \in IOs /\ y.outTimer = lo /\ y.paletteTimer = lp /\ y.modeTimer = lm
            /\ y.palette = i.palette /\ y.mode512 = i.mode512 /\ y.hwColor = h.hwColor
            /\ y.reqDisplayMode = h.reqDisplayMode
        <4> DEFINE colors0 == i.palette
                   mode0 == i.mode512
        <4>1. colors0 \in [Color -> Byte8] /\ mode0 \in BOOLEAN
          BY <2>4
        <4> HIDE DEF colors0, mode0, h
        <4> DEFINE z == Timed(h, lo, lp, lm, colors0, mode0)
        <4>2. /\ z \in IOs /\ z.outTimer = lo /\ z.paletteTimer = lp /\ z.modeTimer = lm
              /\ z.palette = colors0 /\ z.mode512 = mode0 /\ z.hwColor = h.hwColor
              /\ z.reqDisplayMode = h.reqDisplayMode
          BY <1>1, <2>7, <4>1, TimedIs
        <4> QED BY <4>2, Zenon DEF colors0, mode0
      <3> HIDE DEF y
      <3> QED BY <2>6, <3>1, Zenon DEF y
    <2>9. newColors = colors(k + 1)
      <3>1. x.paletteTimer = 1 <=> pt = k + 1
        BY <1>2, <1>5, <1>9
      <3>2. Done(pt, k + 1) <=> pt = k + 1
        BY <1>5, <1>10, <2>2
      <3>3. pt = k + 1 => c = e
        BY DEF pt
      <3> QED BY <2>8, <3>1, <3>2, <3>3
    <2>10. newMode = mode(k + 1)
      <3>1. x.modeTimer = 1 <=> mt = k + 1
        BY <1>2, <1>5, <1>9
      <3>2. Done(mt, k + 1) <=> mt = k + 1
        BY <1>5, <1>10, <2>2
      <3> QED BY <2>8, <3>1, <3>2
    <2>11. base(k + 1) = h
      BY <1>5, <1>10, <1>12
    <2>12. Tick(out.outTimer) = Remains(ot, k + 1) /\ Tick(out.paletteTimer) = Remains(pt, k + 1)
           /\ Tick(out.modeTimer) = Remains(mt, k + 1)
      BY <1>5, <1>8, <2>8 DEF lo, lp, lm
    <2> DEFINE nc == newColors
               nm == newMode
               ncc == colors(k + 1)
               nmm == mode(k + 1)
               b == base(k + 1)
    <2>13. TryToCommit(x, c) = Timed(out, Remains(ot, k + 1), Remains(pt, k + 1), Remains(mt, k + 1), ncc, nmm)
      <3> HIDE DEF nc, nm, ncc, nmm
      <3>1. nc = ncc /\ nm = nmm
        BY <2>9, <2>10 DEF nc, nm, ncc, nmm
      <3>2. TryToCommit(x, c) = Timed(out, Tick(out.outTimer), Tick(out.paletteTimer), Tick(out.modeTimer), nc, nm)
        BY <1>7, Zenon DEF nc, nm, out
      <3> QED BY <2>12, <3>1, <3>2
    <2>14. IoAt(i, k + 1, e) = Timed(b, Remains(ot, k + 1), Remains(pt, k + 1), Remains(mt, k + 1), ncc, nmm)
      BY <1>3, Zenon
    <2>15. b = h
      BY <2>11
    <2> HIDE DEF ncc, nmm, b
    <2>16. Timed(out, Remains(ot, k + 1), Remains(pt, k + 1), Remains(mt, k + 1), ncc, nmm)
             = Timed(h, Remains(ot, k + 1), Remains(pt, k + 1), Remains(mt, k + 1), ncc, nmm)
      BY <1>1, <2>6, TimedTwice
    <2> QED BY <2>13, <2>14, <2>15, <2>16 DEF x
  <1>13. CASE ot # k + 1
    <2>1. out = x
      BY <1>2, <1>5, <1>9, <1>13
    <2>2. base(k + 1) = base(k) /\ base(k) \in IOs
      BY <1>1, <1>5, <1>10, <1>13
    <2> DEFINE b == base(k)
               cs == colors(k)
               md == mode(k)
    <2>3. cs \in [Color -> Byte8] /\ md \in BOOLEAN
      <3>1. h.hwColor \in Byte8 /\ h.reqDisplayMode \in BOOLEAN /\ i.palette \in [Color -> Byte8] /\ i.mode512 \in BOOLEAN
        BY <1>1 DEF IOs
      <3> QED BY <3>1
    <2>4. x = Timed(b, Remains(ot, k), Remains(pt, k), Remains(mt, k), cs, md)
      BY <1>4
    <2>5. pt = k + 1 \/ mt = k + 1 => b = h
      BY <1>5, <1>6, <1>13 DEF Done
    <2> HIDE DEF b, cs, md
    <2>6. x.palette = cs /\ x.mode512 = md /\ x.hwColor = b.hwColor /\ x.reqDisplayMode = b.reqDisplayMode
      <3> DEFINE o == Remains(ot, k)
                 p == Remains(pt, k)
                 m == Remains(mt, k)
      <3>1. o \in Nat /\ p \in Nat /\ m \in Nat /\ x = Timed(b, o, p, m, cs, md)
        BY <1>5, <1>11, <2>4
      <3>2. b \in IOs
        BY <2>2 DEF b
      <3> HIDE DEF o, p, m
      <3> DEFINE y == Timed(b, o, p, m, cs, md)
      <3>3. y.palette = cs /\ y.mode512 = md /\ y.hwColor = b.hwColor /\ y.reqDisplayMode = b.reqDisplayMode
        BY <3>2, TimedKeeps
      <3>4. x = y
        BY <3>1
      <3> HIDE DEF y
      <3> QED BY <3>3, <3>4
    <2>7. newColors = colors(k + 1)
      <3>1. x.paletteTimer = 1 <=> pt = k + 1
        BY <1>2, <1>5, <1>9
      <3>2. Done(pt, k + 1) <=> Done(pt, k) \/ pt = k + 1
        BY <1>5, <1>10
      <3>3. pt = k + 1 => ~Done(pt, k) /\ c = e
        BY DEF pt, Done
      <3>4. newColors = IF pt = k + 1 THEN [cs EXCEPT ![c] = b.hwColor] ELSE cs
        BY <2>1, <2>6, <3>1
      <3> HIDE DEF newColors, out
      <3> QED BY <2>5, <3>2, <3>3, <3>4 DEF cs
    <2>8. newMode = mode(k + 1)
      <3>1. x.modeTimer = 1 <=> mt = k + 1
        BY <1>2, <1>5, <1>9
      <3>2. Done(mt, k + 1) <=> Done(mt, k) \/ mt = k + 1
        BY <1>5, <1>10
      <3>3. mt = k + 1 => ~Done(mt, k)
        BY DEF Done
      <3>4. newMode = IF mt = k + 1 THEN b.reqDisplayMode ELSE md
        BY <2>1, <2>6, <3>1
      <3> HIDE DEF newMode, out
      <3> QED BY <2>5, <3>2, <3>3, <3>4 DEF md
    <2>9. Tick(x.outTimer) = Remains(ot, k + 1) /\ Tick(x.paletteTimer) = Remains(pt, k + 1)
           /\ Tick(x.modeTimer) = Remains(mt, k + 1)
      BY <1>2, <1>5, <1>8
    <2> DEFINE nc == newColors
               nm == newMode
               ncc == colors(k + 1)
               nmm == mode(k + 1)
               bb == base(k + 1)
    <2>10. TryToCommit(x, c) = Timed(x, Remains(ot, k + 1), Remains(pt, k + 1), Remains(mt, k + 1), ncc, nmm)
      <3>1. nc = ncc /\ nm = nmm
        BY <2>7, <2>8
      <3>2. TryToCommit(x, c) = Timed(out, Tick(out.outTimer), Tick(out.paletteTimer), Tick(out.modeTimer), nc, nm)
        BY <1>7, Zenon
      <3> HIDE DEF nc, nm, ncc, nmm, out
      <3> QED BY <2>1, <2>9, <3>1, <3>2
    <2>11. IoAt(i, k + 1, e) = Timed(bb, Remains(ot, k + 1), Remains(pt, k + 1), Remains(mt, k + 1), ncc, nmm)
      BY <1>3, Zenon
    <2>12. bb = b
      BY <2>2 DEF b
    <2> HIDE DEF ncc, nmm, bb
    <2>13. Timed(x, Remains(ot, k + 1), Remains(pt, k + 1), Remains(mt, k + 1), ncc, nmm)
             = Timed(b, Remains(ot, k + 1), Remains(pt, k + 1), Remains(mt, k + 1), ncc, nmm)
      BY <2>2, <2>4, TimedTwice DEF b
    <2> QED BY <2>10, <2>11, <2>12, <2>13 DEF x
  <1> QED BY <1>12, <1>13

(* The frame in chunks of 16 pixels. *)
LEMMA Small ==
  ASSUME NEW L \in Nat, L # 0
  PROVE  /\ \A x \in 0..L - 1 : x % L = x /\ x \div L = 0
         /\ L % L = 0
  <1>1. ASSUME NEW x \in 0..L - 1 PROVE x % L = x /\ x \div L = 0
    <2>1. 0 * L + x = x
      OBVIOUS
    <2>2. (0 * L + x) \div L = 0 /\ (0 * L + x) % L = x
      BY Quotient
    <2> QED BY <2>1, <2>2
  <1>2. L % L = 0
    <2>1. 1 * L + 0 = L /\ 0 \in 0..L - 1
      OBVIOUS
    <2>2. (1 * L + 0) % L = 0
      BY <2>1, Quotient
    <2> QED BY <2>1, <2>2
  <1> QED BY <1>1, <1>2

LEMMA Geometry ==
  /\ FrameW \in Nat /\ FrameH \in Nat /\ Top \in Nat /\ ActiveH \in Nat /\ BorderLeft \in Nat /\ ActiveW \in Nat
  /\ ActiveH # 0 /\ FrameLen \in Nat /\ FrameLen # 0 /\ FrameW # 0 /\ Step = 16
  /\ IrqPxl \in 1..FrameW - 1 /\ ScrollPxl \in BorderLeft..BorderLeft + 15
  /\ Top \in 1..FrameH - 1 /\ Top + ActiveH < FrameH
  /\ 0 < BorderLeft /\ 0 < ActiveW /\ BorderLeft + ActiveW < FrameW
  /\ \E w \in Nat : FrameW = 16 * w
  /\ \E w \in Nat : BorderLeft = 16 * w
  /\ \E w \in Nat : ActiveW = 16 * w
  /\ \E w \in Nat : 256 = w * ActiveH
  /\ FrameLen = FrameW * FrameH /\ FrameW <= FrameLen
  <1>1. /\ FrameW \in Nat /\ FrameH \in Nat /\ Top \in Nat /\ ActiveH \in Nat /\ BorderLeft \in Nat /\ ActiveW \in Nat
        /\ ActiveH # 0 /\ Step = 16 /\ IrqPxl \in 1..FrameW - 1 /\ ScrollPxl \in BorderLeft..BorderLeft + 15
        /\ Top \in 1..FrameH - 1 /\ Top + ActiveH < FrameH /\ 0 < BorderLeft /\ 0 < ActiveW /\ BorderLeft + ActiveW < FrameW
        /\ FrameW % 16 = 0 /\ BorderLeft % 16 = 0 /\ ActiveW % 16 = 0 /\ 256 % ActiveH = 0
    BY DisplayAssumption
  <1>2. FrameW # 0 /\ FrameH >= 2
    BY <1>1
  <1>3. FrameLen = FrameW * FrameH
    BY DEF FrameLen
  <1>4. FrameLen \in Nat /\ FrameW <= FrameLen
    <2>1. PICK h \in Nat : FrameH = h + 1
      BY <1>1, <1>2
    <2>2. FrameLen = FrameW * h + FrameW /\ FrameW * h \in Nat
      BY <1>1, <1>3, <2>1
    <2> QED BY <1>1, <2>2
  <1>5. /\ \E w \in Nat : FrameW = 16 * w
        /\ \E w \in Nat : BorderLeft = 16 * w
        /\ \E w \in Nat : ActiveW = 16 * w
    <2>1. \A n \in Nat : n % 16 = 0 => (n \div 16) \in Nat /\ n = 16 * (n \div 16)
      OBVIOUS
    <2> QED BY <1>1, <2>1
  <1>6. \E w \in Nat : 256 = w * ActiveH
    <2> DEFINE w == 256 \div ActiveH
    <2>1. w \in Int /\ 256 = ActiveH * w + (256 % ActiveH)
      BY <1>1
    <2> HIDE DEF w
    <2>2. 256 = ActiveH * w
      BY <1>1, <2>1
    <2>3. ASSUME w < 0 PROVE FALSE
      <3>1. PICK v \in Nat : w = -v
        BY <2>1, <2>3
      <3>2. ActiveH * w = -(ActiveH * v) /\ ActiveH * v \in Nat
        BY <1>1, <3>1
      <3> QED BY <2>2, <3>2
    <2>4. w \in Nat /\ 256 = w * ActiveH
      BY <1>1, <2>1, <2>2, <2>3
    <2> QED BY <2>4
  <1>7. \E w \in Nat : FrameW = 16 * w
    BY <1>5
  <1>8. \E w \in Nat : BorderLeft = 16 * w
    BY <1>5
  <1>9. \E w \in Nat : ActiveW = 16 * w
    BY <1>5
  <1>10. FrameLen # 0 /\ FrameW # 0
    BY <1>1, <1>2, <1>4
  <1>11. FrameLen \in Nat /\ FrameW <= FrameLen
    BY <1>4
  <1> QED BY <1>1, <1>3, <1>6, <1>7, <1>8, <1>9, <1>10, <1>11, Zenon

InLine(at, line, px) ==
  /\ line \in 0..FrameH - 1 /\ px \in 0..FrameW - 16 /\ at = line * FrameW + px /\ at + 16 <= FrameLen
  /\ \A d \in 0..15 : (at + d) \div FrameW = line /\ (at + d) % FrameW = px + d
  /\ at \div FrameW = line /\ at % FrameW = px
  /\ px < BorderLeft => px + 16 <= BorderLeft
  /\ px < BorderLeft + ActiveW => px + 16 <= BorderLeft + ActiveW
  /\ px >= BorderLeft => \E j \in Nat : px = BorderLeft + 16 * j
LEMMA Chunk ==
  ASSUME NEW m \in Nat, 16 * m < FrameLen
  PROVE  InLine(16 * m, (16 * m) \div FrameW, (16 * m) % FrameW)
  <1> DEFINE at == 16 * m
             line == at \div FrameW
             px == at % FrameW
  <1>0. /\ FrameW \in Nat /\ FrameH \in Nat /\ FrameW # 0 /\ FrameLen = FrameW * FrameH /\ FrameLen \in Nat
        /\ BorderLeft \in Nat /\ ActiveW \in Nat
    BY Geometry
  <1>1. PICK fw \in Nat : FrameW = 16 * fw
    BY Geometry
  <1>2. PICK bl \in Nat : BorderLeft = 16 * bl
    BY Geometry
  <1>3. PICK aw \in Nat : ActiveW = 16 * aw
    BY Geometry
  <1>4. at \in Nat /\ at < FrameLen
    OBVIOUS
  <1>5. line \in Int /\ px \in 0..FrameW - 1 /\ at = FrameW * line + px
    <2> HIDE DEF at
    <2> QED BY <1>0, <1>4
  <1> HIDE DEF line, px
  <1>6. line \in 0..FrameH - 1
    <2>1. ASSUME line < 0 PROVE FALSE
      <3>1. PICK v \in Nat : line = -v - 1
        BY <1>5, <2>1
      <3>2. FrameW * line = -(FrameW * v) - FrameW /\ FrameW * v \in Nat
        BY <1>0, <3>1
      <3> QED BY <1>0, <1>4, <1>5, <3>2
    <2>2. ASSUME line >= FrameH PROVE FALSE
      <3>1. PICK v \in Nat : line = FrameH + v
        BY <1>0, <1>5, <2>2
      <3>2. FrameW * line = FrameLen + FrameW * v /\ FrameW * v \in Nat
        BY <1>0, <3>1
      <3> QED BY <1>0, <1>4, <1>5, <3>2
    <2> QED BY <1>0, <1>5, <2>1, <2>2
  <1>7. PICK q \in Int : px = 16 * q
    <2>1. fw * line \in Int /\ FrameW * line = 16 * (fw * line)
      BY <1>1, <1>5
    <2>2. px = 16 * (m - fw * line)
      BY <1>5, <2>1
    <2> QED BY <2>1, <2>2
  <1>8. px \in 0..FrameW - 16
    BY <1>0, <1>1, <1>5, <1>7
  <1>9. at = line * FrameW + px
    BY <1>0, <1>5
  <1>10. at + 16 <= FrameLen
    <2>1. PICK v \in Nat : FrameH = line + 1 + v
      BY <1>0, <1>6
    <2>2. FrameLen = FrameW * line + FrameW + FrameW * v /\ FrameW * v \in Nat /\ FrameW * line \in Int
      BY <1>0, <1>5, <2>1
    <2> HIDE DEF at
    <2> QED BY <1>0, <1>4, <1>5, <1>8, <2>2
  <1>11. ASSUME NEW d \in 0..15 PROVE (at + d) \div FrameW = line /\ (at + d) % FrameW = px + d
    <2>1. px + d \in 0..FrameW - 1
      BY <1>0, <1>8
    <2>2. at + d = line * FrameW + (px + d)
      <3>1. line * FrameW \in Int
        BY <1>0, <1>5
      <3> HIDE DEF at
      <3> QED BY <1>4, <1>8, <1>9, <3>1
    <2>3. (line * FrameW + (px + d)) \div FrameW = line /\ (line * FrameW + (px + d)) % FrameW = px + d
      BY <1>0, <1>5, <2>1, Quotient
    <2> QED BY <2>2, <2>3
  <1>12. /\ px < BorderLeft => px + 16 <= BorderLeft
         /\ px < BorderLeft + ActiveW => px + 16 <= BorderLeft + ActiveW
         /\ px >= BorderLeft => \E j \in Nat : px = BorderLeft + 16 * j
    <2>1. px >= BorderLeft => q - bl \in Nat /\ px = BorderLeft + 16 * (q - bl)
      BY <1>2, <1>7
    <2>2. px < BorderLeft => px + 16 <= BorderLeft
      BY <1>2, <1>7
    <2>3. px < BorderLeft + ActiveW => px + 16 <= BorderLeft + ActiveW
      BY <1>2, <1>3, <1>7
    <2> HIDE DEF at
    <2> QED BY <2>1, <2>2, <2>3, Zenon
  <1> HIDE DEF at
  <1>13. at \div FrameW = line /\ at % FrameW = px
    BY Zenon DEF line, px
  <1>14. InLine(at, line, px)
    BY <1>6, <1>8, <1>9, <1>10, <1>11, <1>12, <1>13 DEF InLine
  <1> QED BY <1>14, Zenon DEF at, line, px

-----------------------------------------------------------------------------
(* What is drawn: s after k pixels. *)
Rec(idx, irq, scroll, frame, i, pixels) ==
  [idx |-> idx, irq |-> irq, scroll |-> scroll, frame |-> frame, io |-> i, pixels |-> pixels]
Strip(first, n, scroll, mode) == [j \in 1..n |-> ShownAt(first + j - 1, scroll, mode)]

LEMMA PutIs ==
  ASSUME NEW idx, NEW irq, NEW scroll, NEW frame, NEW i, NEW pixels, NEW from, NEW j
  PROVE  Put(Rec(idx, irq, scroll, frame, i, pixels), from, j)
           = Rec(idx + 1, irq, scroll, frame, j, Append(pixels, from))
  <1> DEFINE r == Rec(idx, irq, scroll, frame, i, pixels)
             np == Append(pixels, from)
             ni == idx + 1
  <1>1. r.idx = idx /\ r.pixels = pixels
    BY DEF Rec
  <1>2. Put(r, from, j) = [r EXCEPT !.io = j, !.pixels = Append(r.pixels, from), !.idx = r.idx + 1]
    BY Zenon DEF Put
  <1>3. Put(r, from, j) = [r EXCEPT !.io = j, !.pixels = np, !.idx = ni]
    <2> HIDE DEF r
    <2> QED BY <1>1, <1>2
  <1> HIDE DEF np, ni
  <1>4. [r EXCEPT !.io = j, !.pixels = np, !.idx = ni] = Rec(ni, irq, scroll, frame, j, np)
    <2>1. [r EXCEPT !.io = j] = Rec(idx, irq, scroll, frame, j, pixels)
      BY DEF Rec
    <2>2. [Rec(idx, irq, scroll, frame, j, pixels) EXCEPT !.pixels = np] = Rec(idx, irq, scroll, frame, j, np)
      BY DEF Rec
    <2>3. [Rec(idx, irq, scroll, frame, j, np) EXCEPT !.idx = ni] = Rec(ni, irq, scroll, frame, j, np)
      BY DEF Rec
    <2> QED BY <2>1, <2>2, <2>3, Zenon
  <1> QED BY <1>3, <1>4, Zenon DEF np, ni

Grows(first, n, scroll, mode) ==
  Append(Strip(first, n, scroll, mode), ShownAt(first + n, scroll, mode)) = Strip(first, n + 1, scroll, mode)
LEMMA StripGrows ==
  ASSUME NEW first \in Nat, NEW n \in Nat, NEW scroll, NEW mode
  PROVE  Grows(first, n, scroll, mode)
  <1> DEFINE P(j) == ShownAt(first + j - 1, scroll, mode)
             Q == {P(j) : j \in 1..n + 1}
             a == [j \in 1..n |-> P(j)]
             b == [j \in 1..n + 1 |-> P(j)]
  <1>1. ShownAt(first + n, scroll, mode) = P(n + 1)
    <2>1. first + n = first + (n + 1) - 1
      OBVIOUS
    <2> QED BY <2>1, Zenon
  <1>2. a = Strip(first, n, scroll, mode) /\ b = Strip(first, n + 1, scroll, mode)
    BY DEF Strip
  <1> HIDE DEF P
  <1>3. a \in Seq(Q) /\ P(n + 1) \in Q
    <2>1. \A j \in 1..n : P(j) \in Q
      OBVIOUS
    <2>2. P(n + 1) \in Q
      OBVIOUS
    <2>3. n \in Nat
      OBVIOUS
    <2> HIDE DEF Q
    <2>4. a \in [1..n -> Q]
      BY <2>1
    <2>5. a \in Seq(Q)
      <3> HIDE DEF a
      <3> QED BY <2>3, <2>4, SeqDef
    <2> QED BY <2>2, <2>5
  <1>4. Append(a, P(n + 1)) = b
    <2> HIDE DEF Q
    <2>1. Len(a) = n
      BY <1>3
    <2>2. Append(a, P(n + 1)) = [j \in 1..n + 1 |-> IF j = n + 1 THEN P(n + 1) ELSE a[j]]
      BY <1>3, <2>1, AppendProperties
    <2> QED BY <2>2
  <1> QED BY <1>1, <1>2, <1>4, Zenon DEF Grows

LEMMA StripLength ==
  ASSUME NEW first, NEW n \in Nat, NEW scroll, NEW mode
  PROVE  Len(Strip(first, n, scroll, mode)) = n
  BY DEF Strip

LEMMA StripStarts ==
  ASSUME NEW first, NEW scroll, NEW mode
  PROVE  Strip(first, 0, scroll, mode) = <<>>
  BY DEF Strip

LEMMA LoopIs ==
  ASSUME NEW n \in Nat, NEW f, NEW V, f[0] = V[0], \A k \in 0..n - 1 : f[k] = V[k] => f[k + 1] = V[k + 1]
  PROVE  f[n] = V[n]
  <1> DEFINE S == {k \in 0..n : f[k] = V[k]}
  <1>1. 0 \in S /\ \A k \in 0..n - 1 : k \in S => k + 1 \in S
    OBVIOUS
  <1>2. \A k \in 0..n : k \in S
    <2> HIDE DEF S
    <2> QED BY <1>1, Induct
  <1> QED BY <1>2

BorderAt(at, k, scroll, frame, i, mode) ==
  Rec((at + k) % FrameLen, at < IrqPxl /\ IrqPxl <= at + k, scroll,
      IF at + k = FrameLen THEN 1 - frame ELSE frame, IoAt(i, k, i.brdColorIdx), Strip(at, k, scroll, mode))
BorderRound(t) ==
  LET p == Put(t, Border, TryToCommit(t.io, t.io.brdColorIdx))
  IN  [p EXCEPT !.idx = @ % FrameLen, !.irq = @ \/ p.idx % FrameLen = IrqPxl,
                !.frame = IF p.idx = FrameLen THEN 1 - @ ELSE @]

LEMMA BorderStays ==
  ASSUME NEW i \in IOs, Pending(i), NEW k \in Nat, NEW e, k + 1 = i.paletteTimer
  PROVE  IoAt(i, k, e).brdColorIdx = i.brdColorIdx
  <1>1. i.port \in PaletteOut
    BY DEF Pending
  <1>2. Committing(i) = [i EXCEPT !.hwColor = i.byte]
    BY <1>1 DEF Committing, PortOutHandling, PaletteOut
  <1>3. Committing(i).brdColorIdx = i.brdColorIdx
    BY <1>2 DEF IOs
  <1> QED BY <1>3, IoTyped

LEMMA BorderGoesOn ==
  ASSUME NEW at \in Nat, NEW k \in 0..15, at + 16 <= FrameLen, NEW scroll, NEW frame,
         NEW i \in IOs, Pending(i), NEW mode, ShownAt(at + k, scroll, mode) = Border
  PROVE  BorderRound(BorderAt(at, k, scroll, frame, i, mode)) = BorderAt(at, k + 1, scroll, frame, i, mode)
  <1> DEFINE e == i.brdColorIdx
             irq == at < IrqPxl /\ IrqPxl <= at + k
             x == IoAt(i, k, e)
             y == IoAt(i, k + 1, e)
             old == Strip(at, k, scroll, mode)
             new == Strip(at, k + 1, scroll, mode)
  <1>0. FrameLen \in Nat /\ FrameLen # 0 /\ IrqPxl \in 1..FrameLen - 1
    <2>1. FrameLen \in Nat /\ FrameLen # 0 /\ FrameW \in Nat /\ FrameW <= FrameLen /\ IrqPxl \in 1..FrameW - 1
      BY Geometry
    <2> QED BY <2>1
  <1>1. (at + k) % FrameLen = at + k /\ at + k \in 0..FrameLen - 1
    <2>1. at + k \in 0..FrameLen - 1
      BY <1>0
    <2> QED BY <1>0, <2>1, Small
  <1>2. TryToCommit(x, x.brdColorIdx) = y
    <2>1. k + 1 = i.paletteTimer => x.brdColorIdx = e
      BY BorderStays
    <2> HIDE DEF e
    <2>2. k \in Nat
      OBVIOUS
    <2> QED BY <2>1, <2>2, IoGoesOn
  <1>3. Append(old, Border) = new
    <2>0. k \in Nat
      OBVIOUS
    <2>1. Grows(at, k, scroll, mode)
      BY <2>0, StripGrows
    <2> QED BY <2>1, Zenon DEF Grows
  <1>4. (at + k + 1) % FrameLen = IF at + k + 1 = FrameLen THEN 0 ELSE at + k + 1
    <2>1. at + k + 1 = FrameLen \/ at + k + 1 \in 0..FrameLen - 1
      BY <1>0, <1>1
    <2> QED BY <1>0, <2>1, Small
  <1>5. at + k # FrameLen
    BY <1>1
  <1> DEFINE t == BorderAt(at, k, scroll, frame, i, mode)
             p == Put(t, Border, TryToCommit(t.io, t.io.brdColorIdx))
             a == (at + k + 1) % FrameLen
  <1>6. t = Rec(at + k, irq, scroll, frame, x, old)
    BY <1>1, <1>5 DEF BorderAt
  <1>7. p = Rec(at + k + 1, irq, scroll, frame, y, new)
    <2>1. t.io = x
      BY <1>6 DEF Rec
    <2> HIDE DEF t, x, y, old, new, irq
    <2>2. Put(Rec(at + k, irq, scroll, frame, x, old), Border, y)
            = Rec(at + k + 1, irq, scroll, frame, y, Append(old, Border))
      BY PutIs
    <2>3. TryToCommit(t.io, t.io.brdColorIdx) = y
      BY <1>2, <2>1
    <2> QED BY <1>3, <1>6, <2>2, <2>3, Zenon
  <1>8. BorderRound(t) = [p EXCEPT !.idx = @ % FrameLen, !.irq = @ \/ p.idx % FrameLen = IrqPxl,
                                   !.frame = IF p.idx = FrameLen THEN 1 - @ ELSE @]
    BY Zenon DEF BorderRound
  <1> DEFINE irq2 == irq \/ a = IrqPxl
             frame2 == IF at + k + 1 = FrameLen THEN 1 - frame ELSE frame
  <1>9. BorderRound(t) = Rec(a, irq2, scroll, frame2, y, new)
    <2> HIDE DEF t, p, x, y, old, new, irq
    <2> QED BY <1>7, <1>8 DEF Rec
  <1>10. irq2 = (at < IrqPxl /\ IrqPxl <= at + (k + 1))
    <2> HIDE DEF a
    <2>1. a = IF at + k + 1 = FrameLen THEN 0 ELSE at + k + 1
      BY <1>4 DEF a
    <2> QED BY <1>0, <2>1
  <1>11. at + (k + 1) = at + k + 1
    OBVIOUS
  <1> HIDE DEF t, y, new, a, irq2, frame2, irq
  <1>12. BorderAt(at, k + 1, scroll, frame, i, mode) = Rec(a, irq2, scroll, frame2, y, new)
    BY <1>10, <1>11 DEF BorderAt, a, frame2, y, new
  <1> QED BY <1>9, <1>12 DEF t

LEMMA BorderFilled ==
  ASSUME NEW at \in Nat, at + 16 <= FrameLen, NEW scroll, NEW frame, NEW i \in IOs, Pending(i), NEW mode,
         \A k \in 0..15 : ShownAt(at + k, scroll, mode) = Border
  PROVE  FillBorderPortHandling(BorderAt(at, 0, scroll, frame, i, mode), 16) = BorderAt(at, 16, scroll, frame, i, mode)
  <1> DEFINE s == BorderAt(at, 0, scroll, frame, i, mode)
             Eq(f) == f = [j \in 0..16 |-> IF j = 0 THEN s ELSE BorderRound(f[j - 1])]
             after == CHOOSE f : Eq(f)
             V == [j \in 0..16 |-> BorderAt(at, j, scroll, frame, i, mode)]
  <1>1. FillBorderPortHandling(s, 16) = after[16]
    BY Zenon DEF FillBorderPortHandling, Repeat, BorderRound
  <1>2. ASSUME NEW k \in 0..15
        PROVE  BorderRound(V[k]) = V[k + 1] /\ V[k] = BorderAt(at, k, scroll, frame, i, mode)
    <2>1. BorderRound(BorderAt(at, k, scroll, frame, i, mode)) = BorderAt(at, k + 1, scroll, frame, i, mode)
      BY BorderGoesOn
    <2>2. k \in 0..16 /\ k + 1 \in 0..16
      OBVIOUS
    <2> QED BY <2>1, <2>2
  <1>3. V[0] = s /\ V[16] = BorderAt(at, 16, scroll, frame, i, mode)
    OBVIOUS
  <1>4. V = [j \in 0..16 |-> V[j]]
    OBVIOUS
  <1> HIDE DEF V, s
  <1>5. Eq(V)
    <2>1. \A j \in 0..16 : j # 0 => j - 1 \in 0..15 /\ (j - 1) + 1 = j
      OBVIOUS
    <2>2. \A j \in 0..16 : V[j] = IF j = 0 THEN s ELSE BorderRound(V[j - 1])
      BY <1>2, <1>3, <2>1
    <2> QED BY <1>4, <2>2
  <1>6. Eq(after)
    <2> HIDE DEF Eq
    <2> QED BY <1>5
  <1> HIDE DEF after
  <1>7. after[16] = V[16]
    <2>1. after[0] = s /\ \A k \in 0..15 : after[k + 1] = BorderRound(after[k])
      <3>1. after[0] = s
        BY <1>6
      <3>2. ASSUME NEW k \in 0..15 PROVE after[k + 1] = BorderRound(after[k])
        <4>1. k + 1 \in 0..16 /\ k + 1 # 0 /\ (k + 1) - 1 = k
          OBVIOUS
        <4>2. after[k + 1] = IF k + 1 = 0 THEN s ELSE BorderRound(after[(k + 1) - 1])
          BY <1>6, <4>1
        <4> QED BY <4>1, <4>2
      <3> QED BY <3>1, <3>2
    <2>2. \A k \in 0..16 - 1 : after[k] = V[k] => after[k + 1] = V[k + 1]
      BY <1>2, <2>1
    <2>3. after[0] = V[0]
      BY <1>3, <2>1
    <2> QED BY <2>2, <2>3, LoopIs
  <1> QED BY <1>1, <1>3, <1>7 DEF s

LEMMA RemainderShifts ==
  ASSUME NEW L \in Nat, L # 0, NEW a \in Int, NEW q \in Int
  PROVE  (a + q * L) % L = a % L
  <1> DEFINE d == a \div L
             r == a % L
  <1>1. a = L * d + r /\ d \in Int /\ r \in 0..L - 1
    OBVIOUS
  <1> HIDE DEF d, r
  <1>2. a + q * L = (d + q) * L + r
    <2>1. (d + q) * L = L * d + q * L /\ q * L \in Int /\ L * d \in Int
      BY <1>1
    <2> QED BY <1>1, <2>1
  <1>3. d + q \in Int
    BY <1>1
  <1> DEFINE c == d + q
  <1> HIDE DEF c
  <1>4. (c * L + r) % L = r
    BY <1>1, <1>3, Quotient DEF c
  <1> QED BY <1>2, <1>4 DEF c, r

RowOf(line, scroll) == (line - Top + (255 - scroll) + ActiveH) % ActiveH
BitAt(mode, k) == IF mode THEN 15 - k ELSE 7 - (k \div 2)
InPicture(at, line, px, j) ==
  /\ InLine(at, line, px) /\ line \in Top..Top + ActiveH - 1
  /\ j \in Nat /\ px = BorderLeft + 16 * j /\ px + 16 <= BorderLeft + ActiveW

LEMMA RowIs ==
  ASSUME NEW line \in Int, NEW scroll \in Byte8
  PROVE  RowOf(line, scroll) = (line - Top - (scroll + 1)) % ActiveH /\ RowOf(line, scroll) \in 0..ActiveH - 1
  <1>1. Top \in Nat /\ ActiveH \in Nat /\ ActiveH # 0
    BY Geometry
  <1>2. PICK w \in Nat : 256 = w * ActiveH
    BY Geometry
  <1> DEFINE a == line - Top - (scroll + 1)
             b == line - Top + (255 - scroll) + ActiveH
  <1>3. a \in Int /\ b \in Int
    BY <1>1 DEF Byte8
  <1>4. b = a + (w + 1) * ActiveH
    <2>1. (w + 1) * ActiveH = 256 + ActiveH
      BY <1>1, <1>2
    <2>2. b = a + (256 + ActiveH)
      BY <1>1 DEF Byte8
    <2> QED BY <2>1, <2>2
  <1> DEFINE q == w + 1
  <1>7. q \in Int /\ b = a + q * ActiveH
    BY <1>4
  <1> HIDE DEF a, b, q
  <1>5. b % ActiveH = a % ActiveH
    BY <1>1, <1>3, <1>7, RemainderShifts
  <1>6. b % ActiveH \in 0..ActiveH - 1
    BY <1>1, <1>3
  <1> QED BY <1>5, <1>6 DEF RowOf, a, b

LEMMA ShownIn ==
  ASSUME NEW at, NEW line, NEW px, NEW j, InPicture(at, line, px, j), NEW k \in 0..15, NEW scroll \in Byte8, NEW mode
  PROVE  ShownAt(at + k, scroll, mode) = <<RowOf(line, scroll), j, BitAt(mode, k)>>
  <1>1. BorderLeft \in Nat /\ ActiveW \in Nat /\ Top \in Nat /\ ActiveH \in Nat /\ Step = 16
    BY Geometry
  <1>2. /\ line \in Int /\ px \in Int /\ j \in Nat /\ px = BorderLeft + 16 * j /\ px + 16 <= BorderLeft + ActiveW
        /\ line \in Top..Top + ActiveH - 1 /\ (at + k) \div FrameW = line /\ (at + k) % FrameW = px + k
    BY <1>1 DEF InPicture, InLine
  <1> DEFINE x == px + k - BorderLeft
  <1>3. x = 16 * j + k /\ x \in 0..ActiveW - 1
    BY <1>1, <1>2
  <1>4. x % 16 = k /\ x \div 16 = j
    BY <1>2, <1>3
  <1> HIDE DEF x
  <1>5. ShownAt(at + k, scroll, mode)
          = IF line \notin Top..(Top + ActiveH - 1) \/ x \notin 0..(ActiveW - 1) THEN Border
            ELSE <<(line - Top - (scroll + 1)) % ActiveH, x \div Step,
                   IF mode THEN 15 - (x % 16) ELSE 7 - ((x % 16) \div 2)>>
    <2> DEFINE l == (at + k) \div FrameW
               m == (at + k) % FrameW
               y == m - BorderLeft
    <2>1. ShownAt(at + k, scroll, mode)
            = IF l \notin Top..(Top + ActiveH - 1) \/ y \notin 0..(ActiveW - 1) THEN Border
              ELSE <<(l - Top - (scroll + 1)) % ActiveH, y \div Step,
                     IF mode THEN 15 - (y % 16) ELSE 7 - ((y % 16) \div 2)>>
      BY Zenon DEF ShownAt
    <2>2. l = line
      BY <1>2
    <2>3. m = px + k
      BY <1>2
    <2> HIDE DEF m
    <2>4. y = x
      BY <1>1, <1>2, <2>3 DEF x
    <2> HIDE DEF l, y
    <2> QED BY <2>1, <2>2, <2>4, Zenon
  <1>6. RowOf(line, scroll) = (line - Top - (scroll + 1)) % ActiveH
    BY <1>2, RowIs
  <1> QED BY <1>1, <1>2, <1>3, <1>4, <1>5, <1>6, Zenon DEF BitAt

LEMMA ShownOut ==
  ASSUME NEW at, NEW line, NEW px, InLine(at, line, px), NEW k \in 0..15, NEW scroll, NEW mode,
         line \notin Top..Top + ActiveH - 1 \/ px < BorderLeft \/ px >= BorderLeft + ActiveW
  PROVE  ShownAt(at + k, scroll, mode) = Border
  <1>1. BorderLeft \in Nat /\ ActiveW \in Nat /\ Top \in Nat /\ ActiveH \in Nat /\ FrameW \in Nat
    BY Geometry
  <1>2. /\ line \in Int /\ px \in 0..FrameW - 16 /\ (at + k) \div FrameW = line /\ (at + k) % FrameW = px + k
        /\ (px < BorderLeft => px + 16 <= BorderLeft)
    BY <1>1 DEF InLine
  <1> DEFINE x == px + k - BorderLeft
  <1>3. line \notin Top..(Top + ActiveH - 1) \/ x \notin 0..(ActiveW - 1)
    BY <1>1, <1>2
  <1> HIDE DEF x
  <1>4. ShownAt(at + k, scroll, mode)
          = IF line \notin Top..(Top + ActiveH - 1) \/ x \notin 0..(ActiveW - 1) THEN Border
            ELSE <<(line - Top - (scroll + 1)) % ActiveH, x \div Step,
                   IF mode THEN 15 - (x % 16) ELSE 7 - ((x % 16) \div 2)>>
    <2> DEFINE l == (at + k) \div FrameW
               m == (at + k) % FrameW
               y == m - BorderLeft
    <2>1. ShownAt(at + k, scroll, mode)
            = IF l \notin Top..(Top + ActiveH - 1) \/ y \notin 0..(ActiveW - 1) THEN Border
              ELSE <<(l - Top - (scroll + 1)) % ActiveH, y \div Step,
                     IF mode THEN 15 - (y % 16) ELSE 7 - ((y % 16) \div 2)>>
      BY Zenon DEF ShownAt
    <2>2. l = line
      BY <1>2
    <2>3. m = px + k
      BY <1>2
    <2> HIDE DEF m
    <2>4. y = x
      BY <1>1, <1>2, <2>3 DEF x
    <2> HIDE DEF l, y
    <2> QED BY <2>1, <2>2, <2>4, Zenon
  <1> QED BY <1>3, <1>4, Zenon

Latched(line, px, k) == line = Top /\ px <= ScrollPxl /\ ScrollPxl < px + k
LatchedBy(line, px, k, scroll, i, e) == IF Latched(line, px, k) THEN IoAt(i, ScrollPxl - px, e).a ELSE scroll
FillState(idx, irq, scroll, frame, i, pixels, n, bit, col) ==
  [s |-> Rec(idx, irq, scroll, frame, i, pixels), i |-> n, bit |-> bit, col |-> col]
ActiveAt(at, k, line, px, j, irq, scroll, frame, i, e, ports, first, mode) ==
  FillState(at + k, irq, IF ports THEN LatchedBy(line, px, k, scroll, i, e) ELSE scroll, frame,
        IF ports THEN IoAt(i, k, e) ELSE i, Strip(first, at - first + k, scroll, mode), k,
        IF k < 16 THEN BitAt(mode, k) ELSE IF mode THEN 15 ELSE 7,
        IF k < 16 \/ ports THEN j ELSE j + 1)
ActiveRound(t, ports, wide, line, row) ==
  LET lastBit == IF wide THEN 15 ELSE 7
      column(px) == (px - BorderLeft) \div Step
      i == t.i
      px == Pixel(t.s)
      latched == IF ports /\ line = Top /\ px = ScrollPxl THEN [t.s EXCEPT !.scroll = t.s.io.a] ELSE t.s
      out == IF ports THEN TryToCommit(t.s.io, Picture(t.col, t.bit)) ELSE t.s.io
      bit == IF wide THEN t.bit - 1 ELSE t.bit - (i % 2)
  IN  [s |-> Put(latched, <<row, t.col, t.bit>>, out), i |-> i + 1,
       bit |-> IF bit < 0 THEN lastBit ELSE bit,
       col |-> IF bit >= 0 THEN t.col ELSE column(IF ports THEN px ELSE px + 1)]

LEMMA BitGoesOn ==
  ASSUME NEW k \in 0..15, NEW mode, NEW j \in Nat
  PROVE  LET bit == IF mode THEN BitAt(mode, k) - 1 ELSE BitAt(mode, k) - (k % 2)
         IN  /\ bit < 0 <=> k = 15
             /\ bit >= 0 <=> k < 15
             /\ k < 15 => bit = BitAt(mode, k + 1)
  <1>1. mode => LET bit == BitAt(mode, k) - 1
         IN  /\ bit < 0 <=> k = 15
             /\ bit >= 0 <=> k < 15
             /\ k < 15 => bit = BitAt(mode, k + 1)
    BY DEF BitAt
  <1>2. ~mode => LET bit == BitAt(mode, k) - (k % 2)
         IN  /\ bit < 0 <=> k = 15
             /\ bit >= 0 <=> k < 15
             /\ k < 15 => bit = BitAt(mode, k + 1)
    BY DEF BitAt
  <1> QED BY <1>1, <1>2

ScrollsOn(line, px, k, scroll, i, e) ==
  LatchedBy(line, px, k + 1, scroll, i, e)
    = IF line = Top /\ px + k = ScrollPxl THEN IoAt(i, k, e).a ELSE LatchedBy(line, px, k, scroll, i, e)
LEMMA ScrollGoesOn ==
  ASSUME NEW line, NEW px \in Nat, NEW k \in 0..15, NEW scroll, NEW i, NEW e
  PROVE  ScrollsOn(line, px, k, scroll, i, e)
  <1>1. ScrollPxl \in Nat
    BY Geometry
  <1>2. CASE line = Top /\ px + k = ScrollPxl
    <2>1. Latched(line, px, k + 1) /\ ScrollPxl - px = k
      BY <1>1, <1>2 DEF Latched
    <2> QED BY <1>2, <2>1 DEF LatchedBy, ScrollsOn
  <1>3. CASE ~(line = Top /\ px + k = ScrollPxl)
    <2>1. Latched(line, px, k + 1) <=> Latched(line, px, k)
      BY <1>1, <1>3 DEF Latched
    <2> QED BY <1>3, <2>1 DEF LatchedBy, ScrollsOn
  <1> QED BY <1>2, <1>3

ActiveGoes(at, k, line, px, j, irq, scroll, frame, i, e, ports, first, mode) ==
  ActiveRound(ActiveAt(at, k, line, px, j, irq, scroll, frame, i, e, ports, first, mode),
              ports, mode, line, RowOf(line, scroll))
    = ActiveAt(at, k + 1, line, px, j, irq, scroll, frame, i, e, ports, first, mode)
LEMMA ActiveGoesOn ==
  ASSUME NEW at \in Nat, NEW line, NEW px, NEW j, InPicture(at, line, px, j), NEW k \in 0..15,
         NEW irq, NEW scroll \in Byte8, NEW frame, NEW i \in IOs, Pending(i), NEW e, NEW ports \in BOOLEAN,
         NEW first \in Nat, first <= at, NEW mode,
         ports /\ k + 1 = i.paletteTimer => Picture(j, BitAt(mode, k)) = e
  PROVE  ActiveGoes(at, k, line, px, j, irq, scroll, frame, i, e, ports, first, mode)
  <1> DEFINE row == RowOf(line, scroll)
             t == ActiveAt(at, k, line, px, j, irq, scroll, frame, i, e, ports, first, mode)
             sc == IF ports THEN LatchedBy(line, px, k, scroll, i, e) ELSE scroll
             sc2 == IF ports THEN LatchedBy(line, px, k + 1, scroll, i, e) ELSE scroll
             ii == IF ports THEN IoAt(i, k, e) ELSE i
             ii2 == IF ports THEN IoAt(i, k + 1, e) ELSE i
             old == Strip(first, at - first + k, scroll, mode)
             new == Strip(first, at - first + (k + 1), scroll, mode)
             bit == BitAt(mode, k)
             bit2 == IF k + 1 < 16 THEN BitAt(mode, k + 1) ELSE IF mode THEN 15 ELSE 7
             col2 == IF k + 1 < 16 \/ ports THEN j ELSE j + 1
             a == at + k
             a2 == at + k + 1
  <1>0. k \in Nat /\ k < 16 /\ j \in Nat /\ BorderLeft \in Nat /\ px \in Nat /\ px = BorderLeft + 16 * j
        /\ a % FrameW = px + k /\ Step = 16
    <2>1. BorderLeft \in Nat /\ Step = 16
      BY Geometry
    <2>2. j \in Nat /\ px = BorderLeft + 16 * j /\ InLine(at, line, px)
      BY DEF InPicture
    <2>3. a % FrameW = px + k
      BY <2>2 DEF InLine
    <2> HIDE DEF a
    <2> QED BY <2>1, <2>2, <2>3
  <1>1. t = FillState(a, irq, sc, frame, ii, old, k, bit, j)
    BY <1>0 DEF ActiveAt
  <1>2. ActiveAt(at, k + 1, line, px, j, irq, scroll, frame, i, e, ports, first, mode)
          = FillState(a2, irq, sc2, frame, ii2, new, k + 1, bit2, col2)
    <2>1. at + (k + 1) = a2
      OBVIOUS
    <2> HIDE DEF a2
    <2> QED BY <2>1, Zenon DEF ActiveAt
  <1>3. ii.a = IF ports THEN IoAt(i, k, e).a ELSE i.a
    OBVIOUS
  <1>4. sc2 = IF ports /\ line = Top /\ px + k = ScrollPxl THEN ii.a ELSE sc
    <2>1. LatchedBy(line, px, k + 1, scroll, i, e)
           = IF line = Top /\ px + k = ScrollPxl THEN IoAt(i, k, e).a ELSE LatchedBy(line, px, k, scroll, i, e)
      <3>1. ScrollsOn(line, px, k, scroll, i, e)
        BY <1>0, ScrollGoesOn
      <3> QED BY <3>1, Zenon DEF ScrollsOn
    <2> QED BY <2>1, <1>3
  <1>5. ii2 = IF ports THEN TryToCommit(ii, Picture(j, bit)) ELSE ii
    <2>1. ports => TryToCommit(IoAt(i, k, e), Picture(j, bit)) = IoAt(i, k + 1, e)
      <3> DEFINE c == Picture(j, bit)
      <3>1. ports => (k + 1 = i.paletteTimer => c = e)
        OBVIOUS
      <3> HIDE DEF c
      <3>2. ports => TryToCommit(IoAt(i, k, e), c) = IoAt(i, k + 1, e)
        BY <1>0, <3>1, IoGoesOn
      <3> QED BY <3>2 DEF c
    <2> QED BY <2>1
  <1>6. Append(old, <<row, j, bit>>) = new
    <2> DEFINE n == at - first + k
    <2>1. n \in Nat /\ at - first + (k + 1) = n + 1 /\ first + n = at + k
      OBVIOUS
    <2> HIDE DEF n
    <2>2. Grows(first, n, scroll, mode)
      BY <2>1, StripGrows
    <2>3. ShownAt(at + k, scroll, mode) = <<row, j, bit>>
      BY ShownIn
    <2>4. old = Strip(first, n, scroll, mode) /\ new = Strip(first, n + 1, scroll, mode)
      BY <2>1 DEF n
    <2> QED BY <2>1, <2>2, <2>3, <2>4, Zenon DEF Grows
  <1> HIDE DEF t, sc, sc2, ii, ii2, old, new, row, a, bit
  <1> DEFINE r == Rec(a, irq, sc, frame, ii, old)
             p == Pixel(t.s)
             next == IF mode THEN bit - 1 ELSE bit - (k % 2)
             column(q) == (q - BorderLeft) \div Step
  <1>7. t.s = r /\ t.i = k /\ t.bit = bit /\ t.col = j
    BY <1>1 DEF FillState
  <1>8. p = px + k /\ r.io = ii
    <2>1. r.idx = a /\ r.io = ii
      BY DEF Rec
    <2>2. p = a % FrameW
      BY <1>7, <2>1 DEF Pixel
    <2> QED BY <1>0, <2>1, <2>2
  <1> HIDE DEF p
  <1> DEFINE latched == IF ports /\ line = Top /\ p = ScrollPxl THEN [r EXCEPT !.scroll = r.io.a] ELSE r
             out == IF ports THEN TryToCommit(r.io, Picture(j, bit)) ELSE r.io
  <1>9. latched = Rec(a, irq, sc2, frame, ii, old)
    <2> DEFINE aa == ii.a
    <2> HIDE DEF aa
    <2>1. [r EXCEPT !.scroll = aa] = Rec(a, irq, aa, frame, ii, old)
      BY DEF Rec
    <2> HIDE DEF r
    <2>2. latched = IF ports /\ line = Top /\ px + k = ScrollPxl THEN Rec(a, irq, aa, frame, ii, old) ELSE r
      BY <1>8, <2>1 DEF aa
    <2>3. sc2 = IF ports /\ line = Top /\ px + k = ScrollPxl THEN aa ELSE sc
      BY <1>4 DEF aa
    <2> QED BY <2>2, <2>3, Zenon DEF r
  <1>10. out = ii2
    BY <1>5, <1>8
  <1>11. Put(latched, <<row, j, bit>>, out) = Rec(a2, irq, sc2, frame, ii2, new)
    <2>1. Put(Rec(a, irq, sc2, frame, ii, old), <<row, j, bit>>, ii2)
            = Rec(a + 1, irq, sc2, frame, ii2, Append(old, <<row, j, bit>>))
      BY PutIs
    <2>2. a + 1 = a2
      BY DEF a
    <2> HIDE DEF latched, out, a2
    <2> QED BY <1>6, <1>9, <1>10, <2>1, <2>2, Zenon
  <1>12. ActiveRound(t, ports, mode, line, row)
           = [s |-> Put(latched, <<row, j, bit>>, out), i |-> k + 1,
              bit |-> IF next < 0 THEN IF mode THEN 15 ELSE 7 ELSE next,
              col |-> IF next >= 0 THEN j ELSE column(IF ports THEN p ELSE p + 1)]
    <2> HIDE DEF r, a
    <2> QED BY <1>7, Zenon DEF ActiveRound, p
  <1>13. (IF next < 0 THEN IF mode THEN 15 ELSE 7 ELSE next) = bit2
         /\ (next >= 0 <=> k < 15)
    <2>1. /\ next < 0 <=> k = 15
          /\ next >= 0 <=> k < 15
          /\ k < 15 => next = BitAt(mode, k + 1)
      BY <1>0, BitGoesOn DEF bit
    <2>2. k + 1 < 16 <=> k # 15
      BY <1>0
    <2>3. k < 15 <=> k # 15
      BY <1>0
    <2> HIDE DEF next
    <2> QED BY <2>1, <2>2, <2>3, Zenon
  <1>14. (IF next >= 0 THEN j ELSE column(IF ports THEN p ELSE p + 1)) = col2
    <2>1. CASE k < 15
      BY <1>13, <2>1
    <2>2. CASE k = 15
      <3>1. column(p) = j /\ column(p + 1) = j + 1
        BY <1>0, <1>8, <2>2
      <3> QED BY <1>13, <2>2, <3>1
    <2> QED BY <2>1, <2>2
  <1> HIDE DEF latched, out, next, column, a2, bit2, col2, r
  <1> QED BY <1>2, <1>11, <1>12, <1>13, <1>14, Zenon DEF FillState, t, row, ActiveGoes

ActiveStart(s) ==
  LET offset == (s.idx - BorderLeft) % Step
  IN  [s |-> s, i |-> 0, col |-> (Pixel(s) - BorderLeft) \div Step,
       bit |-> IF s.io.mode512 THEN 15 - offset ELSE 7 - (offset \div 2)]
ActiveBegins(at, line, px, j, irq, scroll, frame, i, e, ports, first) ==
  LET s == Rec(at, irq, scroll, frame, i, Strip(first, at - first, scroll, i.mode512))
  IN  /\ Line(s) = line
      /\ ActiveStart(s) = ActiveAt(at, 0, line, px, j, irq, scroll, frame, i, e, ports, first, i.mode512)
LEMMA ActiveStarts ==
  ASSUME NEW at \in Nat, NEW line, NEW px, NEW j, InPicture(at, line, px, j),
         NEW irq, NEW scroll, NEW frame, NEW i \in IOs, NEW e, NEW ports \in BOOLEAN,
         NEW first \in Nat, first <= at
  PROVE  ActiveBegins(at, line, px, j, irq, scroll, frame, i, e, ports, first)
  <1> DEFINE old == Strip(first, at - first, scroll, i.mode512)
             s == Rec(at, irq, scroll, frame, i, old)
             offset == (s.idx - BorderLeft) % Step
  <1>1. /\ BorderLeft \in Nat /\ px \in Nat /\ j \in Nat /\ px = BorderLeft + 16 * j /\ Step = 16
        /\ at \div FrameW = line /\ at % FrameW = px
        /\ at = line * FrameW + px /\ line \in Nat /\ FrameW \in Nat
    <2>1. BorderLeft \in Nat /\ Step = 16 /\ FrameW \in Nat
      BY Geometry
    <2>2. InLine(at, line, px) /\ j \in Nat /\ px = BorderLeft + 16 * j
      BY DEF InPicture
    <2>3. line \in Nat /\ at = line * FrameW + px /\ at \div FrameW = line /\ at % FrameW = px
      BY <2>2 DEF InLine
    <2> QED BY <2>1, <2>2, <2>3
  <1>2. s.idx = at /\ s.io = i
    BY DEF Rec
  <1>3. offset = 0
    <2>1. PICK fw \in Nat : FrameW = 16 * fw
      BY Geometry
    <2> DEFINE q == line * fw + j
    <2>2. q \in Nat /\ at = BorderLeft + 16 * q
      <3>1. line * fw \in Nat /\ line * FrameW = 16 * (line * fw)
        BY <1>1, <2>1
      <3> QED BY <1>1, <3>1
    <2> HIDE DEF q
    <2>3. (at - BorderLeft) % 16 = 0
      BY <1>1, <2>2
    <2> QED BY <1>1, <1>2, <2>3
  <1> HIDE DEF s, offset
  <1>4. Line(s) = line /\ Pixel(s) = px
    BY <1>1, <1>2 DEF Line, Pixel
  <1>5. (Pixel(s) - BorderLeft) \div Step = j
    BY <1>1, <1>4
  <1>6. (IF s.io.mode512 THEN 15 - offset ELSE 7 - (offset \div 2)) = BitAt(i.mode512, 0)
    BY <1>2, <1>3 DEF BitAt
  <1>7. ActiveStart(s) = [s |-> s, i |-> 0, col |-> (Pixel(s) - BorderLeft) \div Step,
                         bit |-> IF s.io.mode512 THEN 15 - offset ELSE 7 - (offset \div 2)]
    BY Zenon DEF ActiveStart, offset
  <1>8. ActiveAt(at, 0, line, px, j, irq, scroll, frame, i, e, ports, first, i.mode512)
          = FillState(at, irq, scroll, frame, i, old, 0, BitAt(i.mode512, 0), j)
    <2> DEFINE sc == IF ports THEN LatchedBy(line, px, 0, scroll, i, e) ELSE scroll
               ii == IF ports THEN IoAt(i, 0, e) ELSE i
               st == Strip(first, at - first + 0, scroll, i.mode512)
               bt == IF 0 < 16 THEN BitAt(i.mode512, 0) ELSE IF i.mode512 THEN 15 ELSE 7
               cl == IF 0 < 16 \/ ports THEN j ELSE j + 1
    <2>1. ActiveAt(at, 0, line, px, j, irq, scroll, frame, i, e, ports, first, i.mode512)
            = FillState(at + 0, irq, sc, frame, ii, st, 0, bt, cl)
      BY Zenon DEF ActiveAt
    <2>2. at + 0 = at /\ at - first + 0 = at - first /\ 0 < 16
      OBVIOUS
    <2>3. sc = scroll
      <3>1. ~Latched(line, px, 0)
        <4>1. ScrollPxl \in Nat
          BY Geometry
        <4> QED BY <1>1, <4>1 DEF Latched
      <3> QED BY <3>1 DEF LatchedBy
    <2>4. ii = i
      BY IoAtFirst
    <2>5. st = old
      <3> DEFINE n == at - first + 0
                 m == at - first
      <3>1. n = m
        OBVIOUS
      <3> HIDE DEF n, m
      <3>2. Strip(first, n, scroll, i.mode512) = Strip(first, m, scroll, i.mode512)
        BY <3>1
      <3> QED BY <3>2, Zenon DEF n, m
    <2>6. bt = BitAt(i.mode512, 0) /\ cl = j
      OBVIOUS
    <2> HIDE DEF sc, ii, st, bt, cl, old
    <2> QED BY <2>1, <2>2, <2>3, <2>4, <2>5, <2>6
  <1>9. FillState(at, irq, scroll, frame, i, old, 0, BitAt(i.mode512, 0), j)
          = [s |-> s, i |-> 0, bit |-> BitAt(i.mode512, 0), col |-> j]
    BY Zenon DEF FillState, s
  <1> HIDE DEF old
  <1>10. ActiveStart(s) = ActiveAt(at, 0, line, px, j, irq, scroll, frame, i, e, ports, first, i.mode512)
    BY <1>5, <1>6, <1>7, <1>8, <1>9
  <1> QED BY <1>4, <1>10, Zenon DEF s, old, ActiveBegins

ActiveFills(at, line, px, j, irq, scroll, frame, i, e, ports, first) ==
  FillActiveArea(Rec(at, irq, scroll, frame, i, Strip(first, at - first, scroll, i.mode512)), 16, ports)
    = Rec(at + 16, irq, IF ports THEN LatchedBy(line, px, 16, scroll, i, e) ELSE scroll, frame,
          IF ports THEN IoAt(i, 16, e) ELSE i, Strip(first, at - first + 16, scroll, i.mode512))
LEMMA ActiveFilled ==
  ASSUME NEW at \in Nat, NEW line, NEW px, NEW j, InPicture(at, line, px, j),
         NEW irq, NEW scroll \in Byte8, NEW frame, NEW i \in IOs, Pending(i), NEW e, NEW ports \in BOOLEAN,
         NEW first \in Nat, first <= at,
         ports => e = Picture(j, BitAt(i.mode512, i.paletteTimer - 1))
  PROVE  ActiveFills(at, line, px, j, irq, scroll, frame, i, e, ports, first)
  <1> DEFINE mode == i.mode512
             s == Rec(at, irq, scroll, frame, i, Strip(first, at - first, scroll, mode))
             W(k) == ActiveAt(at, k, line, px, j, irq, scroll, frame, i, e, ports, first, mode)
             row == RowOf(line, scroll)
             Round(t) == ActiveRound(t, ports, mode, line, row)
             Eq(f) == f = [k \in 0..16 |-> IF k = 0 THEN W(0) ELSE Round(f[k - 1])]
             after == CHOOSE f : Eq(f)
             V == [k \in 0..16 |-> W(k)]
  <1>0. Line(s) = line /\ ActiveStart(s) = W(0) /\ s.io.mode512 = mode /\ s.scroll = scroll
    <2>1. Line(s) = line /\ ActiveStart(s) = W(0)
      <3>1. ActiveBegins(at, line, px, j, irq, scroll, frame, i, e, ports, first)
        BY ActiveStarts
      <3> QED BY <3>1, Zenon DEF ActiveBegins
    <2>2. s.io.mode512 = mode /\ s.scroll = scroll
      BY DEF Rec
    <2> QED BY <2>1, <2>2
  <1>1. FillActiveArea(s, 16, ports) = after[16].s
    <2> DEFINE wide == s.io.mode512
               rw == (Line(s) - Top + (255 - s.scroll) + ActiveH) % ActiveH
               ln == Line(s)
               st == ActiveStart(s)
               Eq2(f) == f = [k \in 0..16 |-> IF k = 0 THEN st ELSE ActiveRound(f[k - 1], ports, wide, ln, rw)]
    <2> HIDE DEF s
    <2>1. FillActiveArea(s, 16, ports) = (CHOOSE f : Eq2(f))[16].s
      BY Zenon DEF FillActiveArea, Repeat, ActiveRound, ActiveStart
    <2>2. rw = row /\ ln = line /\ wide = mode /\ st = W(0)
      BY <1>0 DEF RowOf
    <2> HIDE DEF rw, ln, wide, st, row, W, mode
    <2> QED BY <2>1, <2>2, Zenon
  <1>2. ASSUME NEW k \in 0..15
        PROVE  Round(V[k]) = V[k + 1]
    <2>1. ports /\ k + 1 = i.paletteTimer => Picture(j, BitAt(mode, k)) = e
      <3>1. k + 1 = i.paletteTimer => k = i.paletteTimer - 1
        BY DEF IOs
      <3> QED BY <3>1
    <2>2. Round(W(k)) = W(k + 1)
      <3>1. ActiveGoes(at, k, line, px, j, irq, scroll, frame, i, e, ports, first, mode)
        <4> HIDE DEF mode
        <4> QED BY <2>1, ActiveGoesOn
      <3> QED BY <3>1, Zenon DEF ActiveGoes
    <2>3. k \in 0..16 /\ k + 1 \in 0..16
      OBVIOUS
    <2> HIDE DEF W, Round
    <2> QED BY <2>2, <2>3
  <1>3. V[0] = W(0) /\ V[16] = W(16)
    <2> HIDE DEF W
    <2> QED OBVIOUS
  <1>4. V = [k \in 0..16 |-> V[k]]
    <2> HIDE DEF W
    <2> QED OBVIOUS
  <1>8. W(16).s = Rec(at + 16, irq, IF ports THEN LatchedBy(line, px, 16, scroll, i, e) ELSE scroll, frame,
                      IF ports THEN IoAt(i, 16, e) ELSE i, Strip(first, at - first + 16, scroll, mode))
    BY Zenon DEF ActiveAt, FillState
  <1> HIDE DEF V, s, W, Round
  <1>5. Eq(V)
    <2>1. \A k \in 0..16 : k # 0 => k - 1 \in 0..15 /\ (k - 1) + 1 = k
      OBVIOUS
    <2>2. \A k \in 0..16 : V[k] = IF k = 0 THEN W(0) ELSE Round(V[k - 1])
      BY <1>2, <1>3, <2>1
    <2> QED BY <1>4, <2>2
  <1>6. Eq(after)
    <2> HIDE DEF Eq
    <2> QED BY <1>5
  <1> HIDE DEF after
  <1>7. after[16] = V[16]
    <2>1. after[0] = W(0) /\ \A k \in 0..15 : after[k + 1] = Round(after[k])
      <3>1. after[0] = W(0)
        BY <1>6
      <3>2. ASSUME NEW k \in 0..15 PROVE after[k + 1] = Round(after[k])
        <4>1. k + 1 \in 0..16 /\ k + 1 # 0 /\ (k + 1) - 1 = k
          OBVIOUS
        <4>2. after[k + 1] = IF k + 1 = 0 THEN W(0) ELSE Round(after[(k + 1) - 1])
          BY <1>6, <4>1
        <4> QED BY <4>1, <4>2
      <3> QED BY <3>1, <3>2
    <2>2. \A k \in 0..16 - 1 : after[k] = V[k] => after[k + 1] = V[k + 1]
      BY <1>2, <2>1
    <2>3. after[0] = V[0]
      BY <1>3, <2>1
    <2> QED BY <2>2, <2>3, LoopIs
  <1>9. FillActiveArea(s, 16, ports) = W(16).s
    BY <1>1, <1>3, <1>7
  <1> QED BY <1>8, <1>9, Zenon DEF s, ActiveFills

(* A chunk of 16 pixels. *)
ScrollAt == Top * FrameW + ScrollPxl
LEMMA LatchedWhen ==
  ASSUME NEW at \in Nat, NEW line, NEW px, InLine(at, line, px)
  PROVE  /\ Latched(line, px, 16) <=> at <= ScrollAt /\ ScrollAt < at + 16
         /\ Latched(line, px, 16) => ScrollAt - at = ScrollPxl - px /\ px = BorderLeft /\ line = Top
  <1> DEFINE sa == ScrollAt
  <1>1. /\ FrameW \in Nat /\ FrameW # 0 /\ Top \in Nat /\ BorderLeft \in Nat /\ ActiveW \in Nat /\ FrameH \in Nat
        /\ ScrollPxl \in BorderLeft..BorderLeft + 15 /\ ScrollPxl \in 0..FrameW - 1
    <2>1. /\ FrameW \in Nat /\ FrameW # 0 /\ Top \in Nat /\ BorderLeft \in Nat /\ ActiveW \in Nat /\ FrameH \in Nat
          /\ ScrollPxl \in BorderLeft..BorderLeft + 15 /\ 0 < ActiveW /\ BorderLeft + ActiveW < FrameW
      BY Geometry
    <2>2. PICK aw \in Nat : ActiveW = 16 * aw
      BY Geometry
    <2>3. ScrollPxl \in 0..FrameW - 1
      BY <2>1, <2>2
    <2> QED BY <2>1, <2>3
  <1>2. /\ line \in Nat /\ px \in 0..FrameW - 16 /\ at = line * FrameW + px
        /\ \A d \in 0..15 : (at + d) \div FrameW = line /\ (at + d) % FrameW = px + d
        /\ px < BorderLeft => px + 16 <= BorderLeft
    BY <1>1 DEF InLine
  <1>3. ASSUME Latched(line, px, 16)
        PROVE  /\ at <= sa /\ sa < at + 16 /\ sa - at = ScrollPxl - px
               /\ px = BorderLeft /\ line = Top
    <2>1. line = Top /\ px <= ScrollPxl /\ ScrollPxl < px + 16
      BY <1>3 DEF Latched
    <2> DEFINE y == Top * FrameW
    <2>2. y \in Nat /\ at = y + px /\ sa = y + ScrollPxl
      BY <1>1, <1>2, <2>1 DEF ScrollAt
    <2> HIDE DEF y, sa
    <2>3. at <= sa /\ sa < at + 16 /\ sa - at = ScrollPxl - px
      BY <1>1, <1>2, <2>1, <2>2
    <2>4. px >= BorderLeft
      BY <1>1, <1>2, <2>1
    <2>5. PICK j \in Nat : px = BorderLeft + 16 * j
      BY <2>4 DEF InLine
    <2>6. px = BorderLeft
      BY <1>1, <2>1, <2>5
    <2> QED BY <2>1, <2>3, <2>6
  <1>4. ASSUME at <= sa, sa < at + 16
        PROVE  Latched(line, px, 16)
    <2> DEFINE d == sa - at
    <2>0. sa \in Nat /\ sa = Top * FrameW + ScrollPxl
      BY <1>1 DEF ScrollAt
    <2>1. d \in 0..15 /\ at + d = sa
      <3> HIDE DEF sa
      <3> QED BY <1>4, <2>0
    <2> HIDE DEF d, sa
    <2>2. sa \div FrameW = line /\ sa % FrameW = px + d
      BY <1>2, <2>1
    <2>3. (Top * FrameW + ScrollPxl) \div FrameW = Top /\ (Top * FrameW + ScrollPxl) % FrameW = ScrollPxl
      BY <1>1, Quotient
    <2>4. line = Top /\ px + d = ScrollPxl
      BY <2>0, <2>2, <2>3, Zenon
    <2> QED BY <1>2, <2>1, <2>4 DEF Latched
  <1> HIDE DEF sa
  <1>5. Latched(line, px, 16) <=> at <= sa /\ sa < at + 16
    BY <1>3, <1>4
  <1>6. Latched(line, px, 16) => sa - at = ScrollPxl - px /\ px = BorderLeft /\ line = Top
    BY <1>3
  <1> QED BY <1>5, <1>6, Zenon DEF sa

LEMMA IoAtAny ==
  ASSUME NEW i, i.paletteTimer = 0, NEW k, NEW e, NEW c
  PROVE  IoAt(i, k, e) = IoAt(i, k, c)
  BY DEF IoAt, Done

LEMMA IoAtIdle ==
  ASSUME NEW i \in IOs, i.outTimer = 0, i.paletteTimer = 0, i.modeTimer = 0, NEW k \in Nat, NEW e
  PROVE  IoAt(i, k, e) = i
  <1>1. Remains(0, k) = 0 /\ ~Done(0, k)
    BY DEF Remains, Done
  <1>2. IoAt(i, k, e) = Timed(i, i.outTimer, i.paletteTimer, i.modeTimer, i.palette, i.mode512)
    BY <1>1 DEF IoAt
  <1> QED BY <1>2, TimedAsIs

Colour(i, from) == IF from = Border THEN i.brdColorIdx ELSE Picture(from[2], from[3])
EntryAt(at, scroll, i) == Colour(i, ShownAt(at + i.paletteTimer - 1, scroll, i.mode512))
Chunked(at, scroll, frame, i, e) ==
  Rec((at + 16) % FrameLen, at < IrqPxl /\ IrqPxl <= at + 16,
      IF at <= ScrollAt /\ ScrollAt < at + 16 THEN IoAt(i, ScrollAt - at, e).a ELSE scroll,
      IF at + 16 = FrameLen THEN 1 - frame ELSE frame, IoAt(i, 16, e), Strip(at, 16, scroll, i.mode512))
Soon(i) == i.outTimer <= 16 /\ i.paletteTimer <= 16 /\ i.modeTimer <= 16

LEMMA BorderChunk ==
  ASSUME NEW at \in Nat, NEW line, NEW px, InLine(at, line, px), NEW scroll, NEW frame,
         NEW i \in IOs, Pending(i), Soon(i),
         line \notin Top..Top + ActiveH - 1 \/ px < BorderLeft \/ px >= BorderLeft + ActiveW
  PROVE  RasterizeBorder(Rec(at, FALSE, scroll, frame, i, <<>>), 16) = Chunked(at, scroll, frame, i, EntryAt(at, scroll, i))
  <1> DEFINE s == Rec(at, FALSE, scroll, frame, i, <<>>)
             mode == i.mode512
             e == EntryAt(at, scroll, i)
             b == i.brdColorIdx
  <1>0. /\ FrameLen \in Nat /\ FrameLen # 0 /\ at + 16 <= FrameLen /\ IrqPxl \in 1..FrameLen - 1
        /\ ActiveW \in Nat /\ 0 < ActiveW /\ BorderLeft \in Nat
        /\ Top \in Nat /\ ActiveH \in Nat /\ ActiveH # 0
    <2>1. FrameLen \in Nat /\ FrameLen # 0 /\ FrameW \in Nat /\ FrameW <= FrameLen /\ IrqPxl \in 1..FrameW - 1
      BY Geometry
    <2>2. ActiveW \in Nat /\ 0 < ActiveW /\ BorderLeft \in Nat /\ Top \in Nat /\ ActiveH \in Nat /\ ActiveH # 0
      BY Geometry
    <2>3. at + 16 <= FrameLen
      BY DEF InLine
    <2> QED BY <2>1, <2>2, <2>3
  <1>1. RasterizeBorder(s, 16) = FillBorderPortHandling(s, 16)
    <2>1. s.io.outTimer >= 0
      BY DEF Rec, IOs
    <2> QED BY <2>1, Zenon DEF RasterizeBorder
  <1>2. \A k \in 0..15 : ShownAt(at + k, scroll, mode) = Border
    BY ShownOut
  <1>3. s = BorderAt(at, 0, scroll, frame, i, mode)
    <2>1. at + 0 = at /\ at % FrameLen = at /\ at # FrameLen /\ ~(at < IrqPxl /\ IrqPxl <= at)
      <3>1. at \in 0..FrameLen - 1
        BY <1>0
      <3> QED BY <1>0, <3>1, Small
    <2>2. IoAt(i, 0, b) = i
      BY IoAtFirst
    <2>3. Strip(at, 0, scroll, mode) = <<>>
      BY StripStarts
    <2> QED BY <2>1, <2>2, <2>3 DEF BorderAt
  <1>4. FillBorderPortHandling(s, 16) = BorderAt(at, 16, scroll, frame, i, mode)
    <2> HIDE DEF s, mode
    <2>1. FillBorderPortHandling(BorderAt(at, 0, scroll, frame, i, mode), 16) = BorderAt(at, 16, scroll, frame, i, mode)
      BY <1>0, <1>2, BorderFilled
    <2> QED BY <1>3, <2>1
  <1>5. IoAt(i, 16, b) = IoAt(i, 16, e)
    <2>1. CASE i.paletteTimer = 0
      BY <2>1, IoAtAny
    <2>2. CASE i.paletteTimer # 0
      <3> DEFINE k == i.paletteTimer - 1
      <3>1. k \in 0..15 /\ at + i.paletteTimer - 1 = at + k
        BY <2>2 DEF Soon, IOs
      <3>2. e = b
        BY <1>2, <3>1 DEF EntryAt, Colour
      <3> QED BY <3>2
    <2> QED BY <2>1, <2>2
  <1>6. ~(at <= ScrollAt /\ ScrollAt < at + 16)
    <2>1. ASSUME at <= ScrollAt, ScrollAt < at + 16 PROVE FALSE
      <3>1. px = BorderLeft /\ line = Top
        BY <2>1, LatchedWhen
      <3> QED BY <1>0, <3>1
    <2> QED BY <2>1
  <1> HIDE DEF s, b, e
  <1>7. Chunked(at, scroll, frame, i, e)
          = Rec((at + 16) % FrameLen, at < IrqPxl /\ IrqPxl <= at + 16, scroll,
                IF at + 16 = FrameLen THEN 1 - frame ELSE frame, IoAt(i, 16, e), Strip(at, 16, scroll, mode))
    BY <1>6, Zenon DEF Chunked
  <1>8. BorderAt(at, 16, scroll, frame, i, mode)
          = Rec((at + 16) % FrameLen, at < IrqPxl /\ IrqPxl <= at + 16, scroll,
                IF at + 16 = FrameLen THEN 1 - frame ELSE frame, IoAt(i, 16, b), Strip(at, 16, scroll, mode))
    BY Zenon DEF BorderAt, b
  <1>9. Chunked(at, scroll, frame, i, e) = BorderAt(at, 16, scroll, frame, i, mode)
    BY <1>5, <1>7, <1>8, Zenon
  <1> QED BY <1>1, <1>4, <1>9, Zenon DEF s, e

LEMMA ActiveChunk ==
  ASSUME NEW at \in Nat, NEW line, NEW px, NEW j, InPicture(at, line, px, j), NEW scroll \in Byte8, NEW frame,
         NEW i \in IOs, Pending(i), Soon(i)
  PROVE  RasterizeActiveArea(Rec(at, FALSE, scroll, frame, i, <<>>), 16) = Chunked(at, scroll, frame, i, EntryAt(at, scroll, i))
  <1> DEFINE s == Rec(at, FALSE, scroll, frame, i, <<>>)
             mode == i.mode512
             e == EntryAt(at, scroll, i)
             c == Picture(j, BitAt(mode, i.paletteTimer - 1))
             ports == i.outTimer > 0 \/ i.paletteTimer > 0 \/ (line = Top /\ px < BorderLeft + 16)
  <1>1. InLine(at, line, px) /\ line \in Top..Top + ActiveH - 1 /\ px >= BorderLeft /\ j \in Nat
    <2>1. BorderLeft \in Nat
      BY Geometry
    <2> QED BY <2>1 DEF InPicture
  <1>2. at \div FrameW = line /\ at % FrameW = px
    BY <1>1 DEF InLine
  <1>3. s.idx = at /\ s.io = i /\ Step = 16
    BY Geometry DEF Rec
  <1>4. Line(s) = line /\ Pixel(s) = px
    BY <1>2, <1>3 DEF Line, Pixel
  <1>5. RasterizeActiveArea(s, 16) = FillActiveArea(s, 16, ports)
    <2> HIDE DEF s
    <2>1. RasterizeActiveArea(s, 16)
            = FillActiveArea(s, 16, (s.io.outTimer > 0 \/ s.io.paletteTimer > 0)
                                      \/ (Line(s) = Top /\ Pixel(s) < BorderLeft + Step))
      BY Zenon DEF RasterizeActiveArea
    <2>2. ((s.io.outTimer > 0 \/ s.io.paletteTimer > 0) \/ (Line(s) = Top /\ Pixel(s) < BorderLeft + Step)) = ports
      BY <1>3, <1>4
    <2> QED BY <2>1, <2>2, Zenon
  <1>6. ports \in BOOLEAN
    OBVIOUS
  <1>7. s = Rec(at, FALSE, scroll, frame, i, Strip(at, at - at, scroll, mode))
    <2>1. at - at = 0
      OBVIOUS
    <2>2. Strip(at, 0, scroll, mode) = <<>>
      BY StripStarts
    <2> QED BY <2>1, <2>2
  <1>8. at - at + 16 = 16 /\ at <= at
    OBVIOUS
  <1>9. FillActiveArea(s, 16, ports)
          = Rec(at + 16, FALSE, IF ports THEN LatchedBy(line, px, 16, scroll, i, c) ELSE scroll, frame,
                IF ports THEN IoAt(i, 16, c) ELSE i, Strip(at, 16, scroll, mode))
    <2> DEFINE len == at - at
               len2 == at - at + 16
               no == FALSE
    <2> HIDE DEF ports, c, s, no
    <2>1. FillActiveArea(Rec(at, no, scroll, frame, i, Strip(at, len, scroll, i.mode512)), 16, ports)
            = Rec(at + 16, no, IF ports THEN LatchedBy(line, px, 16, scroll, i, c) ELSE scroll, frame,
                  IF ports THEN IoAt(i, 16, c) ELSE i, Strip(at, len2, scroll, i.mode512))
      <3>1. ActiveFills(at, line, px, j, no, scroll, frame, i, c, ports, at)
        <4>1. ports => c = Picture(j, BitAt(i.mode512, i.paletteTimer - 1))
          BY DEF c
        <4> QED BY <1>6, <1>8, <4>1, ActiveFilled
      <3> QED BY <3>1, Zenon DEF ActiveFills
    <2>2. len2 = 16
      OBVIOUS
    <2>3. s = Rec(at, no, scroll, frame, i, Strip(at, len, scroll, i.mode512))
      BY <1>7 DEF no
    <2> HIDE DEF len, len2
    <2> QED BY <2>1, <2>2, <2>3 DEF no
  <1>10. IoAt(i, 16, c) = IoAt(i, 16, e) /\ \A k : IoAt(i, k, c) = IoAt(i, k, e)
    <2>1. CASE i.paletteTimer = 0
      BY <2>1, IoAtAny
    <2>2. CASE i.paletteTimer # 0
      <3> DEFINE k == i.paletteTimer - 1
      <3>1. k \in 0..15 /\ at + i.paletteTimer - 1 = at + k
        BY <2>2 DEF Soon, IOs
      <3> DEFINE row == RowOf(line, scroll)
                 bit == BitAt(mode, k)
      <3>2. ShownAt(at + k, scroll, mode) = <<row, j, bit>>
        BY <3>1, ShownIn
      <3>3. row # -1
        <4>1. line \in Int
          BY <1>1, Geometry
        <4>2. row \in 0..ActiveH - 1
          BY <4>1, RowIs
        <4> HIDE DEF row
        <4>3. ActiveH \in Nat
          BY Geometry
        <4> QED BY <4>2, <4>3
      <3> HIDE DEF row, bit
      <3>4. e = Picture(j, bit)
        <4> DEFINE f == ShownAt(at + k, scroll, mode)
        <4>1. f # Border /\ f[2] = j /\ f[3] = bit
          BY <3>2, <3>3 DEF Border
        <4>2. e = Colour(i, f)
          BY <3>1 DEF EntryAt
        <4> HIDE DEF f
        <4> QED BY <4>1, <4>2, Zenon DEF Colour
      <3>5. e = c
        BY <3>4, Zenon DEF bit
      <3> HIDE DEF e, c
      <3> QED BY <3>5
    <2> QED BY <2>1, <2>2
  <1>11. (IF ports THEN IoAt(i, 16, c) ELSE i) = IoAt(i, 16, e)
    <2>1. CASE ports
      BY <1>10, <2>1
    <2>2. CASE ~ports
      <3>1. i.outTimer = 0 /\ i.paletteTimer = 0
        BY <2>2 DEF IOs
      <3>2. i.modeTimer = 0
        BY <3>1 DEF Pending
      <3> HIDE DEF e
      <3>3. IoAt(i, 16, e) = i
        BY <3>1, <3>2, IoAtIdle
      <3> QED BY <2>2, <3>3
    <2> QED BY <2>1, <2>2
  <1> DEFINE scrolled == IF at <= ScrollAt /\ ScrollAt < at + 16 THEN IoAt(i, ScrollAt - at, e).a ELSE scroll
  <1>12. (IF ports THEN LatchedBy(line, px, 16, scroll, i, c) ELSE scroll) = scrolled
    <2>1. Latched(line, px, 16) <=> at <= ScrollAt /\ ScrollAt < at + 16
      BY <1>1, LatchedWhen
    <2>2. Latched(line, px, 16) => ScrollAt - at = ScrollPxl - px /\ px = BorderLeft /\ line = Top
      BY <1>1, LatchedWhen
    <2>3. CASE Latched(line, px, 16)
      <3>1. ports
        <4>1. BorderLeft \in Nat
          BY Geometry
        <4> QED BY <2>2, <2>3, <4>1
      <3> DEFINE d == ScrollPxl - px
      <3>2. IoAt(i, d, c) = IoAt(i, d, e)
        <4> HIDE DEF d, c, e
        <4> QED BY <1>10
      <3>3. scrolled = IoAt(i, d, e).a
        <4> HIDE DEF e
        <4> QED BY <2>1, <2>2, <2>3
      <3>4. LatchedBy(line, px, 16, scroll, i, c) = IoAt(i, d, c).a
        BY <2>3, Zenon DEF LatchedBy
      <3> HIDE DEF scrolled, ports, d, e, c
      <3> QED BY <3>1, <3>2, <3>3, <3>4
    <2>4. CASE ~Latched(line, px, 16)
      <3> HIDE DEF e, c, ports
      <3>1. scrolled = scroll
        BY <2>1, <2>4
      <3>2. LatchedBy(line, px, 16, scroll, i, c) = scroll
        BY <2>4 DEF LatchedBy
      <3> QED BY <3>1, <3>2
    <2> QED BY <2>3, <2>4
  <1>13. at + 16 < FrameLen /\ (at + 16) % FrameLen = at + 16 /\ ~(at < IrqPxl)
    <2>1. /\ FrameW \in Nat /\ FrameH \in Nat /\ Top \in 1..FrameH - 1 /\ Top + ActiveH < FrameH /\ ActiveH \in Nat
          /\ FrameLen = FrameW * FrameH /\ FrameLen \in Nat /\ FrameLen # 0 /\ IrqPxl \in 1..FrameW - 1
      BY Geometry
    <2>2. line \in 1..FrameH - 2 /\ px \in 0..FrameW - 16 /\ at = line * FrameW + px
      <3>1. line \in 1..FrameH - 2
        BY <1>1, <2>1
      <3> QED BY <1>1, <3>1 DEF InLine
    <2>3. PICK u \in Nat : line = u + 1
      BY <2>1, <2>2
    <2>4. PICK v \in Nat : FrameH = line + 2 + v
      BY <2>1, <2>2
    <2>5. line * FrameW = u * FrameW + FrameW /\ u * FrameW \in Nat
      BY <2>1, <2>3
    <2>6. FrameLen = line * FrameW + 2 * FrameW + v * FrameW /\ v * FrameW \in Nat /\ line * FrameW \in Nat
      BY <2>1, <2>2, <2>4
    <2> DEFINE lw == line * FrameW
               vw == v * FrameW
               uw == u * FrameW
    <2>7. /\ lw = uw + FrameW /\ uw \in Nat /\ FrameLen = lw + 2 * FrameW + vw /\ vw \in Nat /\ lw \in Nat
          /\ at = lw + px
      BY <2>2, <2>5, <2>6
    <2> HIDE DEF lw, vw, uw
    <2>8. at + 16 < FrameLen /\ ~(at < IrqPxl) /\ at + 16 \in 0..FrameLen - 1
      BY <2>1, <2>2, <2>7
    <2> QED BY <2>1, <2>8, Small
  <1> HIDE DEF s, ports, c, e, scrolled
  <1>14. Chunked(at, scroll, frame, i, e)
          = Rec((at + 16) % FrameLen, at < IrqPxl /\ IrqPxl <= at + 16, scrolled,
                IF at + 16 = FrameLen THEN 1 - frame ELSE frame, IoAt(i, 16, e), Strip(at, 16, scroll, mode))
    BY Zenon DEF Chunked, scrolled
  <1>15. (at < IrqPxl /\ IrqPxl <= at + 16) = FALSE /\ (IF at + 16 = FrameLen THEN 1 - frame ELSE frame) = frame
    <2>1. at + 16 # FrameLen
      BY <1>13
    <2> QED BY <1>13, <2>1, Zenon
  <1>16. Chunked(at, scroll, frame, i, e)
          = Rec(at + 16, FALSE, scrolled, frame, IoAt(i, 16, e), Strip(at, 16, scroll, mode))
    BY <1>13, <1>14, <1>15, Zenon
  <1>17. RasterizeActiveArea(s, 16) = Chunked(at, scroll, frame, i, e)
    BY <1>5, <1>9, <1>11, <1>12, <1>16, Zenon
  <1> QED BY <1>17, Zenon DEF s, e

LEMMA Rasterized ==
  ASSUME NEW m \in Nat, 16 * m < FrameLen, NEW scroll \in Byte8, NEW frame, NEW i \in IOs, Pending(i), Soon(i)
  PROVE  Rasterize(Rec(16 * m, FALSE, scroll, frame, i, <<>>))
           = Chunked(16 * m, scroll, frame, i, EntryAt(16 * m, scroll, i))
  <1> DEFINE at == 16 * m
             line == at \div FrameW
             px == at % FrameW
             s == Rec(at, FALSE, scroll, frame, i, <<>>)
             right == BorderLeft + ActiveW
             isActiveScan == line >= Top /\ line < Top + ActiveH
             isActiveArea == isActiveScan /\ px >= BorderLeft /\ px < right
             inside == Least(right - px, Step)
             outside == IF ~isActiveScan \/ px >= right THEN Step ELSE Least(BorderLeft - px, Step)
             done == Chunked(at, scroll, frame, i, EntryAt(at, scroll, i))
  <1>1. InLine(at, line, px) /\ at \in Nat
    BY Chunk
  <1>2. Line(s) = line /\ Pixel(s) = px
    BY DEF Rec, Line, Pixel
  <1> HIDE DEF line, px, s, at
  <1>3. /\ Rasterize(s) = IF isActiveArea
                          THEN LET t == RasterizeActiveArea(s, inside)
                               IN  IF inside < Step THEN RasterizeBorder(t, Step - inside) ELSE t
                          ELSE LET t == RasterizeBorder(s, outside)
                               IN  IF outside < Step THEN RasterizeActiveArea(t, Step - outside) ELSE t
    BY <1>2, Zenon DEF Rasterize
  <1>4. /\ line \in Nat /\ px \in Nat /\ BorderLeft \in Nat /\ ActiveW \in Nat /\ Top \in Nat /\ ActiveH \in Nat
        /\ Step = 16
        /\ px < BorderLeft => px + 16 <= BorderLeft
        /\ px < BorderLeft + ActiveW => px + 16 <= BorderLeft + ActiveW
        /\ px >= BorderLeft => \E j \in Nat : px = BorderLeft + 16 * j
    BY <1>1, Geometry DEF InLine
  <1>5. CASE isActiveArea
    <2>1. PICK j \in Nat : px = BorderLeft + 16 * j
      BY <1>4, <1>5
    <2>2. InPicture(at, line, px, j)
      BY <1>1, <1>4, <1>5, <2>1 DEF InPicture
    <2>3. RasterizeActiveArea(s, 16) = done
      BY <1>1, <2>2, ActiveChunk DEF s
    <2>4. inside = 16
      BY <1>4, <1>5 DEF Least
    <2>5. ~(16 < 16)
      OBVIOUS
    <2> HIDE DEF inside, outside, isActiveArea, done
    <2>6. Rasterize(s) = done
      BY <1>3, <1>4, <1>5, <2>3, <2>4, <2>5
    <2> QED BY <2>6, Zenon DEF done, s, at
  <1>6. CASE ~isActiveArea
    <2>1. line \notin Top..Top + ActiveH - 1 \/ px < BorderLeft \/ px >= BorderLeft + ActiveW
      BY <1>4, <1>6
    <2>2. RasterizeBorder(s, 16) = done
      BY <1>1, <2>1, BorderChunk, ZenonT(60) DEF s
    <2>3. outside = 16
      BY <1>4, <1>6 DEF Least
    <2>4. ~(16 < 16)
      OBVIOUS
    <2> HIDE DEF inside, outside, isActiveArea, done
    <2>5. Rasterize(s) = done
      BY <1>3, <1>4, <1>6, <2>2, <2>3, <2>4
    <2> QED BY <2>5, Zenon DEF done, s, at
  <1> QED BY <1>5, <1>6

(* The frame drawn at once. *)
FillRound(t) == Put(t, Border, t.io)
LEMMA PlainFilled ==
  ASSUME NEW at \in Nat, NEW irq, NEW scroll, NEW frame, NEW i, NEW mode,
         \A k \in 0..15 : ShownAt(at + k, scroll, mode) = Border
  PROVE  FillBorder(Rec(at, irq, scroll, frame, i, Strip(0, at, scroll, mode)), 16)
           = Rec(at + 16, irq, scroll, frame, i, Strip(0, at + 16, scroll, mode))
  <1> DEFINE W(k) == Rec(at + k, irq, scroll, frame, i, Strip(0, at + k, scroll, mode))
             s == Rec(at, irq, scroll, frame, i, Strip(0, at, scroll, mode))
             Eq(f) == f = [j \in 0..16 |-> IF j = 0 THEN s ELSE FillRound(f[j - 1])]
             after == CHOOSE f : Eq(f)
             V == [j \in 0..16 |-> W(j)]
  <1>1. FillBorder(s, 16) = after[16]
    BY Zenon DEF FillBorder, Repeat, FillRound
  <1>2. ASSUME NEW k \in 0..15
        PROVE  FillRound(V[k]) = V[k + 1] /\ V[k] = W(k)
    <2> DEFINE a == at + k
               b == at + k + 1
               old == Strip(0, a, scroll, mode)
               new == Strip(0, b, scroll, mode)
    <2>1. Append(old, Border) = new
      <3>1. a \in Nat /\ 0 \in Nat /\ 0 + a = a /\ a + 1 = b
        OBVIOUS
      <3>2. ShownAt(a, scroll, mode) = Border
        OBVIOUS
      <3> HIDE DEF a, b
      <3>3. Grows(0, a, scroll, mode)
        BY <3>1, StripGrows
      <3> QED BY <3>1, <3>2, <3>3 DEF Grows
    <2>2. k \in 0..16 /\ k + 1 \in 0..16 /\ at + (k + 1) = b /\ a + 1 = b
      OBVIOUS
    <2>3. V[k] = W(k) /\ V[k + 1] = W(k + 1)
      <3> HIDE DEF W
      <3> QED BY <2>2
    <2>4. W(k) = Rec(a, irq, scroll, frame, i, old)
      OBVIOUS
    <2>5. W(k + 1) = Rec(b, irq, scroll, frame, i, new)
      BY <2>2, Zenon
    <2> HIDE DEF a, b, old, new, W, V
    <2>6. FillRound(Rec(a, irq, scroll, frame, i, old)) = Rec(a + 1, irq, scroll, frame, i, Append(old, Border))
      <3> DEFINE t == Rec(a, irq, scroll, frame, i, old)
      <3>1. t.io = i
        BY DEF Rec
      <3>2. FillRound(t) = Put(t, Border, i)
        <4> HIDE DEF t
        <4> QED BY <3>1 DEF FillRound
      <3>3. Put(t, Border, i) = Rec(a + 1, irq, scroll, frame, i, Append(old, Border))
        BY PutIs
      <3> QED BY <3>2, <3>3, Zenon
    <2> QED BY <2>1, <2>2, <2>3, <2>4, <2>5, <2>6, Zenon
  <1>3. V[0] = s /\ V[16] = Rec(at + 16, irq, scroll, frame, i, Strip(0, at + 16, scroll, mode))
    <2>1. W(0) = s
      <3>1. at + 0 = at
        OBVIOUS
      <3> QED BY <3>1, Zenon
    <2>2. V[0] = W(0) /\ V[16] = W(16)
      <3> HIDE DEF W
      <3> QED OBVIOUS
    <2> QED BY <2>1, <2>2, Zenon
  <1>4. V = [j \in 0..16 |-> V[j]]
    <2> HIDE DEF W
    <2> QED OBVIOUS
  <1> HIDE DEF V, s
  <1>5. Eq(V)
    <2>1. \A j \in 0..16 : j # 0 => j - 1 \in 0..15 /\ (j - 1) + 1 = j
      OBVIOUS
    <2>2. \A j \in 0..16 : V[j] = IF j = 0 THEN s ELSE FillRound(V[j - 1])
      BY <1>2, <1>3, <2>1
    <2> QED BY <1>4, <2>2
  <1>6. Eq(after)
    <2> HIDE DEF Eq
    <2> QED BY <1>5
  <1> HIDE DEF after
  <1>7. after[16] = V[16]
    <2>1. after[0] = s /\ \A k \in 0..15 : after[k + 1] = FillRound(after[k])
      <3>1. after[0] = s
        BY <1>6
      <3>2. ASSUME NEW k \in 0..15 PROVE after[k + 1] = FillRound(after[k])
        <4>1. k + 1 \in 0..16 /\ k + 1 # 0 /\ (k + 1) - 1 = k
          OBVIOUS
        <4>2. after[k + 1] = IF k + 1 = 0 THEN s ELSE FillRound(after[(k + 1) - 1])
          BY <1>6, <4>1
        <4> QED BY <4>1, <4>2
      <3> QED BY <3>1, <3>2
    <2>2. \A k \in 0..16 - 1 : after[k] = V[k] => after[k + 1] = V[k + 1]
      BY <1>2, <2>1
    <2>3. after[0] = V[0]
      BY <1>3, <2>1
    <2> QED BY <2>2, <2>3, LoopIs
  <1> QED BY <1>1, <1>3, <1>7 DEF s

LEMMA NoFill ==
  ASSUME NEW s
  PROVE  FillBorder(s, 0) = s /\ FillActiveArea(s, 0, FALSE) = s
  <1>1. FillBorder(s, 0) = s
    <2> DEFINE Eq(f) == f = [j \in 0..0 |-> IF j = 0 THEN s ELSE FillRound(f[j - 1])]
               after == CHOOSE f : Eq(f)
               V == [j \in 0..0 |-> s]
    <2>1. FillBorder(s, 0) = after[0]
      BY Zenon DEF FillBorder, Repeat, FillRound
    <2>2. Eq(V)
      OBVIOUS
    <2>3. Eq(after)
      <3> HIDE DEF Eq, V
      <3> QED BY <2>2
    <2> HIDE DEF after
    <2>4. after[0] = s
      BY <2>3
    <2> QED BY <2>1, <2>4
  <1>2. FillActiveArea(s, 0, FALSE) = s
    <2> DEFINE wide == s.io.mode512
               rw == (Line(s) - Top + (255 - s.scroll) + ActiveH) % ActiveH
               ln == Line(s)
               st == ActiveStart(s)
               Round(t) == ActiveRound(t, FALSE, wide, ln, rw)
               Eq(f) == f = [k \in 0..0 |-> IF k = 0 THEN st ELSE Round(f[k - 1])]
               after == CHOOSE f : Eq(f)
               V == [k \in 0..0 |-> st]
    <2>1. FillActiveArea(s, 0, FALSE) = after[0].s
      BY Zenon DEF FillActiveArea, Repeat, ActiveRound, ActiveStart
    <2>2. st.s = s
      BY DEF ActiveStart
    <2> HIDE DEF Round, st
    <2>3. Eq(V)
      OBVIOUS
    <2>4. Eq(after)
      <3> HIDE DEF Eq, V
      <3> QED BY <2>3
    <2> HIDE DEF after
    <2>5. after[0] = st
      BY <2>4
    <2> QED BY <2>1, <2>2, <2>5
  <1> QED BY <1>1, <1>2

WholeAt(m, scroll, frame, i) == Rec(16 * m, FALSE, scroll, frame, i, Strip(0, 16 * m, scroll, i.mode512))
ChunkRound(s) ==
  LET right == BorderLeft + ActiveW
      isActiveScan == Line(s) >= Top /\ Line(s) < Top + ActiveH
      isActiveArea == isActiveScan /\ Pixel(s) >= BorderLeft /\ Pixel(s) < right
      inside == Least(right - Pixel(s), Step)
      outside == IF ~isActiveScan \/ Pixel(s) >= right THEN Step
                 ELSE Least(BorderLeft - Pixel(s), Step)
  IN  IF isActiveArea THEN FillBorder(FillActiveArea(s, inside, FALSE), Step - inside)
                      ELSE FillActiveArea(FillBorder(s, outside), Step - outside, FALSE)

LEMMA WholeGoesOn ==
  ASSUME NEW m \in Nat, 16 * m < FrameLen, NEW scroll \in Byte8, NEW frame, NEW i \in IOs, Pending(i)
  PROVE  ChunkRound(WholeAt(m, scroll, frame, i)) = WholeAt(m + 1, scroll, frame, i)
  <1> DEFINE at == 16 * m
             line == at \div FrameW
             px == at % FrameW
             s == WholeAt(m, scroll, frame, i)
             right == BorderLeft + ActiveW
             isActiveScan == line >= Top /\ line < Top + ActiveH
             isActiveArea == isActiveScan /\ px >= BorderLeft /\ px < right
             inside == Least(right - px, Step)
             outside == IF ~isActiveScan \/ px >= right THEN Step ELSE Least(BorderLeft - px, Step)
             done == WholeAt(m + 1, scroll, frame, i)
             mode == i.mode512
             no == FALSE
  <1>1. InLine(at, line, px) /\ at \in Nat
    BY Chunk
  <1>2. Line(s) = line /\ Pixel(s) = px
    BY DEF Rec, Line, Pixel, WholeAt
  <1>7. s = Rec(at, no, scroll, frame, i, Strip(0, at, scroll, mode))
    BY Zenon DEF WholeAt
  <1>8. done = Rec(at + 16, no, scroll, frame, i, Strip(0, at + 16, scroll, mode))
    <2>1. 16 * (m + 1) = at + 16
      OBVIOUS
    <2> HIDE DEF at
    <2> QED BY <2>1 DEF WholeAt
  <1> HIDE DEF line, px, s, at, done, no
  <1>3. ChunkRound(s) = IF isActiveArea THEN FillBorder(FillActiveArea(s, inside, FALSE), Step - inside)
                                        ELSE FillActiveArea(FillBorder(s, outside), Step - outside, FALSE)
    BY <1>2, Zenon DEF ChunkRound
  <1>4. /\ line \in Nat /\ px \in Nat /\ BorderLeft \in Nat /\ ActiveW \in Nat /\ Top \in Nat /\ ActiveH \in Nat
        /\ Step = 16
        /\ px < BorderLeft => px + 16 <= BorderLeft
        /\ px < BorderLeft + ActiveW => px + 16 <= BorderLeft + ActiveW
        /\ px >= BorderLeft => \E j \in Nat : px = BorderLeft + 16 * j
    BY <1>1, Geometry DEF InLine
  <1>0. 16 - 16 = 0 /\ FALSE \in BOOLEAN /\ 0 \in Nat /\ 0 <= at
    BY <1>1
  <1>5. CASE isActiveArea
    <2>1. PICK j \in Nat : px = BorderLeft + 16 * j
      BY <1>4, <1>5
    <2>2. InPicture(at, line, px, j)
      BY <1>1, <1>4, <1>5, <2>1 DEF InPicture
    <2>3. FillActiveArea(s, 16, FALSE) = done
      <3> DEFINE ports == FALSE
                 a == at - 0
                 b == at - 0 + 16
      <3>1. a = at /\ b = at + 16
        BY <1>1
      <3> HIDE DEF ports
      <3>2. ActiveFills(at, line, px, j, no, scroll, frame, i, 0, ports, 0)
        <4>1. ports \in BOOLEAN /\ ~ports
          BY DEF ports
        <4> QED BY <1>0, <1>1, <2>2, <4>1, ActiveFilled
      <3>3. FillActiveArea(Rec(at, no, scroll, frame, i, Strip(0, a, scroll, i.mode512)), 16, ports)
              = Rec(at + 16, no, IF ports THEN LatchedBy(line, px, 16, scroll, i, 0) ELSE scroll, frame,
                    IF ports THEN IoAt(i, 16, 0) ELSE i, Strip(0, b, scroll, i.mode512))
        BY <3>2, Zenon DEF ActiveFills
      <3> HIDE DEF a, b
      <3> QED BY <1>7, <1>8, <3>1, <3>3 DEF ports
    <2>4. inside = 16
      BY <1>4, <1>5 DEF Least
    <2>5. FillBorder(done, 0) = done
      BY NoFill
    <2> HIDE DEF inside, outside, isActiveArea
    <2>6. ChunkRound(s) = done
      BY <1>0, <1>3, <1>4, <1>5, <2>3, <2>4, <2>5
    <2> QED BY <2>6, Zenon DEF done, s
  <1>6. CASE ~isActiveArea
    <2>1. line \notin Top..Top + ActiveH - 1 \/ px < BorderLeft \/ px >= BorderLeft + ActiveW
      BY <1>4, <1>6
    <2>2. FillBorder(s, 16) = done
      <3>1. \A k \in 0..15 : ShownAt(at + k, scroll, mode) = Border
        BY <1>1, <2>1, ShownOut
      <3> HIDE DEF mode
      <3>2. FillBorder(Rec(at, no, scroll, frame, i, Strip(0, at, scroll, mode)), 16)
              = Rec(at + 16, no, scroll, frame, i, Strip(0, at + 16, scroll, mode))
        BY <1>1, <3>1, PlainFilled
      <3> QED BY <1>7, <1>8, <3>2
    <2>3. outside = 16
      BY <1>4, <1>6 DEF Least
    <2>4. FillActiveArea(done, 0, FALSE) = done
      BY NoFill
    <2> HIDE DEF inside, outside, isActiveArea
    <2>5. ChunkRound(s) = done
      BY <1>0, <1>3, <1>4, <1>6, <2>2, <2>3, <2>4
    <2> QED BY <2>5, Zenon DEF done, s
  <1> QED BY <1>5, <1>6

LEMMA WholeDrawn ==
  ASSUME NEW scroll \in Byte8, NEW frame, NEW i \in IOs, Pending(i)
  PROVE  Repeat(FrameLen \div Step, Rec(0, FALSE, scroll, frame, i, <<>>), ChunkRound).pixels
           = Strip(0, FrameLen, scroll, i.mode512)
  <1> DEFINE W(k) == WholeAt(k, scroll, frame, i)
             n == FrameLen \div Step
             s == Rec(0, FALSE, scroll, frame, i, <<>>)
             Eq(f) == f = [j \in 0..n |-> IF j = 0 THEN s ELSE ChunkRound(f[j - 1])]
             after == CHOOSE f : Eq(f)
             V == [j \in 0..n |-> W(j)]
  <1>0. n \in Nat /\ FrameLen = 16 * n
    <2>1. PICK w \in Nat : FrameW = 16 * w
      BY Geometry
    <2>2. FrameLen = FrameW * FrameH /\ FrameH \in Nat /\ Step = 16
      BY Geometry
    <2> DEFINE c == w * FrameH
    <2>3. FrameLen = 16 * c /\ c \in Nat
      BY <2>1, <2>2
    <2> HIDE DEF c
    <2> QED BY <2>2, <2>3
  <1>1. Repeat(n, s, ChunkRound) = after[n]
    BY Zenon DEF Repeat
  <1> HIDE DEF n
  <1>2. ASSUME NEW k \in 0..n - 1
        PROVE  ChunkRound(V[k]) = V[k + 1]
    <2>1. k \in 0..n /\ k + 1 \in 0..n /\ k \in Nat /\ 16 * k < FrameLen
      BY <1>0
    <2>2. ChunkRound(W(k)) = W(k + 1)
      BY <2>1, WholeGoesOn
    <2> HIDE DEF W
    <2> QED BY <2>1, <2>2
  <1>3. V[0] = s /\ V[n] = W(n)
    <2>1. W(0) = s
      <3>1. 16 * 0 = 0
        OBVIOUS
      <3>2. Strip(0, 0, scroll, i.mode512) = <<>>
        BY StripStarts
      <3> QED BY <3>1, <3>2 DEF WholeAt
    <2> HIDE DEF W, s
    <2> QED BY <1>0, <2>1
  <1>4. V = [j \in 0..n |-> V[j]]
    <2> HIDE DEF W
    <2> QED OBVIOUS
  <1>8. W(n).pixels = Strip(0, FrameLen, scroll, i.mode512)
    <2> DEFINE st == Strip(0, FrameLen, scroll, i.mode512)
    <2>1. W(n) = Rec(16 * n, FALSE, scroll, frame, i, st)
      BY <1>0 DEF WholeAt
    <2> HIDE DEF st, W
    <2>2. W(n).pixels = st
      BY <2>1 DEF Rec
    <2> QED BY <2>2, Zenon DEF st
  <1> HIDE DEF V, s, W
  <1>5. Eq(V)
    <2>1. \A j \in 0..n : j # 0 => j - 1 \in 0..n - 1 /\ (j - 1) + 1 = j
      BY <1>0
    <2>2. \A j \in 0..n : V[j] = IF j = 0 THEN s ELSE ChunkRound(V[j - 1])
      BY <1>2, <1>3, <2>1
    <2> QED BY <1>4, <2>2
  <1>6. Eq(after)
    <2> HIDE DEF Eq
    <2> QED BY <1>5
  <1> HIDE DEF after
  <1>7. after[n] = V[n]
    <2>1. after[0] = s
      BY <1>0, <1>6
    <2>2. ASSUME NEW k \in 0..n - 1 PROVE after[k + 1] = ChunkRound(after[k])
      <3>1. k + 1 \in 0..n /\ k + 1 # 0 /\ (k + 1) - 1 = k
        BY <1>0
      <3>2. after[k + 1] = IF k + 1 = 0 THEN s ELSE ChunkRound(after[(k + 1) - 1])
        BY <1>6, <3>1
      <3> QED BY <3>1, <3>2
    <2>3. \A k \in 0..n - 1 : after[k] = V[k] => after[k + 1] = V[k + 1]
      BY <1>2, <2>2
    <2>4. after[0] = V[0]
      BY <1>3, <2>1
    <2> QED BY <1>0, <2>3, <2>4, LoopIs
  <1> QED BY <1>1, <1>3, <1>7, <1>8, Zenon DEF s, n

-----------------------------------------------------------------------------
(* What holds of the display. *)
Rasters == [idx : Nat, irq : BOOLEAN, scroll : Byte8, frame : 0..1]
OutPending(i, out) ==
  /\ out \in Outs /\ i.port = out[1] /\ i.byte = out[2] /\ i.outTimer = OutCommitTime
  /\ i.paletteTimer = IF out[1] \in PaletteOut THEN PaletteCommitTime ELSE 0
  /\ i.modeTimer = IF out[1] = DisplayModeOut THEN DisplayModeTime ELSE 0
NoOut(i) == i.outTimer = 0 /\ i.paletteTimer = 0 /\ i.modeTimer = 0
DisplayInv ==
  /\ io \in IOs /\ raster \in Rasters
  /\ \E m \in Nat : raster.idx = 16 * m /\ 16 * m < FrameLen
  /\ IF sent = Nothing THEN NoOut(io) ELSE OutPending(io, sent)
  /\ Len(drawn) \in {0, 16, FrameLen}

LEMMA OutsAre ==
  ASSUME NEW out \in Outs
  PROVE  out[1] \in Byte8 /\ out[2] \in Byte8 /\ out # Nothing
  <1>1. out \in Byte8 \X Byte8
    BY DisplayAssumption
  <1> QED BY <1>1 DEF Nothing

LEMMA CommitTimes ==
  /\ OutCommitTime \in 1..16 /\ PaletteCommitTime \in 1..16 /\ DisplayModeTime \in 1..16
  /\ OutCommitTime <= PaletteCommitTime /\ OutCommitTime <= DisplayModeTime
  BY DisplayAssumption, IOAssumption

LEMMA PendingIs ==
  ASSUME DisplayInv
  PROVE  Pending(io) /\ Soon(io)
  <1>1. CASE sent = Nothing
    BY <1>1 DEF DisplayInv, NoOut, Pending, Soon
  <1>2. CASE sent # Nothing
    <2>1. OutPending(io, sent)
      BY <1>2 DEF DisplayInv
    <2>2. /\ io.outTimer = OutCommitTime /\ io.paletteTimer \in {0, PaletteCommitTime}
          /\ io.modeTimer \in {0, DisplayModeTime} /\ (io.paletteTimer # 0 => io.port \in PaletteOut)
      BY <2>1 DEF OutPending
    <2> QED BY <2>2, CommitTimes DEF Pending, Soon
  <1> QED BY <1>1, <1>2

LEMMA StartIO == IOInit \in IOs /\ NoOut(IOInit)
  <1>1. IOInit \in IOs
    BY InitialLatches
  <1> QED BY <1>1 DEF IOInit, NoOut

LEMMA ResetIO == DisplayInv => IOReset(io) \in IOs /\ NoOut(IOReset(io))
  <1> SUFFICES ASSUME DisplayInv PROVE IOReset(io) \in IOs /\ NoOut(IOReset(io))
    OBVIOUS
  <1>1. io \in IOs
    BY DEF DisplayInv
  <1> QED BY <1>1, ResetLatches DEF NoOut

LEMMA DisplayBegins ==
  RasterInit \in Rasters /\ RasterInit.idx = 0 /\ 16 * 0 = 0 /\ 0 < FrameLen /\ 0 \in Nat /\ Len(<<>>) = 0
  BY Geometry DEF RasterInit, Rasters, Byte8

LEMMA DisplayInitially == DisplayInit => DisplayInv
  BY StartIO, DisplayBegins DEF DisplayInit, DisplayInv

(* What a machine cycle does. *)
Cycled(out) ==
  LET at == raster.idx
      done == IoAt(io, 16, EntryAt(at, raster.scroll, io))
  IN  /\ raster' = [idx |-> (at + 16) % FrameLen, irq |-> at < IrqPxl /\ IrqPxl <= at + 16,
                    scroll |-> IF at <= ScrollAt /\ ScrollAt < at + 16
                               THEN IoAt(io, ScrollAt - at, EntryAt(at, raster.scroll, io)).a ELSE raster.scroll,
                    frame |-> IF at + 16 = FrameLen THEN 1 - raster.frame ELSE raster.frame]
      /\ drawn' = Strip(at, 16, raster.scroll, io.mode512)
      /\ io' = IF out = Nothing THEN done ELSE PortOut(done, out[1], out[2])
      /\ sent' = out

LEMMA CycleDoes ==
  ASSUME DisplayInv, NEW out, MachineCycle(out)
  PROVE  Cycled(out)
  <1> DEFINE at == raster.idx
             s == Rasterize(From(raster.idx))
             e == EntryAt(at, raster.scroll, io)
             done == IoAt(io, 16, e)
             sc == IF at <= ScrollAt /\ ScrollAt < at + 16 THEN IoAt(io, ScrollAt - at, e).a ELSE raster.scroll
             irq == at < IrqPxl /\ IrqPxl <= at + 16
             fr == IF at + 16 = FrameLen THEN 1 - raster.frame ELSE raster.frame
             idx == (at + 16) % FrameLen
             px == Strip(at, 16, raster.scroll, io.mode512)
  <1>1. PICK m \in Nat : raster.idx = 16 * m /\ 16 * m < FrameLen
    BY DEF DisplayInv
  <1>2. io \in IOs /\ raster.scroll \in Byte8 /\ Pending(io) /\ Soon(io)
    BY PendingIs DEF DisplayInv, Rasters
  <1>3. From(raster.idx) = Rec(raster.idx, FALSE, raster.scroll, raster.frame, io, <<>>)
    BY Zenon DEF From, Rec
  <1>4. s = Chunked(at, raster.scroll, raster.frame, io, e)
    <2> DEFINE scroll == raster.scroll
               frame == raster.frame
    <2> HIDE DEF scroll, frame
    <2>1. Rasterize(Rec(16 * m, FALSE, scroll, frame, io, <<>>)) = Chunked(16 * m, scroll, frame, io, EntryAt(16 * m, scroll, io))
      BY <1>1, <1>2, Rasterized DEF scroll
    <2> QED BY <1>1, <1>3, <2>1, Zenon DEF scroll, frame
  <1>5. s = Rec(idx, irq, sc, fr, done, px)
    <2> HIDE DEF s
    <2> QED BY <1>4, Zenon DEF Chunked
  <1> HIDE DEF idx, irq, sc, fr, done, px
  <1>6. s.idx = idx /\ s.irq = irq /\ s.scroll = sc /\ s.frame = fr /\ s.io = done /\ s.pixels = px
    <2> HIDE DEF s
    <2> QED BY <1>5 DEF Rec
  <1>7. /\ raster' = [idx |-> s.idx, irq |-> s.irq, scroll |-> s.scroll, frame |-> s.frame]
        /\ drawn' = s.pixels
        /\ io' = IF out = Nothing THEN s.io ELSE PortOut(s.io, out[1], out[2])
        /\ sent' = out
    BY Zenon DEF MachineCycle
  <1> HIDE DEF s
  <1>8. /\ raster' = [idx |-> idx, irq |-> irq, scroll |-> sc, frame |-> fr] /\ drawn' = px
        /\ io' = (IF out = Nothing THEN done ELSE PortOut(done, out[1], out[2])) /\ sent' = out
    BY <1>6, <1>7, Zenon
  <1> QED BY <1>8, Zenon DEF Cycled, idx, irq, sc, fr, done, px

LEMMA CycleKeeps ==
  ASSUME DisplayInv, NEW out, Cycled(out), out = Nothing \/ (sent = Nothing /\ out \in Outs)
  PROVE  DisplayInv'
  <1> DEFINE at == raster.idx
             e == EntryAt(at, raster.scroll, io)
             done == IoAt(io, 16, e)
             sc == IF at <= ScrollAt /\ ScrollAt < at + 16 THEN IoAt(io, ScrollAt - at, e).a ELSE raster.scroll
             irq == at < IrqPxl /\ IrqPxl <= at + 16
             fr == IF at + 16 = FrameLen THEN 1 - raster.frame ELSE raster.frame
             idx == (at + 16) % FrameLen
             px == Strip(at, 16, raster.scroll, io.mode512)
  <1>1. PICK m \in Nat : raster.idx = 16 * m /\ 16 * m < FrameLen
    BY DEF DisplayInv
  <1>2. io \in IOs /\ raster.scroll \in Byte8 /\ raster.frame \in 0..1 /\ Pending(io) /\ Soon(io)
    BY PendingIs DEF DisplayInv, Rasters
  <1>3. /\ raster' = [idx |-> idx, irq |-> irq, scroll |-> sc, frame |-> fr]
        /\ drawn' = px /\ sent' = out
        /\ io' = IF out = Nothing THEN done ELSE PortOut(done, out[1], out[2])
    BY Zenon DEF Cycled
  <1>4. done \in IOs /\ NoOut(done)
    <2>1. /\ done \in IOs /\ done.outTimer = Remains(io.outTimer, 16) /\ done.paletteTimer = Remains(io.paletteTimer, 16)
          /\ done.modeTimer = Remains(io.modeTimer, 16)
      <3> HIDE DEF e
      <3> QED BY <1>2, IoTyped
    <2> HIDE DEF done
    <2> QED BY <1>2, <2>1 DEF Remains, Soon, NoOut, IOs
  <1>5. sc \in Byte8
    <2>1. ScrollAt \in Nat
      BY Geometry DEF ScrollAt
    <2>2. at <= ScrollAt => IoAt(io, ScrollAt - at, e) \in IOs
      <3>1. at \in Nat
        BY <1>1
      <3> DEFINE k == ScrollAt - at
      <3>2. at <= ScrollAt => k \in Nat
        BY <2>1, <3>1
      <3> HIDE DEF k, e
      <3>3. at <= ScrollAt => IoAt(io, k, e) \in IOs
        BY <1>2, <3>2, IoTyped
      <3> QED BY <3>3 DEF k
    <2> DEFINE x == IoAt(io, ScrollAt - at, e)
    <2> HIDE DEF x
    <2>3. at <= ScrollAt => x.a \in Byte8
      BY <2>2 DEF IOs, x
    <2>4. sc = IF at <= ScrollAt /\ ScrollAt < at + 16 THEN x.a ELSE raster.scroll
      BY Zenon DEF x
    <2> HIDE DEF sc
    <2> QED BY <1>2, <2>3, <2>4
  <1>6. \E n \in Nat : idx = 16 * n /\ 16 * n < FrameLen
    <2>0. FrameLen \in Nat /\ FrameLen # 0
      BY Geometry
    <2>1. CASE at + 16 = FrameLen
      <3>1. idx = 0
        BY <2>0, <2>1, Small
      <3> HIDE DEF idx
      <3> QED BY <2>0, <3>1
    <2>2. CASE at + 16 # FrameLen
      <3> DEFINE line == (16 * m) \div FrameW
                 x == (16 * m) % FrameW
      <3>1. InLine(16 * m, line, x)
        BY <1>1, Chunk
      <3>2. 16 * m + 16 <= FrameLen
        BY <3>1 DEF InLine
      <3>3. at + 16 \in 0..FrameLen - 1
        BY <1>1, <2>0, <2>2, <3>2
      <3>4. idx = 16 * (m + 1)
        BY <1>1, <2>0, <3>3, Small
      <3> HIDE DEF idx
      <3>5. m + 1 \in Nat /\ 16 * (m + 1) = at + 16
        BY <1>1
      <3>6. 16 * (m + 1) < FrameLen
        BY <2>0, <3>3, <3>5
      <3> HIDE DEF at
      <3> QED BY <3>4, <3>5, <3>6
    <2> QED BY <2>1, <2>2
  <1>7. irq \in BOOLEAN /\ fr \in 0..1
    BY <1>2
  <1>8. idx \in Nat
    BY <1>6
  <1> HIDE DEF idx, irq, sc, fr, done
  <1>9. raster' \in Rasters /\ raster'.idx = idx
    BY <1>3, <1>5, <1>7, <1>8 DEF Rasters
  <1>10. Len(drawn') = 16
    <2> DEFINE n == 16
    <2>1. n \in Nat
      OBVIOUS
    <2> HIDE DEF n
    <2>2. Len(Strip(at, n, raster.scroll, io.mode512)) = n
      BY <2>1, StripLength
    <2> QED BY <1>3, <2>2, Zenon DEF px, n
  <1>11. io' \in IOs /\ IF sent' = Nothing THEN NoOut(io') ELSE OutPending(io', sent')
    <2>1. CASE out = Nothing
      BY <1>3, <1>4, <2>1
    <2>2. CASE out \in Outs
      <3>1. out[1] \in Byte8 /\ out[2] \in Byte8 /\ out # Nothing
        BY <2>2, OutsAre
      <3> DEFINE o == out[1]
                 v == out[2]
                 p == IF o \in PaletteOut THEN PaletteCommitTime ELSE 0
                 t == IF o = DisplayModeOut THEN DisplayModeTime ELSE 0
      <3>2. io' = PortOut(done, o, v) /\ sent' = out
        BY <1>3, <3>1
      <3> HIDE DEF o, v
      <3>3. PortOut(done, o, v) = [done EXCEPT !.port = o, !.byte = v, !.outTimer = OutCommitTime,
                                                !.paletteTimer = p, !.modeTimer = t]
        <4>1. done.paletteTimer = 0 /\ done.modeTimer = 0
          BY <1>4 DEF NoOut
        <4> QED BY <4>1 DEF PortOut
      <3>4. p \in Nat /\ t \in Nat /\ OutCommitTime \in Nat /\ o \in Byte8 /\ v \in Byte8
        BY <3>1, CommitTimes DEF o, v
      <3> HIDE DEF p, t
      <3>5. /\ io' \in IOs /\ io'.port = o /\ io'.byte = v /\ io'.outTimer = OutCommitTime
            /\ io'.paletteTimer = p /\ io'.modeTimer = t
        BY <1>4, <3>2, <3>3, <3>4, ZenonT(60) DEF IOs
      <3>6. OutPending(io', sent')
        BY <2>2, <3>2, <3>5 DEF OutPending, o, v, p, t
      <3> QED BY <3>1, <3>2, <3>5, <3>6
    <2> QED BY <2>1, <2>2
  <1>12. \E n \in Nat : raster'.idx = 16 * n /\ 16 * n < FrameLen
    BY <1>6, <1>9
  <1>13. FrameLen' = FrameLen /\ Nothing' = Nothing
    OBVIOUS
  <1> QED BY <1>9, <1>10, <1>11, <1>12 DEF DisplayInv

LEMMA WholeDoes ==
  ASSUME DisplayInv, FrameBuffUpdate
  PROVE  drawn' = Strip(0, FrameLen, raster.scroll, io.mode512) /\ UNCHANGED <<io, raster, sent>>
  <1>1. /\ drawn' = Repeat(FrameLen \div Step, From(0), ChunkRound).pixels
        /\ UNCHANGED <<io, raster, sent>>
    BY Zenon DEF FrameBuffUpdate, ChunkRound
  <1>2. From(0) = Rec(0, FALSE, raster.scroll, raster.frame, io, <<>>)
    BY Zenon DEF From, Rec
  <1>3. io \in IOs /\ raster.scroll \in Byte8 /\ Pending(io)
    BY PendingIs DEF DisplayInv, Rasters
  <1> DEFINE scroll == raster.scroll
             frame == raster.frame
  <1> HIDE DEF scroll, frame
  <1>4. Repeat(FrameLen \div Step, Rec(0, FALSE, scroll, frame, io, <<>>), ChunkRound).pixels
          = Strip(0, FrameLen, scroll, io.mode512)
    BY <1>3, WholeDrawn DEF scroll
  <1> QED BY <1>1, <1>2, <1>4, Zenon DEF scroll, frame

LEMMA FrameResetKeeps == DisplayInv /\ DisplayReset => DisplayInv'
  <1> SUFFICES ASSUME DisplayInv, DisplayReset PROVE DisplayInv'
    OBVIOUS
  <1>1. io' = IOReset(io) /\ raster' = RasterInit /\ drawn' = <<>> /\ sent' = Nothing
    BY DEF DisplayReset
  <1> QED BY <1>1, ResetIO, DisplayBegins DEF DisplayInv

LEMMA FrameRestartKeeps == DisplayInv /\ DisplayRestart => DisplayInv'
  <1> SUFFICES ASSUME DisplayInv, DisplayRestart PROVE DisplayInv'
    OBVIOUS
  <1>1. raster' = RasterInit /\ drawn' = <<>> /\ UNCHANGED <<io, sent>>
    BY DEF DisplayRestart
  <1>2. io' \in IOs /\ IF sent' = Nothing THEN NoOut(io') ELSE OutPending(io', sent')
    BY <1>1, Zenon DEF DisplayInv
  <1> QED BY <1>1, <1>2, DisplayBegins DEF DisplayInv

LEMMA WholeKeeps == DisplayInv /\ FrameBuffUpdate => DisplayInv'
  <1> SUFFICES ASSUME DisplayInv, FrameBuffUpdate PROVE DisplayInv'
    OBVIOUS
  <1>1. drawn' = Strip(0, FrameLen, raster.scroll, io.mode512) /\ UNCHANGED <<io, raster, sent>>
    BY WholeDoes
  <1>2. Len(drawn') = FrameLen
    <2>1. FrameLen \in Nat
      BY Geometry
    <2> DEFINE n == FrameLen
    <2> HIDE DEF n
    <2>2. Len(Strip(0, n, raster.scroll, io.mode512)) = n
      BY <2>1, StripLength DEF n
    <2> QED BY <1>1, <2>2, Zenon DEF n
  <1> QED BY <1>1, <1>2 DEF DisplayInv, OutPending, NoOut

LEMMA DisplayStep == DisplayInv /\ [DisplayNext]_displayVars => DisplayInv'
  <1> SUFFICES ASSUME DisplayInv, [DisplayNext]_displayVars PROVE DisplayInv'
    OBVIOUS
  <1>1. CASE MachineCycle(Nothing)
    BY <1>1, CycleDoes, CycleKeeps
  <1>2. ASSUME sent = Nothing, NEW out \in Outs, MachineCycle(out) PROVE DisplayInv'
    BY <1>2, CycleDoes, CycleKeeps
  <1>3. CASE DisplayReset
    BY <1>3, FrameResetKeeps
  <1>4. CASE FrameBuffUpdate
    BY <1>4, WholeKeeps
  <1>5. CASE UNCHANGED displayVars
    BY <1>5 DEF DisplayInv, displayVars, OutPending, NoOut
  <1>6. CASE DisplayRestart
    BY <1>6, FrameRestartKeeps
  <1> QED BY <1>1, <1>2, <1>3, <1>4, <1>5, <1>6 DEF DisplayNext

LEMMA DisplayTyped == DisplayInv => DisplayTypeOK
  <1> SUFFICES ASSUME DisplayInv PROVE DisplayTypeOK
    OBVIOUS
  <1>1. PICK m \in Nat : raster.idx = 16 * m /\ 16 * m < FrameLen
    BY DEF DisplayInv
  <1>2. Step = 16 /\ FrameLen \in Nat
    BY Geometry
  <1>3. raster.idx \in 0..(FrameLen - 1) /\ raster.idx % Step = 0
    BY <1>1, <1>2
  <1>4. Soon(io) /\ io \in IOs
    BY PendingIs DEF DisplayInv
  <1>5. io.palette \in [Color -> Byte8] /\ {io.outTimer, io.paletteTimer, io.modeTimer} \subseteq 0..Step
    BY <1>2, <1>4 DEF Soon, IOs
  <1>6. Len(drawn) \in {0, Step, FrameLen}
    BY <1>2 DEF DisplayInv
  <1>7. raster.irq \in BOOLEAN /\ raster.scroll \in Byte8 /\ raster.frame \in 0..1
    BY DEF DisplayInv, Rasters
  <1> QED BY <1>3, <1>5, <1>6, <1>7 DEF DisplayTypeOK

LEMMA StripPlaced ==
  ASSUME NEW first \in Nat, NEW n \in Nat, drawn' = Strip(first, n, raster.scroll, io.mode512)
  PROVE  PixelsPlaced(first) /\ Len(drawn') = n
  <1>1. Len(drawn') = n
    <2>1. Len(Strip(first, n, raster.scroll, io.mode512)) = n
      BY StripLength
    <2> QED BY <2>1
  <1>2. \A k \in 1..n : drawn'[k] = ShownAt(first + k - 1, raster.scroll, io.mode512)
    BY DEF Strip
  <1> QED BY <1>1, <1>2 DEF PixelsPlaced

LEMMA CycleMoves ==
  ASSUME DisplayInv, NEW out, Cycled(out)
  PROVE  RasterMoves
  <1> DEFINE at == raster.idx
             e == EntryAt(at, raster.scroll, io)
             done == IoAt(io, 16, e)
             latches == at <= ScrollAt /\ ScrollAt < at + 16
             x == IoAt(io, ScrollAt - at, e)
             sc == IF latches THEN x.a ELSE raster.scroll
             irq == at < IrqPxl /\ IrqPxl <= at + 16
             fr == IF at + 16 = FrameLen THEN 1 - raster.frame ELSE raster.frame
             idx == (at + 16) % FrameLen
  <1>1. raster' = [idx |-> idx, irq |-> irq, scroll |-> sc, frame |-> fr]
        /\ io' = IF out = Nothing THEN done ELSE PortOut(done, out[1], out[2])
    BY Zenon DEF Cycled
  <1>2. PICK m \in Nat : raster.idx = 16 * m /\ 16 * m < FrameLen
    BY DEF DisplayInv
  <1>3. io \in IOs /\ raster.scroll \in Byte8 /\ raster.frame \in 0..1 /\ Pending(io) /\ Soon(io) /\ Step = 16
    BY PendingIs, Geometry DEF DisplayInv, Rasters
  <1>4. io'.a = done.a
    <2>1. done \in IOs
      <3> HIDE DEF e
      <3> QED BY <1>3, IoTyped
    <2> HIDE DEF done
    <2>2. PortOut(done, out[1], out[2]).a = done.a
      BY <2>1 DEF PortOut, IOs
    <2> QED BY <1>1, <2>2
  <1> DEFINE k == ScrollAt - at
  <1>5. latches => x.a \in {io.a, done.a}
    <2>1. ScrollAt \in Nat
      BY Geometry DEF ScrollAt
    <2>2. latches => k \in 0..15
      BY <1>2, <2>1
    <2> HIDE DEF k, e
    <2>3. ASSUME NEW j \in 0..16 PROVE IoAt(io, j, e).a = IF Done(io.outTimer, j) THEN Committing(io).a ELSE io.a
      <3>1. j \in Nat
        OBVIOUS
      <3> QED BY <1>3, <3>1, IoTyped
    <2>4. ASSUME NEW j \in 0..15 PROVE IoAt(io, j, e).a \in {io.a, IoAt(io, 16, e).a}
      <3>1. Done(io.outTimer, j) => Done(io.outTimer, 16)
        BY <1>3 DEF Done, IOs
      <3>2. IoAt(io, j, e).a = (IF Done(io.outTimer, j) THEN Committing(io).a ELSE io.a)
            /\ IoAt(io, 16, e).a = IF Done(io.outTimer, 16) THEN Committing(io).a ELSE io.a
        BY <2>3
      <3> QED BY <3>1, <3>2, Zenon
    <2>5. latches => IoAt(io, k, e).a \in {io.a, IoAt(io, 16, e).a}
      <3> HIDE DEF latches
      <3> QED BY <2>2, <2>4
    <2> QED BY <2>5, Zenon DEF k
  <1>6. (fr # raster.frame) = (at + 16 = FrameLen)
    BY <1>3
  <1> HIDE DEF x, done, k, e, fr, idx
  <1>7. raster'.idx = idx /\ raster'.irq = irq /\ raster'.scroll = sc /\ raster'.frame = fr
    BY <1>1
  <1>8. IF latches THEN raster'.scroll \in {io.a, io'.a} ELSE raster'.scroll = raster.scroll
    BY <1>4, <1>5, <1>7
  <1>9. raster'.idx = (at + Step) % FrameLen
    BY <1>3, <1>7 DEF idx
  <1>10. raster'.irq = (at < IrqPxl /\ IrqPxl <= at + Step)
    BY <1>3, <1>7
  <1>11. (raster'.frame # raster.frame) = (at + Step = FrameLen)
    BY <1>3, <1>6, <1>7
  <1>12. IF at <= ScrollAt /\ ScrollAt < at + Step THEN raster'.scroll \in {io.a, io'.a}
                                                  ELSE raster'.scroll = raster.scroll
    BY <1>3, <1>8
  <1> QED BY <1>9, <1>10, <1>11, <1>12, Zenon DEF RasterMoves, ScrollAt

LEMMA DisplayDraws == DisplayInv /\ [DisplayNext]_displayVars => [FrameDrawn]_displayVars
  <1> SUFFICES ASSUME DisplayInv, [DisplayNext]_displayVars PROVE [FrameDrawn]_displayVars
    OBVIOUS
  <1>1. ASSUME NEW out, MachineCycle(out) PROVE FrameDrawn
    <2>1. Cycled(out)
      BY <1>1, CycleDoes
    <2>2. drawn' = Strip(raster.idx, 16, raster.scroll, io.mode512)
      BY <2>1, Zenon DEF Cycled
    <2>3. raster.idx \in Nat /\ Step = 16
      BY Geometry DEF DisplayInv
    <2>4. PixelsPlaced(raster.idx) /\ Len(drawn') = 16
      BY <2>2, <2>3, StripPlaced
    <2> QED BY <2>1, <2>3, <2>4, CycleMoves DEF FrameDrawn
  <1>2. CASE DisplayReset
    BY <1>2 DEF DisplayReset, FrameDrawn, Restarted
  <1>5. CASE DisplayRestart
    BY <1>5 DEF DisplayRestart, FrameDrawn, Restarted
  <1>3. CASE FrameBuffUpdate
    <2>1. drawn' = Strip(0, FrameLen, raster.scroll, io.mode512) /\ UNCHANGED <<io, raster, sent>>
      BY <1>3, WholeDoes
    <2>2. FrameLen \in Nat
      BY Geometry
    <2> DEFINE n == FrameLen
    <2> HIDE DEF n
    <2>3. PixelsPlaced(0) /\ Len(drawn') = n
      BY <2>1, <2>2, StripPlaced DEF n
    <2> QED BY <2>1, <2>3 DEF FrameDrawn, Redrawn, n
  <1>4. CASE UNCHANGED displayVars
    BY <1>4
  <1> QED BY <1>1, <1>2, <1>3, <1>4, <1>5 DEF DisplayNext

NoTimes(i) == [i EXCEPT !.port = 0, !.byte = 0, !.outTimer = 0, !.paletteTimer = 0, !.modeTimer = 0]
LEMMA OutOnlyNotes ==
  ASSUME NEW i \in IOs, NEW o, NEW v
  PROVE  NoTimes(PortOut(i, o, v)) = NoTimes(i) /\ PortOut(i, o, v).palette = i.palette
  <1> DEFINE p == IF o \in PaletteOut THEN PaletteCommitTime ELSE i.paletteTimer
             t == IF o = DisplayModeOut THEN DisplayModeTime ELSE i.modeTimer
  <1>1. PortOut(i, o, v) = [i EXCEPT !.port = o, !.byte = v, !.outTimer = OutCommitTime,
                                     !.paletteTimer = p, !.modeTimer = t]
    BY Zenon DEF PortOut
  <1> HIDE DEF p, t
  <1> QED BY <1>1 DEF IOs, NoTimes

LEMMA OutCommitted ==
  ASSUME DisplayInv, sent # Nothing, NEW e
  PROVE  LET h == PortOutHandling(io, sent[1], sent[2])
             done == IoAt(io, 16, e)
         IN  /\ done.a = h.a /\ done.b = h.b /\ done.brdColorIdx = h.brdColorIdx
             /\ done.mode512 = IF sent[1] = 2 THEN h.reqDisplayMode ELSE io.mode512
             /\ done.palette = IF sent[1] \in PaletteOut THEN [io.palette EXCEPT ![e] = h.hwColor] ELSE io.palette
  <1> DEFINE o == sent[1]
             v == sent[2]
             h == PortOutHandling(io, o, v)
             done == IoAt(io, 16, e)
             colors == IF o \in PaletteOut THEN [io.palette EXCEPT ![e] = h.hwColor] ELSE io.palette
             mode == IF o = 2 THEN h.reqDisplayMode ELSE io.mode512
  <1>1. io \in IOs /\ OutPending(io, sent)
    BY DEF DisplayInv
  <1>2. h = Committing(io) /\ h \in IOs
    <2>1. h = Committing(io)
      BY <1>1 DEF OutPending, Committing
    <2> HIDE DEF h
    <2> QED BY <1>1, <2>1, HandlingKeeps
  <1>3. Done(io.outTimer, 16)
    BY <1>1, CommitTimes DEF OutPending, Done
  <1>4. Done(io.paletteTimer, 16) <=> o \in PaletteOut
    BY <1>1, CommitTimes DEF OutPending, Done
  <1>5. Done(io.modeTimer, 16) <=> o = 2
    BY <1>1, CommitTimes DEF OutPending, Done, DisplayModeOut
  <1> HIDE DEF h, o, v
  <1>6. done = Timed(h, Remains(io.outTimer, 16), Remains(io.paletteTimer, 16), Remains(io.modeTimer, 16), colors, mode)
    BY <1>2, <1>3, <1>4, <1>5 DEF IoAt
  <1> HIDE DEF colors, mode, done
  <1>7. done.a = h.a /\ done.b = h.b /\ done.brdColorIdx = h.brdColorIdx /\ done.mode512 = mode /\ done.palette = colors
    BY <1>2, <1>6 DEF Timed, IOs
  <1> QED BY <1>7, Zenon DEF colors, mode, done, h, o, v

LEMMA DisplayEnds == DisplayInv /\ [DisplayNext]_displayVars => [OutIsOver]_displayVars
  <1> SUFFICES ASSUME DisplayInv, [DisplayNext]_displayVars PROVE [OutIsOver]_displayVars
    OBVIOUS
  <1> DEFINE from == drawn'[PaletteCommitTime]
             entry == IF from = Border THEN io.brdColorIdx ELSE Picture(from[2], from[3])
             v == sent[2]
             e == EntryAt(raster.idx, raster.scroll, io)
             done == IoAt(io, 16, e)
             colors == IF sent # Nothing /\ sent[1] \in PaletteOut
                       THEN [io.palette EXCEPT ![entry] = v] ELSE io.palette
             idle == sent = Nothing => NoTimes(io') = NoTimes(io)
             two == sent # Nothing /\ sent[1] = 2 =>
                      io'.b = v /\ io'.brdColorIdx = v % 16 /\ io'.mode512 = (BitOf(v, 4) = 1)
             three == sent # Nothing /\ sent[1] = 3 => io'.a = v
  <1>0. idle /\ two /\ three /\ io'.palette = colors => OutIsOver
    <2> HIDE DEF from, entry
    <2> SUFFICES ASSUME idle, two, three, io'.palette = colors PROVE OutIsOver
      OBVIOUS
    <2>1. sent = Nothing =>
            [io' EXCEPT !.port = 0, !.byte = 0, !.outTimer = 0, !.paletteTimer = 0, !.modeTimer = 0]
              = [io EXCEPT !.port = 0, !.byte = 0, !.outTimer = 0, !.paletteTimer = 0, !.modeTimer = 0]
      BY Zenon DEF NoTimes
    <2> QED BY <2>1, Zenon DEF OutIsOver, entry, from
  <1>1. ASSUME sent = Nothing, NEW out, out = Nothing \/ out \in Outs, MachineCycle(out)
        PROVE  OutIsOver
    <2>1. Cycled(out)
      BY <1>1, CycleDoes
    <2>2. io' = IF out = Nothing THEN done ELSE PortOut(done, out[1], out[2])
      BY <2>1, Zenon DEF Cycled
    <2>3. io \in IOs /\ NoOut(io)
      BY <1>1 DEF DisplayInv
    <2>4. done = io
      <3> HIDE DEF e
      <3> QED BY <2>3, IoAtIdle DEF NoOut
    <2> HIDE DEF done
    <2>5. NoTimes(io') = NoTimes(io) /\ io'.palette = io.palette
      BY <2>2, <2>3, <2>4, OutOnlyNotes
    <2>6. colors = io.palette
      BY <1>1, Zenon
    <2> HIDE DEF colors
    <2> QED BY <1>0, <1>1, <2>5, <2>6
  <1>2. ASSUME sent # Nothing, MachineCycle(Nothing)
        PROVE  OutIsOver
    <2>1. Cycled(Nothing)
      BY <1>2, CycleDoes
    <2>2. io' = done /\ drawn' = Strip(raster.idx, 16, raster.scroll, io.mode512)
      BY <2>1, Zenon DEF Cycled
    <2> DEFINE o == sent[1]
               h == PortOutHandling(io, o, v)
    <2>3. /\ done.a = h.a /\ done.b = h.b /\ done.brdColorIdx = h.brdColorIdx
          /\ done.mode512 = IF o = 2 THEN h.reqDisplayMode ELSE io.mode512
          /\ done.palette = IF o \in PaletteOut THEN [io.palette EXCEPT ![e] = h.hwColor] ELSE io.palette
      <3> HIDE DEF e
      <3> QED BY <1>2, OutCommitted
    <2>4. io \in IOs /\ OutPending(io, sent) /\ o \in Byte8 /\ v \in Byte8 /\ raster.idx \in Nat
      BY <1>2, OutsAre DEF DisplayInv, OutPending
    <2>5. idle
      BY <1>2
    <2>6. two
      <3> SUFFICES ASSUME o = 2 PROVE io'.b = v /\ io'.brdColorIdx = v % 16 /\ io'.mode512 = (BitOf(v, 4) = 1)
        OBVIOUS
      <3>1. h = PortB(io, v)
        <4>1. Handled(io, o, v)
          BY <2>4, HandlingIs
        <4> QED BY <4>1, Zenon DEF Handled
      <3> HIDE DEF h, done, v, o
      <3>2. h.b = v /\ h.brdColorIdx = v % 16 /\ h.reqDisplayMode = (BitOf(v, 4) = 1)
        BY <2>4, <3>1 DEF PortB, IOs
      <3> QED BY <2>2, <2>3, <3>2
    <2>7. three
      <3> SUFFICES ASSUME o = 3 PROVE io'.a = v
        OBVIOUS
      <3>1. h = [io EXCEPT !.a = v]
        <4>1. Handled(io, o, v)
          BY <2>4, HandlingIs
        <4> QED BY <4>1, Zenon DEF Handled
      <3> HIDE DEF h, done, v, o
      <3>2. h.a = v
        BY <2>4, <3>1 DEF IOs
      <3> QED BY <2>2, <2>3, <3>2
    <2>8. io'.palette = colors
      <3>1. CASE o \in PaletteOut
        <4>1. h = [io EXCEPT !.hwColor = v]
          BY <3>1 DEF PortOutHandling, PaletteOut
        <4>2. h.hwColor = v
          <5> HIDE DEF h
          <5> QED BY <2>4, <4>1 DEF IOs
        <4>3. e = entry
          <5> DEFINE pt == PaletteCommitTime
          <5>1. io.paletteTimer = pt /\ pt \in 1..16
            BY <2>4, <3>1, CommitTimes DEF OutPending
          <5> HIDE DEF pt
          <5>2. drawn'[pt] = ShownAt(raster.idx + pt - 1, raster.scroll, io.mode512)
            BY <2>2, <5>1 DEF Strip
          <5>3. e = Colour(io, drawn'[pt])
            BY <5>1, <5>2 DEF EntryAt
          <5> HIDE DEF e
          <5> QED BY <5>3, Zenon DEF Colour, pt
        <4> HIDE DEF e, entry, h, done, v
        <4> QED BY <1>2, <2>2, <2>3, <3>1, <4>2, <4>3
      <3>2. CASE o \notin PaletteOut
        <4> HIDE DEF e, entry, h, done, v
        <4> QED BY <2>2, <2>3, <3>2
      <3> QED BY <3>1, <3>2
    <2> HIDE DEF colors, two, three, idle
    <2> QED BY <1>0, <2>5, <2>6, <2>7, <2>8
  <1>3. CASE DisplayReset
    BY <1>3 DEF DisplayReset, OutIsOver, Restarted
  <1>6. CASE DisplayRestart
    BY <1>6 DEF DisplayRestart, OutIsOver, Restarted
  <1>4. CASE FrameBuffUpdate
    BY <1>4 DEF FrameBuffUpdate, OutIsOver, Redrawn
  <1>5. CASE UNCHANGED displayVars
    BY <1>5
  <1> HIDE DEF from, entry, v, e, done, colors, idle, two, three
  <1> QED BY <1>1, <1>2, <1>3, <1>4, <1>5, <1>6 DEF DisplayNext
=============================================================================
