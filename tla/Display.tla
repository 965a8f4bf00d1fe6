------------------------------ MODULE Display ------------------------------
(***************************************************************************)
(* The rasterizer: 16 pixels in every machine cycle, the OUTs that are     *)
(* committed on the way, the frame interrupt, the frame count and the      *)
(* latch of the vertical scrolling.                                        *)
(*                                                                         *)
(* What a pixel shows is kept as where it is taken from: the border, or a  *)
(* bit of a byte column and a row of the screen memory.  Picture gives the *)
(* palette index found there.                                              *)
(***************************************************************************)
EXTENDS IO

CONSTANTS
  FrameW, FrameH,      \* the frame in pixels, borders included
  Top, ActiveH,        \* SCAN_ACTIVE_AREA_TOP and the lines below it that show the memory
  BorderLeft, ActiveW, \* the same across
  IrqPxl, ScrollPxl,   \* where the interrupt is raised and the scrolling latched
  Step,                \* RASTERIZED_PXLS_MAX
  Picture(_, _),       \* bound: the palette indices in the screen memory, by column and bit
  Outs                 \* bound: the ports and bytes the program sends

FrameLen == FrameW * FrameH

(* The machine's geometry, which a smaller frame must share. *)
ASSUME DisplayAssumption ==
  /\ {FrameW, FrameH, BorderLeft, ActiveW} \subseteq Nat /\ ActiveH \in Nat \ {0}
  /\ Step = 16 /\ FrameW % Step = 0 /\ BorderLeft % Step = 0 /\ ActiveW % Step = 0
  /\ Top \in 1..(FrameH - 1) /\ Top + ActiveH < FrameH /\ 256 % ActiveH = 0
  /\ 0 < BorderLeft /\ 0 < ActiveW /\ BorderLeft + ActiveW < FrameW
  /\ IrqPxl \in 1..(FrameW - 1) /\ ScrollPxl \in BorderLeft..(BorderLeft + Step - 1)
  /\ {OutCommitTime, PaletteCommitTime, DisplayModeTime} \subseteq 1..Step
  /\ Outs \subseteq Byte8 \X Byte8

VARIABLES
  io,
  raster,   \* framebufferIdx, irq, scrollIdx and, of the frame number, its parity
  drawn,    \* ghost: where the pixels of the last machine cycle are taken from
  sent      \* ghost: the OUT that ended the last machine cycle

displayVars == <<io, raster, drawn, sent>>

Nothing == <<>>
Border == <<-1, 0, 0>>

-----------------------------------------------------------------------------
(* What is drawn in a machine cycle: s has the raster, io and the pixels. *)
Line(s) == s.idx \div FrameW
Pixel(s) == s.idx % FrameW
Put(s, from, i) == [s EXCEPT !.io = i, !.pixels = Append(@, from), !.idx = @ + 1]

Repeat(n, s, F(_)) ==
  LET after[i \in 0..n] == IF i = 0 THEN s ELSE F(after[i - 1]) IN after[n]

FillBorder(s, n) == Repeat(n, s, LAMBDA t : Put(t, Border, t.io))
(* Mutant: the index runs on past the end of the frame. *)
FillBorderNoWrap(s, n) ==
  Repeat(n, s, LAMBDA t :
    LET p == Put(t, Border, TryToCommit(t.io, t.io.brdColorIdx)) IN [p EXCEPT !.irq = @ \/ p.idx = IrqPxl])
FillBorderPortHandling(s, n) ==
  Repeat(n, s, LAMBDA t :
    LET p == Put(t, Border, TryToCommit(t.io, t.io.brdColorIdx))
    IN  [p EXCEPT !.idx = @ % FrameLen, !.irq = @ \/ p.idx % FrameLen = IrqPxl,
                  !.frame = IF p.idx = FrameLen THEN 1 - @ ELSE @])

(* The four fills of the active area, in 256 and 512 pixels, with and      *)
(* without port handling.  The byte after the last bit of one is fetched   *)
(* where that bit was drawn with port handling, where the next one is      *)
(* drawn without.                                                          *)
FillActiveArea(s, n, ports) ==
  LET wide == s.io.mode512
      last == IF wide THEN 15 ELSE 7
      offset == (s.idx - BorderLeft) % Step
      line == Line(s)
      row == (line - Top + (255 - s.scroll) + ActiveH) % ActiveH
      column(px) == (px - BorderLeft) \div Step
      pixel(t) ==
        LET i == t.i
            px == Pixel(t.s)
            latched == IF ports /\ line = Top /\ px = ScrollPxl THEN [t.s EXCEPT !.scroll = t.s.io.a]
                                                                ELSE t.s
            out == IF ports THEN TryToCommit(t.s.io, Picture(t.col, t.bit)) ELSE t.s.io
            bit == IF wide THEN t.bit - 1 ELSE t.bit - (i % 2)
        IN  [s |-> Put(latched, <<row, t.col, t.bit>>, out), i |-> i + 1,
             bit |-> IF bit < 0 THEN last ELSE bit,
             col |-> IF bit >= 0 THEN t.col ELSE column(IF ports THEN px ELSE px + 1)]
      start == [s |-> s, i |-> 0, col |-> column(Pixel(s)),
                bit |-> IF wide THEN 15 - offset ELSE 7 - (offset \div 2)]
  IN  Repeat(n, start, pixel).s

(* Mutants: the fast fill although an OUT is pending, or the scrolling due. *)
ActiveAreaNoCommit(s, n) == FillActiveArea(s, n, Line(s) = Top /\ Pixel(s) < BorderLeft + Step)
ActiveAreaNoScroll(s, n) == FillActiveArea(s, n, s.io.outTimer > 0 \/ s.io.paletteTimer > 0)

RasterizeActiveArea(s, n) ==
  LET commitTime == s.io.outTimer > 0 \/ s.io.paletteTimer > 0
      scrollTime == Line(s) = Top /\ Pixel(s) < BorderLeft + Step
  IN  FillActiveArea(s, n, commitTime \/ scrollTime)

RasterizeBorder(s, n) ==
  LET commitTime == s.io.outTimer >= 0 \/ s.io.paletteTimer >= 0
  IN  IF commitTime \/ Line(s) \in {0, FrameH - 1} THEN FillBorderPortHandling(s, n)
                                                   ELSE FillBorder(s, n)

Least(a, b) == IF a < b THEN a ELSE b
Rasterize(s) ==
  LET right == BorderLeft + ActiveW
      isActiveScan == Line(s) >= Top /\ Line(s) < Top + ActiveH
      isActiveArea == isActiveScan /\ Pixel(s) >= BorderLeft /\ Pixel(s) < right
      inside == Least(right - Pixel(s), Step)
      outside == IF ~isActiveScan \/ Pixel(s) >= right THEN Step ELSE Least(BorderLeft - Pixel(s), Step)
  IN  IF isActiveArea
      THEN LET t == RasterizeActiveArea(s, inside)
           IN  IF inside < Step THEN RasterizeBorder(t, Step - inside) ELSE t
      ELSE LET t == RasterizeBorder(s, outside)
           IN  IF outside < Step THEN RasterizeActiveArea(t, Step - outside) ELSE t

-----------------------------------------------------------------------------
(* What is drawn from a pixel on. *)
From(idx) ==
  [idx |-> idx, irq |-> FALSE, scroll |-> raster.scroll, frame |-> raster.frame, io |-> io,
   pixels |-> <<>>]

(* A machine cycle of ExecuteInstruction(): the raster first, then the     *)
(* processor, which sees the interrupt and may be at the end of an OUT.    *)
MachineCycle(out) ==
  LET s == Rasterize(From(raster.idx))
  IN  /\ raster' = [idx |-> s.idx, irq |-> s.irq, scroll |-> s.scroll, frame |-> s.frame]
      /\ drawn' = s.pixels
      /\ io' = IF out = Nothing THEN s.io ELSE PortOut(s.io, out[1], out[2])
      /\ sent' = out

(* Playback draws the whole frame at once, from its first pixel, with what *)
(* memory, palette and scrolling are now; the raster stays where it is.    *)
FrameBuffUpdate ==
  LET right == BorderLeft + ActiveW
      chunk(s) ==
        LET isActiveScan == Line(s) >= Top /\ Line(s) < Top + ActiveH
            isActiveArea == isActiveScan /\ Pixel(s) >= BorderLeft /\ Pixel(s) < right
            inside == Least(right - Pixel(s), Step)
            outside == IF ~isActiveScan \/ Pixel(s) >= right THEN Step
                       ELSE Least(BorderLeft - Pixel(s), Step)
        IN  IF isActiveArea THEN FillBorder(FillActiveArea(s, inside, FALSE), Step - inside)
                            ELSE FillActiveArea(FillBorder(s, outside), Step - outside, FALSE)
      s == Repeat(FrameLen \div Step, From(0), chunk)
  IN  drawn' = s.pixels /\ UNCHANGED <<io, raster, sent>>

(* Hardware::Reset() sets the ports and the raster back, Restart() the     *)
(* raster only: an OUT on its way is committed in the new frame.           *)
RasterInit == [idx |-> 0, irq |-> FALSE, scroll |-> 255, frame |-> 0]
DisplayReset ==
  /\ io' = IOReset(io) /\ raster' = RasterInit /\ drawn' = <<>> /\ sent' = Nothing
DisplayRestart ==
  /\ raster' = RasterInit /\ drawn' = <<>> /\ UNCHANGED <<io, sent>>
DisplayInit ==
  /\ io = IOInit /\ raster = RasterInit /\ drawn = <<>> /\ sent = Nothing
(* An OUT ends an instruction of three machine cycles. *)
DisplayNext ==
  \/ MachineCycle(Nothing)
  \/ sent = Nothing /\ \E out \in Outs : MachineCycle(out)
  \/ DisplayReset \/ DisplayRestart \/ FrameBuffUpdate

-----------------------------------------------------------------------------
DisplayTypeOK ==
  /\ raster.idx \in 0..(FrameLen - 1) /\ raster.idx % Step = 0
  /\ raster.irq \in BOOLEAN /\ raster.scroll \in Byte8 /\ raster.frame \in 0..1
  /\ io.palette \in [Color -> Byte8] /\ {io.outTimer, io.paletteTimer, io.modeTimer} \subseteq 0..Step
  /\ Len(drawn) \in {0, Step, FrameLen}

Restarted == raster' = RasterInit /\ drawn' = <<>>
Redrawn == raster' = raster /\ io' = io

(* Whatever part of the frame is drawn, an OUT is over when the next       *)
(* machine cycle has been: the port has the byte, the display mode is the  *)
(* one asked for, and the colour is in the palette entry of the pixel that *)
(* is drawn PaletteCommitTime pixels later; nothing else changes           *)
(* (PortOut(), TryToCommit() and the fills with and without it).           *)
OutIsOver ==
  \/ Restarted \/ Redrawn
  \/ LET from == drawn'[PaletteCommitTime]
         entry == IF from = Border THEN io.brdColorIdx ELSE Picture(from[2], from[3])
         v == sent[2]
     IN  /\ sent = Nothing =>
              [io' EXCEPT !.port = 0, !.byte = 0, !.outTimer = 0, !.paletteTimer = 0, !.modeTimer = 0]
                = [io EXCEPT !.port = 0, !.byte = 0, !.outTimer = 0, !.paletteTimer = 0, !.modeTimer = 0]
         /\ sent # Nothing /\ sent[1] = 2 =>
              io'.b = v /\ io'.brdColorIdx = v % 16 /\ io'.mode512 = (BitOf(v, 4) = 1)
         /\ sent # Nothing /\ sent[1] = 3 => io'.a = v
         /\ io'.palette = IF sent # Nothing /\ sent[1] \in PaletteOut
                          THEN [io.palette EXCEPT ![entry] = v] ELSE io.palette
OutTakesEffect == [][OutIsOver]_displayVars

(* What a machine cycle may do to the raster ... *)
RasterMoves ==
  LET at == raster.idx
      scrollAt == Top * FrameW + ScrollPxl
      latches == at <= scrollAt /\ scrollAt < at + Step
  IN  /\ raster'.idx = (at + Step) % FrameLen
      /\ raster'.irq = (at < IrqPxl /\ IrqPxl <= at + Step)
      /\ (raster'.frame # raster.frame) = (at + Step = FrameLen)
      /\ IF latches THEN raster'.scroll \in {io.a, io'.a} ELSE raster'.scroll = raster.scroll

(* ... and where the picture has the pixel drawn at a place: in 256 mode   *)
(* two show one bit of a byte, in 512 mode each shows half of it.          *)
ShownAt(at, scroll, mode512) ==
  LET line == at \div FrameW
      x == (at % FrameW) - BorderLeft
  IN  IF line \notin Top..(Top + ActiveH - 1) \/ x \notin 0..(ActiveW - 1) THEN Border
      ELSE <<(line - Top - (scroll + 1)) % ActiveH, x \div Step,
             IF mode512 THEN 15 - (x % 16) ELSE 7 - ((x % 16) \div 2)>>
PixelsPlaced(first) ==
  \A i \in 1..Len(drawn') : drawn'[i] = ShownAt(first + i - 1, raster.scroll, io.mode512)

(* Whatever OUTs come in between, with and without port handling: every    *)
(* frame has one interrupt, at its pixel, is counted once, latches the     *)
(* scrolling once, from what port A holds then, and shows every byte of    *)
(* the screen where the picture has it, on the line the scrolling moves    *)
(* it to, the first 16 pixels of the first line the one of the frame       *)
(* before.  A frame drawn at once is that picture too, without that line's *)
(* exception (FillBorderPortHandling(), FillActiveArea256(),               *)
(* FillActiveArea512(), GetScreenBytes(), FrameBuffUpdate()).              *)
FrameDrawn ==
  \/ Restarted
  \/ RasterMoves /\ PixelsPlaced(raster.idx) /\ Len(drawn') = Step
  \/ Redrawn /\ PixelsPlaced(0) /\ Len(drawn') = FrameLen
FrameExact == [][FrameDrawn]_displayVars
=============================================================================
