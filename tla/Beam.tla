------------------------------- MODULE Beam -------------------------------
(***************************************************************************)
(* The beam of the emulated console (runner/src/snes/snes.c): the H/V      *)
(* counters, the H/V IRQ comparator, the automatic joypad timer and the    *)
(* HBlank edge at which HDMA runs.  The CPU runs ahead of the beam and     *)
(* pays it back with snes_sync_master_clock(), which walks the beam span   *)
(* by span.  A walk stops one clock past a comparator match and leaves the *)
(* rest owed, so where a walk is cut depends on what the CPU programmed.   *)
(*                                                                         *)
(* One step of this specification is one iteration of the walk's loop, or  *)
(* one CPU access; the CPU never acts in the middle of a walk (one thread).*)
(***************************************************************************)
EXTENDS Integers

CONSTANTS
  LineClocks,   \* master clocks of a scanline (1364)
  HBlank,       \* column of the HBlank edge, where HDMA runs (1024)
  Lines,        \* scanlines of a field (262)
  VBlankLine,   \* first line of vertical blank (225)
  Dot,          \* master clocks per unit of the H timer (4)
  Byte,         \* values of one register byte (256); a timer has 2 * Byte
  JoyClocks,    \* clocks the automatic joypad read stays busy (4224)
  Chunk,        \* largest piece one snes_advance_beam() call walks (2^32 - 1)
  CpuCharges,   \* master clocks an instruction (or a DMA) may charge
  MaxClock      \* bound on the explored CPU clock

ASSUME GeometryAssumption ==
  /\ LineClocks \in Nat /\ HBlank \in Nat /\ Lines \in Nat /\ VBlankLine \in Nat
  /\ 0 < HBlank /\ HBlank < LineClocks
  /\ 0 < VBlankLine /\ VBlankLine < Lines

\* Both edges of a line lie on dot boundaries, and a dot is wider than a clock.
ASSUME DotAssumption ==
  /\ Dot \in Nat /\ Dot >= 2
  /\ HBlank % Dot = 0 /\ LineClocks % Dot = 0

ASSUME WidthAssumption ==
  /\ Byte \in Nat \ {0} /\ JoyClocks \in Nat \ {0} /\ Chunk \in Nat \ {0}
  /\ CpuCharges \subseteq Nat /\ MaxClock \in Nat

Field == Lines * LineClocks
Timer == 0 .. 2 * Byte - 1
NoJoy == -1

VARIABLES
  hPos, vPos,                \* Snes.hPos, Snes.vPos
  inVblank,                  \* Snes.inVblank
  inIrq,                     \* Snes.inIrq: the comparator's latch
  hIrqEnabled, vIrqEnabled,  \* $4200 bits 4 and 5
  hTimer, vTimer,            \* $4207-$420A
  autoJoyRead, autoJoyTimer, \* $4200 bit 0 and the busy countdown
  beamMasterLast,            \* clock up to which the beam has been walked
  masterCycles,              \* CpuState.master_cycles
  walk, owed,                \* clocks left of the chunk being walked, and after it
  fields,                    \* history: fields completed
  slots,                     \* history: dma_doHdma() calls of this field
  joyClock                   \* history: clock of the last automatic read, or NoJoy

pos   == <<hPos, vPos, inVblank>>
regs  == <<hIrqEnabled, vIrqEnabled, hTimer, vTimer>>
joy   == <<autoJoyRead, autoJoyTimer, joyClock>>
hist  == <<fields, slots>>
vars  == <<pos, inIrq, regs, joy, beamMasterLast, masterCycles, walk, owed, hist>>

LesserOf(a, b) == IF a <= b THEN a ELSE b

---------------------------------------------------------------------------
(* The comparator.                                                         *)

Armed       == hIrqEnabled \/ vIrqEnabled
Target      == IF hIrqEnabled THEN hTimer * Dot ELSE 0
LineMatches(line) == ~vIrqEnabled \/ line = vTimer

\* Mutants: no stop at the HBlank edge; a stop on the comparator's target.
SpanToLineEnd == LesserOf(LineClocks - hPos, walk)
SpanToTarget ==
  LET edge == IF Armed /\ LineMatches(vPos) /\ Target >= hPos /\ Target < LineClocks
              THEN Target
              ELSE IF vPos < VBlankLine /\ hPos < HBlank THEN HBlank ELSE LineClocks
  IN  LesserOf(edge - hPos, walk)

\* Clocks the next iteration walks: to the HBlank edge of a visible line or to
\* the end of the line, and no further than the chunk.
Span ==
  LET edge == IF vPos < VBlankLine /\ hPos < HBlank THEN HBlank ELSE LineClocks
  IN  LesserOf(edge - hPos, walk)

\* Mutant: the window open at its first clock.
MatchInOpenSpan ==
  /\ Armed /\ LineMatches(vPos)
  /\ Target < LineClocks /\ Target > hPos /\ Target < hPos + Span

MatchInSpan ==
  /\ Armed /\ LineMatches(vPos)
  /\ Target < LineClocks /\ Target >= hPos /\ Target < hPos + Span

---------------------------------------------------------------------------
(* The walk: snes_advance_beam() under snes_sync_master_clock().           *)

Idle == walk = 0

\* Mutant: the delta taken from the origin instead of from the beam.
SyncFromOrigin(m) ==
  IF m <= beamMasterLast
  THEN UNCHANGED <<walk, owed>>
  ELSE walk' = LesserOf(Chunk, m) /\ owed' = m - walk'

\* snes_sync_master_clock(m): nothing when the beam is already there.
Sync(m) ==
  IF m <= beamMasterLast
  THEN UNCHANGED <<walk, owed>>
  ELSE /\ walk' = LesserOf(Chunk, m - beamMasterLast)
       /\ owed' = m - beamMasterLast - walk'

\* A chunk walked to its end continues with what the sync still owes it.
NextChunk ==
  /\ walk' = LesserOf(Chunk, owed)
  /\ owed' = owed - walk'

\* Mutant: every iteration on the first blank line restarts the read's timer.
StepJoyOnLine ==
  LET begins == autoJoyRead /\ vPos = VBlankLine
      timer  == IF begins THEN JoyClocks ELSE autoJoyTimer
  IN  /\ autoJoyTimer' = IF Span >= timer THEN 0 ELSE timer - Span
      /\ joyClock' = IF begins /\ hPos = 0 THEN beamMasterLast ELSE joyClock
      /\ UNCHANGED autoJoyRead

\* The automatic read starts at the first clock of vertical blank; the timer
\* is charged the whole span of the iteration, whatever the beam then moves.
StepJoy ==
  LET begins == autoJoyRead /\ vPos = VBlankLine /\ hPos = 0
      timer  == IF begins THEN JoyClocks ELSE autoJoyTimer
  IN  /\ autoJoyTimer' = IF Span >= timer THEN 0 ELSE timer - Span
      /\ joyClock' = IF begins THEN beamMasterLast ELSE joyClock
      /\ UNCHANGED autoJoyRead

\* Mutants: the line wraps one clock late; the caller is told the clocks it asked
\* for instead of those consumed.
MoveBeamLateWrap(n) ==
  LET wraps == hPos + n > LineClocks
  IN  /\ hPos' = IF wraps THEN 0 ELSE hPos + n
      /\ vPos' = IF ~wraps THEN vPos ELSE IF vPos + 1 >= Lines THEN 0 ELSE vPos + 1
      /\ inVblank' = (vPos' >= VBlankLine)
      /\ beamMasterLast' = beamMasterLast + n
      /\ fields' = IF wraps /\ vPos + 1 >= Lines THEN fields + 1 ELSE fields
MoveBeamCharged(n) ==
  LET wraps == hPos + n >= LineClocks
  IN  /\ hPos' = IF wraps THEN 0 ELSE hPos + n
      /\ vPos' = IF ~wraps THEN vPos ELSE IF vPos + 1 >= Lines THEN 0 ELSE vPos + 1
      /\ inVblank' = (vPos' >= VBlankLine)
      /\ beamMasterLast' = beamMasterLast + (IF MatchInSpan THEN walk ELSE n)
      /\ fields' = IF wraps /\ vPos + 1 >= Lines THEN fields + 1 ELSE fields

\* hPos and vPos n clocks on (never past the end of the line).
MoveBeam(n) ==
  LET wraps == hPos + n >= LineClocks
  IN  /\ hPos' = IF wraps THEN 0 ELSE hPos + n
      /\ vPos' = IF ~wraps THEN vPos ELSE IF vPos + 1 >= Lines THEN 0 ELSE vPos + 1
      /\ inVblank' = (vPos' >= VBlankLine)
      /\ beamMasterLast' = beamMasterLast + n
      /\ fields' = IF wraps /\ vPos + 1 >= Lines THEN fields + 1 ELSE fields

\* The comparator matches: latch, stop one clock past the match and drop the
\* rest of the sync, unless the match was the chunk's last clock.
WalkToMatch ==
  LET upto == Target - hPos + 1
  IN  /\ walk > 0
      /\ MatchInSpan
      /\ inIrq' = TRUE
      /\ MoveBeam(upto)
      /\ StepJoy
      /\ IF upto = walk THEN NextChunk ELSE walk' = 0 /\ owed' = 0
      /\ slots' = slots
      /\ UNCHANGED <<regs, masterCycles>>

\* No match: move by the span, run the HDMA slot if that reached the HBlank
\* edge of a visible line, reload the HDMA tables if it ended the field.
WalkSpan ==
  /\ walk > 0
  /\ ~MatchInSpan
  /\ MoveBeam(Span)
  /\ StepJoy
  /\ IF Span = walk THEN NextChunk ELSE walk' = walk - Span /\ owed' = owed
  /\ slots' = IF hPos + Span >= LineClocks /\ vPos + 1 >= Lines THEN 0
              ELSE IF vPos < VBlankLine /\ hPos + Span = HBlank THEN slots + 1
              ELSE slots
  /\ UNCHANGED <<inIrq, regs, masterCycles>>

---------------------------------------------------------------------------
(* What the CPU does to the beam between walks.                            *)

\* An instruction charges its clocks and syncs the beam (interp_bridge.c); a
\* $420B transfer charges its bytes the same way.
Elapse(n) ==
  /\ Idle
  /\ masterCycles + n <= MaxClock
  /\ masterCycles' = masterCycles + n
  /\ Sync(masterCycles')
  /\ UNCHANGED <<pos, inIrq, regs, joy, beamMasterLast, hist>>

\* A read of $4212 first walks what is owed.
ReadHvbjoy ==
  /\ Idle
  /\ Sync(masterCycles)
  /\ UNCHANGED <<pos, inIrq, regs, joy, beamMasterLast, masterCycles, hist>>

\* A write of $4200 (bit 7, NMI, belongs to the frame engine).
WriteNmitimen(h, v, j) ==
  /\ Idle
  /\ hIrqEnabled' = h /\ vIrqEnabled' = v /\ autoJoyRead' = j
  /\ autoJoyTimer' = IF j THEN autoJoyTimer ELSE 0
  /\ joyClock' = IF j THEN joyClock ELSE NoJoy
  /\ inIrq' = IF h \/ v THEN inIrq ELSE FALSE
  /\ UNCHANGED <<pos, hTimer, vTimer, beamMasterLast, masterCycles, walk, owed, hist>>

\* A timer register is written one byte at a time: $4207/$4209, $4208/$420A.
WithLow(timer, b)  == (timer \div Byte) * Byte + b
WithHigh(timer, b) == (timer % Byte) + (b % 2) * Byte

WriteHTimer(b) ==
  /\ Idle
  /\ hTimer' \in {WithLow(hTimer, b), WithHigh(hTimer, b)}
  /\ UNCHANGED <<pos, inIrq, hIrqEnabled, vIrqEnabled, vTimer, joy,
                 beamMasterLast, masterCycles, walk, owed, hist>>

WriteVTimer(b) ==
  /\ Idle
  /\ vTimer' \in {WithLow(vTimer, b), WithHigh(vTimer, b)}
  /\ UNCHANGED <<pos, inIrq, hIrqEnabled, vIrqEnabled, hTimer, joy,
                 beamMasterLast, masterCycles, walk, owed, hist>>

\* A read of $4211 acknowledges the latch.
ReadTimeup ==
  /\ Idle
  /\ inIrq' = FALSE
  /\ UNCHANGED <<pos, regs, joy, beamMasterLast, masterCycles, walk, owed, hist>>

---------------------------------------------------------------------------
Init ==
  /\ hPos = 0 /\ vPos = 0 /\ inVblank = FALSE
  /\ inIrq = FALSE
  /\ hIrqEnabled = FALSE /\ vIrqEnabled = FALSE
  /\ hTimer = 2 * Byte - 1 /\ vTimer = 2 * Byte - 1
  /\ autoJoyRead = FALSE /\ autoJoyTimer = 0 /\ joyClock = NoJoy
  /\ beamMasterLast = 0 /\ masterCycles = 0
  /\ walk = 0 /\ owed = 0
  /\ fields = 0 /\ slots = 0

Next ==
  \/ WalkToMatch
  \/ WalkSpan
  \/ \E n \in CpuCharges : Elapse(n)
  \/ ReadHvbjoy
  \/ \E h, v, j \in BOOLEAN : WriteNmitimen(h, v, j)
  \/ \E b \in 0 .. Byte - 1 : WriteHTimer(b) \/ WriteVTimer(b)
  \/ ReadTimeup

Spec == Init /\ [][Next]_vars /\ WF_vars(WalkToMatch \/ WalkSpan)

---------------------------------------------------------------------------
(* The comparator's predictors.                                            *)

\* snes_next_irq_master(now = beamMasterLast): the clock of the next match, or
\* -1.  It scans the lines from the beam on, the current one twice.
NextIrqMaster ==
  LET lineAt(i) == (vPos + i) % Lines
      from(i)   == IF i = 0 THEN hPos ELSE 0
      hit == {i \in 0 .. Lines : LineMatches(lineAt(i)) /\ Target >= from(i)}
  IN  IF ~Armed \/ Target >= LineClocks \/ hit = {}
      THEN -1
      ELSE LET i == CHOOSE i \in hit : \A k \in hit : i <= k
           IN  beamMasterLast + i * LineClocks + Target - hPos

\* snes_master_clocks_until_irq(): clocks to the next match, 0 for none.
UntilIrq ==
  IF inIrq \/ ~Armed \/ Target >= LineClocks THEN 0
  ELSE IF ~vIrqEnabled
       THEN IF Target > hPos THEN Target - hPos ELSE LineClocks - hPos + Target
  ELSE IF vTimer >= Lines THEN 0
  ELSE LET lines == IF vTimer > vPos THEN vTimer - vPos
                    ELSE IF vTimer < vPos THEN Lines - vPos + vTimer
                    ELSE IF Target > hPos THEN 0 ELSE Lines
       IN  lines * LineClocks + Target - hPos

---------------------------------------------------------------------------
(* Properties.                                                             *)

TypeOK ==
  /\ hPos \in 0 .. LineClocks - 1 /\ vPos \in 0 .. Lines - 1
  /\ inVblank \in BOOLEAN
  /\ inIrq \in BOOLEAN /\ hIrqEnabled \in BOOLEAN /\ vIrqEnabled \in BOOLEAN
  /\ hTimer \in Timer /\ vTimer \in Timer
  /\ autoJoyRead \in BOOLEAN /\ autoJoyTimer \in 0 .. JoyClocks
  /\ joyClock \in Nat \cup {NoJoy}
  /\ beamMasterLast \in Nat /\ masterCycles \in 0 .. MaxClock
  /\ walk \in 0 .. Chunk /\ owed \in Nat
  /\ fields \in Nat /\ slots \in 0 .. VBlankLine

\* The position is the clock: however the comparator cut the walks, the beam
\* stands where beamMasterLast clocks from the origin put it, so a latched IRQ
\* neither loses nor repeats beam time (snes_advance_beam returns `consumed`).
BeamOnClock == beamMasterLast = fields * Field + vPos * LineClocks + hPos

\* HDMA runs once per visible line, at its HBlank edge: the slots of this field
\* are exactly the visible edges the beam has reached, although an IRQ may stop
\* the walk anywhere before, on or after the edge and the CPU may sync to it
\* exactly.
SlotsDue ==
  IF vPos >= VBlankLine THEN VBlankLine
  ELSE IF hPos >= HBlank THEN vPos + 1 ELSE vPos
SlotPerLine == slots = SlotsDue

\* The beam never runs ahead of the CPU, and a sync asks for no more than the
\* CPU has executed, chunk by chunk (snes_sync_master_clock).
NeverAhead == beamMasterLast + walk + owed <= masterCycles

\* The automatic read's busy flag never outlasts its window, wherever the walk
\* is cut and whenever $4200 switches the read off and on again.
JoyNeverOverstays ==
  joyClock # NoJoy => autoJoyTimer <= JoyClocks - (beamMasterLast - joyClock)
                      \/ autoJoyTimer = 0

\* The walk and the predictor agree (snes_next_irq_master says it "mirrors the
\* match test"): a step that passes the predicted clock latches and stops one
\* clock past it, and a step that does not leaves the latch alone.
StopsAtMatch ==
  [][beamMasterLast' # beamMasterLast =>
       IF NextIrqMaster # -1 /\ NextIrqMaster < beamMasterLast'
       THEN inIrq' /\ beamMasterLast' = NextIrqMaster + 1
       ELSE inIrq' = inIrq]_vars

\* Every sync ends: each iteration of the walk moves the beam.
WalkEnds == ~Idle ~> Idle

===========================================================================
