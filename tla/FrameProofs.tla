---------------------------- MODULE FrameProofs ----------------------------
(***************************************************************************)
(* The frame engine proved on top of the beam, for every geometry, every   *)
(* program (any charges, register values, masks and WAIs) and handlers of  *)
(* any length: its types, that a line is rendered between the right HDMA   *)
(* slots, that no match is left to a later line, that the slice limit is   *)
(* out of reach, and where the beam is at the NMI.                         *)
(*                                                                         *)
(* What makes the lower bounds hard is that a masked match cuts the sync   *)
(* of a deadline short, line after line.  The invariant says why the beam  *)
(* keeps up all the same: a walk that was cut has passed the comparator's  *)
(* target on the beam's line (Clear), and until the program runs again the *)
(* next match is a line away; so the last sync of a segment either reaches *)
(* the deadline or takes the beam at least one line further.               *)
(***************************************************************************)
EXTENDS FrameEngine, BeamProofs

\* The clock the engine's line starts at, and the beam's.
Start     == base + line * LineClocks
BeamStart == beamMasterLast - hPos

\* The clock the segment starts at: the deadline before it.
SegmentStart ==
  IF segment = "rest" /\ line < VBlankLine THEN Start + ActiveClocks ELSE Start

InSegment == pc \in {"step1", "slice", "step2", "handler"}

\* The loop over the lines.
Frame ==
  /\ segment = "active" => line < VBlankLine
  /\ pc = "render" => segment = "active"
  /\ pc \in {"line", "next", "done"} => segment = "rest"
  /\ pc # "done" => frames < MaxFrames
  /\ pc = "handler" => IF from = "run" THEN line = VBlankLine ELSE ~flagI
  /\ pc \in {"render", "next"} => ~Deliverable /\ (flagI \/ beamMasterLast >= Deadline)

\* How far the CPU has come.
Reached ==
  /\ pc \in {"line", "done"} => masterCycles >= Start
  /\ pc \in {"render", "next", "step2"} => masterCycles >= Deadline
  /\ pc = "handler" /\ from = "step2" => masterCycles >= Deadline
  /\ InSegment => masterCycles >= SegmentStart

\* Each iteration of the first loop has moved the CPU's clock, or is about to.
Progress ==
  LET moved == masterCycles - SegmentStart
  IN  /\ pc = "step1" => slices <= moved
      /\ pc = "slice" => IF ran THEN slices <= moved
                         ELSE slices <= moved + 1 /\ masterCycles < Deadline
      /\ pc = "handler" /\ from = "run" => slices <= moved
      /\ pc = "handler" /\ from = "step1" =>
           slices <= IF left < HandlerMax THEN moved ELSE moved + 1

\* What a walk in progress is on its way to.
Walks ==
  IF Idle THEN owed = 0
  ELSE /\ InSegment
       /\ beamMasterLast + walk + owed = IF pc = "step2" THEN Deadline ELSE masterCycles

\* Nothing left to match on the beam's line.
Clear == ~(Armed /\ LineMatches(vPos) /\ Target < LineClocks /\ Target >= hPos)

\* Clocks the beam may be behind the engine's line when a segment's last sync
\* begins, when it has ended, and between two lines.
Before ==
  IF segment = "active" THEN (IF line = 0 THEN 2 * LineClocks ELSE LineClocks)
  ELSE IF line = 0 \/ line = VBlankLine THEN LineClocks
  ELSE IF line < VBlankLine THEN 0 ELSE 2 * LineClocks
After ==
  IF segment = "active" THEN (IF line = 0 THEN LineClocks ELSE 0)
  ELSE IF line < VBlankLine THEN 0 ELSE LineClocks
AtLine == IF line # 0 /\ line <= VBlankLine THEN LineClocks ELSE 2 * LineClocks

Behind ==
  /\ InSegment => beamMasterLast > Start - Before
  /\ pc \in {"render", "next"} => beamMasterLast > Start - After
  /\ pc \in {"line", "done"} => beamMasterLast > Start - AtLine

\* A walk was cut past the target, or it reached the line it was for.
Cut ==
  Idle =>
    /\ pc = "step2" => Clear \/ beamMasterLast >= Deadline
    /\ pc \in {"render", "line", "done"} => Clear \/ beamMasterLast >= Start
    /\ pc = "next" => Clear \/ beamMasterLast >= Start + LineClocks
    /\ pc \in {"slice", "step1"} /\ masterCycles >= Deadline /\ flagI /\ line # VBlankLine
         => Clear \/ beamMasterLast >= Start

\* The last sync of a segment.
LastSync ==
  pc = "step2" =>
    /\ Idle => /\ inIrq \/ beamMasterLast >= Deadline
               /\ ~flagI \/ beamMasterLast >= Deadline \/ beamMasterLast > Start - After
    /\ ~Idle => \/ ~flagI \/ After = Before \/ Clear
                \/ beamMasterLast >= Start - After

EInv ==
  /\ Inv /\ ETypeOK
  /\ Frame /\ Reached /\ Progress /\ Walks /\ Behind /\ Cut /\ LastSync

---------------------------------------------------------------------------
(* Numbers.                                                                *)

\* The lines' geometry as numbers.
LEMMA Geometry ==
  /\ LineClocks \in Nat /\ HBlank \in Nat /\ Lines \in Nat /\ VBlankLine \in Nat
  /\ 0 < ActiveClocks /\ ActiveClocks < HBlank /\ HBlank < LineClocks
  /\ 0 < VBlankLine /\ VBlankLine < Lines /\ ActiveClocks \in Nat
  /\ Field \in Nat /\ Chunk \in Nat /\ Chunk > 0 /\ MaxClock \in Nat
  /\ MaxSlices \in Nat /\ MaxSlices >= LineClocks
  /\ MaxFrames \in Nat /\ HandlerMax \in Nat /\ HandlerMax > 0 /\ MaxWrites \in Nat
BY GeometryAssumption, WidthAssumption, EngineAssumption DEF Field

\* Lines are LineClocks apart, and Lines of them are a field.
LEMMA LineStep ==
  ASSUME NEW b \in Nat, NEW l \in Nat
  PROVE  /\ b + l * LineClocks \in Nat
         /\ b + (l + 1) * LineClocks = (b + l * LineClocks) + LineClocks
         /\ l + 1 = Lines => b + Field + 0 * LineClocks = (b + l * LineClocks) + LineClocks
<1>1. LineClocks \in Nat /\ Lines \in Nat
  BY Geometry
<1>2. l * LineClocks \in Nat /\ (l + 1) * LineClocks = l * LineClocks + LineClocks
  BY <1>1
<1>3. l + 1 = Lines => Field = l * LineClocks + LineClocks
  BY <1>2 DEF Field
<1>4. 0 * LineClocks = 0
  BY <1>1
<1> QED BY <1>1, <1>2, <1>3, <1>4, Geometry

\* Deadlines by the clock of the line.
LEMMA Clocks ==
  ASSUME ETypeOK
  PROVE  /\ Start \in Nat
         /\ Deadline = IF segment = "active" THEN Start + ActiveClocks
                       ELSE Start + LineClocks
<1>1. base \in Nat /\ line \in Nat
  <2>1. frames \in Nat /\ Field \in Nat /\ base = frames * Field
    BY Geometry DEF ETypeOK
  <2> QED BY <2>1, Geometry DEF ETypeOK
<1>2. Start \in Nat /\ base + (line + 1) * LineClocks = Start + LineClocks
  BY <1>1, LineStep DEF Start
<1> QED BY <1>2 DEF Deadline, Start

\* The frames explored end before the bound on the clock.
LEMMA DeadlineInBound ==
  ASSUME ETypeOK, frames < MaxFrames
  PROVE  Deadline <= MaxClock
<1>1. frames \in Nat /\ MaxFrames \in Nat /\ Field \in Nat /\ base = frames * Field
  BY Geometry DEF ETypeOK
<1>2. (frames + 1) * Field = base + Field
  BY <1>1
<1>3. (frames + 1) * Field <= MaxFrames * Field
  <2>1. MaxFrames - (frames + 1) \in Nat
    BY <1>1
  <2>2. (MaxFrames - (frames + 1)) * Field \in Nat
    BY <1>1, <2>1
  <2>3. (MaxFrames - (frames + 1)) * Field = MaxFrames * Field - (frames + 1) * Field
    BY <1>1
  <2> QED BY <1>1, <2>2, <2>3
<1>4. (line + 1) * LineClocks <= Field
  <2>1. Lines - (line + 1) \in Nat /\ line \in Nat
    BY Geometry DEF ETypeOK
  <2>2. (Lines - (line + 1)) * LineClocks \in Nat
    BY Geometry, <2>1
  <2>3. (Lines - (line + 1)) * LineClocks = Lines * LineClocks - (line + 1) * LineClocks
    BY Geometry, <2>1
  <2> QED BY Geometry, <2>1, <2>2, <2>3 DEF Field
<1>5. base + (line + 1) * LineClocks = Start + LineClocks
  BY <1>1, LineStep, Geometry DEF ETypeOK, Start
<1>6. Deadline <= Start + LineClocks /\ Start \in Nat /\ Deadline \in Nat
  BY Clocks, Geometry
<1>7. MaxFrames * Field <= MaxClock /\ MaxFrames * Field \in Nat
  BY EngineAssumption, <1>1
<1>8. Start + LineClocks <= base + Field
  <2> DEFINE n == (line + 1) * LineClocks
  <2>1. n \in Nat
    BY Geometry DEF ETypeOK
  <2> HIDE DEF n
  <2>2. base + n = Start + LineClocks /\ n <= Field
    BY <1>4, <1>5 DEF n
  <2>3. base \in Nat
    BY <1>1
  <2> QED BY <1>1, <2>1, <2>2, <2>3, <1>6, Geometry
<1> QED BY <1>1, <1>2, <1>3, <1>6, <1>7, <1>8, Geometry

\* A beam past the start of a line is on that line or a later one.
LEMMA LineReached ==
  ASSUME Inv, ETypeOK, NEW n \in {0, LineClocks, 2 * LineClocks},
         beamMasterLast > Start - n
  PROVE  BeamStart >= Start - n
<1> DEFINE B == fields * Lines + vPos
           E == frames * Lines + line
<1>1. /\ hPos \in Nat /\ hPos < LineClocks /\ vPos \in Nat /\ fields \in Nat
      /\ frames \in Nat /\ line \in Nat /\ base = frames * Field
      /\ beamMasterLast = fields * Field + vPos * LineClocks + hPos
      /\ beamMasterLast \in Nat
  BY Geometry DEF Inv, TypeOK, ETypeOK, BeamOnClock
<1>2. B \in Int /\ E \in Int
  BY <1>1, Geometry
<1>3. B * LineClocks = fields * Field + vPos * LineClocks
  BY <1>1, Geometry DEF Field
<1>4. E * LineClocks = Start
  BY <1>1, Geometry DEF Field, Start
<1>5. PICK d \in {0, 1, 2} : n = d * LineClocks
  <2>1. 0 = 0 * LineClocks /\ LineClocks = 1 * LineClocks
    BY Geometry
  <2> QED BY <2>1
<1>6. (E - d) * LineClocks = Start - n
  <2>1. d \in Int /\ LineClocks \in Int
    BY Geometry
  <2>2. (E - d) * LineClocks = E * LineClocks - d * LineClocks
    BY <1>2, <2>1
  <2> QED BY <2>2, <1>4, <1>5
<1>7. BeamStart = B * LineClocks
  <2>1. fields * Field \in Int /\ vPos * LineClocks \in Int
    BY <1>1, Geometry
  <2> QED BY <1>1, <1>3, <2>1 DEF BeamStart
<1> DEFINE K == E - d
<1>8. K \in Int
  BY <1>2
<1> HIDE DEF B, E, K
<1>9. B >= K
  <2> SUFFICES ASSUME B + 1 <= K PROVE FALSE
    BY <1>2, <1>8
  <2>1. (B + 1) * LineClocks = BeamStart + LineClocks
    BY <1>2, <1>7, Geometry
  <2>2. (K - (B + 1)) * LineClocks >= 0
    <3>1. K - (B + 1) \in Nat
      BY <1>2, <1>8
    <3> QED BY <3>1, Geometry
  <2>3. (K - (B + 1)) * LineClocks = K * LineClocks - (B + 1) * LineClocks
    BY <1>2, <1>8, Geometry
  <2>4. K * LineClocks = Start - n
    BY <1>6 DEF K
  <2>5. BeamStart + LineClocks <= Start - n
    <3>1. K * LineClocks \in Int /\ (B + 1) * LineClocks \in Int
      BY <1>2, <1>8, Geometry
    <3> QED BY <2>1, <2>2, <2>3, <2>4, <3>1
  <2>6. BeamStart + hPos = beamMasterLast /\ BeamStart \in Int /\ Start \in Int /\ n \in Int
    <3>1. Start \in Nat
      BY Clocks
    <3> QED BY <1>1, <3>1, Geometry DEF BeamStart
  <2> QED BY <1>1, <2>5, <2>6, Geometry
<1>10. (B - K) * LineClocks >= 0
  <2>1. B - K \in Nat
    BY <1>2, <1>8, <1>9
  <2> QED BY <2>1, Geometry
<1>11. (B - K) * LineClocks = B * LineClocks - K * LineClocks
  BY <1>2, <1>8, Geometry
<1>12. B * LineClocks \in Int /\ K * LineClocks \in Int
  BY <1>2, <1>8, Geometry
<1>13. K * LineClocks = Start - n
  BY <1>6 DEF K
<1> QED BY <1>7, <1>10, <1>11, <1>12, <1>13

---------------------------------------------------------------------------
(* The beam's steps.                                                       *)

\* The variables of the beam as numbers.
LEMMA Numbers ==
  ASSUME Inv
  PROVE  /\ hPos \in Nat /\ hPos < LineClocks /\ vPos \in Nat /\ vPos < Lines
         /\ beamMasterLast \in Nat /\ masterCycles \in Nat /\ masterCycles <= MaxClock
         /\ walk \in Nat /\ owed \in Nat /\ beamMasterLast + walk + owed <= masterCycles
         /\ BeamStart \in Int /\ beamMasterLast = BeamStart + hPos
         /\ Target \in Nat
<1>1. Target \in Nat
  <2>1. hTimer \in Nat /\ Dot \in Nat
    BY WidthAssumption, DotAssumption DEF Inv, TypeOK, Timer
  <2>2. hTimer * Dot \in Nat
    BY <2>1
  <2> QED BY <2>2 DEF Target
<1> QED BY <1>1, Geometry DEF Inv, TypeOK, NeverAhead, BeamStart

\* What is left of a sync: nothing, or the rest of it.
LEMMA ChunkLeft ==
  ASSUME owed \in Nat, NextChunk
  PROVE  walk' \in Nat /\ owed' \in Nat /\ walk' + owed' = owed /\ (walk' = 0 => owed' = 0)
BY Geometry DEF NextChunk, LesserOf

\* An iteration without a match moves along the line, and past nothing the
\* comparator could match; or it ends the line.
LEMMA SpanStep ==
  ASSUME Inv, WalkSpan
  PROVE  /\ walk > 0
         /\ walk' \in Nat /\ owed' \in Nat /\ (walk' = 0 => owed' = 0)
         /\ beamMasterLast' \in Nat /\ beamMasterLast' > beamMasterLast
         /\ beamMasterLast' + walk' + owed' = beamMasterLast + walk + owed
         /\ inIrq' = inIrq /\ masterCycles' = masterCycles
         /\ \/ BeamStart' = BeamStart /\ (Clear => Clear')
            \/ beamMasterLast' = BeamStart + LineClocks
<1>1. /\ Span \in Nat /\ Span >= 1 /\ Span <= walk /\ hPos + Span <= LineClocks
      /\ walk > 0 /\ MoveBeam(Span)
  BY SpanBounds DEF WalkSpan, Inv
<1>2. beamMasterLast' = beamMasterLast + Span
  BY <1>1 DEF MoveBeam
<1>3. walk' \in Nat /\ owed' \in Nat /\ walk' + owed' = walk + owed - Span
      /\ (walk' = 0 => owed' = 0)
  <2>1. CASE Span = walk
    BY <2>1, Numbers, ChunkLeft DEF WalkSpan
  <2>2. CASE Span # walk
    BY <2>2, <1>1, Numbers DEF WalkSpan
  <2> QED BY <2>1, <2>2
<1>4. UNCHANGED <<inIrq, hIrqEnabled, vIrqEnabled, hTimer, vTimer, masterCycles>>
  BY DEF WalkSpan, regs
<1>5. CASE hPos + Span < LineClocks
  <2>1. hPos' = hPos + Span /\ vPos' = vPos
    BY <1>1, <1>5, Numbers, Geometry DEF MoveBeam
  <2>2. BeamStart' = BeamStart
    BY <1>1, <1>2, <2>1, Numbers DEF BeamStart
  <2>3. Target' = Target /\ Armed' = Armed /\ LineMatches(vPos)' = LineMatches(vPos)
    BY <1>4, <2>1 DEF Target, Armed, LineMatches
  <2>4. Clear => Clear'
    BY <1>1, <2>1, <2>3, Numbers DEF Clear
  <2> QED BY <1>1, <1>2, <1>3, <1>4, <2>2, <2>4, Numbers
<1>6. CASE hPos + Span = LineClocks
  <2>1. beamMasterLast' = BeamStart + LineClocks
    BY <1>1, <1>2, <1>6, Numbers, Geometry
  <2> QED BY <1>1, <1>2, <1>3, <1>4, <2>1, Numbers
<1>7. hPos + Span < LineClocks \/ hPos + Span = LineClocks
  BY <1>1, Numbers, Geometry
<1> QED BY <1>5, <1>6, <1>7

\* An iteration that latches had a match left on its line, and leaves none.
LEMMA MatchStep ==
  ASSUME Inv, WalkToMatch
  PROVE  /\ walk > 0
         /\ walk' \in Nat /\ owed' \in Nat /\ (walk' = 0 => owed' = 0)
         /\ beamMasterLast' \in Nat /\ beamMasterLast' > beamMasterLast
         /\ \/ beamMasterLast' + walk' + owed' = beamMasterLast + walk + owed
            \/ walk' = 0
         /\ beamMasterLast' + walk' + owed' <= beamMasterLast + walk + owed
         /\ inIrq' = TRUE /\ masterCycles' = masterCycles
         /\ ~Clear /\ Clear'
<1> DEFINE upto == Target - hPos + 1
<1>1. /\ Span \in Nat /\ Span >= 1 /\ Span <= walk /\ hPos + Span <= LineClocks
      /\ walk > 0 /\ MoveBeam(upto) /\ MatchInSpan
  BY SpanBounds DEF WalkToMatch, Inv
<1>2. Armed /\ LineMatches(vPos) /\ Target < LineClocks /\ Target >= hPos
      /\ Target < hPos + Span
  BY <1>1 DEF MatchInSpan
<1>3. upto \in Nat /\ upto >= 1 /\ upto <= Span /\ hPos + upto = Target + 1
  BY <1>1, <1>2, Numbers
<1>4. beamMasterLast' = beamMasterLast + upto
  BY <1>1 DEF MoveBeam
<1>5. walk' \in Nat /\ owed' \in Nat /\ (walk' = 0 => owed' = 0)
      /\ (walk' + owed' = walk + owed - upto \/ (walk' = 0 /\ owed' = 0))
  <2>1. CASE upto = walk
    BY <2>1, Numbers, ChunkLeft DEF WalkToMatch
  <2>2. CASE upto # walk
    BY <2>2 DEF WalkToMatch
  <2> QED BY <2>1, <2>2
<1>6. UNCHANGED <<hIrqEnabled, vIrqEnabled, hTimer, vTimer, masterCycles>> /\ inIrq' = TRUE
  BY DEF WalkToMatch, regs
<1>7. Clear'
  <2>1. Target + 1 # LineClocks
    <3>1. hTimer \in Nat /\ 0 * Dot = 0
      BY WidthAssumption, DotAssumption DEF Inv, TypeOK, Timer
    <3> QED BY <3>1, MatchOffEdge DEF Target
  <2>2. hPos' = Target + 1
    BY <1>1, <1>2, <1>3, <2>1, Numbers, Geometry DEF MoveBeam
  <2>3. Target' = Target
    BY <1>6 DEF Target
  <2> QED BY <2>2, <2>3, Numbers DEF Clear
<1>8. ~Clear
  BY <1>2 DEF Clear
<1> HIDE DEF upto
<1> QED BY <1>1, <1>3, <1>4, <1>5, <1>6, <1>7, <1>8, Numbers

\* A sync asked for walks to the clock it is given, or has nothing to do.
LEMMA SyncStep ==
  ASSUME TypeOK, NEW m \in Nat, Idle, owed = 0, Sync(m)
  PROVE  /\ walk' \in 0 .. Chunk /\ owed' \in Nat
         /\ m <= beamMasterLast => walk' = 0 /\ owed' = 0
         /\ m > beamMasterLast => walk' > 0 /\ beamMasterLast + walk' + owed' = m
<1>1. walk = 0 /\ owed = 0 /\ beamMasterLast \in Nat /\ Chunk \in Nat /\ Chunk > 0
  BY Geometry DEF TypeOK, Idle
<1>2. CASE m <= beamMasterLast
  BY <1>1, <1>2 DEF Sync
<1>3. CASE m > beamMasterLast
  <2>1. walk' = LesserOf(Chunk, m - beamMasterLast) /\ owed' = m - beamMasterLast - walk'
    BY <1>1, <1>3 DEF Sync
  <2>2. walk' \in 0 .. Chunk /\ walk' <= m - beamMasterLast /\ walk' > 0
    BY <1>1, <1>3, <2>1 DEF LesserOf
  <2> QED BY <1>1, <1>3, <2>1, <2>2
<1> QED BY <1>1, <1>2, <1>3

\* A sync alone keeps the beam's invariant.
LEMMA SyncKeepsInv ==
  ASSUME Inv, NEW m \in Nat, Idle, owed = 0, SyncTo(m),
         masterCycles' \in 0 .. MaxClock, masterCycles' >= masterCycles, m <= masterCycles'
  PROVE  Inv'
<1>1. walk' \in 0 .. Chunk /\ owed' \in Nat /\ beamMasterLast + walk' + owed' <= masterCycles'
  <2>1. Sync(m) /\ TypeOK
    BY DEF SyncTo, Inv
  <2>2. /\ walk' \in 0 .. Chunk /\ owed' \in Nat
        /\ m <= beamMasterLast => walk' = 0 /\ owed' = 0
        /\ m > beamMasterLast => walk' > 0 /\ beamMasterLast + walk' + owed' = m
    BY <2>1, SyncStep
  <2>3. masterCycles' \in Nat
    BY Geometry
  <2> QED BY <2>2, <2>3, Numbers, Geometry
<1>2. UNCHANGED <<hPos, vPos, inVblank, inIrq, hIrqEnabled, vIrqEnabled, hTimer, vTimer,
                  autoJoyRead, autoJoyTimer, joyClock, beamMasterLast, fields, slots>>
  BY DEF SyncTo, pos, regs, joy, hist
<1>3. TypeOK'
  BY <1>1, <1>2, Zenon DEF TypeOK, Inv
<1> QED BY <1>1, <1>2, <1>3 DEF Inv, BeamOnClock, SlotPerLine, SlotsDue, NeverAhead,
                                JoyPast, JoyNeverOverstays

\* The distance to the next match is a number.
LEMMA DistanceIsNat ==
  ASSUME Inv
  PROVE  UntilIrq \in Nat
<1>1. CASE inIrq \/ ~Armed \/ Target >= LineClocks
  BY <1>1 DEF UntilIrq
<1>2. CASE ~(inIrq \/ ~Armed \/ Target >= LineClocks) /\ ~vIrqEnabled
  BY <1>2, Numbers, Geometry DEF UntilIrq
<1>3. CASE ~(inIrq \/ ~Armed \/ Target >= LineClocks) /\ vIrqEnabled /\ vTimer >= Lines
  BY <1>3 DEF UntilIrq
<1>4. CASE ~(inIrq \/ ~Armed \/ Target >= LineClocks) /\ vIrqEnabled /\ ~(vTimer >= Lines)
  <2> DEFINE lines == IF vTimer > vPos THEN vTimer - vPos
                      ELSE IF vTimer < vPos THEN Lines - vPos + vTimer
                      ELSE IF Target > hPos THEN 0 ELSE Lines
  <2>1. vTimer \in Nat /\ vTimer < Lines
    BY <1>4, WidthAssumption, Geometry DEF Inv, TypeOK, Timer
  <2>2. lines \in Nat /\ (lines = 0 => Target > hPos)
    BY <2>1, Numbers, Geometry
  <2>3. UntilIrq = lines * LineClocks + Target - hPos
    BY <1>4 DEF UntilIrq
  <2> HIDE DEF lines
  <2>4. lines * LineClocks \in Nat /\ (lines > 0 => lines * LineClocks >= LineClocks)
    BY <2>2, Geometry
  <2> QED BY <2>2, <2>3, <2>4, Numbers, Geometry
<1> QED BY <1>1, <1>2, <1>3, <1>4

---------------------------------------------------------------------------
(* Each step keeps the invariant.                                          *)

\* The variables of the engine as numbers.
LEMMA EngineNumbers ==
  ASSUME ETypeOK
  PROVE  /\ line \in Nat /\ line < Lines /\ frames \in Nat /\ frames <= MaxFrames
         /\ slices \in Nat /\ left \in Nat /\ writes \in Nat /\ base \in Nat
<1>1. frames \in Nat /\ Field \in Nat /\ base = frames * Field
  BY Geometry DEF ETypeOK
<1> QED BY <1>1, Geometry DEF ETypeOK

\* What EInv says of the numbers of a state.
LEMMA State ==
  ASSUME EInv
  PROVE  /\ hPos \in Nat /\ hPos < LineClocks
         /\ beamMasterLast \in Nat /\ masterCycles \in Nat /\ masterCycles <= MaxClock
         /\ walk \in Nat /\ owed \in Nat /\ beamMasterLast + walk + owed <= masterCycles
         /\ BeamStart \in Int /\ beamMasterLast = BeamStart + hPos
         /\ Start \in Nat /\ Deadline \in Nat
         /\ Deadline = (IF segment = "active" THEN Start + ActiveClocks
                        ELSE Start + LineClocks)
         /\ line \in Nat /\ line < Lines /\ frames \in Nat /\ slices \in Nat /\ left \in Nat
         /\ pc \in {"line", "step1", "slice", "step2", "handler", "render", "next", "done"}
         /\ segment \in {"active", "rest"} /\ from \in {"step1", "step2", "run"}
<1>1. Inv /\ ETypeOK
  BY DEF EInv
<1>2. /\ Start \in Nat
      /\ Deadline = (IF segment = "active" THEN Start + ActiveClocks
                     ELSE Start + LineClocks)
  BY <1>1, Clocks
<1>3. Deadline \in Nat
  BY <1>2, Geometry
<1>4. /\ pc \in {"line", "step1", "slice", "step2", "handler", "render", "next", "done"}
      /\ segment \in {"active", "rest"} /\ from \in {"step1", "step2", "run"}
  BY <1>1 DEF ETypeOK
<1> QED BY <1>1, <1>2, <1>3, <1>4, Numbers, EngineNumbers

\* A step of the walk keeps the engine's part of the invariant.
LEMMA WalkKeeps ==
  ASSUME EInv, Walk
  PROVE  EInv'
<1>1. UNCHANGED <<pc, line, segment, base, slices, from, frames, parked, flagI, nmiEnabled,
                  inNmi, ran, left, acked, writes>>
  BY DEF Walk, engine, guest
<1>2. Inv'
  BY WalkToMatchKeepsInv, WalkSpanKeepsInv DEF Walk, EInv
<1>3. /\ walk > 0
      /\ walk' \in Nat /\ owed' \in Nat /\ (walk' = 0 => owed' = 0)
      /\ beamMasterLast' \in Nat /\ beamMasterLast' > beamMasterLast
      /\ beamMasterLast' + walk' + owed' <= beamMasterLast + walk + owed
      /\ masterCycles' = masterCycles
      /\ beamMasterLast' + walk' + owed' = beamMasterLast + walk + owed \/ walk' = 0
      /\ \/ inIrq' = TRUE /\ Clear' /\ ~Clear
         \/ /\ inIrq' = inIrq
            /\ beamMasterLast' + walk' + owed' = beamMasterLast + walk + owed
            /\ (Clear => Clear') \/ beamMasterLast' = BeamStart + LineClocks
  <2>1. CASE WalkToMatch
    BY <2>1, MatchStep, State DEF EInv
  <2>2. CASE WalkSpan
    BY <2>2, SpanStep, State DEF EInv
  <2> QED BY <2>1, <2>2 DEF Walk
<1>4. Start' = Start /\ Deadline' = Deadline /\ SegmentStart' = SegmentStart
      /\ Before' = Before /\ After' = After /\ AtLine' = AtLine
  BY <1>1 DEF Start, Deadline, SegmentStart, Before, After, AtLine
<1>5. ~Idle /\ InSegment
      /\ beamMasterLast + walk + owed = IF pc = "step2" THEN Deadline ELSE masterCycles
  BY <1>3 DEF EInv, Walks, Idle
<1>6. pc \notin {"line", "render", "next", "done"} /\ InSegment'
  BY <1>1, <1>5 DEF InSegment
<1>7. ETypeOK'
  <2>1. TypeOK'
    BY <1>2 DEF Inv
  <2> QED BY <1>1, <2>1, Zenon DEF EInv, ETypeOK
<1>8. Frame'
  <2>1. Frame
    BY DEF EInv
  <2> QED BY <2>1, <1>1, <1>6, Zenon DEF Frame
<1>9. Reached' /\ Progress'
  <2>1. Reached /\ Progress
    BY DEF EInv
  <2> QED BY <2>1, <1>1, <1>3, <1>4 DEF Reached, Progress, InSegment
<1>10. Walks'
  <2>1. CASE walk' = 0
    BY <2>1, <1>3 DEF Walks, Idle
  <2>2. CASE walk' # 0
    BY <2>2, <1>1, <1>3, <1>4, <1>5, <1>6 DEF Walks, Idle
  <2> QED BY <2>1, <2>2
<1>11. Before \in Nat /\ After \in Nat
  BY Geometry DEF Before, After
<1>12. Behind'
  <2>1. beamMasterLast > Start - Before
    BY <1>5 DEF EInv, Behind
  <2>2. beamMasterLast' > Start' - Before'
    BY <2>1, <1>3, <1>4, <1>11, State
  <2> QED BY <2>2, <1>1, <1>6 DEF Behind
<1>13. walk' = 0 => Clear' \/ beamMasterLast' = IF pc = "step2" THEN Deadline ELSE masterCycles
  BY <1>3, <1>5
<1>14. Cut'
  <2> SUFFICES ASSUME walk' = 0, ~Clear' PROVE Cut'
    BY DEF Cut, Idle
  <2>1. beamMasterLast' = IF pc = "step2" THEN Deadline ELSE masterCycles
    BY <1>13
  <2>2. Deadline >= Start
    BY State, Geometry
  <2>3. pc = "step2" => beamMasterLast' >= Deadline
    BY <2>1, State
  <2>4. pc # "step2" /\ masterCycles >= Deadline => beamMasterLast' >= Start
    BY <2>1, <2>2, State
  <2> QED BY <1>1, <1>3, <1>4, <1>6, <2>3, <2>4 DEF Cut
<1>15. LastSync'
  <2> SUFFICES ASSUME pc = "step2" PROVE LastSync'
    BY <1>1 DEF LastSync
  <2>1. beamMasterLast + walk + owed = Deadline
    BY <1>5
  <2>2. \/ ~flagI \/ After = Before \/ Clear \/ beamMasterLast >= Start - After
    BY <1>5 DEF EInv, LastSync
  <2>3. beamMasterLast > Start - Before
    BY <1>5 DEF EInv, Behind
  <2>4. CASE walk' = 0
    <3>1. inIrq' \/ beamMasterLast' >= Deadline
      BY <1>3, <2>1, <2>4, State
    <3>2. ~flagI \/ beamMasterLast' >= Deadline \/ beamMasterLast' > Start - After
      <4>1. CASE ~flagI
        BY <4>1
      <4>2. CASE After = Before
        BY <4>2, <2>3, <1>3, <1>11, State
      <4>3. CASE Clear
        BY <4>3, <1>3, <2>1, <2>4, State
      <4>4. CASE beamMasterLast >= Start - After
        BY <4>4, <1>3, <1>11, State
      <4> QED BY <2>2, <4>1, <4>2, <4>3, <4>4
    <3> QED BY <3>1, <3>2, <2>4, <1>1, <1>4 DEF LastSync, Idle
  <2>5. CASE walk' # 0
    <3>1. \/ ~flagI \/ After = Before \/ Clear' \/ beamMasterLast' >= Start - After
      <4> SUFFICES ASSUME flagI, After # Before, ~Clear' PROVE beamMasterLast' >= Start - After
        OBVIOUS
      <4>1. CASE beamMasterLast >= Start - After
        BY <4>1, <1>3, <1>11, State
      <4>2. CASE Clear
        <5>1. beamMasterLast' = BeamStart + LineClocks
          BY <4>2, <1>3
        <5>2. Before = After + LineClocks /\ Before \in {0, LineClocks, 2 * LineClocks}
          BY Geometry DEF Before, After
        <5>3. BeamStart >= Start - Before
          BY <2>3, <5>2, LineReached DEF EInv
        <5> QED BY <5>1, <5>2, <5>3, <1>11, State, Geometry
      <4> QED BY <2>2, <4>1, <4>2
    <3> QED BY <3>1, <2>5, <1>1, <1>4 DEF LastSync, Idle
  <2> QED BY <2>4, <2>5
<1> QED BY <1>2, <1>7, <1>8, <1>9, <1>10, <1>12, <1>14, <1>15 DEF EInv

\* A step that leaves the beam alone keeps the beam's invariant.
LEMMA StutterKeepsInv ==
  ASSUME Inv, UNCHANGED beam
  PROVE  Inv'
BY DEF beam, vars, pos, regs, joy, hist, Inv, TypeOK, BeamOnClock, SlotPerLine, SlotsDue,
       NeverAhead, JoyPast, JoyNeverOverstays

\* The program's register accesses: in a slice before its deadline or in a
\* handler, where the invariant says nothing of the comparator.
LEMMA RegistersKeep ==
  ASSUME EInv, AckIrq \/ ReadRdnmi \/ WriteControl \/ WriteTimers
               \/ \E i \in BOOLEAN : MaskIrq(i)
  PROVE  EInv'
<1>1. /\ Running /\ Idle
      /\ UNCHANGED <<beamMasterLast, masterCycles, walk, owed>>
      /\ UNCHANGED <<pc, line, segment, base, slices, from, frames, parked, ran, left>>
  BY DEF AckIrq, ReadRdnmi, WriteControl, WriteTimers, MaskIrq, ReadTimeup, WriteNmitimen,
         WriteHTimer, WriteVTimer, engine, beam, vars, Running
<1>2. Inv'
  <2>1. CASE AckIrq
    BY <2>1, CpuKeepsInv DEF AckIrq, EInv
  <2>2. CASE ReadRdnmi
    BY <2>2, StutterKeepsInv DEF ReadRdnmi, EInv
  <2>3. CASE WriteControl
    <3>1. PICK w \in NmitimenWrites : WriteNmitimen(w.h, w.v, FALSE)
      BY <2>3 DEF WriteControl
    <3>2. w.h \in BOOLEAN /\ w.v \in BOOLEAN /\ FALSE \in BOOLEAN
      BY EngineAssumption
    <3> QED BY <3>1, <3>2, CpuKeepsInv DEF EInv
  <2>4. CASE WriteTimers
    <3>1. PICK b \in TimerBytes : WriteHTimer(b) \/ WriteVTimer(b)
      BY <2>4 DEF WriteTimers
    <3>2. b \in 0 .. Byte - 1
      BY EngineAssumption
    <3> QED BY <3>1, <3>2, CpuKeepsInv DEF EInv
  <2>5. CASE \E i \in BOOLEAN : MaskIrq(i)
    BY <2>5, StutterKeepsInv DEF MaskIrq, EInv
  <2> QED BY <2>1, <2>2, <2>3, <2>4, <2>5
<1>3. pc = "handler" \/ (pc = "slice" /\ masterCycles < Deadline)
  BY <1>1 DEF Running
<1>4. Start' = Start /\ Deadline' = Deadline /\ SegmentStart' = SegmentStart
      /\ Before' = Before
  BY <1>1 DEF Start, Deadline, SegmentStart, Before
<1>5. /\ nmiEnabled' \in BOOLEAN /\ inNmi' \in BOOLEAN /\ acked' \in BOOLEAN
      /\ flagI' \in BOOLEAN /\ writes' \in 0 .. MaxWrites
      /\ pc = "handler" => flagI' = flagI
  <2> USE DEF EInv, ETypeOK
  <2>1. CASE AckIrq
    <3>1. acked' = (pc = "handler") /\ UNCHANGED <<nmiEnabled, inNmi, flagI, writes>>
      BY <2>1 DEF AckIrq
    <3> QED BY <3>1
  <2>2. ASSUME Spend PROVE writes' \in 0 .. MaxWrites
    BY <2>2, EngineAssumption DEF Spend
  <2>3. CASE ReadRdnmi
    BY <2>2, <2>3 DEF ReadRdnmi
  <2>4. CASE WriteControl
    <3>1. UNCHANGED <<inNmi, acked, flagI>> /\ Spend
      BY <2>4 DEF WriteControl
    <3>2. PICK w \in NmitimenWrites : nmiEnabled' = w.nmi
      BY <2>4 DEF WriteControl
    <3>3. w.nmi \in BOOLEAN
      BY EngineAssumption
    <3> QED BY <2>2, <3>1, <3>2, <3>3
  <2>5. CASE WriteTimers
    BY <2>2, <2>5 DEF WriteTimers
  <2>6. CASE \E i \in BOOLEAN : MaskIrq(i)
    <3>1. PICK i \in BOOLEAN : MaskIrq(i)
      BY <2>6
    <3> QED BY <2>2, <3>1 DEF MaskIrq
  <2> QED BY <2>1, <2>3, <2>4, <2>5, <2>6
<1>6. ETypeOK'
  <2>1. TypeOK'
    BY <1>2 DEF Inv
  <2> QED BY <1>1, <1>5, <2>1, Zenon DEF EInv, ETypeOK
<1>7. Frame'
  BY <1>1, <1>3, <1>5, Zenon DEF EInv, Frame
<1>8. Reached' /\ Progress'
  <2>1. Reached /\ Progress
    BY DEF EInv
  <2> QED BY <2>1, <1>1, <1>4 DEF Reached, Progress, InSegment
<1>9. Walks'
  <2>1. Walks /\ walk' = 0 /\ owed' = owed
    BY <1>1 DEF EInv, Idle
  <2> QED BY <2>1, <1>1 DEF Walks, Idle
<1>10. Behind' /\ LastSync' /\ Cut'
  <2>1. Behind
    BY DEF EInv
  <2> QED BY <2>1, <1>1, <1>3, <1>4, State DEF Behind, LastSync, Cut, InSegment
<1> QED BY <1>2, <1>6, <1>7, <1>8, <1>9, <1>10 DEF EInv

\* An instruction, or a WAI: the clock moves and the beam is asked to follow.
LEMMA InstructionKeeps ==
  ASSUME EInv, Execute \/ Wai
  PROVE  EInv'
<1>1. PICK n \in CpuCharges : Elapse(n)
  BY DEF Execute, Wai
<1>2. n \in Nat /\ n >= 1
  BY WidthAssumption, EngineAssumption
<1>3. /\ masterCycles' = masterCycles + n /\ Sync(masterCycles') /\ Idle /\ masterCycles' <= MaxClock
      /\ UNCHANGED <<hPos, vPos, inIrq, beamMasterLast>>
      /\ UNCHANGED <<hIrqEnabled, vIrqEnabled, hTimer, vTimer>>
  BY <1>1 DEF Elapse, pos, regs
<1>4. Inv'
  BY <1>1, CpuKeepsInv DEF EInv
<1>5. walk = 0 /\ owed = 0
  BY <1>3 DEF EInv, Walks, Idle
<1>6. walk' > 0 /\ walk' \in Nat /\ owed' \in Nat
      /\ beamMasterLast' + walk' + owed' = masterCycles'
  <2>1. masterCycles' \in Nat /\ masterCycles' > beamMasterLast
    BY <1>2, <1>3, <1>5, State
  <2>2. TypeOK
    BY DEF EInv, Inv
  <2> QED BY <1>3, <1>5, <2>1, <2>2, SyncStep, Geometry
<1>7. /\ UNCHANGED <<line, segment, base, slices, from, frames, flagI, nmiEnabled, inNmi,
                     acked, writes>>
      /\ pc' \in {"handler", "slice", "step1"} /\ pc \in {"handler", "slice"}
      /\ parked' \in BOOLEAN /\ ran' \in BOOLEAN /\ left' \in 0 .. HandlerMax
  <2> USE DEF EInv, ETypeOK
  <2>1. CASE Wai
    BY <2>1 DEF Wai
  <2>2. CASE Execute
    <3>1. /\ UNCHANGED <<line, segment, base, slices, from, frames, flagI, nmiEnabled, inNmi,
                         acked, writes, pc, parked>>
          /\ pc \in {"handler", "slice"}
          /\ \/ ran' = TRUE /\ left' = left
             \/ ran' = ran /\ left > 0 /\ left' = left - 1
      BY <2>2 DEF Execute, engine
    <3>2. left' \in 0 .. HandlerMax /\ ran' \in BOOLEAN
      <4>1. left \in 0 .. HandlerMax /\ ran \in BOOLEAN
        OBVIOUS
      <4> HIDE DEF EInv, ETypeOK
      <4>2. left' \in 0 .. HandlerMax
        BY <3>1, <4>1, Geometry
      <4>3. ran' \in BOOLEAN
        BY <3>1, <4>1, Zenon
      <4> QED BY <4>2, <4>3
    <3> QED BY <3>1, <3>2
  <2> QED BY <2>1, <2>2
<1>8. Start' = Start /\ Deadline' = Deadline /\ SegmentStart' = SegmentStart
      /\ Before' = Before /\ SegmentStart \in Nat
  BY <1>7, State, Geometry DEF Start, Deadline, SegmentStart, Before
<1>9. ETypeOK'
  <2>1. TypeOK'
    BY <1>4 DEF Inv
  <2> QED BY <1>7, <2>1, Zenon DEF EInv, ETypeOK
<1>10. Frame'
  <2>1. pc' = "handler" => pc = "handler"
    BY DEF Execute, Wai, engine
  <2>2. Frame
    BY DEF EInv
  <2>3. pc # "done" /\ pc' \notin {"render", "next", "line", "done"}
    BY <1>7
  <2> QED BY <1>7, <2>1, <2>2, <2>3, Zenon DEF Frame
<1>11. masterCycles' > masterCycles /\ masterCycles' \in Nat
  BY <1>2, <1>3, State
<1>12. Reached'
  <2>1. pc' = "handler" => pc = "handler"
    BY DEF Execute, Wai, engine
  <2>2. Reached
    BY DEF EInv
  <2> QED BY <1>7, <1>8, <1>11, <2>1, <2>2, State DEF Reached, InSegment
<1>13. Progress'
  <2>1. masterCycles' - SegmentStart' >= masterCycles - SegmentStart + 1
    BY <1>8, <1>11, State
  <2>2. CASE Execute
    <3>1. /\ pc' = pc
          /\ \/ pc = "slice" /\ ran' = TRUE
             \/ pc = "handler" /\ left > 0 /\ left' = left - 1
      BY <2>2 DEF Execute, engine
    <3>2. pc = "handler" => left' < HandlerMax /\ left <= HandlerMax
      BY <3>1, Geometry DEF EInv, ETypeOK
    <3> QED BY <1>7, <1>8, <1>11, <2>1, <3>1, <3>2, State, Geometry DEF EInv, Progress
  <2>3. CASE Wai
    <3>1. pc' = "step1" /\ pc = "slice"
      BY <2>3 DEF Wai
    <3> QED BY <1>7, <1>8, <1>11, <2>1, <3>1, State DEF EInv, Progress
  <2> QED BY <2>2, <2>3
<1>14. Walks'
  BY <1>6, <1>7 DEF Walks, Idle, InSegment
<1>15. Behind' /\ LastSync' /\ Cut'
  <2>1. Behind
    BY DEF EInv
  <2> QED BY <2>1, <1>3, <1>6, <1>7, <1>8 DEF Behind, LastSync, Cut, InSegment, Idle
<1> QED BY <1>4, <1>9, <1>10, <1>12, <1>13, <1>14, <1>15 DEF EInv

\* The handler's return.
LEMMA RtiKeeps ==
  ASSUME EInv, Rti
  PROVE  EInv'
<1>1. /\ pc = "handler" /\ Idle /\ left < HandlerMax /\ masterCycles' = masterCycles
      /\ pc' = (IF from = "run" THEN "step1" ELSE from)
      /\ UNCHANGED <<hPos, vPos, inIrq, beamMasterLast, hIrqEnabled, vIrqEnabled,
                     hTimer, vTimer>>
      /\ UNCHANGED <<line, segment, base, slices, from, frames, flagI, nmiEnabled, inNmi,
                     ran, left, acked, writes>>
      /\ parked' = FALSE
  BY DEF Rti, SyncTo, beam, vars, pos, regs
<1>2. walk = 0 /\ owed = 0
  BY <1>1 DEF EInv, Walks, Idle
<1>3. Start' = Start /\ Deadline' = Deadline /\ SegmentStart' = SegmentStart
      /\ Before' = Before /\ After' = After
  BY <1>1 DEF Start, Deadline, SegmentStart, Before, After
<1>4. from = "step2" => masterCycles >= Deadline
  BY <1>1 DEF EInv, Reached
<1>5. /\ Inv'
      /\ \/ walk' = 0 /\ owed' = 0 /\ (from = "step2" => beamMasterLast >= Deadline)
         \/ /\ from = "step2" /\ walk' > 0 /\ walk' \in Nat /\ owed' \in Nat
            /\ beamMasterLast' + walk' + owed' = Deadline
  <2>1. CASE from = "step2"
    <3>1. SyncTo(Deadline) /\ Sync(Deadline)
      BY <2>1 DEF Rti, SyncTo
    <3>2. masterCycles' \in 0 .. MaxClock
      BY <1>1, State, Geometry
    <3>3. Inv'
      BY <1>1, <1>2, <1>4, <2>1, <3>1, <3>2, State, SyncKeepsInv DEF EInv
    <3>4. TypeOK /\ Deadline \in Nat
      BY State DEF EInv, Inv
    <3> QED BY <1>1, <1>2, <2>1, <3>1, <3>3, <3>4, State, SyncStep, Geometry
  <2>2. CASE from # "step2"
    <3>1. UNCHANGED beam
      BY <2>2 DEF Rti
    <3>2. walk' = 0 /\ owed' = 0
      BY <1>2, <3>1 DEF beam, vars
    <3> QED BY <2>2, <3>1, <3>2, StutterKeepsInv DEF EInv
  <2> QED BY <2>1, <2>2
<1>6. pc' \in {"step1", "step2"} /\ (pc' = "step2" <=> from = "step2") /\ InSegment /\ InSegment'
      /\ (pc' = "step1" => from = "run" \/ from = "step1")
  BY <1>1, State DEF InSegment
<1>7. ETypeOK'
  <2>1. TypeOK' /\ 0 \in 0 .. MaxClock
    BY <1>5, Geometry DEF Inv
  <2> QED BY <1>1, <1>6, <2>1, Zenon DEF EInv, ETypeOK
<1>8. (from = "run" => line = VBlankLine) /\ (from # "run" => ~flagI)
  BY <1>1 DEF EInv, Frame
<1>9. Frame'
  <2>1. Frame
    BY DEF EInv
  <2> QED BY <1>1, <1>6, <2>1 DEF Frame
<1>10. Reached'
  <2>1. Reached
    BY DEF EInv
  <2> QED BY <1>1, <1>3, <1>4, <1>6, <2>1 DEF Reached
<1>11. Progress'
  <2>1. Progress
    BY DEF EInv
  <2> QED BY <1>1, <1>3, <1>6, <2>1 DEF Progress
<1>12. Walks'
  BY <1>3, <1>5, <1>6 DEF Walks, Idle
<1>13. Behind'
  <2>1. Behind
    BY DEF EInv
  <2> QED BY <1>1, <1>3, <1>6, <2>1 DEF Behind
<1>14. Cut' /\ LastSync'
  <2>1. CASE from = "step2"
    BY <1>1, <1>3, <1>5, <1>6, <1>8, <2>1 DEF Cut, LastSync, Idle
  <2>2. CASE from # "step2"
    BY <1>1, <1>3, <1>6, <1>8, <2>2 DEF Cut, LastSync
  <2> QED BY <2>1, <2>2
<1> QED BY <1>5, <1>7, <1>9, <1>10, <1>11, <1>12, <1>13, <1>14 DEF EInv

\* The loop's head, when it dispatches an IRQ or enters a slice, and the slice's end.
LEMMA LoopKeeps ==
  ASSUME EInv, DispatchIrq \/ EnterSlice \/ LeaveSlice
  PROVE  EInv'
<1>1. /\ UNCHANGED beam /\ Idle
      /\ UNCHANGED <<line, segment, base, frames, flagI, nmiEnabled, inNmi, writes>>
  BY DEF DispatchIrq, EnterSlice, LeaveSlice, Interrupt, InLoop
<1>2. Inv'
  BY <1>1, StutterKeepsInv DEF EInv
<1>3. UNCHANGED <<hPos, vPos, inIrq, beamMasterLast, masterCycles, walk, owed,
                  hIrqEnabled, vIrqEnabled, hTimer, vTimer>>
  BY <1>1 DEF beam, vars, pos, regs
<1>4. walk = 0 /\ owed = 0
  BY <1>1 DEF EInv, Walks, Idle
<1>5. Start' = Start /\ Deadline' = Deadline /\ SegmentStart' = SegmentStart
      /\ Before' = Before /\ SegmentStart \in Nat
  BY <1>1, <1>3, State, Geometry DEF Start, Deadline, SegmentStart, Before
<1>6. \/ /\ DispatchIrq /\ pc = "step1" /\ pc' = "handler" /\ from' = "step1"
         /\ left' = HandlerMax /\ slices' = slices + 1 /\ slices <= MaxSlices /\ ~flagI
         /\ acked' = FALSE /\ UNCHANGED <<parked, ran>>
      \/ /\ EnterSlice /\ pc = "step1" /\ pc' = "slice" /\ ran' = FALSE
         /\ slices' = slices + 1 /\ slices <= MaxSlices /\ masterCycles < Deadline
         /\ UNCHANGED <<from, left, parked, acked>>
      \/ /\ LeaveSlice /\ pc = "slice" /\ pc' = "step1"
         /\ masterCycles >= Deadline \/ (ran /\ ~flagI)
         /\ parked' = FALSE /\ UNCHANGED <<slices, from, left, ran, acked>>
  BY DEF DispatchIrq, EnterSlice, LeaveSlice, Interrupt, InLoop, Count, Deliverable
<1>7. /\ pc \in {"step1", "slice"} /\ pc' \in {"step1", "slice", "handler"}
      /\ InSegment /\ InSegment'
  BY <1>6 DEF InSegment
<1>8. ETypeOK'
  <2>1. TypeOK'
    BY <1>2 DEF Inv
  <2>2. slices' \in 0 .. MaxSlices + 1 /\ left' \in 0 .. HandlerMax
    <3>1. slices \in 0 .. MaxSlices + 1 /\ left \in 0 .. HandlerMax
      BY DEF EInv, ETypeOK
    <3> QED BY <1>6, <3>1, Geometry
  <2>3. /\ from' \in {"step1", "step2", "run"} /\ parked' \in BOOLEAN
        /\ ran' \in BOOLEAN /\ acked' \in BOOLEAN
    BY <1>6, Zenon DEF EInv, ETypeOK
  <2> QED BY <1>1, <1>7, <2>1, <2>2, <2>3, Zenon DEF EInv, ETypeOK
<1>9. Frame'
  <2>1. Frame
    BY DEF EInv
  <2> QED BY <1>1, <1>6, <1>7, <2>1 DEF Frame
<1>10. Reached'
  <2>1. Reached
    BY DEF EInv
  <2>2. ~(pc' = "handler" /\ from' = "step2")
    BY <1>6
  <2> QED BY <1>3, <1>5, <1>7, <2>1, <2>2 DEF Reached
<1>11. Progress'
  <2>1. Progress
    BY DEF EInv
  <2>2. masterCycles >= SegmentStart
    BY <1>7 DEF EInv, Reached
  <2> QED BY <1>3, <1>5, <1>6, <2>1, <2>2, State, Geometry DEF Progress
<1>12. Walks'
  BY <1>3, <1>4 DEF Walks, Idle
<1>13. Behind'
  <2>1. Behind
    BY DEF EInv
  <2> QED BY <1>3, <1>5, <1>7, <2>1 DEF Behind
<1>14. Clear' = Clear
  BY <1>3 DEF Clear, Armed, LineMatches, Target
<1>15. Cut' /\ LastSync'
  <2>1. Cut /\ Idle
    BY <1>1 DEF EInv
  <2> QED BY <1>1, <1>3, <1>5, <1>6, <1>7, <1>14, <2>1, State DEF Cut, LastSync
<1> QED BY <1>2, <1>8, <1>9, <1>10, <1>11, <1>12, <1>13, <1>15 DEF EInv

\* A parked CPU skips ahead, by at least a clock and to no more than the deadline.
LEMMA SkipKeeps ==
  ASSUME EInv, SkipParked
  PROVE  EInv'
<1>1. /\ pc = "step1" /\ Idle /\ masterCycles < Deadline
      /\ slices <= MaxSlices /\ slices' = slices + 1
      /\ masterCycles' = SkipTarget /\ SyncTo(SkipTarget) /\ Sync(SkipTarget)
      /\ UNCHANGED <<pc, line, segment, base, from, frames, parked, flagI, nmiEnabled, inNmi,
                     ran, left, acked, writes>>
  BY DEF SkipParked, InLoop, Count, SyncTo, guest
<1>2. UNCHANGED <<hPos, vPos, inIrq, beamMasterLast>>
  BY <1>1 DEF SyncTo, pos
<1>3. walk = 0 /\ owed = 0
  BY <1>1 DEF EInv, Walks, Idle
<1>4. SkipTarget \in Nat /\ SkipTarget > masterCycles /\ SkipTarget <= Deadline
  <2>1. UntilIrq \in Nat
    BY DistanceIsNat DEF EInv
  <2> QED BY <1>1, <2>1, State DEF SkipTarget
<1>5. masterCycles' \in 0 .. MaxClock
  <2>1. frames < MaxFrames
    BY <1>1 DEF EInv, Frame
  <2>2. Deadline <= MaxClock
    BY <2>1, DeadlineInBound DEF EInv
  <2> QED BY <1>1, <1>4, <2>2, State, Geometry
<1>6. Inv'
  BY <1>1, <1>3, <1>4, <1>5, State, SyncKeepsInv DEF EInv
<1>7. walk' > 0 /\ walk' \in Nat /\ owed' \in Nat
      /\ beamMasterLast' + walk' + owed' = masterCycles'
  <2>1. SkipTarget > beamMasterLast
    BY <1>3, <1>4, State
  <2>2. TypeOK
    BY DEF EInv, Inv
  <2> QED BY <1>1, <1>2, <1>3, <1>4, <2>1, <2>2, SyncStep, Geometry
<1>8. Start' = Start /\ Deadline' = Deadline /\ SegmentStart' = SegmentStart
      /\ Before' = Before /\ SegmentStart \in Nat
  BY <1>1, State, Geometry DEF Start, Deadline, SegmentStart, Before
<1>9. ETypeOK'
  <2>1. TypeOK'
    BY <1>6 DEF Inv
  <2>2. slices' \in 0 .. MaxSlices + 1
    BY <1>1, State, Geometry
  <2> QED BY <1>1, <2>1, <2>2, Zenon DEF EInv, ETypeOK
<1>10. Frame'
  <2>1. Frame
    BY DEF EInv
  <2> QED BY <1>1, <2>1 DEF Frame
<1>11. Reached'
  <2>1. Reached
    BY DEF EInv
  <2> QED BY <1>1, <1>4, <1>8, <2>1, State DEF Reached, InSegment
<1>12. Progress'
  <2>1. slices <= masterCycles - SegmentStart
    BY <1>1 DEF EInv, Progress
  <2> QED BY <1>1, <1>4, <1>8, <2>1, State DEF Progress
<1>13. Walks'
  BY <1>1, <1>7 DEF Walks, Idle, InSegment
<1>14. Behind' /\ Cut' /\ LastSync'
  <2>1. Behind
    BY DEF EInv
  <2> QED BY <2>1, <1>1, <1>2, <1>7, <1>8 DEF Behind, Cut, LastSync, InSegment, Idle
<1> QED BY <1>6, <1>9, <1>10, <1>11, <1>12, <1>13, <1>14 DEF EInv

\* The last sync of a segment begins: the beam has what it takes to reach the line.
LEMMA BeginStep2Keeps ==
  ASSUME EInv, BeginStep2
  PROVE  EInv'
<1>1. /\ pc = "step1" /\ pc' = "step2" /\ Idle /\ masterCycles >= Deadline
      /\ SyncTo(Deadline) /\ Sync(Deadline) /\ masterCycles' = masterCycles
      /\ UNCHANGED <<line, segment, base, slices, from, frames, parked, flagI, nmiEnabled,
                     inNmi, ran, left, acked, writes>>
  BY DEF BeginStep2, SyncTo, guest
<1>2. UNCHANGED <<hPos, vPos, inIrq, beamMasterLast, hIrqEnabled, vIrqEnabled, hTimer, vTimer>>
  BY <1>1 DEF SyncTo, pos, regs
<1>3. walk = 0 /\ owed = 0
  BY <1>1 DEF EInv, Walks, Idle
<1>4. Inv'
  <2>1. masterCycles' \in 0 .. MaxClock
    BY <1>1, State, Geometry
  <2> QED BY <1>1, <1>3, <2>1, State, SyncKeepsInv DEF EInv
<1>5. \/ walk' = 0 /\ owed' = 0 /\ beamMasterLast >= Deadline
      \/ /\ walk' > 0 /\ walk' \in Nat /\ owed' \in Nat
         /\ beamMasterLast' + walk' + owed' = Deadline
  <2>1. TypeOK /\ Deadline \in Nat
    BY State DEF EInv, Inv
  <2> QED BY <1>1, <1>2, <1>3, <2>1, State, SyncStep, Geometry
<1>6. Start' = Start /\ Deadline' = Deadline /\ SegmentStart' = SegmentStart
      /\ Before' = Before /\ After' = After
  BY <1>1 DEF Start, Deadline, SegmentStart, Before, After
<1>7. ETypeOK'
  <2>1. TypeOK'
    BY <1>4 DEF Inv
  <2> QED BY <1>1, <2>1, Zenon DEF EInv, ETypeOK
<1>8. Frame' /\ Progress'
  <2>1. Frame
    BY DEF EInv
  <2> QED BY <1>1, <2>1 DEF Frame, Progress
<1>9. Reached'
  <2>1. Reached
    BY DEF EInv
  <2> QED BY <1>1, <1>6, <2>1 DEF Reached, InSegment
<1>10. Walks'
  BY <1>1, <1>5, <1>6 DEF Walks, Idle, InSegment
<1>11. Behind'
  <2>1. Behind
    BY DEF EInv
  <2> QED BY <1>1, <1>2, <1>6, <2>1 DEF Behind, InSegment
<1>12. Clear' = Clear
  BY <1>2 DEF Clear, Armed, LineMatches, Target
<1>13. Cut'
  BY <1>1, <1>2, <1>5, <1>6 DEF Cut, Idle
<1>14. LastSync'
  <2>1. \/ ~flagI \/ line = VBlankLine \/ Clear \/ beamMasterLast >= Start
    BY <1>1 DEF EInv, Cut
  <2>2. line = VBlankLine => After = Before
    <3>1. line = VBlankLine => segment # "active"
      BY Geometry, State DEF EInv, Frame
    <3> QED BY <3>1, Geometry DEF After, Before
  <2>3. beamMasterLast >= Start => beamMasterLast >= Start - After
    BY State, Geometry DEF After
  <2> QED BY <1>1, <1>2, <1>5, <1>6, <1>12, <2>1, <2>2, <2>3 DEF LastSync, Idle
<1> QED BY <1>4, <1>7, <1>8, <1>9, <1>10, <1>11, <1>13, <1>14 DEF EInv

\* Step 2 dispatches what the last sync latched, or ends the segment: nothing the
\* CPU would take was latched, so the sync was not cut or the IRQ is masked.
LEMMA Step2Keeps ==
  ASSUME EInv, DispatchLate \/ EndSegment
  PROVE  EInv'
<1>1. /\ UNCHANGED beam /\ Idle /\ pc = "step2"
      /\ UNCHANGED <<line, segment, base, frames, slices, parked, flagI, nmiEnabled, inNmi, ran,
                     writes>>
  BY DEF DispatchLate, EndSegment, Interrupt, guest
<1>2. Inv'
  BY <1>1, StutterKeepsInv DEF EInv
<1>3. UNCHANGED <<hPos, vPos, inIrq, beamMasterLast, masterCycles, walk, owed,
                  hIrqEnabled, vIrqEnabled, hTimer, vTimer>>
  BY <1>1 DEF beam, vars, pos, regs
<1>4. walk = 0 /\ owed = 0
  BY <1>1 DEF EInv, Walks, Idle
<1>5. Start' = Start /\ Deadline' = Deadline /\ SegmentStart' = SegmentStart
      /\ Before' = Before /\ After' = After
  BY <1>1 DEF Start, Deadline, SegmentStart, Before, After
<1>6. \/ /\ DispatchLate /\ pc' = "handler" /\ from' = "step2" /\ left' = HandlerMax
         /\ acked' = FALSE /\ ~flagI
      \/ /\ EndSegment /\ (inIrq => flagI)
         /\ pc' = (IF segment = "active" THEN "render" ELSE "next")
         /\ UNCHANGED <<from, left, acked>>
  BY DEF DispatchLate, EndSegment, Interrupt, Deliverable, guest
<1>7. pc' \in {"handler", "render", "next"}
  BY <1>6
<1>8. ETypeOK'
  <2>1. TypeOK'
    BY <1>2 DEF Inv
  <2>2. HandlerMax \in 0 .. HandlerMax
    BY Geometry
  <2>3. left' \in 0 .. HandlerMax /\ acked' \in BOOLEAN /\ from' \in {"step1", "step2", "run"}
    BY <1>6, <2>2, Zenon DEF EInv, ETypeOK
  <2> QED BY <1>1, <1>7, <2>1, <2>3, Zenon DEF EInv, ETypeOK
<1>9. Frame'
  <2>1. Frame
    BY DEF EInv
  <2>2. pc' = "next" => segment = "rest"
    BY <1>6, State
  <2>3. pc' = "render" => segment = "active"
    BY <1>6, State
  <2>4. pc' \in {"render", "next"} => (inIrq => flagI) /\ (flagI \/ beamMasterLast >= Deadline)
    <3>1. inIrq \/ beamMasterLast >= Deadline
      BY <1>1 DEF EInv, LastSync
    <3> QED BY <1>6, <3>1
  <2>5. pc' = "handler" => from' = "step2" /\ ~flagI
    BY <1>6
  <2> QED BY <1>1, <1>3, <1>5, <1>7, <2>1, <2>2, <2>3, <2>4, <2>5 DEF Frame, Deliverable
<1>10. masterCycles >= Deadline
  BY <1>1 DEF EInv, Reached
<1>11. Reached'
  <2>1. Reached
    BY DEF EInv
  <2> QED BY <1>1, <1>3, <1>5, <1>6, <1>7, <1>10, <2>1 DEF Reached, InSegment
<1>12. Progress' /\ Walks' /\ LastSync'
  BY <1>3, <1>4, <1>6, <1>7 DEF Progress, Walks, LastSync, Idle
<1>13. LastSync /\ Cut /\ Behind /\ Deadline > Start /\ After >= 0 /\ After \in Nat
  BY State, Geometry DEF EInv, After
<1>14. Behind'
  <2>1. pc' = "handler" => beamMasterLast > Start - Before
    BY <1>1, <1>13 DEF Behind, InSegment
  <2>2. pc' # "handler" => beamMasterLast > Start - After
    BY <1>1, <1>6, <1>13, State DEF LastSync
  <2> QED BY <1>3, <1>5, <1>7, <2>1, <2>2 DEF Behind, InSegment
<1>15. Clear' = Clear
  BY <1>3 DEF Clear, Armed, LineMatches, Target
<1>16. Cut'
  <2>1. Clear \/ beamMasterLast >= Deadline
    BY <1>1, <1>13 DEF Cut
  <2>2. pc' = "next" => Deadline = Start + LineClocks
    BY <1>6, State
  <2>3. Clear \/ beamMasterLast >= Start
    BY <1>13, <2>1, State
  <2> QED BY <1>3, <1>5, <1>7, <1>15, <2>1, <2>2, <2>3 DEF Cut
<1> QED BY <1>2, <1>8, <1>9, <1>11, <1>12, <1>14, <1>16 DEF EInv

\* A segment begins: the line's first, or what follows its rendering.
LEMMA SegmentKeeps ==
  ASSUME EInv, BeginLine \/ Render
  PROVE  EInv'
<1>1. /\ UNCHANGED beam /\ Idle /\ slices' = 0
      /\ UNCHANGED <<line, base, frames, parked, flagI, nmiEnabled, ran, writes>>
  BY DEF BeginLine, Render, Interrupt, guest
<1>2. Inv'
  BY <1>1, StutterKeepsInv DEF EInv
<1>3. UNCHANGED <<hPos, vPos, inIrq, beamMasterLast, masterCycles, walk, owed,
                  hIrqEnabled, vIrqEnabled, hTimer, vTimer>>
  BY <1>1 DEF beam, vars, pos, regs
<1>4. walk = 0 /\ owed = 0
  BY <1>1 DEF EInv, Walks, Idle
<1>5. Start' = Start
  BY <1>1 DEF Start
<1>6. \/ /\ BeginLine /\ pc = "line"
         /\ segment' = IF line < VBlankLine THEN "active" ELSE "rest"
         /\ \/ pc' = "handler" /\ from' = "run" /\ left' = HandlerMax /\ acked' = FALSE
               /\ line = VBlankLine
            \/ pc' = "step1" /\ UNCHANGED <<from, left, acked>>
         /\ inNmi' \in BOOLEAN
      \/ /\ Render /\ pc = "render" /\ pc' = "step1" /\ segment' = "rest"
         /\ UNCHANGED <<from, left, acked, inNmi>>
  <2>1. inNmi \in BOOLEAN
    BY DEF EInv, ETypeOK
  <2> QED BY <2>1 DEF BeginLine, Render, Interrupt, guest
<1>7. pc' \in {"handler", "step1"} /\ segment' \in {"active", "rest"}
      /\ from' \in {"step1", "step2", "run"}
  BY <1>6, State
<1>8. ETypeOK'
  <2>1. TypeOK'
    BY <1>2 DEF Inv
  <2>2. HandlerMax \in 0 .. HandlerMax /\ 0 \in 0 .. MaxSlices + 1
    BY Geometry
  <2>3. left' \in 0 .. HandlerMax /\ acked' \in BOOLEAN /\ inNmi' \in BOOLEAN
    BY <1>6, <2>2, Zenon DEF EInv, ETypeOK
  <2> QED BY <1>1, <1>7, <2>1, <2>2, <2>3, Zenon DEF EInv, ETypeOK
<1>9. Deadline' = IF segment' = "active" THEN Start + ActiveClocks ELSE Start + LineClocks
  <2>1. base \in Nat /\ line \in Nat
    BY EngineNumbers DEF EInv
  <2>2. base + (line + 1) * LineClocks = Start + LineClocks
    BY <2>1, LineStep DEF Start
  <2> QED BY <1>1, <2>2 DEF Deadline, Start
<1>10. Frame'
  <2>1. Frame
    BY DEF EInv
  <2> QED BY <1>1, <1>6, <2>1 DEF Frame
<1>11. masterCycles >= SegmentStart' /\ SegmentStart' \in Nat
  <2>1. SegmentStart' = IF segment' = "rest" /\ line < VBlankLine
                        THEN Start + ActiveClocks ELSE Start
    BY <1>1, <1>5 DEF SegmentStart
  <2>2. SegmentStart' \in Nat
    BY <2>1, State, Geometry
  <2>3. CASE pc = "line"
    <3>1. masterCycles >= Start
      BY <2>3 DEF EInv, Reached
    <3>2. SegmentStart' = Start
      BY <1>6, <2>1, <2>3
    <3> QED BY <2>2, <3>1, <3>2
  <2>4. CASE pc = "render"
    <3>1. masterCycles >= Deadline /\ segment = "active"
      BY <2>4 DEF EInv, Reached, Frame
    <3>2. Deadline = Start + ActiveClocks
      BY <3>1, State
    <3> QED BY <2>1, <2>2, <3>1, <3>2, State, Geometry
  <2> QED BY <1>6, <2>3, <2>4
<1>12. Reached'
  <2>1. ~(pc' = "handler" /\ from' = "step2")
    BY <1>6
  <2> QED BY <1>3, <1>7, <1>11, <2>1 DEF Reached
<1>13. Progress'
  <2>1. pc' = "handler" => from' = "run"
    BY <1>6
  <2> QED BY <1>1, <1>3, <1>7, <1>11, <2>1, State DEF Progress
<1>14. Walks' /\ LastSync'
  BY <1>3, <1>4, <1>7 DEF Walks, LastSync, Idle
<1>15. Behind'
  <2>1. Behind
    BY DEF EInv
  <2>2. beamMasterLast > Start - Before'
    <3>1. CASE pc = "line"
      <4>1. beamMasterLast > Start - AtLine
        BY <2>1, <3>1 DEF Behind
      <4>2. segment' = IF line < VBlankLine THEN "active" ELSE "rest"
        BY <1>6, <3>1
      <4>3. Before' >= AtLine /\ Before' \in Nat /\ AtLine \in Nat
        BY <1>1, <4>2, State, Geometry DEF Before, AtLine
      <4> QED BY <4>1, <4>3, State
    <3>2. CASE pc = "render"
      <4>1. beamMasterLast > Start - After /\ segment = "active" /\ segment' = "rest"
        BY <1>6, <2>1, <3>2 DEF Behind, EInv, Frame
      <4>2. line < VBlankLine
        BY <4>1 DEF EInv, Frame
      <4>3. Before' = After /\ Before' \in Nat
        BY <1>1, <4>1, <4>2, State, Geometry DEF Before, After
      <4> QED BY <4>1, <4>3
    <3> QED BY <1>6, <3>1, <3>2
  <2> QED BY <1>3, <1>5, <1>7, <2>2 DEF Behind
<1>16. Clear' = Clear
  BY <1>3 DEF Clear, Armed, LineMatches, Target
<1>17. Cut'
  <2>1. Clear \/ beamMasterLast >= Start
    BY <1>1, <1>6 DEF EInv, Cut
  <2> QED BY <1>3, <1>5, <1>7, <1>16, <2>1 DEF Cut
<1> QED BY <1>2, <1>8, <1>10, <1>12, <1>13, <1>14, <1>15, <1>17 DEF EInv

\* The loop's next line, or the next frame's first.
LEMMA NextLineKeeps ==
  ASSUME EInv, NextLine
  PROVE  EInv'
<1>1. /\ UNCHANGED beam /\ Idle /\ pc = "next"
      /\ UNCHANGED <<segment, slices, from, parked, flagI, nmiEnabled, inNmi, ran, left, acked,
                     writes>>
      /\ \/ /\ line + 1 < Lines /\ pc' = "line" /\ line' = line + 1
            /\ base' = base /\ frames' = frames
         \/ /\ ~(line + 1 < Lines) /\ line' = 0 /\ base' = base + Field
            /\ frames' = frames + 1
            /\ pc' = IF frames + 1 < MaxFrames THEN "line" ELSE "done"
  BY DEF NextLine, guest
<1>2. Inv'
  BY <1>1, StutterKeepsInv DEF EInv
<1>3. UNCHANGED <<hPos, vPos, inIrq, beamMasterLast, masterCycles, walk, owed,
                  hIrqEnabled, vIrqEnabled, hTimer, vTimer>>
  BY <1>1 DEF beam, vars, pos, regs
<1>4. walk = 0 /\ owed = 0
  BY <1>1 DEF EInv, Walks, Idle
<1>5. segment = "rest" /\ frames < MaxFrames
  BY <1>1 DEF EInv, Frame
<1>6. pc' \in {"line", "done"}
  BY <1>1
<1>7. Start' = Start + LineClocks
  <2>1. base \in Nat /\ line \in Nat /\ line < Lines
    BY EngineNumbers DEF EInv
  <2>2. /\ base + (line + 1) * LineClocks = Start + LineClocks
        /\ line + 1 = Lines => base + Field + 0 * LineClocks = Start + LineClocks
    BY <2>1, LineStep DEF Start
  <2>3. CASE line + 1 < Lines
    BY <1>1, <2>2, <2>3 DEF Start
  <2>4. CASE ~(line + 1 < Lines)
    <3>1. line + 1 = Lines
      BY <2>1, <2>4, Geometry
    <3>2. base' = base + Field /\ line' = 0
      BY <1>1, <2>4
    <3> QED BY <2>2, <3>1, <3>2 DEF Start
  <2> QED BY <2>3, <2>4
<1>8. ETypeOK'
  <2>1. TypeOK'
    BY <1>2 DEF Inv
  <2>2. frames \in Nat /\ line \in Nat /\ base = frames * Field
    BY EngineNumbers DEF EInv, ETypeOK
  <2>3. line' \in 0 .. Lines - 1 /\ frames' \in 0 .. MaxFrames
    BY <1>1, <1>5, <2>2, Geometry
  <2>4. base' = frames' * Field
    <3>1. (frames + 1) * Field = base + Field
      BY <2>2, Geometry
    <3> QED BY <1>1, <2>2, <3>1
  <2> QED BY <1>1, <1>6, <2>1, <2>3, <2>4, Zenon DEF EInv, ETypeOK
<1>9. Frame'
  BY <1>1, <1>5, <1>6 DEF Frame
<1>10. masterCycles >= Start' /\ Deadline = Start'
  BY <1>1, <1>5, <1>7, State DEF EInv, Reached
<1>11. Reached' /\ Progress' /\ Walks' /\ LastSync'
  BY <1>3, <1>4, <1>6, <1>10 DEF Reached, Progress, Walks, LastSync, InSegment, Idle
<1>12. Behind'
  <2>1. beamMasterLast > Start - After
    BY <1>1 DEF EInv, Behind
  <2>2. AtLine' = After + LineClocks /\ After \in Nat
    <3>1. line < Lines /\ line \in Nat
      BY EngineNumbers DEF EInv
    <3>2. line' = (IF line + 1 < Lines THEN line + 1 ELSE 0)
      BY <1>1
    <3> QED BY <1>5, <3>1, <3>2, Geometry DEF AtLine, After
  <2>3. beamMasterLast' > Start' - AtLine'
    BY <1>3, <1>7, <2>1, <2>2, State, Geometry
  <2> QED BY <1>6, <2>3 DEF Behind, InSegment
<1>13. Clear' = Clear
  BY <1>3 DEF Clear, Armed, LineMatches, Target
<1>14. Cut'
  <2>1. Clear \/ beamMasterLast >= Start + LineClocks
    BY <1>1 DEF EInv, Cut
  <2> QED BY <1>3, <1>6, <1>7, <1>13, <2>1 DEF Cut
<1> QED BY <1>2, <1>8, <1>9, <1>11, <1>12, <1>14 DEF EInv

---------------------------------------------------------------------------
(* The theorems.                                                           *)

\* The engine begins in the invariant.
LEMMA EngineInit == EInit => EInv
<1> SUFFICES ASSUME EInit PROVE EInv
  OBVIOUS
<1> USE Geometry
<1>1. Inv
  BY InitInv DEF EInit
<1>2. /\ walk = 0 /\ owed = 0 /\ beamMasterLast = 0 /\ masterCycles = 0 /\ inIrq = FALSE
      /\ hIrqEnabled = FALSE /\ vIrqEnabled = FALSE
      /\ pc = "line" /\ line = 0 /\ segment = "rest" /\ base = 0 /\ frames = 0
      /\ flagI = TRUE
  BY DEF EInit, Init
<1>3. Start = 0
  <2>1. 0 * LineClocks = 0
    OBVIOUS
  <2> QED BY <1>2, <2>1 DEF Start
<1>4. MaxFrames > 0
  BY EngineAssumption
<1>5. ETypeOK
  <2>1. TypeOK
    BY <1>1 DEF Inv
  <2>2. 0 * Field = 0
    OBVIOUS
  <2>3. /\ 0 \in 0 .. Lines - 1 /\ 0 \in 0 .. MaxFrames /\ 0 \in 0 .. MaxSlices + 1
        /\ 0 \in 0 .. HandlerMax /\ MaxWrites \in 0 .. MaxWrites /\ 0 \in 0 .. MaxClock
    OBVIOUS
  <2> QED BY <1>2, <2>1, <2>2, <2>3, Zenon DEF EInit, ETypeOK
<1>6. Clear
  BY <1>2 DEF Clear, Armed
<1>7. Frame
  BY <1>2, <1>4 DEF Frame
<1>8. Reached /\ Progress /\ Walks /\ LastSync
  BY <1>2, <1>3 DEF Reached, Progress, Walks, LastSync, InSegment, Idle
<1>9. Behind
  BY <1>2, <1>3 DEF Behind, InSegment, AtLine
<1>10. Cut
  BY <1>2, <1>6 DEF Cut
<1> QED BY <1>1, <1>5, <1>7, <1>8, <1>9, <1>10 DEF EInv

\* Every step keeps the invariant.
LEMMA EngineStep == EInv /\ [ENext]_evars => EInv'
<1> SUFFICES ASSUME EInv, [ENext]_evars PROVE EInv'
  OBVIOUS
<1>1. CASE Walk
  BY <1>1, WalkKeeps
<1>2. CASE Engine
  BY <1>2, SegmentKeeps, NextLineKeeps, LoopKeeps, SkipKeeps, BeginStep2Keeps, Step2Keeps
     DEF Engine
<1>3. CASE Execute \/ Wai
  BY <1>3, InstructionKeeps
<1>4. CASE Rti
  BY <1>4, RtiKeeps
<1>5. CASE AckIrq \/ ReadRdnmi \/ WriteControl \/ WriteTimers \/ \E i \in BOOLEAN : MaskIrq(i)
  BY <1>5, RegistersKeep
<1>6. CASE UNCHANGED evars
  <2>1. UNCHANGED beam
    BY <1>6 DEF evars, beam
  <2>2. Inv'
    BY <2>1, StutterKeepsInv DEF EInv
  <2>3. /\ UNCHANGED <<hPos, vPos, inIrq, beamMasterLast, masterCycles, walk, owed,
                       hIrqEnabled, vIrqEnabled, hTimer, vTimer>>
        /\ UNCHANGED <<pc, line, segment, base, slices, from, frames, parked, flagI,
                       nmiEnabled, inNmi, ran, left, acked, writes>>
    BY <1>6 DEF evars, vars, pos, regs, engine, guest
  <2>4. ETypeOK'
    <3>1. TypeOK'
      BY <2>2 DEF Inv
    <3> QED BY <2>3, <3>1, Zenon DEF EInv, ETypeOK
  <2>5. /\ Start' = Start /\ Deadline' = Deadline /\ SegmentStart' = SegmentStart
        /\ Before' = Before /\ After' = After /\ AtLine' = AtLine
        /\ InSegment' = InSegment /\ Clear' = Clear /\ Idle' = Idle
        /\ Deliverable' = Deliverable
    BY <2>3 DEF Start, Deadline, SegmentStart, Before, After, AtLine, InSegment, Clear, Idle,
                Armed, LineMatches, Target, Deliverable
  <2>6. Frame' /\ Reached' /\ Progress' /\ Walks' /\ Behind' /\ Cut' /\ LastSync'
    BY <2>3, <2>5 DEF EInv, Frame, Reached, Progress, Walks, Behind, Cut, LastSync
  <2> QED BY <2>2, <2>4, <2>6 DEF EInv
<1> QED BY <1>1, <1>2, <1>3, <1>4, <1>5, <1>6 DEF ENext, Guest

\* The engine's and the beam's state keep their types; the walk of the frame's
\* lines stays inside the frame, and the slice counter one past its limit.
THEOREM Typed == ESpec => []ETypeOK
<1>1. EInv => ETypeOK
  BY DEF EInv
<1> QED BY <1>1, EngineInit, EngineStep, PTL DEF ESpec

\* A CPU that takes interrupts leaves no match of a line to the next: the beam has
\* walked up to every deadline, whatever cut its syncs.
THEOREM DeadlineReached == ESpec => []NothingDeferred
<1>1. EInv => NothingDeferred
  BY DEF EInv, Frame, NothingDeferred
<1> QED BY <1>1, EngineInit, EngineStep, PTL DEF ESpec

\* "frame slice limit exceeded" is out of reach: every iteration of run_scanline()'s
\* loop moves the CPU's clock, and a segment is a line at most.
THEOREM LimitOutOfReach == ESpec => []NeverDies
<1>1. ASSUME EInv PROVE NeverDies
  <2> SUFFICES ASSUME InLoop PROVE slices <= MaxSlices
    BY DEF NeverDies
  <2>1. pc = "step1" /\ masterCycles < Deadline
    BY DEF InLoop
  <2>2. slices <= masterCycles - SegmentStart
    BY <1>1, <2>1 DEF EInv, Progress
  <2>3. SegmentStart \in Nat /\ SegmentStart >= Start
    BY <1>1, State, Geometry DEF SegmentStart
  <2>4. Deadline <= Start + LineClocks
    BY <1>1, State, Geometry
  <2> QED BY <1>1, <2>1, <2>2, <2>3, <2>4, State, Geometry
<1> QED BY <1>1, EngineInit, EngineStep, PTL DEF ESpec

\* At the NMI the beam is past the start of the last visible line, however many
\* syncs masked matches have cut short since the frame began.
THEOREM NmiNearVblank == ESpec => []NmiAtVblank
<1>1. ASSUME EInv PROVE NmiAtVblank
  <2> SUFFICES ASSUME pc = "handler", from = "run"
               PROVE  beamMasterLast > base + (VBlankLine - 1) * LineClocks
    BY DEF NmiAtVblank
  <2>1. line = VBlankLine
    BY <1>1 DEF EInv, Frame
  <2>2. segment # "active"
    BY <1>1, <2>1, Geometry DEF EInv, Frame
  <2>3. beamMasterLast > Start - LineClocks
    BY <1>1, <2>1, <2>2 DEF EInv, Behind, InSegment, Before
  <2>4. base \in Nat
    BY <1>1, EngineNumbers DEF EInv
  <2>5. base + ((VBlankLine - 1) + 1) * LineClocks
          = (base + (VBlankLine - 1) * LineClocks) + LineClocks
        /\ base + (VBlankLine - 1) * LineClocks \in Nat
    BY <2>4, LineStep, Geometry
  <2>6. (VBlankLine - 1) + 1 = VBlankLine
    BY Geometry
  <2> QED BY <2>1, <2>3, <2>5, <2>6, Geometry DEF Start
<1> QED BY <1>1, EngineInit, EngineStep, PTL DEF ESpec

\* Where the beam is decides which field and line it is on.
LEMMA FieldOfClock ==
  ASSUME NEW f \in Nat, NEW g \in Nat, NEW p \in 0 .. Field - 1, NEW q \in 0 .. Field - 1
  PROVE  /\ f * Field + p \in Nat /\ g * Field + q \in Nat
         /\ f * Field + p >= g * Field + q => f > g \/ (f = g /\ p >= q)
         /\ f * Field + p < g * Field + q => f < g \/ (f = g /\ p < q)
<1>1. Field \in Nat /\ f * Field \in Nat /\ g * Field \in Nat /\ p \in Nat /\ q \in Nat
      /\ p < Field /\ q < Field
  BY Geometry
<1>2. f < g => f * Field + Field <= g * Field
  <2> SUFFICES ASSUME f < g PROVE f * Field + Field <= g * Field
    OBVIOUS
  <2>1. g - f - 1 \in Nat
    OBVIOUS
  <2>2. (g - f - 1) * Field \in Nat
    BY <1>1, <2>1
  <2>3. (g - f - 1) * Field = g * Field - f * Field - Field
    BY <1>1
  <2> QED BY <1>1, <2>2, <2>3
<1>3. g < f => g * Field + Field <= f * Field
  <2> SUFFICES ASSUME g < f PROVE g * Field + Field <= f * Field
    OBVIOUS
  <2>1. f - g - 1 \in Nat
    OBVIOUS
  <2>2. (f - g - 1) * Field \in Nat
    BY <1>1, <2>1
  <2>3. (f - g - 1) * Field = f * Field - g * Field - Field
    BY <1>1
  <2> QED BY <1>1, <2>2, <2>3
<1>4. f = g => f * Field = g * Field
  OBVIOUS
<1> DEFINE F == f * Field
           G == g * Field
<1> HIDE DEF F, G
<1>5. F \in Nat /\ G \in Nat /\ (f < g => F + Field <= G) /\ (g < f => G + Field <= F)
      /\ (f = g => F = G)
  BY <1>1, <1>2, <1>3, <1>4 DEF F, G
<1>6. /\ F + p \in Nat /\ G + q \in Nat
      /\ F + p >= G + q => f > g \/ (f = g /\ p >= q)
      /\ F + p < G + q => f < g \/ (f = g /\ p < q)
  BY <1>1, <1>5
<1> QED BY <1>6 DEF F, G

\* Clocks of whole lines compare by the line first.
LEMMA LineOfClock ==
  ASSUME NEW v \in Nat, NEW w \in Nat, NEW h \in 0 .. LineClocks - 1,
         NEW k \in 0 .. LineClocks - 1
  PROVE  /\ v * LineClocks + h >= w * LineClocks + k => v > w \/ (v = w /\ h >= k)
         /\ v * LineClocks + h < w * LineClocks + k => v < w \/ (v = w /\ h < k)
<1>1. LineClocks \in Nat /\ v * LineClocks \in Nat /\ w * LineClocks \in Nat /\ h \in Nat
      /\ k \in Nat /\ h < LineClocks /\ k < LineClocks
  BY Geometry
<1>2. v < w => v * LineClocks + LineClocks <= w * LineClocks
  <2> SUFFICES ASSUME v < w PROVE v * LineClocks + LineClocks <= w * LineClocks
    OBVIOUS
  <2>1. (w - v - 1) * LineClocks \in Nat
    <3>1. w - v - 1 \in Nat
      OBVIOUS
    <3> QED BY <1>1, <3>1
  <2>2. (w - v - 1) * LineClocks = w * LineClocks - v * LineClocks - LineClocks
    BY <1>1
  <2> QED BY <1>1, <2>1, <2>2
<1>3. w < v => w * LineClocks + LineClocks <= v * LineClocks
  <2> SUFFICES ASSUME w < v PROVE w * LineClocks + LineClocks <= v * LineClocks
    OBVIOUS
  <2>1. (v - w - 1) * LineClocks \in Nat
    <3>1. v - w - 1 \in Nat
      OBVIOUS
    <3> QED BY <1>1, <3>1
  <2>2. (v - w - 1) * LineClocks = v * LineClocks - w * LineClocks - LineClocks
    BY <1>1
  <2> QED BY <1>1, <2>1, <2>2
<1> DEFINE V == v * LineClocks
           W == w * LineClocks
<1>4. v = w => V = W
  OBVIOUS
<1> HIDE DEF V, W
<1>5. V \in Nat /\ W \in Nat /\ (v < w => V + LineClocks <= W) /\ (w < v => W + LineClocks <= V)
      /\ (v = w => V = W)
  BY <1>1, <1>2, <1>3, <1>4 DEF V, W
<1>6. /\ V + h >= W + k => v > w \/ (v = w /\ h >= k)
      /\ V + h < W + k => v < w \/ (v = w /\ h < k)
  BY <1>1, <1>5
<1> QED BY <1>6 DEF V, W

\* A position within the field is less than a field.
LEMMA WithinField ==
  ASSUME NEW v \in 0 .. Lines - 1, NEW h \in 0 .. LineClocks - 1
  PROVE  v * LineClocks + h \in 0 .. Field - 1
<1>1. v * LineClocks \in Nat /\ (v + 1) * LineClocks = v * LineClocks + LineClocks
      /\ h \in Nat /\ h < LineClocks
  BY Geometry
<1>2. (v + 1) * LineClocks <= Field
  <2>1. (Lines - (v + 1)) * LineClocks \in Nat
    <3>1. Lines - (v + 1) \in Nat
      BY Geometry
    <3> QED BY <3>1, Geometry
  <2>2. (Lines - (v + 1)) * LineClocks = Lines * LineClocks - (v + 1) * LineClocks
    BY Geometry
  <2> DEFINE n == (v + 1) * LineClocks
  <2>3. n \in Nat
    BY Geometry
  <2> HIDE DEF n
  <2>4. Lines * LineClocks - n >= 0 /\ Lines * LineClocks = Field
    BY <2>1, <2>2 DEF n, Field
  <2>5. n <= Field
    BY <2>3, <2>4, Geometry
  <2> QED BY <2>5 DEF n
<1> DEFINE n == v * LineClocks
<1> HIDE DEF n
<1>3. n \in Nat /\ n + LineClocks <= Field /\ h \in Nat /\ h < LineClocks
  BY <1>1, <1>2 DEF n
<1>4. n + h \in 0 .. Field - 1
  BY <1>3, Geometry
<1> QED BY <1>4 DEF n

\* A later field has at least a field of slots more.
LEMMA SlotsByField ==
  ASSUME NEW f \in Nat, NEW g \in Nat
  PROVE  /\ f * VBlankLine \in Nat /\ g * VBlankLine \in Nat
         /\ f > g => f * VBlankLine >= g * VBlankLine + VBlankLine
<1>1. f * VBlankLine \in Nat /\ g * VBlankLine \in Nat
  BY Geometry
<1>2. ASSUME f > g PROVE f * VBlankLine >= g * VBlankLine + VBlankLine
  <2>1. (f - g - 1) * VBlankLine \in Nat
    <3>1. f - g - 1 \in Nat
      BY <1>2
    <3> QED BY <3>1, Geometry
  <2>2. (f - g - 1) * VBlankLine = f * VBlankLine - g * VBlankLine - VBlankLine
    BY Geometry
  <2> QED BY <1>1, <2>1, <2>2, Geometry
<1> QED BY <1>1, <1>2

\* A visible line is rendered after the HDMA of every line above it, whatever the
\* program masked, and before its own unless the CPU itself ran past the edge.
THEOREM RenderedBetweenSlots == ESpec => []RenderBetweenSlots
<1>1. ASSUME EInv PROVE RenderBetweenSlots
  <2> SUFFICES ASSUME pc = "render"
               PROVE  /\ SlotsEver >= frames * VBlankLine + line
                      /\ masterCycles < base + line * LineClocks + HBlank
                           => SlotsEver = frames * VBlankLine + line
    BY DEF RenderBetweenSlots
  <2> DEFINE p == vPos * LineClocks + hPos
             q == line * LineClocks
  <2>1. /\ segment = "active" /\ line < VBlankLine /\ line \in Nat
        /\ beamMasterLast > Start - After
    BY <1>1, State DEF EInv, Frame, Behind
  <2>2. /\ vPos \in 0 .. Lines - 1 /\ hPos \in 0 .. LineClocks - 1 /\ line \in 0 .. Lines - 1
        /\ vPos \in Nat /\ hPos \in Nat
        /\ fields \in Nat /\ frames \in Nat /\ base = frames * Field
        /\ slots = SlotsDue
        /\ beamMasterLast = fields * Field + vPos * LineClocks + hPos
    BY <1>1, Geometry DEF EInv, Inv, TypeOK, ETypeOK, BeamOnClock, SlotPerLine
  <2>3. p \in 0 .. Field - 1
    BY <2>2, WithinField
  <2>4. beamMasterLast = fields * Field + p
    <3>1. fields * Field \in Nat /\ vPos * LineClocks \in Nat
      BY <2>2, Geometry
    <3> QED BY <2>2, <3>1
  <2>5. /\ slots \in Nat /\ slots <= VBlankLine
        /\ vPos >= VBlankLine => slots = VBlankLine
        /\ vPos < VBlankLine => slots = IF hPos >= HBlank THEN vPos + 1 ELSE vPos
    BY <2>2, Geometry DEF SlotsDue
  <2> DEFINE fs == fields * VBlankLine
             gs == frames * VBlankLine
  <2>6. /\ fs \in Nat /\ gs \in Nat
        /\ fields > frames => fs >= gs + VBlankLine
        /\ frames > fields => gs >= fs + VBlankLine
        /\ fields = frames => fs = gs
    BY <2>2, SlotsByField
  <2>7. SlotsEver = fs + slots
    BY DEF SlotsEver
  <2>8. SlotsEver >= frames * VBlankLine + line
    <3>1. CASE line = 0
      <4>1. q = 0
        BY <3>1, Geometry
      <4>2. beamMasterLast > base - LineClocks
        <5>1. Start = base
          <6>1. base \in Nat
            BY <1>1, EngineNumbers DEF EInv
          <6> QED BY <3>1, <4>1, <6>1 DEF Start
        <5> QED BY <2>1, <3>1, <5>1 DEF After
      <4>3. CASE fields >= frames
        BY <2>5, <2>6, <2>7, <3>1, <4>3, <2>2, Geometry
      <4>4. CASE fields < frames
        \* The beam is on the field's last line, where every slot has run.
        <5>1. fields + 1 = frames
          <6> SUFFICES ASSUME fields + 1 < frames PROVE FALSE
            BY <2>2, <4>4
          <6>1. Field - LineClocks \in 0 .. Field - 1
            <7>1. Lines - 1 \in 0 .. Lines - 1 /\ 0 \in 0 .. LineClocks - 1
              BY Geometry
            <7>2. (Lines - 1) * LineClocks + 0 \in 0 .. Field - 1
              BY <7>1, WithinField
            <7>3. (Lines - 1) * LineClocks = Field - LineClocks
              BY Geometry DEF Field
            <7> QED BY <7>2, <7>3, Geometry
          <6>2. frames - 1 \in Nat /\ (frames - 1) * Field = base - Field
            BY <2>2, <4>4, Geometry
          <6>3. fields * Field + p >= (frames - 1) * Field + (Field - LineClocks)
            <7> DEFINE a == fields * Field
                       b == (frames - 1) * Field
            <7>1. a \in Nat /\ b \in Nat
              BY <2>2, <6>2, Geometry
            <7> HIDE DEF a, b, p
            <7>2. a + p > base - LineClocks /\ b = base - Field /\ base \in Nat /\ p \in Nat
              BY <1>1, <2>3, <2>4, <4>2, <6>2, EngineNumbers, Geometry DEF a, b, EInv
            <7>3. a + p >= b + (Field - LineClocks)
              BY <7>1, <7>2, Geometry
            <7> QED BY <7>3 DEF a, b
          <6> HIDE DEF p
          <6>4. fields > frames - 1 \/ fields = frames - 1
            BY <2>2, <2>3, <6>1, <6>2, <6>3, FieldOfClock
          <6> QED BY <2>2, <6>4
        <5>2. vPos = Lines - 1
          <6>1. (frames - 1) * Field = fields * Field
            <7>1. frames - 1 = fields
              BY <2>2, <5>1
            <7> QED BY <7>1
          <6>2. (frames - 1) * Field = base - Field
            BY <2>2, Geometry
          <6>3. p > Field - LineClocks
            <7> DEFINE a == fields * Field
            <7>1. a \in Nat
              BY <2>2, Geometry
            <7> HIDE DEF a, p
            <7>2. a + p > base - LineClocks /\ a = base - Field /\ base \in Nat /\ p \in Nat
              BY <1>1, <2>3, <2>4, <4>2, <6>1, <6>2, EngineNumbers, Geometry DEF a, EInv
            <7> QED BY <7>1, <7>2, Geometry
          <6>4. Field - LineClocks = (Lines - 1) * LineClocks
            BY Geometry DEF Field
          <6>5. 0 \in 0 .. LineClocks - 1 /\ Lines - 1 \in Nat
                /\ (Lines - 1) * LineClocks \in Nat
            BY Geometry
          <6>6. vPos * LineClocks + hPos >= (Lines - 1) * LineClocks + 0
            <7>1. p >= (Lines - 1) * LineClocks
              <8> HIDE DEF p
              <8> QED BY <2>3, <6>3, <6>4, <6>5, Geometry
            <7> QED BY <6>5, <7>1
          <6>7. vPos > Lines - 1 \/ (vPos = Lines - 1 /\ hPos >= 0)
            BY <2>2, <6>5, <6>6, LineOfClock
          <6> QED BY <2>2, <6>7, Geometry
        <5>3. slots = VBlankLine
          BY <2>5, <5>2, Geometry
        <5>4. gs = fs + VBlankLine
          BY <2>2, <5>1, Geometry
        <5> HIDE DEF fs, gs
        <5>5. fs + slots >= gs + line
          BY <2>6, <3>1, <5>3, <5>4, Geometry
        <5> QED BY <2>7, <5>5 DEF gs
      <4> QED BY <2>2, <4>3, <4>4
    <3>2. CASE line > 0
      <4>1. beamMasterLast > Start
        <5>1. Start \in Nat /\ After = 0
          BY <1>1, <2>1, <3>2, State DEF After
        <5> QED BY <2>1, <5>1
      <4>2. q \in 0 .. Field - 1
        <5>1. 0 \in 0 .. LineClocks - 1
          BY Geometry
        <5>2. line * LineClocks + 0 \in 0 .. Field - 1
          BY <2>2, <5>1, WithinField
        <5>3. line * LineClocks + 0 = q
          BY <2>2, Geometry
        <5> QED BY <5>2, <5>3
      <4>3. Start = frames * Field + q
        BY <2>2 DEF Start
      <4>4. fields * Field + p >= frames * Field + q
        <5>1. beamMasterLast \in Nat /\ Start \in Nat
          BY <1>1, State
        <5>2. beamMasterLast >= Start
          BY <4>1, <5>1
        <5> QED BY <2>4, <4>3, <5>2
      <4>5. fields > frames \/ (fields = frames /\ p >= q)
        <5> HIDE DEF p, q
        <5> QED BY <2>2, <2>3, <4>2, <4>4, FieldOfClock
      <4>6. CASE fields > frames
        <5> HIDE DEF fs, gs
        <5>1. fs + slots >= gs + line
          BY <2>1, <2>5, <2>6, <4>6, Geometry
        <5> QED BY <2>7, <5>1 DEF gs
      <4>7. CASE fields = frames /\ p >= q
        <5>1. 0 \in 0 .. LineClocks - 1
          BY Geometry
        <5>2. vPos * LineClocks + hPos >= line * LineClocks + 0
          BY <2>2, <4>7, Geometry
        <5>3. vPos > line \/ vPos = line
          BY <2>1, <2>2, <5>1, <5>2, LineOfClock
        <5>4. slots >= line
          BY <2>1, <2>2, <2>5, <5>3, Geometry
        <5> HIDE DEF fs, gs
        <5>5. fs + slots >= gs + line
          BY <2>1, <2>5, <2>6, <4>7, <5>4
        <5> QED BY <2>7, <5>5 DEF gs
      <4> QED BY <4>5, <4>6, <4>7
    <3> QED BY <2>1, <3>1, <3>2
  <2>9. ASSUME masterCycles < base + line * LineClocks + HBlank
        PROVE  SlotsEver <= frames * VBlankLine + line
    <3> DEFINE r == line * LineClocks + HBlank
    <3>1. r \in 0 .. Field - 1 /\ HBlank \in 0 .. LineClocks - 1
      <4>1. HBlank \in 0 .. LineClocks - 1
        BY Geometry
      <4> QED BY <2>2, <4>1, WithinField
    <3>2. fields * Field + p < frames * Field + r
      <4>1. frames * Field \in Nat /\ line * LineClocks \in Nat
        BY <2>2, Geometry
      <4>2. frames * Field + r = base + line * LineClocks + HBlank
        BY <2>2, <4>1, Geometry
      <4>3. beamMasterLast <= masterCycles /\ beamMasterLast \in Nat /\ masterCycles \in Nat
        BY <1>1, State
      <4>4. base + line * LineClocks + HBlank \in Nat
        BY <2>2, <4>1, Geometry
      <4>5. beamMasterLast < base + line * LineClocks + HBlank
        BY <2>9, <4>3, <4>4
      <4> QED BY <2>4, <4>2, <4>5
    <3>3. fields < frames \/ (fields = frames /\ p < r)
      <4> HIDE DEF p, r
      <4> QED BY <2>2, <2>3, <3>1, <3>2, FieldOfClock
    <3>4. CASE fields < frames
      <4> HIDE DEF fs, gs
      <4>1. fs + slots <= gs + line
        BY <2>1, <2>2, <2>5, <2>6, <3>4, Geometry
      <4> QED BY <2>7, <4>1 DEF gs
    <3>5. CASE fields = frames /\ p < r
      <4>1. vPos < line \/ (vPos = line /\ hPos < HBlank)
        BY <2>1, <2>2, <3>1, <3>5, LineOfClock
      <4>2. slots <= line
        BY <2>1, <2>2, <2>5, <4>1, Geometry
      <4> HIDE DEF fs, gs
      <4>3. fs + slots <= gs + line
        BY <2>1, <2>5, <2>6, <3>5, <4>2
      <4> QED BY <2>7, <4>3 DEF gs
    <3> QED BY <3>3, <3>4, <3>5
  <2>10. SlotsEver \in Nat /\ frames * VBlankLine + line \in Nat
    BY <2>1, <2>5, <2>6, <2>7
  <2> QED BY <2>8, <2>9, <2>10
<1> QED BY <1>1, EngineInit, EngineStep, PTL DEF ESpec

=============================================================================
