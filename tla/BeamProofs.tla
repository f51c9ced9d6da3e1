---------------------------- MODULE BeamProofs ----------------------------
(***************************************************************************)
(* Safety of the beam for every geometry the assumptions of Beam allow.    *)
(* The inductive invariant joins the position's clock with the HDMA slots: *)
(* a slot is due by position, and only the dot alignment of the comparator *)
(* keeps a latch from stopping the walk on the HBlank edge or the end of   *)
(* the line without the work that belongs there. The walk and the          *)
(* predictor of the next match agree because the predictor's scan takes    *)
(* the first line that can match, and only the beam's own line is in reach *)
(* of an iteration.                                                        *)
(***************************************************************************)
EXTENDS Beam, WellFoundedInduction, TLAPS

JoyPast == joyClock # NoJoy => joyClock <= beamMasterLast

Inv ==
  /\ TypeOK
  /\ BeamOnClock
  /\ SlotPerLine
  /\ NeverAhead
  /\ JoyPast
  /\ JoyNeverOverstays

\* The clock after a match is never an edge of the line.
LEMMA MatchOffEdge ==
  ASSUME NEW t \in Nat
  PROVE  t * Dot + 1 # HBlank /\ t * Dot + 1 # LineClocks
<1> DEFINE j == HBlank \div Dot
           k == LineClocks \div Dot
<1>1. Dot \in Nat /\ Dot >= 2 /\ HBlank \in Nat /\ LineClocks \in Nat
  BY GeometryAssumption, DotAssumption
<1>2. j \in Nat /\ HBlank = j * Dot
  BY <1>1, DotAssumption
<1>3. k \in Nat /\ LineClocks = k * Dot
  BY <1>1, DotAssumption
<1>4. ASSUME NEW m \in Nat PROVE t * Dot + 1 # m * Dot
  <2>1. CASE m <= t
    <3>1. m * Dot <= t * Dot
      BY <1>1, <2>1
    <3> QED BY <3>1, <1>1
  <2>2. CASE m >= t + 1
    <3>1. m * Dot >= (t + 1) * Dot
      BY <1>1, <2>2
    <3>2. (t + 1) * Dot = t * Dot + Dot
      BY <1>1
    <3> QED BY <3>1, <3>2, <1>1
  <2> QED BY <2>1, <2>2
<1> HIDE DEF j, k
<1> QED BY <1>2, <1>3, <1>4

\* A byte written into either half of a timer gives a timer.
LEMMA TimerWrite ==
  ASSUME NEW t \in Timer, NEW b \in 0 .. Byte - 1
  PROVE  WithLow(t, b) \in Timer /\ WithHigh(t, b) \in Timer
<1>1. Byte \in Nat /\ Byte > 0 /\ t \in Nat /\ t < 2 * Byte /\ b \in Nat /\ b < Byte
  BY WidthAssumption DEF Timer
<1>2. t % Byte \in 0 .. Byte - 1 /\ b % 2 \in 0 .. 1
  BY <1>1
<1>3. t \div Byte \in 0 .. 1
  BY <1>1
<1>4. (t \div Byte) * Byte \in {0, Byte} /\ (b % 2) * Byte \in {0, Byte}
  <2>1. (t \div Byte = 0 \/ t \div Byte = 1) /\ (b % 2 = 0 \/ b % 2 = 1)
    BY <1>2, <1>3
  <2>2. 0 * Byte = 0 /\ 1 * Byte = Byte
    BY <1>1
  <2> QED BY <2>1, <2>2
<1> QED BY <1>1, <1>2, <1>4 DEF WithLow, WithHigh, Timer

\* Moving n clocks within the line keeps the position on the clock.
LEMMA MoveKeepsClock ==
  ASSUME TypeOK, BeamOnClock, NEW n \in Nat, hPos + n <= LineClocks, MoveBeam(n)
  PROVE  /\ hPos' \in 0 .. LineClocks - 1 /\ vPos' \in 0 .. Lines - 1
         /\ inVblank' \in BOOLEAN
         /\ beamMasterLast' = beamMasterLast + n
         /\ fields' \in Nat
         /\ BeamOnClock'
<1> USE GeometryAssumption
<1>0. Field \in Nat
  BY DEF Field
<1>1. beamMasterLast' = beamMasterLast + n
  BY DEF MoveBeam
<1>2. CASE hPos + n < LineClocks
  BY <1>0, <1>1, <1>2 DEF TypeOK, BeamOnClock, MoveBeam, Field
<1>3. CASE hPos + n = LineClocks /\ vPos + 1 < Lines
  <2>1. hPos' = 0 /\ vPos' = vPos + 1 /\ fields' = fields
    BY <1>3 DEF TypeOK, MoveBeam
  <2>2. (vPos + 1) * LineClocks = vPos * LineClocks + LineClocks
    BY DEF TypeOK
  <2> QED BY <1>0, <1>1, <1>3, <2>1, <2>2 DEF TypeOK, BeamOnClock, MoveBeam
<1>4. CASE hPos + n = LineClocks /\ vPos + 1 = Lines
  <2>1. hPos' = 0 /\ vPos' = 0 /\ fields' = fields + 1
    BY <1>4 DEF TypeOK, MoveBeam
  <2>2. Field \in Nat /\ Field = vPos * LineClocks + LineClocks
    <3>1. (vPos + 1) * LineClocks = vPos * LineClocks + LineClocks
      BY DEF TypeOK
    <3> QED BY <1>4, <3>1 DEF Field
  <2>3. (fields + 1) * Field = fields * Field + Field
    BY <2>2 DEF TypeOK
  <2>4. vPos' * LineClocks = 0
    BY <2>1
  <2> QED BY <1>1, <1>4, <2>1, <2>2, <2>3, <2>4 DEF TypeOK, BeamOnClock, MoveBeam
<1> QED BY <1>2, <1>3, <1>4 DEF TypeOK
\* An iteration walks at least a clock, stays on the line and in the chunk, and
\* does not cross the HBlank edge of a visible line.
LEMMA SpanBounds ==
  ASSUME TypeOK, walk > 0
  PROVE  /\ Span \in Nat /\ Span >= 1 /\ Span <= walk
         /\ hPos + Span <= LineClocks
         /\ vPos < VBlankLine /\ hPos < HBlank => hPos + Span <= HBlank
<1> DEFINE edge == IF vPos < VBlankLine /\ hPos < HBlank THEN HBlank ELSE LineClocks
<1>1. edge \in Nat /\ edge > hPos /\ edge <= LineClocks
  BY GeometryAssumption DEF TypeOK
<1>2. Span = LesserOf(edge - hPos, walk)
  BY DEF Span
<1>3. walk \in Nat /\ hPos \in Nat
  BY WidthAssumption, GeometryAssumption DEF TypeOK
<1>4. Span \in Nat /\ Span >= 1 /\ Span <= walk /\ hPos + Span <= edge
  BY <1>1, <1>2, <1>3 DEF LesserOf
<1> QED BY <1>1, <1>3, <1>4, GeometryAssumption

\* The timer never grows past what the window since its start leaves it.
LEMMA JoyStep ==
  ASSUME TypeOK, JoyPast, JoyNeverOverstays, StepJoy,
         NEW n \in Nat, n >= 1, n <= Span, Span \in Nat,
         beamMasterLast' = beamMasterLast + n
  PROVE  /\ autoJoyRead' \in BOOLEAN /\ autoJoyTimer' \in 0 .. JoyClocks
         /\ joyClock' \in Nat \cup {NoJoy}
         /\ JoyPast' /\ JoyNeverOverstays'
<1> DEFINE begins == autoJoyRead /\ vPos = VBlankLine /\ hPos = 0
<1> USE WidthAssumption
<1>1. JoyClocks \in Nat /\ beamMasterLast \in Nat /\ NoJoy \notin Nat
  BY DEF TypeOK, NoJoy
<1>2. CASE begins
  <2>1. joyClock' = beamMasterLast
    BY <1>2 DEF StepJoy
  <2>2. autoJoyTimer' = IF Span >= JoyClocks THEN 0 ELSE JoyClocks - Span
    BY <1>2 DEF StepJoy
  <2> QED BY <1>1, <2>1, <2>2 DEF TypeOK, StepJoy, JoyPast, JoyNeverOverstays
<1>3. CASE ~begins
  <2>1. joyClock' = joyClock
    BY <1>3 DEF StepJoy
  <2>2. autoJoyTimer' = IF Span >= autoJoyTimer THEN 0 ELSE autoJoyTimer - Span
    BY <1>3 DEF StepJoy
  <2> QED BY <1>1, <2>1, <2>2 DEF TypeOK, StepJoy, JoyPast, JoyNeverOverstays
<1> QED BY <1>2, <1>3

LEMMA NextChunkBounds ==
  ASSUME owed \in Nat, NextChunk
  PROVE  walk' \in 0 .. Chunk /\ owed' \in Nat /\ walk' + owed' = owed
BY WidthAssumption DEF NextChunk, LesserOf

\* An iteration without a match.
LEMMA WalkSpanKeepsInv ==
  ASSUME Inv, WalkSpan
  PROVE  Inv'
<1> USE DEF Inv
<1>1. /\ Span \in Nat /\ Span >= 1 /\ Span <= walk
      /\ hPos + Span <= LineClocks
      /\ vPos < VBlankLine /\ hPos < HBlank => hPos + Span <= HBlank
  BY SpanBounds DEF WalkSpan
<1>2. MoveBeam(Span)
  BY DEF WalkSpan
<1>3. /\ hPos' \in 0 .. LineClocks - 1 /\ vPos' \in 0 .. Lines - 1
      /\ inVblank' \in BOOLEAN
      /\ beamMasterLast' = beamMasterLast + Span
      /\ fields' \in Nat
      /\ BeamOnClock'
  BY <1>1, <1>2, MoveKeepsClock
<1>4. /\ autoJoyRead' \in BOOLEAN /\ autoJoyTimer' \in 0 .. JoyClocks
      /\ joyClock' \in Nat \cup {NoJoy}
      /\ JoyPast' /\ JoyNeverOverstays'
  BY <1>1, <1>3, JoyStep DEF WalkSpan
<1>5. walk' \in 0 .. Chunk /\ owed' \in Nat /\ walk' + owed' = walk - Span + owed
  <2>1. walk \in 0 .. Chunk /\ owed \in Nat
    BY DEF TypeOK
  <2>2. CASE Span = walk
    BY <2>1, <2>2, NextChunkBounds DEF WalkSpan
  <2>3. CASE Span # walk
    BY <1>1, <2>1, <2>3, WidthAssumption DEF WalkSpan
  <2> QED BY <2>2, <2>3
<1>6. slots' = SlotsDue' /\ slots' \in 0 .. VBlankLine
  <2> USE GeometryAssumption, <1>1
  <2>1. CASE hPos + Span < LineClocks
    BY <1>2, <2>1 DEF TypeOK, WalkSpan, MoveBeam, SlotPerLine, SlotsDue
  <2>2. CASE hPos + Span = LineClocks
    BY <1>2, <2>2 DEF TypeOK, WalkSpan, MoveBeam, SlotPerLine, SlotsDue
  <2> QED BY <2>1, <2>2 DEF TypeOK
<1>7. NeverAhead'
  <2>1. masterCycles' = masterCycles
    BY DEF WalkSpan
  <2>2. /\ beamMasterLast \in Nat /\ walk \in Nat /\ owed \in Nat
        /\ masterCycles \in Nat /\ walk' \in Nat /\ owed' \in Nat
    BY <1>5, WidthAssumption DEF TypeOK
  <2>3. beamMasterLast + walk + owed <= masterCycles
    BY DEF NeverAhead
  <2> DEFINE b1 == beamMasterLast'
             w1 == walk'
             o1 == owed'
  <2>4. /\ w1 \in Nat /\ o1 \in Nat /\ Span \in Nat
        /\ b1 = beamMasterLast + Span /\ w1 + o1 = walk - Span + owed
    BY <1>1, <1>3, <1>5, <2>2, Zenon
  <2> HIDE DEF b1, w1, o1
  <2>5. b1 + w1 + o1 <= masterCycles
    BY <2>2, <2>3, <2>4
  <2> QED BY <2>1, <2>5 DEF NeverAhead, b1, w1, o1
<1>8. TypeOK'
  <2>1. UNCHANGED <<inIrq, hIrqEnabled, vIrqEnabled, hTimer, vTimer, masterCycles>>
    BY DEF WalkSpan, regs
  <2>2. beamMasterLast' \in Nat
    BY <1>1, <1>3 DEF TypeOK
  <2> QED BY <1>3, <1>4, <1>5, <1>6, <2>1, <2>2, Zenon DEF TypeOK
<1> QED BY <1>3, <1>4, <1>6, <1>7, <1>8 DEF SlotPerLine

\* An iteration that latches.  It ends on neither edge of the line, so it owes
\* no slot and no table reload.
LEMMA WalkToMatchKeepsInv ==
  ASSUME Inv, WalkToMatch
  PROVE  Inv'
<1> USE DEF Inv
<1> DEFINE upto == Target - hPos + 1
<1>1. /\ Span \in Nat /\ Span >= 1 /\ Span <= walk
      /\ hPos + Span <= LineClocks
      /\ vPos < VBlankLine /\ hPos < HBlank => hPos + Span <= HBlank
  BY SpanBounds DEF WalkToMatch
<1>2. hPos \in Nat /\ vPos \in Nat /\ Target \in Nat
  <2>1. hTimer \in Nat /\ Dot \in Nat
    BY WidthAssumption, DotAssumption DEF TypeOK, Timer
  <2>2. hTimer * Dot \in Nat
    BY <2>1
  <2> QED BY <2>2, GeometryAssumption DEF TypeOK, Target
<1>3. Target >= hPos /\ Target < hPos + Span
  BY DEF WalkToMatch, MatchInSpan
<1>4. upto \in Nat /\ upto >= 1 /\ upto <= Span /\ hPos + upto = Target + 1
  BY <1>1, <1>2, <1>3
<1>5. Target + 1 # HBlank /\ Target + 1 # LineClocks
  <2>1. CASE hIrqEnabled
    <3>1. hTimer \in Nat
      BY WidthAssumption DEF TypeOK, Timer
    <3> QED BY <2>1, <3>1, MatchOffEdge DEF Target
  <2>2. CASE ~hIrqEnabled
    <3>1. 0 * Dot = 0 /\ 0 \in Nat
      BY DotAssumption
    <3> QED BY <2>2, <3>1, MatchOffEdge DEF Target
  <2> QED BY <2>1, <2>2
<1>6. MoveBeam(upto)
  BY DEF WalkToMatch
<1>7. /\ hPos' \in 0 .. LineClocks - 1 /\ vPos' \in 0 .. Lines - 1
      /\ inVblank' \in BOOLEAN
      /\ beamMasterLast' = beamMasterLast + upto
      /\ fields' \in Nat
      /\ BeamOnClock'
  BY <1>1, <1>2, <1>4, <1>6, MoveKeepsClock, GeometryAssumption
<1>8. /\ autoJoyRead' \in BOOLEAN /\ autoJoyTimer' \in 0 .. JoyClocks
      /\ joyClock' \in Nat \cup {NoJoy}
      /\ JoyPast' /\ JoyNeverOverstays'
  BY <1>1, <1>4, <1>7, JoyStep DEF WalkToMatch
<1>9. walk' \in 0 .. Chunk /\ owed' \in Nat /\ walk' + owed' <= walk - upto + owed
  <2>1. walk \in 0 .. Chunk /\ owed \in Nat
    BY DEF TypeOK
  <2>2. CASE upto = walk
    BY <2>1, <2>2, NextChunkBounds DEF WalkToMatch
  <2>3. CASE upto # walk
    BY <1>1, <1>4, <2>1, <2>3, WidthAssumption DEF WalkToMatch
  <2> QED BY <2>2, <2>3
<1>10. slots' = SlotsDue' /\ slots' \in 0 .. VBlankLine
  <2> USE GeometryAssumption
  <2>1. hPos' = Target + 1 /\ vPos' = vPos
    BY <1>1, <1>2, <1>4, <1>5, <1>6 DEF MoveBeam
  <2>2. slots' = slots
    BY DEF WalkToMatch
  <2>3. (Target + 1 >= HBlank) = (hPos >= HBlank) \/ vPos >= VBlankLine
    BY <1>1, <1>2, <1>3, <1>5
  <2>4. slots = SlotsDue /\ slots \in 0 .. VBlankLine
    BY DEF SlotPerLine, TypeOK
  <2> QED BY <1>2, <2>1, <2>2, <2>3, <2>4 DEF SlotsDue
<1>11. NeverAhead'
  BY <1>1, <1>4, <1>7, <1>9, WidthAssumption DEF NeverAhead, WalkToMatch, TypeOK
<1>12. TypeOK'
  <2>1. UNCHANGED <<hIrqEnabled, vIrqEnabled, hTimer, vTimer, masterCycles>>
    BY DEF WalkToMatch, regs
  <2>2. beamMasterLast' \in Nat
    BY <1>4, <1>7 DEF TypeOK
  <2>3. inIrq' \in BOOLEAN
    BY DEF WalkToMatch
  <2> QED BY <1>7, <1>8, <1>9, <1>10, <2>1, <2>2, <2>3, Zenon DEF TypeOK
<1> QED BY <1>7, <1>8, <1>10, <1>11, <1>12 DEF SlotPerLine
\* What the CPU does between walks.
LEMMA SyncBounds ==
  ASSUME NEW m \in Nat, TypeOK, Idle, Sync(m), beamMasterLast + walk + owed <= m
  PROVE  walk' \in 0 .. Chunk /\ owed' \in Nat /\ beamMasterLast + walk' + owed' <= m
<1>1. walk = 0 /\ owed \in Nat /\ beamMasterLast \in Nat /\ Chunk \in Nat
  BY WidthAssumption DEF TypeOK, Idle
<1>2. CASE m <= beamMasterLast
  BY <1>1, <1>2 DEF Sync
<1>3. CASE m > beamMasterLast
  <2>1. walk' = LesserOf(Chunk, m - beamMasterLast) /\ owed' = m - beamMasterLast - walk'
    BY <1>1, <1>3 DEF Sync
  <2>2. walk' \in 0 .. Chunk /\ walk' <= m - beamMasterLast
    BY <1>1, <1>3, <2>1 DEF LesserOf
  <2> QED BY <1>1, <2>1, <2>2
<1> QED BY <1>1, <1>2, <1>3

LEMMA CpuKeepsInv ==
  ASSUME Inv,
         \/ \E n \in CpuCharges : Elapse(n)
         \/ ReadHvbjoy
         \/ \E h, v, j \in BOOLEAN : WriteNmitimen(h, v, j)
         \/ \E b \in 0 .. Byte - 1 : WriteHTimer(b) \/ WriteVTimer(b)
         \/ ReadTimeup
  PROVE  Inv'
<1> USE DEF Inv
<1>1. ASSUME NEW n \in CpuCharges, Elapse(n) PROVE Inv'
  <2>1. n \in Nat /\ masterCycles \in Nat /\ MaxClock \in Nat
    BY WidthAssumption DEF TypeOK
  <2>2. masterCycles' \in 0 .. MaxClock /\ masterCycles <= masterCycles'
    BY <1>1, <2>1 DEF Elapse
  <2>3. beamMasterLast + walk + owed <= masterCycles'
    BY <2>1, <2>2, WidthAssumption DEF NeverAhead, TypeOK
  <2>4. walk' \in 0 .. Chunk /\ owed' \in Nat
        /\ beamMasterLast + walk' + owed' <= masterCycles'
    BY <1>1, <2>2, <2>3, SyncBounds, WidthAssumption DEF Elapse
  <2>5. UNCHANGED <<hPos, vPos, inVblank, inIrq, hIrqEnabled, vIrqEnabled, hTimer, vTimer,
                    autoJoyRead, autoJoyTimer, joyClock, beamMasterLast, fields, slots>>
    BY <1>1 DEF Elapse, pos, regs, joy, hist
  <2>6. TypeOK'
    BY <2>2, <2>4, <2>5, Zenon DEF TypeOK
  <2> QED BY <2>4, <2>5, <2>6 DEF BeamOnClock, SlotPerLine, SlotsDue, NeverAhead,
                                  JoyPast, JoyNeverOverstays
<1>2. ASSUME ReadHvbjoy PROVE Inv'
  <2>1. masterCycles \in Nat /\ masterCycles' = masterCycles
    BY <1>2, WidthAssumption DEF TypeOK, ReadHvbjoy
  <2>2. walk' \in 0 .. Chunk /\ owed' \in Nat
        /\ beamMasterLast + walk' + owed' <= masterCycles
    BY <1>2, <2>1, SyncBounds DEF ReadHvbjoy, NeverAhead
  <2>3. UNCHANGED <<hPos, vPos, inVblank, inIrq, hIrqEnabled, vIrqEnabled, hTimer, vTimer,
                    autoJoyRead, autoJoyTimer, joyClock, beamMasterLast, fields, slots>>
    BY <1>2 DEF ReadHvbjoy, pos, regs, joy, hist
  <2>4. TypeOK'
    BY <2>1, <2>2, <2>3, Zenon DEF TypeOK
  <2> QED BY <2>1, <2>2, <2>3, <2>4 DEF BeamOnClock, SlotPerLine, SlotsDue, NeverAhead,
                                        JoyPast, JoyNeverOverstays
<1>3. ASSUME NEW h \in BOOLEAN, NEW v \in BOOLEAN, NEW j \in BOOLEAN,
             WriteNmitimen(h, v, j)
      PROVE  Inv'
  <2>1. UNCHANGED <<hPos, vPos, inVblank, hTimer, vTimer, beamMasterLast, masterCycles,
                    walk, owed, fields, slots>>
    BY <1>3 DEF WriteNmitimen, pos, hist
  <2>2. hIrqEnabled' \in BOOLEAN /\ vIrqEnabled' \in BOOLEAN /\ autoJoyRead' \in BOOLEAN
        /\ inIrq' \in BOOLEAN
    BY <1>3, Zenon DEF WriteNmitimen, TypeOK
  <2>3. /\ autoJoyTimer' \in 0 .. JoyClocks /\ joyClock' \in Nat \cup {NoJoy}
        /\ JoyPast' /\ JoyNeverOverstays'
    <3>1. CASE j
      <4>1. autoJoyTimer' = autoJoyTimer /\ joyClock' = joyClock
        BY <1>3, <3>1 DEF WriteNmitimen
      <4> QED BY <2>1, <4>1 DEF TypeOK, JoyPast, JoyNeverOverstays
    <3>2. CASE ~j
      <4>1. autoJoyTimer' = 0 /\ joyClock' = NoJoy
        BY <1>3, <3>2 DEF WriteNmitimen
      <4> QED BY <4>1, WidthAssumption DEF JoyPast, JoyNeverOverstays
    <3> QED BY <3>1, <3>2
  <2>4. TypeOK'
    BY <2>1, <2>2, <2>3, Zenon DEF TypeOK
  <2> QED BY <2>1, <2>3, <2>4 DEF BeamOnClock, SlotPerLine, SlotsDue, NeverAhead
<1>4. ASSUME NEW b \in 0 .. Byte - 1, WriteHTimer(b) \/ WriteVTimer(b) PROVE Inv'
  <2>1. UNCHANGED <<hPos, vPos, inVblank, inIrq, hIrqEnabled, vIrqEnabled, autoJoyRead,
                    autoJoyTimer, joyClock, beamMasterLast, masterCycles, walk, owed,
                    fields, slots>>
    BY <1>4 DEF WriteHTimer, WriteVTimer, pos, joy, hist
  <2>2. hTimer' \in Timer /\ vTimer' \in Timer
    BY <1>4, TimerWrite DEF WriteHTimer, WriteVTimer, TypeOK
  <2>3. TypeOK'
    BY <2>1, <2>2, Zenon DEF TypeOK
  <2> QED BY <2>1, <2>3 DEF BeamOnClock, SlotPerLine, SlotsDue, NeverAhead, JoyPast,
                            JoyNeverOverstays
<1>5. ASSUME ReadTimeup PROVE Inv'
  <2>1. UNCHANGED <<hPos, vPos, inVblank, hIrqEnabled, vIrqEnabled, hTimer, vTimer,
                    autoJoyRead, autoJoyTimer, joyClock, beamMasterLast, masterCycles,
                    walk, owed, fields, slots>>
    BY <1>5 DEF ReadTimeup, pos, regs, joy, hist
  <2>2. inIrq' \in BOOLEAN
    BY <1>5 DEF ReadTimeup
  <2>3. TypeOK'
    BY <2>1, <2>2, Zenon DEF TypeOK
  <2> QED BY <2>1, <2>3 DEF BeamOnClock, SlotPerLine, SlotsDue, NeverAhead, JoyPast,
                            JoyNeverOverstays
<1> QED BY <1>1, <1>2, <1>3, <1>4, <1>5

LEMMA InitInv == Init => Inv
<1> SUFFICES ASSUME Init PROVE Inv
  OBVIOUS
<1> USE GeometryAssumption, WidthAssumption DEF Init
<1>1. TypeOK
  <2>1. hPos \in 0 .. LineClocks - 1 /\ vPos \in 0 .. Lines - 1
    OBVIOUS
  <2>2. 2 * Byte - 1 \in Timer
    BY DEF Timer
  <2>3. autoJoyTimer \in 0 .. JoyClocks /\ masterCycles \in 0 .. MaxClock
        /\ walk \in 0 .. Chunk /\ slots \in 0 .. VBlankLine
        /\ beamMasterLast \in Nat /\ owed \in Nat /\ fields \in Nat
    OBVIOUS
  <2> QED BY <2>1, <2>2, <2>3, Zenon DEF TypeOK
<1>2. BeamOnClock
  <2>1. Field \in Nat
    BY DEF Field
  <2> QED BY <2>1 DEF BeamOnClock
<1> QED BY <1>1, <1>2 DEF Inv, SlotPerLine, SlotsDue, NeverAhead, JoyPast, JoyNeverOverstays

LEMMA NextInv == Inv /\ [Next]_vars => Inv'
<1> SUFFICES ASSUME Inv, [Next]_vars PROVE Inv'
  OBVIOUS
<1>1. CASE WalkToMatch
  BY <1>1, WalkToMatchKeepsInv
<1>2. CASE WalkSpan
  BY <1>2, WalkSpanKeepsInv
<1>3. CASE UNCHANGED vars
  BY <1>3 DEF vars, pos, regs, joy, hist, Inv, TypeOK, BeamOnClock, SlotPerLine, SlotsDue,
              NeverAhead, JoyPast, JoyNeverOverstays
<1> QED BY <1>1, <1>2, <1>3, CpuKeepsInv DEF Next

\* The beam's state keeps its types: in particular the position stays inside the
\* field and a timer inside its nine bits, for every geometry.
THEOREM BeamTypes == Spec => []TypeOK
BY InitInv, NextInv, PTL DEF Spec, Inv

\* The position is the clock (snes_advance_beam's `consumed`): no latch, however
\* the timers are programmed, loses or repeats beam time.
THEOREM BeamClockCorrect == Spec => []BeamOnClock
BY InitInv, NextInv, PTL DEF Spec, Inv

\* HDMA runs exactly once per visible line reached (dma_doHdma in the walk),
\* however the comparator cuts the walks.
THEOREM HdmaSlotPerLine == Spec => []SlotPerLine
BY InitInv, NextInv, PTL DEF Spec, Inv

\* The beam never runs ahead of the CPU (snes_sync_master_clock).
THEOREM BeamBehindCpu == Spec => []NeverAhead
BY InitInv, NextInv, PTL DEF Spec, Inv

\* The automatic joypad read's busy flag never outlasts its window.
THEOREM JoyBounded == Spec => []JoyNeverOverstays
BY InitInv, NextInv, PTL DEF Spec, Inv
---------------------------------------------------------------------------
(* The predictor and the walk.                                             *)

\* A set of line counts has a least one.
LEMMA LeastLine ==
  ASSUME NEW X \in SUBSET Nat, X # {}
  PROVE  \E i \in X : \A k \in X : i <= k
<1> DEFINE R == {ss \in Nat \X Nat : ss[1] < ss[2]}
<1>1. \A x, y \in Nat : y < x => <<y, x>> \in R
  OBVIOUS
<1>2. IsWellFoundedOn(R, Nat)
  BY NatLessThanWellFounded DEF OpToRel
<1> HIDE DEF R
<1>3. PICK i \in X : \A k \in X : ~ (<<k, i>> \in R)
  BY <1>2, WFMin
<1>4. \A k \in X : ~ (k < i)
  BY <1>1, <1>3
<1>5. \A k \in X : i <= k
  BY <1>4
<1>. QED BY <1>5

\* What snes_next_irq_master() answers while the beam's line is still to match: a
\* clock on this line. Otherwise none, or one past the end of the line.
LEMMA NextIrqBounds ==
  ASSUME TypeOK
  PROVE  /\ NextIrqMaster \in Int
         /\ Armed /\ LineMatches(vPos) /\ Target < LineClocks /\ Target >= hPos
            => NextIrqMaster = beamMasterLast + Target - hPos
         /\ NextIrqMaster # -1 /\ ~(LineMatches(vPos) /\ Target >= hPos)
            => NextIrqMaster >= beamMasterLast + LineClocks - hPos
         /\ NextIrqMaster # -1 => Armed /\ Target < LineClocks
<1> DEFINE lineAt(i) == (vPos + i) % Lines
           from(i)   == IF i = 0 THEN hPos ELSE 0
           hit == {i \in 0 .. Lines : LineMatches(lineAt(i)) /\ Target >= from(i)}
           first == CHOOSE i \in hit : \A k \in hit : i <= k
<1>1. /\ hPos \in Nat /\ vPos \in Nat /\ vPos < Lines /\ Lines \in Nat /\ LineClocks \in Nat
      /\ beamMasterLast \in Nat /\ Target \in Nat /\ hPos < LineClocks
  <2>1. hTimer \in Nat /\ Dot \in Nat
    BY WidthAssumption, DotAssumption DEF TypeOK, Timer
  <2>2. hTimer * Dot \in Nat
    BY <2>1
  <2>. QED BY <2>2, GeometryAssumption DEF TypeOK, Target
<1>2. NextIrqMaster = IF ~Armed \/ Target >= LineClocks \/ hit = {}
                      THEN -1 ELSE beamMasterLast + first * LineClocks + Target - hPos
  BY DEF NextIrqMaster
<1>3. 0 \in hit <=> LineMatches(vPos) /\ Target >= hPos
  <2>1. lineAt(0) = vPos
    BY <1>1
  <2>. QED BY <1>1, <2>1
<1>4. hit \in SUBSET Nat
  BY <1>1
<1>. HIDE DEF hit
<1>5. hit # {} => /\ first \in hit /\ \A k \in hit : first <= k
                  /\ first \in Nat
  BY <1>4, LeastLine
<1>. HIDE DEF first
<1>6. ASSUME 0 \in hit, Armed, Target < LineClocks
      PROVE  NextIrqMaster = beamMasterLast + Target - hPos
  <2>1. first = 0
    BY <1>5, <1>6
  <2>. QED BY <1>1, <1>2, <1>6, <2>1
<1>7. ASSUME 0 \notin hit, NextIrqMaster # -1
      PROVE  NextIrqMaster >= beamMasterLast + LineClocks - hPos
  <2>1. first \in Nat /\ first >= 1
    BY <1>2, <1>5, <1>7
  <2>2. first * LineClocks >= LineClocks
    BY <1>1, <2>1
  <2>3. NextIrqMaster = beamMasterLast + first * LineClocks + Target - hPos
    BY <1>2, <1>7
  <2> DEFINE n == first * LineClocks
  <2>4. n \in Nat
    BY <1>1, <2>1
  <2>. HIDE DEF n
  <2>. QED BY <1>1, <2>2, <2>3, <2>4 DEF n
<1>8. NextIrqMaster # -1 => Armed /\ Target < LineClocks
  BY <1>1, <1>2
<1>9. NextIrqMaster \in Int
  <2>1. hit # {} => first * LineClocks \in Nat
    BY <1>1, <1>5
  <2>. QED BY <1>1, <1>2, <2>1
<1>. QED BY <1>3, <1>6, <1>7, <1>8, <1>9

\* The match test of the walk and snes_next_irq_master() agree, for every geometry and
\* whatever the timers hold: a walk stops one clock past the clock predicted for it,
\* and a walk that does not reach that clock leaves the latch alone.
THEOREM WalkStopsAtMatch == Spec => StopsAtMatch
<1>1. ASSUME Inv, [Next]_vars, beamMasterLast' # beamMasterLast
      PROVE  IF NextIrqMaster # -1 /\ NextIrqMaster < beamMasterLast'
             THEN inIrq' /\ beamMasterLast' = NextIrqMaster + 1
             ELSE inIrq' = inIrq
  <2>1. TypeOK
    BY <1>1 DEF Inv
  <2>2. /\ hPos \in Nat /\ beamMasterLast \in Nat /\ LineClocks \in Nat /\ Target \in Nat
    <3>1. hTimer \in Nat /\ Dot \in Nat
      BY <2>1, WidthAssumption, DotAssumption DEF TypeOK, Timer
    <3>2. hTimer * Dot \in Nat
      BY <3>1
    <3>. QED BY <2>1, <3>2, GeometryAssumption DEF TypeOK, Target
  <2>3. WalkToMatch \/ WalkSpan
    BY <1>1 DEF Next, vars, pos, regs, joy, hist, Elapse, ReadHvbjoy, WriteNmitimen,
                WriteHTimer, WriteVTimer, ReadTimeup
  <2>4. CASE WalkToMatch
    <3>1. NextIrqMaster = beamMasterLast + Target - hPos
      BY <2>1, <2>4, NextIrqBounds DEF WalkToMatch, MatchInSpan
    <3>2. beamMasterLast' = beamMasterLast + (Target - hPos + 1) /\ inIrq'
      BY <2>4 DEF WalkToMatch, MoveBeam
    <3>3. Target >= hPos
      BY <2>4 DEF WalkToMatch, MatchInSpan
    <3>4. beamMasterLast' = NextIrqMaster + 1 /\ NextIrqMaster < beamMasterLast'
          /\ NextIrqMaster # -1
      BY <2>2, <3>1, <3>2, <3>3
    <3>. QED BY <3>2, <3>4, Zenon
  <2>5. CASE WalkSpan
    <3>1. /\ Span \in Nat /\ hPos + Span <= LineClocks
      BY <2>1, <2>5, SpanBounds DEF WalkSpan
    <3>2. beamMasterLast' = beamMasterLast + Span /\ inIrq' = inIrq
      BY <2>5 DEF WalkSpan, MoveBeam
    <3>. NextIrqMaster \in Int
      BY <2>1, NextIrqBounds
    <3>3. NextIrqMaster # -1 => NextIrqMaster >= beamMasterLast + Span
      <4>1. CASE LineMatches(vPos) /\ Target >= hPos
        <5>1. NextIrqMaster # -1
              => NextIrqMaster = beamMasterLast + Target - hPos /\ Target >= hPos + Span
          <6>1. NextIrqMaster # -1 => Armed /\ Target < LineClocks
            BY <2>1, NextIrqBounds
          <6>2. NextIrqMaster # -1 => NextIrqMaster = beamMasterLast + Target - hPos
            BY <2>1, <4>1, <6>1, NextIrqBounds
          <6>3. NextIrqMaster # -1 => ~(Target < hPos + Span)
            BY <2>5, <4>1, <6>1 DEF WalkSpan, MatchInSpan
          <6>. QED BY <2>2, <3>1, <6>2, <6>3
        <5>. QED BY <2>2, <3>1, <5>1
      <4>2. CASE ~(LineMatches(vPos) /\ Target >= hPos)
        <5>1. NextIrqMaster # -1 => NextIrqMaster >= beamMasterLast + LineClocks - hPos
          BY <2>1, <4>2, NextIrqBounds
        <5>2. beamMasterLast + LineClocks - hPos >= beamMasterLast + Span
          BY <2>2, <3>1
        <5>. QED BY <2>2, <3>1, <5>1, <5>2
      <4>. QED BY <4>1, <4>2
    <3>4. ~(NextIrqMaster # -1 /\ NextIrqMaster < beamMasterLast')
      BY <2>2, <3>1, <3>2, <3>3
    <3>. QED BY <3>2, <3>4, Zenon
  <2>. QED BY <2>3, <2>4, <2>5
<1>2. Spec => []Inv
  BY InitInv, NextInv, PTL DEF Spec
<1>. QED BY <1>1, <1>2, PTL DEF Spec, StopsAtMatch
===========================================================================
