---------------------------- MODULE AudioProofs ----------------------------
(***************************************************************************)
(* The audio path proved for every size of the ring, the blocks and the    *)
(* fades and every ratio the servo may choose: cursors that count modulo   *)
(* Width stay in order whatever is saved, loaded, run ahead and rolled     *)
(* back between callbacks; a block interpolates with what is queued; and   *)
(* without such commands the ring is the queue of AudioQueue.              *)
(***************************************************************************)
EXTENDS AudioRing, Modular, SequenceTheorems, TLAPS

\* The distance from cursor b up to cursor a.
Diff(a, b) == (a - b) % Width
Fill(r)    == Diff(r.write, r.read)

Snapshots == {saved, blob, lifted} \ {None}

\* Where the main thread is, and what it holds there.
Phases ==
  /\ pc \in {"frame", "loadedState", "ahead", "rewound", "lifted", "loaded",
             "resetWrite", "resetRead"}
  /\ pc \in {"ahead", "rewound", "lifted", "loaded"} => blob # None
  /\ pc \in {"lifted", "loaded"} => lifted # None

\* The producer stands no more than the ring ahead of the consumer, and neither
\* stood any snapshot's.
Filled ==
  ~spoilt => /\ pc # "resetWrite" => Available <= Ring
            /\ \A r \in Snapshots : Fill(r) <= Ring

\* Between the halves of a block what it peeked and retires is still queued.
Held == block # None /\ ~spoilt => block.retire <= Available /\ block.peek <= Available

\* A reset between its two stores.
HalfReset == pc = "resetWrite" => sampleWrite = 0 /\ (~spoilt => Unlocked)

\* The consumer on its way from the cursor a run-ahead will go back to: before
\* it, or as far past it as the samples produced since and not yet played.
Ahead ==
  pc = "ahead" /\ ~spoilt =>
    LET since == Diff(sampleWrite, mark)
    IN  /\ since <= Speculated
        /\ \/ Diff(mark, sampleRead) + since = Available
           \/ Diff(sampleRead, mark) + Available = since

Inv == TypeOK /\ Phases /\ Filled /\ Held /\ HalfReset /\ Ahead

---------------------------------------------------------------------------
(* Cursors.                                                                *)

Cursors == 0 .. Width - 1

\* The constants as numbers.
LEMMA Constants ==
  /\ Ring \in Nat \ {0} /\ Width \in Nat \ {0} /\ Ring < Width
  /\ Width \div 2 \in Nat /\ Width <= 2 * (Width \div 2) + 1 /\ Width >= 2 * (Width \div 2)
  /\ Speculated \in Nat /\ Speculated <= Width \div 2
  /\ Width \div 2 < Width
BY AudioAssumption

\* A distance of cursors is a number below Width.
LEMMA Diffs ==
  ASSUME NEW a \in Cursors, NEW b \in Cursors
  PROVE  /\ Diff(a, b) \in Cursors
         /\ Diff(a, b) = IF a >= b THEN a - b ELSE a - b + Width
<1>1. CASE a >= b
  <2>1. a - b \in 0 .. Width - 1
    BY <1>1, Constants DEF Cursors
  <2> QED BY <1>1, <2>1, ModSmall, Constants DEF Diff, Cursors
<1>2. CASE a < b
  <2>1. a - b + Width \in 0 .. Width - 1 /\ (a - b + Width) - Width = a - b
    BY <1>2, Constants DEF Cursors
  <2>2. ((a - b + Width) - Width) % Width = a - b + Width
    BY <2>1, ModSmall, Constants
  <2> QED BY <1>2, <2>1, <2>2 DEF Diff, Cursors
<1> QED BY <1>1, <1>2 DEF Cursors

\* Where a cursor is that has moved on.
LEMMA Moves ==
  ASSUME NEW a \in Cursors, NEW n \in Cursors
  PROVE  /\ (a + n) % Width \in Cursors
         /\ (a + n) % Width = IF a + n < Width THEN a + n ELSE a + n - Width
<1>1. CASE a + n < Width
  <2>1. a + n \in 0 .. Width - 1
    BY <1>1, Constants DEF Cursors
  <2> QED BY <1>1, <2>1, ModSmall, Constants DEF Cursors
<1>2. CASE a + n >= Width
  <2> DEFINE s == a + n - Width
  <2>1. s \in 0 .. Width - 1 /\ s + Width = a + n
    BY <1>2, Constants DEF Cursors
  <2>2. ~(a + n < Width)
    BY <1>2, Constants DEF Cursors
  <2>3. \A v \in 0 .. Width - 1 : (v + Width) % Width = v
    BY ModSmall, Constants
  <2>4. (a + n) % Width = s
    <3> HIDE DEF s
    <3> QED BY <2>1, <2>3
  <2> QED BY <2>1, <2>2, <2>4 DEF Cursors
<1> QED BY <1>1, <1>2, Constants DEF Cursors

\* The fill, and what one sample more and n samples fewer make of a distance.
LEMMA Fills ==
  ASSUME TypeOK
  PROVE  /\ sampleWrite \in Cursors /\ sampleRead \in Cursors /\ mark \in Cursors
         /\ Available = Diff(sampleWrite, sampleRead) /\ Available \in Cursors
         /\ Available = Fill(RingNow)
<1>1. sampleWrite \in Cursors /\ sampleRead \in Cursors /\ mark \in Cursors
  BY DEF TypeOK, RingNow, Cursors
<1> QED BY <1>1, Diffs DEF Available, Diff, Fill, RingNow

\* A cursor moved on by one is one further away.
LEMMA OneMore ==
  ASSUME NEW a \in Cursors, NEW b \in Cursors, Diff(a, b) + 1 < Width
  PROVE  Diff((a + 1) % Width, b) = Diff(a, b) + 1
<1>1. 1 \in Cursors
  BY Constants DEF Cursors
<1>2. (a + 1) % Width \in Cursors
      /\ (a + 1) % Width = IF a + 1 < Width THEN a + 1 ELSE a + 1 - Width
  BY <1>1, Moves
<1> DEFINE w == (a + 1) % Width
<1> HIDE DEF w
<1>3. w \in Cursors /\ w = IF a + 1 < Width THEN a + 1 ELSE a + 1 - Width
  BY <1>2 DEF w
<1>4. Diff(w, b) = IF w >= b THEN w - b ELSE w - b + Width
  BY <1>3, Diffs
<1>5. Diff(a, b) = IF a >= b THEN a - b ELSE a - b + Width
  BY Diffs
<1> DEFINE before == Diff(a, b)
           after  == Diff(w, b)
<1> HIDE DEF before, after
<1>6. after = before + 1
  BY <1>3, <1>4, <1>5, Constants DEF Cursors, before, after
<1> QED BY <1>6 DEF before, after, w

\* How the distance to a cursor changes when it moves on.
LEMMA NFewer ==
  ASSUME NEW a \in Cursors, NEW b \in Cursors, NEW n \in Cursors
  PROVE  LET moved == (b + n) % Width
         IN  /\ n <= Diff(a, b) => Diff(a, moved) = Diff(a, b) - n
             /\ n > Diff(a, b) => Diff(moved, a) = n - Diff(a, b)
             /\ Diff(b, a) + n < Width => Diff(moved, a) = Diff(b, a) + n
<1> DEFINE m == (b + n) % Width
<1>1. m \in Cursors /\ m = IF b + n < Width THEN b + n ELSE b + n - Width
  BY Moves
<1> HIDE DEF m
<1>2. /\ Diff(a, b) = IF a >= b THEN a - b ELSE a - b + Width
      /\ Diff(b, a) = IF b >= a THEN b - a ELSE b - a + Width
      /\ Diff(a, m) = IF a >= m THEN a - m ELSE a - m + Width
      /\ Diff(m, a) = IF m >= a THEN m - a ELSE m - a + Width
  BY <1>1, Diffs
<1> DEFINE ab == Diff(a, b)
           ba == Diff(b, a)
           am == Diff(a, m)
           ma == Diff(m, a)
<1> HIDE DEF ab, ba, am, ma
<1>3. /\ n <= ab => am = ab - n
      /\ n > ab => ma = n - ab
      /\ ba + n < Width => ma = ba + n
  BY <1>1, <1>2, Constants DEF Cursors, ab, ba, am, ma
<1> QED BY <1>3 DEF ab, ba, am, ma, m

---------------------------------------------------------------------------
(* A block.                                                                *)

\* rtl_render_native() plays no frame it has not the natives for.
LEMMA Playable ==
  ASSUME TypeOK, NEW ratio \in Ratios
  PROVE  LET n == Usable(ratio)
         IN  /\ n \in 0 .. Frames
             /\ (phase + n * ratio) % Unit \in 0 .. Unit - 1
             /\ (phase + n * ratio) \div Unit \in Nat
             /\ n # 0 => (phase + (n - 1) * ratio) \div Unit + 2 \in 0 .. Available
<1> DEFINE n == Usable(ratio)
           full == phase + (Frames - 1) * ratio
           maxSpan == (Available - 2) * Unit - phase
           q == maxSpan \div ratio
<1>1. /\ Unit \in Nat \ {0} /\ ratio \in Nat \ {0} /\ Frames \in Nat
      /\ phase \in Nat /\ Available \in Int /\ Available >= 0
  <2>1. Available \in Cursors
    BY Fills
  <2>2. phase \in Nat
    BY AudioAssumption DEF TypeOK
  <2> QED BY <2>1, <2>2, Constants, AudioAssumption DEF Cursors
<1>2. full \in Int /\ maxSpan \in Int
  BY <1>1
<1>3. q \in Int /\ (maxSpan > 0 => q >= 0 /\ ratio * q <= maxSpan)
  <2> HIDE DEF maxSpan
  <2>1. maxSpan = ratio * q + (maxSpan % ratio) /\ (maxSpan % ratio) \in 0 .. ratio - 1 /\ q \in Int
    BY <1>1, <1>2, Division
  <2>2. maxSpan >= 0 => q >= 0
    BY <1>1, <1>2, DivBound
  <2> QED BY <1>1, <1>2, <2>1, <2>2
<1>4. n = IF Available >= full \div Unit + 2 THEN Frames
          ELSE IF maxSpan <= 0 THEN 0 ELSE AtMost(q + 1, Frames)
  BY DEF Usable, Need
<1> HIDE DEF n, full, maxSpan, q
<1>5. n \in 0 .. Frames
  BY <1>1, <1>2, <1>3, <1>4 DEF AtMost
<1>6. n * ratio \in Nat /\ phase + n * ratio \in Nat
  BY <1>1, <1>5
<1>7. (phase + n * ratio) % Unit \in 0 .. Unit - 1 /\ (phase + n * ratio) \div Unit \in Nat
  <2> DEFINE y == phase + n * ratio
  <2>1. y \in Int /\ y >= 0
    BY <1>6
  <2> HIDE DEF y
  <2>2. y % Unit \in 0 .. Unit - 1 /\ y \div Unit \in Int /\ y \div Unit >= 0
    BY <1>1, <2>1, Division, DivBound
  <2> QED BY <2>2 DEF y
<1>8. ASSUME n # 0
      PROVE  (phase + (n - 1) * ratio) \div Unit + 2 \in 0 .. Available
  <2> DEFINE y == phase + (n - 1) * ratio
  <2>1. y \in Int /\ y >= 0
    <3>1. n - 1 \in Nat
      BY <1>5, <1>8
    <3> DEFINE k == n - 1
    <3> HIDE DEF k
    <3>2. k * ratio \in Nat
      BY <1>1, <3>1 DEF k
    <3> QED BY <1>1, <3>2 DEF k
  <2>2. y \div Unit >= 0 /\ y \div Unit \in Int
    <3> HIDE DEF y
    <3> QED BY <1>1, <2>1, Division, DivBound
  <2>3. y \div Unit + 2 <= Available
    <3>1. CASE Available >= full \div Unit + 2
      <4>1. n = Frames
        BY <1>4, <3>1
      <4> QED BY <3>1, <4>1 DEF full
    <3>2. CASE ~(Available >= full \div Unit + 2)
      <4>1. maxSpan > 0 /\ n - 1 <= q /\ n - 1 \in Int
        BY <1>1, <1>2, <1>3, <1>4, <1>5, <1>8, <3>2 DEF AtMost
      <4>2. (n - 1) * ratio <= ratio * q
        <5> DEFINE k == n - 1
        <5>0. k <= q /\ k \in Int
          BY <4>1
        <5> HIDE DEF k
        <5>1. ratio * (q - k) >= 0
          BY <1>1, <1>3, <5>0
        <5>2. ratio * (q - k) = ratio * q - k * ratio
          BY <1>1, <1>3, <5>0
        <5>3. k * ratio \in Int /\ ratio * q \in Int
          BY <1>1, <1>3, <5>0
        <5>4. k * ratio <= ratio * q
          BY <5>1, <5>2, <5>3
        <5> QED BY <5>4 DEF k
      <4>3. y <= Unit * (Available - 2) /\ Available - 2 \in Int
        <5>1. (Available - 2) * Unit = Unit * (Available - 2)
          BY <1>1
        <5>2. (n - 1) * ratio \in Int /\ ratio * q \in Int
              /\ Unit * (Available - 2) \in Int
          BY <1>1, <1>3, <4>1
        <5>3. ratio * q <= Unit * (Available - 2) - phase
          BY <1>3, <4>1, <5>1 DEF maxSpan
        <5> QED BY <1>1, <4>2, <5>2, <5>3
      <4> HIDE DEF y
      <4>4. y \div Unit <= Available - 2
        BY <1>1, <2>1, <4>3, DivBound
      <4> QED BY <1>1, <2>2, <4>4
    <3> QED BY <3>1, <3>2
  <2> QED BY <1>1, <2>2, <2>3
<1> QED BY <1>5, <1>7, <1>8 DEF n

---------------------------------------------------------------------------
(* Types.                                                                  *)

Rings == [samples : [0 .. Ring - 1 -> 0 .. Stamps - 1], write : Cursors, read : Cursors]
Blocks == {None} \cup [retire : Cursors, peek : Cursors]

\* The ring in its variables and as a record.
LEMMA RingTyped ==
  /\ TypeOK => sampleBuffer \in [0 .. Ring - 1 -> 0 .. Stamps - 1] /\ RingNow \in Rings
  /\ \A r \in Rings : RingIs(r) => RingNow' = r
<1>1. TypeOK => RingNow \in Rings
  BY DEF TypeOK, Rings, Cursors
<1>2. RingNow \in Rings => sampleBuffer \in [0 .. Ring - 1 -> 0 .. Stamps - 1]
  BY DEF RingNow, Rings
<1>3. ASSUME NEW r \in Rings, RingIs(r) PROVE RingNow' = r
  BY <1>3 DEF RingIs, RingNow, Rings
<1> QED BY <1>1, <1>2, <1>3

\* What a block retires and peeks at is queued, or nothing is known of it.
LEMMA RenderTyped ==
  ASSUME TypeOK, Wait \/ Play
  PROVE  /\ priming' \in BOOLEAN /\ fadeOut' \in 0 .. Fade /\ phase' \in 0 .. Unit - 1
         /\ block' \in [retire : 0 .. Available, peek : 0 .. Available]
<1>1. /\ Available \in Cursors /\ Available \in Nat /\ Fade \in Nat /\ Frames \in Nat
      /\ priming \in BOOLEAN /\ fadeOut \in 0 .. Fade /\ phase \in 0 .. Unit - 1
      /\ Unit \in Nat \ {0}
  <2>1. Available \in Cursors /\ Available \in Nat
    BY Fills, Constants DEF Cursors
  <2> QED BY <2>1, AudioAssumption DEF TypeOK
<1>2. CASE Wait
  BY <1>1, <1>2 DEF Wait
<1>3. CASE Play
  <2>1. PICK ratio \in Ratios :
          LET n     == Usable(ratio)
              total == phase + n * ratio
          IN  /\ block' = [retire |-> AtMost(total \div Unit, Available),
                           peek |-> IF n = 0 THEN 0
                                    ELSE (phase + (n - 1) * ratio) \div Unit + 2]
              /\ priming' = (n < Frames)
              /\ phase' = IF n < Frames THEN 0 ELSE total % Unit
              /\ fadeOut' = IF n = Frames \/ Fade < Frames - n THEN 0
                            ELSE Fade - (Frames - n)
    BY <1>3 DEF Play
  <2> DEFINE n == Usable(ratio)
             k == (phase + n * ratio) \div Unit
             m == (phase + n * ratio) % Unit
             p == (phase + (n - 1) * ratio) \div Unit + 2
  <2>2. n \in 0 .. Frames /\ m \in 0 .. Unit - 1 /\ k \in Nat /\ (n # 0 => p \in 0 .. Available)
    BY Playable
  <2>3. /\ block' = [retire |-> AtMost(k, Available), peek |-> IF n = 0 THEN 0 ELSE p]
        /\ priming' = (n < Frames)
        /\ phase' = IF n < Frames THEN 0 ELSE m
        /\ fadeOut' = IF n = Frames \/ Fade < Frames - n THEN 0 ELSE Fade - (Frames - n)
    BY <2>1
  <2> HIDE DEF n, k, m, p
  <2>4. AtMost(k, Available) \in 0 .. Available /\ (IF n = 0 THEN 0 ELSE p) \in 0 .. Available
    BY <1>1, <2>2 DEF AtMost
  <2> QED BY <1>1, <2>2, <2>3, <2>4
<1> QED BY <1>2, <1>3

\* The path begins well typed.
LEMMA InitTyped == Init => TypeOK /\ Phases
<1> SUFFICES ASSUME Init PROVE TypeOK /\ Phases
  OBVIOUS
<1>1. 0 \in 0 .. Stamps - 1 /\ 0 \in 0 .. Width - 1 /\ 0 \in 0 .. Fade /\ 0 \in 0 .. Unit - 1
  BY AudioAssumption
<1> QED BY <1>1 DEF Init, TypeOK, Phases, RingNow

\* Every step keeps the types.
LEMMA TypedStep ==
  ASSUME TypeOK, Phases, [Next]_vars
  PROVE  TypeOK' /\ Phases'
<1>0. /\ sampleBuffer \in [0 .. Ring - 1 -> 0 .. Stamps - 1]
      /\ sampleWrite \in Cursors /\ sampleRead \in Cursors /\ RingNow \in Rings
      /\ {saved, blob, lifted} \subseteq Rings \cup {None}
      /\ stamp \in 0 .. Stamps - 1 /\ mark \in Cursors
      /\ priming \in BOOLEAN /\ primed \in BOOLEAN
      /\ fadeOut \in 0 .. Fade /\ phase \in 0 .. Unit - 1 /\ block \in Blocks
  <2>1. /\ sampleBuffer \in [0 .. Ring - 1 -> 0 .. Stamps - 1]
        /\ sampleWrite \in Cursors /\ sampleRead \in Cursors /\ RingNow \in Rings
    BY RingTyped, Fills
  <2> QED BY <2>1 DEF TypeOK, Rings, Blocks, Cursors
<1> DEFINE
  Goal ==
    /\ sampleBuffer' \in [0 .. Ring - 1 -> 0 .. Stamps - 1]
    /\ sampleWrite' \in Cursors /\ sampleRead' \in Cursors
    /\ {saved, blob, lifted}' \subseteq Rings \cup {None}
    /\ stamp' \in 0 .. Stamps - 1 /\ mark' \in Cursors
    /\ priming' \in BOOLEAN /\ primed' \in BOOLEAN
    /\ fadeOut' \in 0 .. Fade /\ phase' \in 0 .. Unit - 1 /\ block' \in Blocks
    /\ Phases'
<1> SUFFICES Goal
  BY DEF TypeOK, RingNow, Rings, Blocks, Cursors
<1> USE <1>0 DEF ring, delivery, ahead, main, Unlocked
<1>c. /\ 0 \in Cursors /\ 1 \in Cursors /\ 0 \in 0 .. Stamps - 1 /\ Fade \in 0 .. Fade
      /\ 0 \in 0 .. Unit - 1
  BY Constants, AudioAssumption DEF Cursors
<1>1. CASE DspCycle
  <2>1. (sampleWrite + 1) % Width \in Cursors
    BY <1>c, Moves
  <2>2. (stamp + 1) % Stamps \in 0 .. Stamps - 1
    BY AudioAssumption, Division
  <2> QED BY <1>1, <2>1, <2>2 DEF DspCycle, Push, Phases
<1>2. CASE SilentBlock
  BY <1>2 DEF SilentBlock, vars, Phases
<1>3. CASE RenderBlock
  <2>1. /\ priming' \in BOOLEAN /\ fadeOut' \in 0 .. Fade /\ phase' \in 0 .. Unit - 1
        /\ block' \in [retire : 0 .. Available, peek : 0 .. Available]
    BY <1>3, RenderTyped DEF RenderBlock
  <2>2. 0 .. Available \subseteq Cursors
    BY Fills, Constants DEF Cursors
  <2>3. block' \in Blocks
    BY <2>1, <2>2 DEF Blocks
  <2> QED BY <1>3, <2>1, <2>3 DEF RenderBlock, Phases
<1>4. CASE Retire
  <2>1. block.retire \in Cursors
    BY <1>4 DEF Retire, Blocks
  <2>2. (sampleRead + block.retire) % Width \in Cursors
    BY <2>1, Moves
  <2> QED BY <1>4, <2>2 DEF Retire, Phases, Blocks
<1>5. CASE SaveState
  BY <1>5 DEF SaveState, Step, Phases
<1>6. CASE LoadState
  <2>1. saved \in Rings
    BY <1>6 DEF LoadState
  <2> QED BY <1>6, <1>c, <2>1 DEF LoadState, Step, Phases, RingIs, DeliveryReset, Rings
<1>6a. CASE LoadTorn
  <2>1. /\ saved \in Rings /\ Step("torn", "frame", "frame")
        /\ UNCHANGED <<stamp, delivery, primed, block, saved, ahead>>
    BY <1>6a DEF LoadTorn
  <2>2. /\ sampleBuffer' \in [0 .. Ring - 1 -> 0 .. Stamps - 1]
        /\ sampleWrite' \in Cursors /\ sampleRead' \in Cursors
    <3>1. CASE LoadCutInRing
      BY <2>1, <3>1 DEF LoadCutInRing, Rings
    <3>2. CASE LoadCutInCursors
      BY <2>1, <3>2 DEF LoadCutInCursors, Cut, Rings, Cursors
    <3>3. CASE LoadCutBehind
      BY <2>1, <3>3 DEF LoadCutBehind, RingIs, Rings, Cursors
    <3> QED BY <1>6a, <3>1, <3>2, <3>3 DEF LoadTorn
  <2> QED BY <2>1, <2>2 DEF Step, Phases
<1>7. CASE ResetAudioTimeline
  BY <1>7 DEF ResetAudioTimeline, Step, Phases
<1>8. CASE BeginAhead
  <2>1. RingNow # None
    BY DEF RingNow, None
  <2> QED BY <1>8, <2>1 DEF BeginAhead, Step, Phases
<1>9. CASE RewindProducer
  BY <1>9 DEF RewindProducer, SetWrite, Step, Phases
<1>10. CASE LiftRing
  <2>1. RingNow # None
    BY DEF RingNow, None
  <2> QED BY <1>10, <2>1 DEF LiftRing, Step, Phases
<1>11. CASE LoadBlob
  <2>1. blob \in Rings
    BY <1>11 DEF LoadBlob, Step, Phases
  <2> QED BY <1>11, <1>c, <2>1 DEF LoadBlob, Step, Phases, RingIs, DeliveryReset, Rings
<1>12. CASE RestoreRing
  <2>1. lifted \in Rings
    BY <1>12 DEF RestoreRing, Step, Phases
  <2> QED BY <1>12, <1>c, <2>1 DEF RestoreRing, Step, Phases, RingIs, Rings
<1>13. CASE ResetWrite
  BY <1>13, <1>c DEF ResetWrite, Step, Phases
<1>14. CASE ResetRead
  BY <1>14, <1>c DEF ResetRead, Step, Phases
<1>15. CASE ResetDelivery
  BY <1>15, <1>c DEF ResetDelivery, Step, Phases, DeliveryReset
<1>16. CASE UNCHANGED vars
  BY <1>16 DEF vars, Phases
<1> QED BY <1>1, <1>2, <1>3, <1>4, <1>5, <1>6, <1>6a, <1>7, <1>8, <1>9, <1>10, <1>11, <1>12,
           <1>13, <1>14, <1>15, <1>16 DEF Next

\* Whatever runs between two callbacks, cursors are cursors, the fade stays
\* within its length and a block asks for no more than the cursors can count.
THEOREM Typed == Spec => []TypeOK
<1>1. TypeOK /\ Phases /\ [Next]_vars => TypeOK' /\ Phases'
  BY TypedStep
<1> QED BY InitTyped, <1>1, PTL DEF Spec

---------------------------------------------------------------------------
(* The cursors stay in order.                                              *)

\* The cursors begin in order.
LEMMA InitOrdered == Init => Inv
<1> SUFFICES ASSUME Init PROVE Inv
  OBVIOUS
<1>1. TypeOK /\ Phases
  BY InitTyped
<1>2. Available = 0
  <2>1. sampleWrite = 0 /\ sampleRead = 0
    BY DEF Init
  <2>2. 0 - 0 = 0 /\ 0 % Width = 0
    BY Constants, ModSmall
  <2> QED BY <2>1, <2>2 DEF Available
<1> QED BY <1>1, <1>2, Constants DEF Init, Inv, Filled, Held, HalfReset, Ahead, Snapshots

\* Nothing of the main thread's and nothing of the ring changes.
LEMMA SameRing ==
  ASSUME Inv, TypeOK', Phases', UNCHANGED <<ring, pc, saved, ahead, spoilt>>,
         block' = block \/ block' = None
  PROVE  Inv'
<1>1. Available' = Available
  BY DEF Available, ring
<1> QED BY <1>1 DEF Inv, Filled, Held, HalfReset, Ahead, Snapshots, Unlocked, ring, ahead, Fill, Diff

\* dsp_output_ring_set_write() puts the producer back without passing the
\* consumer, wherever that has come to.
LEMMA ProducerBack ==
  ASSUME Inv, pc = "ahead", ~spoilt, SetWrite(mark), UNCHANGED sampleRead
  PROVE  Available' <= Ring
<1> DEFINE d == Diff(mark, sampleRead)
           e == Diff(sampleRead, mark)
           s == Diff(sampleWrite, mark)
<1>1. /\ sampleWrite \in Cursors /\ sampleRead \in Cursors /\ mark \in Cursors
      /\ Available \in Cursors /\ Available <= Ring
  BY Fills DEF Inv, Filled
<1>2. /\ d = IF mark >= sampleRead THEN mark - sampleRead ELSE mark - sampleRead + Width
      /\ e = IF sampleRead >= mark THEN sampleRead - mark ELSE sampleRead - mark + Width
      /\ d \in Cursors /\ e \in Cursors /\ s \in Cursors
  BY <1>1, Diffs
<1>3. s <= Speculated /\ (d + s = Available \/ e + Available = s)
  BY DEF Inv, Ahead
<1>4. Available' = Diff(sampleWrite', sampleRead)
  BY DEF Available, Diff
<1>5. sampleWrite' = IF d >= Width \div 2 THEN sampleRead ELSE mark
  BY DEF SetWrite, Diff
<1>6. CASE d >= Width \div 2
  <2>1. Diff(sampleRead, sampleRead) = 0
    BY <1>1, Diffs, Constants DEF Cursors
  <2> QED BY <1>4, <1>5, <1>6, <2>1, Constants
<1>7. CASE ~(d >= Width \div 2)
  <2>1. Available' = d
    BY <1>4, <1>5, <1>7
  <2> HIDE DEF d, e, s
  <2>2. d <= Ring
    BY <1>1, <1>2, <1>3, <1>7, Constants DEF Cursors
  <2> QED BY <2>1, <2>2
<1> QED BY <1>6, <1>7

\* Every step keeps the cursors in order.
LEMMA OrderedStep ==
  ASSUME Inv, [Next]_vars
  PROVE  Inv'
<1>0. TypeOK' /\ Phases'
  BY TypedStep DEF Inv
<1>f. /\ sampleWrite \in Cursors /\ sampleRead \in Cursors /\ mark \in Cursors
      /\ Available \in Cursors /\ Available = Diff(sampleWrite, sampleRead)
      /\ Available = Fill(RingNow) /\ Available \in Int /\ Ring \in Int
  BY Fills, Constants DEF Inv, Cursors
<1>g. /\ sampleWrite' \in Cursors /\ sampleRead' \in Cursors
      /\ Available' = Diff(sampleWrite', sampleRead')
  <2>1. sampleWrite' \in Cursors /\ sampleRead' \in Cursors
    BY <1>0 DEF TypeOK, RingNow, Cursors
  <2> QED BY <2>1 DEF Available, Diff
<1>h. /\ RingNow \in Rings
      /\ {saved, blob, lifted} \subseteq Rings \cup {None}
      /\ \A r \in Rings : RingIs(r) => Available' = Fill(r)
  <2>1. RingNow \in Rings /\ {saved, blob, lifted} \subseteq Rings \cup {None}
    BY RingTyped DEF Inv, TypeOK, Rings, Cursors
  <2>2. ASSUME NEW r \in Rings, RingIs(r) PROVE Available' = Fill(r)
    BY <2>2 DEF RingIs, Available, Fill, Diff
  <2> QED BY <2>1, <2>2
<1> USE DEF Unlocked
<1>1. CASE DspCycle
  <2> USE <1>1 DEF DspCycle, Push, main, ahead
  <2>1. Available < Ring /\ Available + 1 < Width
    BY <1>f, Constants DEF Cursors
  <2>2. Available' = Available + 1
    BY <1>f, <1>g, <2>1, OneMore
  <2>3. Available' <= Ring
    BY <1>f, <2>1, <2>2
  <2>4. Filled' /\ Held' /\ HalfReset'
    BY <2>3 DEF Inv, Filled, Held, HalfReset, Snapshots, Fill, Diff
  <2>5. Ahead'
    <3> SUFFICES ASSUME pc = "ahead", ~spoilt PROVE Ahead'
      BY DEF Ahead
    <3> DEFINE s == Diff(sampleWrite, mark)
               d == Diff(mark, sampleRead)
               e == Diff(sampleRead, mark)
    <3>1. s < Speculated /\ s \in Cursors /\ d \in Cursors /\ e \in Cursors
      BY <1>f, Diffs DEF Diff
    <3>2. s + 1 < Width
      BY <3>1, Constants DEF Cursors
    <3>3. Diff(sampleWrite', mark) = s + 1
      BY <1>f, <3>2, OneMore
    <3>4. d + s = Available \/ e + Available = s
      BY DEF Inv, Ahead
    <3>5. Diff(mark', sampleRead') = d /\ Diff(sampleRead', mark') = e
          /\ Diff(sampleWrite', mark') = s + 1
      BY <3>3
    <3> HIDE DEF s, d, e
    <3>6. s + 1 <= Speculated /\ (d + (s + 1) = Available' \/ e + Available' = s + 1)
      BY <1>f, <2>2, <3>1, <3>4, Constants DEF Cursors
    <3>7. /\ Diff(sampleWrite', mark') <= Speculated
          /\ \/ Diff(mark', sampleRead') + Diff(sampleWrite', mark') = Available'
             \/ Diff(sampleRead', mark') + Available' = Diff(sampleWrite', mark')
      BY <3>5, <3>6
    <3> QED BY <3>7 DEF Ahead, Diff
  <2> QED BY <1>0, <2>4, <2>5 DEF Inv
<1>2. CASE SilentBlock
  BY <1>0, <1>2, SameRing DEF SilentBlock, vars, main
<1>3. CASE RenderBlock
  <2> USE <1>3 DEF RenderBlock, main, ahead, ring
  <2>1. Available' = Available
    BY DEF Available
  <2>2. block' \in [retire : 0 .. Available, peek : 0 .. Available]
    BY RenderTyped DEF Inv
  <2>3. block'.retire <= Available' /\ block'.peek <= Available'
    BY <1>f, <2>1, <2>2
  <2>4. Filled' /\ Held'
    BY <2>1, <2>3 DEF Inv, Filled, Held, Snapshots, Fill, Diff
  <2>5. HalfReset' /\ Ahead'
    BY <2>1 DEF Inv, HalfReset, Ahead, Diff
  <2> QED BY <1>0, <2>4, <2>5 DEF Inv
<1>4. CASE Retire
  <2> USE <1>4 DEF Retire, main, ahead
  <2>1. block.retire \in Cursors
    BY DEF Inv, TypeOK, Cursors
  <2>2. Held' /\ HalfReset'
    BY DEF Inv, Held, HalfReset
  <2>3. CASE spoilt
    BY <1>0, <2>2, <2>3 DEF Inv, Filled, Ahead
  <2>4. CASE ~spoilt
    <3> DEFINE n == block.retire
               s == Diff(sampleWrite, mark)
               d == Diff(mark, sampleRead)
               e == Diff(sampleRead, mark)
    <3>1. n <= Available /\ pc # "resetWrite"
      BY <2>4 DEF Inv, Held, HalfReset
    <3>2. sampleRead' = (sampleRead + n) % Width
      OBVIOUS
    <3>n. n \in Cursors
      BY <2>1
    <3> HIDE DEF n
    <3>a. ASSUME NEW a \in Cursors
          PROVE  /\ n <= Diff(a, sampleRead) => Diff(a, sampleRead') = Diff(a, sampleRead) - n
                 /\ n > Diff(a, sampleRead) => Diff(sampleRead', a) = n - Diff(a, sampleRead)
                 /\ Diff(sampleRead, a) + n < Width
                      => Diff(sampleRead', a) = Diff(sampleRead, a) + n
      BY <1>f, <3>2, <3>n, NFewer
    <3>3. Available' = Available - n
      BY <1>f, <1>g, <3>1, <3>a
    <3>4. Available <= Ring
      BY <2>4, <3>1 DEF Inv, Filled
    <3>5. Available' <= Ring /\ n \in Int /\ n >= 0
      BY <1>f, <2>1, <3>3, <3>4, Constants DEF Cursors, n
    <3>6. Filled'
      BY <3>5 DEF Inv, Filled, Snapshots, Fill, Diff
    <3>7. Ahead'
      <4> SUFFICES ASSUME pc = "ahead" PROVE Ahead'
        BY DEF Ahead
      <4>1. s <= Speculated /\ (d + s = Available \/ e + Available = s)
        BY <2>4 DEF Inv, Ahead
      <4>2. s \in Cursors /\ d \in Cursors /\ e \in Cursors
        BY <1>f, Diffs
      <4>3. /\ n <= d => Diff(mark, sampleRead') = d - n
            /\ n > d => Diff(sampleRead', mark) = n - d
            /\ e + n < Width => Diff(sampleRead', mark) = e + n
        BY <1>f, <3>a
      <4>4. Diff(sampleWrite', mark') = s /\ mark' = mark
        OBVIOUS
      <4> HIDE DEF s, d, e
      <4>5. CASE d + s = Available
        <5>1. CASE n <= d
          BY <1>f, <3>3, <3>5, <4>1, <4>2, <4>3, <4>4, <4>5, <5>1 DEF Ahead, Diff, Cursors
        <5>2. CASE n > d
          <6>1. Diff(sampleRead', mark') + Available' = s
            BY <1>f, <3>3, <3>5, <4>2, <4>3, <4>4, <4>5, <5>2 DEF Cursors
          <6> QED BY <4>1, <4>4, <6>1 DEF Ahead, Diff
        <5> QED BY <3>5, <4>2, <5>1, <5>2 DEF Cursors
      <4>6. CASE e + Available = s
        <5>1. e + n < Width
          BY <1>f, <3>1, <3>5, <4>1, <4>2, <4>6, Constants DEF Cursors
        <5>2. Diff(sampleRead', mark') + Available' = s
          BY <1>f, <3>3, <3>5, <4>2, <4>3, <4>4, <4>6, <5>1 DEF Cursors
        <5> QED BY <4>1, <4>4, <5>2 DEF Ahead, Diff
      <4> QED BY <4>1, <4>5, <4>6
    <3> QED BY <1>0, <2>2, <3>6, <3>7 DEF Inv
  <2> QED BY <2>3, <2>4
<1>5. CASE SaveState
  <2> USE <1>5 DEF SaveState, Step, ring, ahead
  <2>1. Available' = Available /\ Snapshots' \subseteq Snapshots \cup {RingNow}
    BY DEF Available, Snapshots
  <2>2. ~spoilt => Fill(RingNow) <= Ring
    BY <1>f DEF Inv, Filled
  <2> QED BY <1>0, <2>1, <2>2 DEF Inv, Filled, Held, HalfReset, Ahead, Fill, Diff
<1>6. CASE LoadState
  <2> USE <1>6 DEF LoadState, Step, ahead
  <2>1. saved \in Rings /\ saved \in Snapshots /\ Snapshots' = Snapshots
    BY <1>h DEF Snapshots
  <2>2. ~spoilt => Available' <= Ring
    BY <1>h, <2>1 DEF Inv, Filled
  <2> QED BY <1>0, <2>1, <2>2 DEF Inv, Filled, Held, HalfReset, Ahead, Fill, Diff
<1>6a. CASE LoadTorn
  <2> USE <1>6a DEF LoadTorn, Step, ahead
  <2>1. saved \in Rings /\ saved \in Snapshots /\ Snapshots' = Snapshots
    BY <1>h DEF Snapshots
  <2>2. spoilt => spoilt'
    BY DEF LoadCutInRing, LoadCutInCursors, LoadCutBehind
  <2>3. ~spoilt' => Available' <= Ring
    <3>1. CASE LoadCutInRing
      BY <2>2, <3>1 DEF LoadCutInRing, Available, Inv, Filled
    <3>2. CASE LoadCutInCursors
      BY <3>2 DEF LoadCutInCursors
    <3>3. CASE LoadCutBehind
      <4>1. ~spoilt => Fill(saved) <= Ring
        BY <2>1 DEF Inv, Filled
      <4> QED BY <1>g, <2>2, <3>3, <4>1 DEF LoadCutBehind, RingIs, Fill
    <3> QED BY <3>1, <3>2, <3>3
  <2> QED BY <1>0, <2>1, <2>2, <2>3 DEF Inv, Filled, Held, HalfReset, Ahead, Fill, Diff
<1>7. CASE ResetAudioTimeline
  <2> USE <1>7 DEF ResetAudioTimeline, Step, ring, ahead
  <2>1. Available' = Available /\ Snapshots' = Snapshots
    BY DEF Available, Snapshots
  <2> QED BY <1>0, <2>1 DEF Inv, Filled, Held, HalfReset, Ahead, Fill, Diff
<1>8. CASE BeginAhead
  <2> USE <1>8 DEF BeginAhead, Step, ring
  <2>1. Available' = Available /\ Snapshots' \subseteq Snapshots \cup {RingNow}
    BY DEF Available, Snapshots
  <2>2. ~spoilt => Fill(RingNow) <= Ring
    BY <1>f DEF Inv, Filled
  <2>3. Diff(sampleWrite, sampleWrite) = 0
    BY <1>f, Diffs, Constants DEF Cursors
  <2>4. Ahead'
    <3>1. Diff(sampleWrite', mark') = 0 /\ Diff(mark', sampleRead') = Available'
      BY <1>f, <2>1, <2>3
    <3>2. Available' + 0 = Available' /\ 0 <= Speculated
      BY <1>f, <2>1, Constants
    <3>3. /\ Diff(sampleWrite', mark') <= Speculated
          /\ Diff(mark', sampleRead') + Diff(sampleWrite', mark') = Available'
      BY <3>1, <3>2
    <3> QED BY <3>3 DEF Ahead, Diff
  <2> QED BY <1>0, <2>1, <2>2, <2>4 DEF Inv, Filled, Held, HalfReset, Fill, Diff
<1>9. CASE RewindProducer
  <2> USE <1>9 DEF RewindProducer, Step, ahead
  <2>1. ~spoilt => Available' <= Ring
    BY ProducerBack
  <2> QED BY <1>0, <2>1 DEF Inv, Filled, Held, HalfReset, Ahead, Snapshots, Fill, Diff
<1>10. CASE LiftRing
  <2> USE <1>10 DEF LiftRing, Step, ring
  <2>1. Available' = Available /\ Snapshots' \subseteq Snapshots \cup {RingNow}
    BY DEF Available, Snapshots
  <2>2. ~spoilt => Fill(RingNow) <= Ring
    BY <1>f DEF Inv, Filled
  <2> QED BY <1>0, <2>1, <2>2 DEF Inv, Filled, Held, HalfReset, Ahead, Fill, Diff
<1>11. CASE LoadBlob
  <2> USE <1>11 DEF LoadBlob, Step, ahead
  <2>1. blob \in Rings /\ blob \in Snapshots /\ Snapshots' = Snapshots
    BY <1>h DEF Inv, Phases, Snapshots
  <2>2. ~spoilt => Available' <= Ring
    BY <1>h, <2>1 DEF Inv, Filled
  <2> QED BY <1>0, <2>1, <2>2 DEF Inv, Filled, Held, HalfReset, Ahead, Fill, Diff
<1>12. CASE RestoreRing
  <2> USE <1>12 DEF RestoreRing, Step
  <2>1. lifted \in Rings /\ lifted \in Snapshots /\ Snapshots' \subseteq Snapshots
    BY <1>h DEF Inv, Phases, Snapshots
  <2>2. ~spoilt => Available' <= Ring
    BY <1>h, <2>1 DEF Inv, Filled
  <2> QED BY <1>0, <2>1, <2>2 DEF Inv, Filled, Held, HalfReset, Ahead, Fill, Diff
<1>13. CASE ResetWrite
  <2> USE <1>13 DEF ResetWrite, Step, ahead
  <2>1. Snapshots' = Snapshots
    BY DEF Snapshots
  <2> QED BY <1>0, <2>1 DEF Inv, Filled, Held, HalfReset, Ahead, Fill, Diff
<1>14. CASE ResetRead
  <2> USE <1>14 DEF ResetRead, Step, ahead
  <2>1. Snapshots' = Snapshots
    BY DEF Snapshots
  <2>2. Available' <= Ring
    <3>1. sampleWrite' = 0 /\ sampleRead' = 0
      BY DEF Inv, HalfReset
    <3>2. Diff(0, 0) = 0
      BY Diffs, Constants DEF Cursors
    <3> QED BY <1>g, <3>1, <3>2, Constants
  <2> QED BY <1>0, <2>1, <2>2 DEF Inv, Filled, Held, HalfReset, Ahead, Fill, Diff
<1>15. CASE ResetDelivery
  <2> USE <1>15 DEF ResetDelivery, Step, ring, ahead
  <2>1. Available' = Available /\ Snapshots' = Snapshots
    BY DEF Available, Snapshots
  <2> QED BY <1>0, <2>1 DEF Inv, Filled, Held, HalfReset, Ahead, Fill, Diff
<1>16. CASE UNCHANGED vars
  BY <1>0, <1>16, SameRing DEF vars, main
<1> QED BY <1>1, <1>2, <1>3, <1>4, <1>5, <1>6, <1>6a, <1>7, <1>8, <1>9, <1>10, <1>11, <1>12,
           <1>13, <1>14, <1>15, <1>16 DEF Next

\* The cursors are always in order.
LEMMA Ordered == Spec => []Inv
<1>1. Inv /\ [Next]_vars => Inv'
  BY OrderedStep
<1> QED BY InitOrdered, <1>1, PTL DEF Spec

\* No save state, run-ahead, rollback or reset between callbacks makes the
\* unsigned fill wrap: it is the ring's size at most.
THEOREM FillStaysBounded == Spec => []FillBounded
<1>1. Inv => FillBounded
  BY DEF Inv, Filled, FillBounded
<1> QED BY Ordered, <1>1, PTL

\* Every native a block interpolates with was queued, and is until it retires.
THEOREM PeeksStayQueued == Spec => []PeeksQueued
<1>1. Inv => PeeksQueued
  BY DEF Inv, Held, PeeksQueued
<1> QED BY Ordered, <1>1, PTL

---------------------------------------------------------------------------
(* Without commands of the main thread the ring is the queue.              *)

Sample == 0 .. Stamps - 1

QueueOf(samples, from, n) == [i \in 1 .. n |-> samples[(from + i - 1) % Ring]]

\* The samples from a position on, as a sequence.
LEMMA QueueOfIsSeq ==
  ASSUME NEW samples \in [0 .. Ring - 1 -> Sample], NEW from \in Int, NEW n \in Nat
  PROVE  LET queue == QueueOf(samples, from, n)
         IN  /\ queue \in Seq(Sample) /\ Len(queue) = n
             /\ \A i \in 1 .. n : queue[i] = samples[(from + i - 1) % Ring]
<1> DEFINE queue == QueueOf(samples, from, n)
<1>1. ASSUME NEW i \in 1 .. n
      PROVE  samples[(from + i - 1) % Ring] \in Sample
  <2>1. from + i - 1 \in Int
    OBVIOUS
  <2>2. (from + i - 1) % Ring \in 0 .. Ring - 1
    BY <2>1, Constants, Division
  <2> QED BY <2>2
<1>2. queue \in [1 .. n -> Sample]
  BY <1>1 DEF QueueOf
<1>3. queue \in Seq(Sample)
  BY <1>2, SeqDef
<1>4. Len(queue) = n
  <2>1. DOMAIN queue = 1 .. n /\ DOMAIN queue = 1 .. Len(queue) /\ Len(queue) \in Nat
    BY <1>2, <1>3, LenProperties
  <2> QED BY <2>1
<1> QED BY <1>3, <1>4 DEF QueueOf

\* The queue of the ring is a sequence.
LEMMA QueueIsSeq ==
  ASSUME TypeOK
  PROVE  /\ Queue \in Seq(Sample) /\ Len(Queue) = Available /\ Available \in Nat
         /\ \A i \in 1 .. Available : Queue[i] = sampleBuffer[(sampleRead + i - 1) % Ring]
<1>1. sampleRead \in Int /\ Available \in Nat
  BY Fills, Constants DEF Cursors
<1>2. sampleBuffer \in [0 .. Ring - 1 -> Sample]
  BY RingTyped DEF Sample
<1>3. Queue = QueueOf(sampleBuffer, sampleRead, Available)
  BY DEF Queue, QueueOf
<1> QED BY <1>1, <1>2, <1>3, QueueOfIsSeq

\* ... and in the next state.
LEMMA NextQueueIsSeq ==
  ASSUME TypeOK', Available' \in Nat
  PROVE  /\ Queue' \in Seq(Sample) /\ Len(Queue') = Available'
         /\ \A i \in 1 .. Available' : Queue'[i] = sampleBuffer'[(sampleRead' + i - 1) % Ring]
<1>1. sampleRead' \in Int
  BY Constants DEF TypeOK, RingNow
<1>2. sampleBuffer' \in [0 .. Ring - 1 -> Sample]
  <2> DEFINE now == RingNow'
  <2>1. now.samples \in [0 .. Ring - 1 -> Sample]
    BY DEF TypeOK, Sample
  <2> QED BY <2>1 DEF RingNow
<1>3. Queue' = QueueOf(sampleBuffer', sampleRead', Available')
  BY DEF Queue, QueueOf
<1> QED BY <1>1, <1>2, <1>3, QueueOfIsSeq

\* The slot the producer fills is the one after the queue's last.
LEMMA WriteFollows ==
  ASSUME TypeOK
  PROVE  sampleWrite % Ring = (sampleRead + Available) % Ring
<1>1. /\ sampleWrite \in Cursors /\ sampleRead \in Cursors /\ Available \in Cursors
      /\ Available = IF sampleWrite >= sampleRead THEN sampleWrite - sampleRead
                     ELSE sampleWrite - sampleRead + Width
  BY Fills, Diffs
<1>2. (sampleRead + Available) % Width = IF sampleRead + Available < Width THEN sampleRead + Available
                                         ELSE sampleRead + Available - Width
  BY <1>1, Moves
<1> DEFINE a == Available
<1> HIDE DEF a
<1>3. sampleWrite = (sampleRead + a) % Width
  BY <1>1, <1>2, Constants DEF Cursors, a
<1>4. sampleRead + a \in Int /\ Width % Ring = 0
  BY <1>1, Constants, AudioAssumption DEF Cursors, a
<1>5. ((sampleRead + a) % Width) % Ring = (sampleRead + a) % Ring
  BY <1>4, Constants, ModOfMod
<1> QED BY <1>3, <1>5 DEF a

\* A sample pushed is appended; the ring's other samples stay.
LEMMA PushPuts ==
  ASSUME Inv, DspCycle, TypeOK'
  PROVE  Q!Put
<1> USE DEF DspCycle, Push
<1>1. /\ Queue \in Seq(Sample) /\ Len(Queue) = Available /\ Available \in Nat
      /\ \A i \in 1 .. Available : Queue[i] = sampleBuffer[(sampleRead + i - 1) % Ring]
  BY QueueIsSeq DEF Inv
<1>2. Available < Ring /\ Available' = Available + 1
  <2>1. /\ sampleWrite \in Cursors /\ sampleRead \in Cursors
        /\ Available = Diff(sampleWrite, sampleRead) /\ Available + 1 < Width
    BY <1>1, Fills, Constants DEF Inv
  <2>2. Diff((sampleWrite + 1) % Width, sampleRead) = Available + 1
    BY <2>1, OneMore
  <2> QED BY <2>2 DEF Available, Diff
<1>3. /\ Queue' \in Seq(Sample) /\ Len(Queue') = Available'
      /\ \A i \in 1 .. Available' : Queue'[i] = sampleBuffer'[(sampleRead + i - 1) % Ring]
  <2>1. Available' \in Nat
    BY <1>1, <1>2
  <2> QED BY <2>1, NextQueueIsSeq
<1>4. /\ stamp \in Sample /\ sampleRead \in Int
      /\ sampleBuffer \in [0 .. Ring - 1 -> Sample]
  <2>1. /\ sampleRead \in Cursors /\ sampleBuffer \in [0 .. Ring - 1 -> Sample]
    BY RingTyped, Fills DEF Inv, Sample
  <2>2. stamp \in Sample
    BY DEF Inv, TypeOK, Sample
  <2> QED BY <2>1, <2>2, Constants DEF Cursors
<1>5. sampleWrite % Ring = (sampleRead + Available) % Ring
  BY WriteFollows DEF Inv
<1>6. ASSUME NEW i \in 1 .. Available + 1
      PROVE  Queue'[i] = IF i <= Available THEN Queue[i] ELSE stamp
  <2> DEFINE here == (sampleRead + i - 1) % Ring
  <2>1. here \in 0 .. Ring - 1
    <3>1. sampleRead + i - 1 \in Int
      BY <1>1, <1>4
    <3> QED BY <3>1, Constants, Division
  <2>2. sampleBuffer'[here] = IF here = sampleWrite % Ring THEN stamp ELSE sampleBuffer[here]
    BY <1>4, <2>1
  <2>3. Queue'[i] = sampleBuffer'[here]
    BY <1>2, <1>3
  <2>4. CASE i <= Available
    <3>1. /\ sampleRead + i - 1 \in Int /\ sampleRead + Available \in Int
          /\ (sampleRead + Available) - (sampleRead + i - 1) \in 1 .. Ring - 1
      BY <1>1, <1>3, <1>4, <2>4, Constants
    <3>2. here # (sampleRead + Available) % Ring
      BY <3>1, Constants, ModDistinct
    <3>3. i \in 1 .. Available
      BY <1>1, <2>4
    <3> QED BY <1>1, <1>5, <2>2, <2>3, <2>4, <3>2, <3>3
  <2>5. CASE ~(i <= Available)
    <3>1. sampleRead + i - 1 = sampleRead + Available
      BY <1>1, <1>4, <2>5
    <3> QED BY <1>5, <2>2, <2>3, <2>5, <3>1
  <2> QED BY <2>4, <2>5
<1> DEFINE appended == Append(Queue, stamp)
<1>7. /\ appended \in Seq(Sample) /\ Len(appended) = Available + 1
      /\ \A i \in 1 .. Available : appended[i] = Queue[i]
      /\ appended[Available + 1] = stamp
  BY <1>1, <1>4, AppendProperties
<1> HIDE DEF appended
<1>8. \A i \in 1 .. Available + 1 : Queue'[i] = appended[i]
  <2> SUFFICES ASSUME NEW i \in 1 .. Available + 1 PROVE Queue'[i] = appended[i]
    OBVIOUS
  <2>1. CASE i \in 1 .. Available
    BY <1>1, <1>6, <1>7, <2>1
  <2>2. CASE i = Available + 1
    BY <1>1, <1>6, <1>7, <2>2
  <2> QED BY <1>1, <2>1, <2>2
<1>9. Queue' = appended
  BY <1>2, <1>3, <1>7, <1>8, SeqEqual
<1> QED BY <1>1, <1>3, <1>9 DEF Q!Put, appended

\* A block retired takes that many samples from the front.
LEMMA RetireTakes ==
  ASSUME Inv, ~spoilt, Retire, TypeOK'
  PROVE  Q!Take \/ UNCHANGED Q!qvars
<1> USE DEF Retire, Unlocked
<1> DEFINE n == block.retire
<1>1. /\ Queue \in Seq(Sample) /\ Len(Queue) = Available /\ Available \in Nat
      /\ \A i \in 1 .. Available : Queue[i] = sampleBuffer[(sampleRead + i - 1) % Ring]
  BY QueueIsSeq DEF Inv
<1>2. n \in 0 .. Available /\ n \in Cursors /\ n \in Int
  <2>1. n \in Cursors /\ n <= Available
    BY DEF Inv, TypeOK, Held, Cursors
  <2> QED BY <1>1, <2>1, Constants DEF Cursors
<1>3. sampleRead' = (sampleRead + n) % Width /\ sampleRead \in Cursors /\ sampleRead \in Int
      /\ sampleRead' \in Int
  <2>1. sampleRead \in Cursors /\ sampleRead' \in Cursors
    BY Fills DEF Inv, TypeOK, RingNow, Cursors
  <2> QED BY <2>1, Constants DEF Cursors
<1> HIDE DEF n
<1>4. Available' = Available - n
  <2>1. /\ sampleWrite \in Cursors /\ Available = Diff(sampleWrite, sampleRead)
    BY Fills DEF Inv
  <2>2. n <= Available
    BY <1>1, <1>2
  <2>3. Diff(sampleWrite, sampleRead') = Available - n
    BY <1>2, <1>3, <2>1, <2>2, NFewer
  <2> QED BY <2>3 DEF Available, Diff
<1>5. /\ Queue' \in Seq(Sample) /\ Len(Queue') = Available'
      /\ \A i \in 1 .. Available' : Queue'[i] = sampleBuffer[(sampleRead' + i - 1) % Ring]
  <2>1. Available' \in Nat
    BY <1>1, <1>2, <1>4
  <2> QED BY <2>1, NextQueueIsSeq
<1>6. ASSUME NEW i \in 1 .. Available - n
      PROVE  Queue'[i] = Queue[n + i]
  <2>1. sampleRead + n \in Int /\ i - 1 \in Int /\ Width % Ring = 0
    BY <1>2, <1>3, AudioAssumption
  <2>2. sampleRead' % Ring = (sampleRead + n) % Ring
    BY <1>3, <2>1, Constants, ModOfMod
  <2>3. /\ ((sampleRead' % Ring) + (i - 1)) % Ring = (sampleRead' + (i - 1)) % Ring
        /\ (((sampleRead + n) % Ring) + (i - 1)) % Ring = ((sampleRead + n) + (i - 1)) % Ring
    BY <1>3, <2>1, Constants, ModPlus
  <2>4. (sampleRead' + (i - 1)) % Ring = ((sampleRead + n) + (i - 1)) % Ring
    BY <2>2, <2>3
  <2>5. /\ sampleRead' + (i - 1) = sampleRead' + i - 1
        /\ (sampleRead + n) + (i - 1) = sampleRead + (n + i) - 1
        /\ n + i \in 1 .. Available /\ i \in 1 .. Available'
    BY <1>1, <1>2, <1>3, <1>4
  <2>6. Queue'[i] = sampleBuffer[(sampleRead' + i - 1) % Ring]
    BY <1>5, <2>5
  <2>7. Queue[n + i] = sampleBuffer[(sampleRead + (n + i) - 1) % Ring]
    BY <1>1, <2>5
  <2> QED BY <2>4, <2>5, <2>6, <2>7
<1>7. CASE n = 0
  <2>1. Len(Queue') = Len(Queue) /\ \A i \in 1 .. Len(Queue') : Queue'[i] = Queue[i]
    BY <1>1, <1>5, <1>4, <1>6, <1>7
  <2>2. Queue' = Queue
    BY <1>1, <1>5, <2>1, SeqEqual
  <2> QED BY <2>2 DEF Q!qvars
<1>8. CASE n # 0
  <2> DEFINE rest == SubSeq(Queue, n + 1, Available)
  <2>1. n \in 1 .. Available /\ n + 1 \in Int /\ Available \in Int
    BY <1>1, <1>2, <1>8
  <2>2. \A i \in n + 1 .. Available : Queue[i] \in Sample
    <3>1. \A i \in 1 .. Len(Queue) : Queue[i] \in Sample
      BY <1>1, ElementOfSeq
    <3> QED BY <1>1, <2>1, <3>1
  <2>3. /\ rest \in Seq(Sample)
        /\ Len(rest) = IF n + 1 <= Available THEN Available - (n + 1) + 1 ELSE 0
        /\ \A i \in 1 .. Available - (n + 1) + 1 : rest[i] = Queue[n + 1 + i - 1]
    BY <2>1, <2>2, SubSeqProperties
  <2> HIDE DEF rest
  <2>4. Len(rest) = Available - n /\ Available - (n + 1) + 1 = Available - n
    BY <2>1, <2>3
  <2>5. \A i \in 1 .. Available - n : rest[i] = Queue[n + i]
    <3> TAKE i \in 1 .. Available - n
    <3>1. n + 1 + i - 1 = n + i
      BY <2>1
    <3> QED BY <2>3, <2>4, <3>1
  <2>6. Queue' = rest
    BY <1>5, <1>4, <1>6, <2>3, <2>4, <2>5, SeqEqual
  <2> QED BY <1>1, <2>1, <2>6 DEF Q!Take, rest
<1> QED BY <1>7, <1>8

\* Where the ring and the stamp stay, so does the queue.
LEMMA SameQueue == UNCHANGED <<ring, stamp>> => UNCHANGED Q!qvars
BY DEF ring, Q!qvars, Queue, Available

\* A host that only fills the ring and plays it, as this repository's does,
\* hears the samples in the order they were made, each at most once: its ring
\* is the bounded queue of AudioQueue.
THEOREM QueuePlayed == Commands = {} => (Spec => PlaysQueue)
<1> SUFFICES ASSUME Commands = {} PROVE Spec => PlaysQueue
  OBVIOUS
<1> DEFINE Alone == Inv /\ pc = "frame" /\ ~spoilt
<1>1. Init => Alone /\ Q!QInit
  <2> SUFFICES ASSUME Init PROVE Alone /\ Q!QInit
    OBVIOUS
  <2>1. Alone
    BY InitOrdered DEF Init
  <2>2. Available = 0
    <3>1. 0 - 0 = 0 /\ 0 % Width = 0
      BY Constants, ModSmall
    <3> QED BY <3>1 DEF Init, Available
  <2>3. Queue = <<>>
    BY <2>1, <2>2, QueueIsSeq, EmptySeq DEF Inv
  <2> QED BY <2>1, <2>3 DEF Init, Q!QInit
<1>2. Alone /\ [Next]_vars => Alone' /\ [Q!Put \/ Q!Take]_(Q!qvars)
  <2> SUFFICES ASSUME Alone, [Next]_vars
               PROVE  Alone' /\ [Q!Put \/ Q!Take]_(Q!qvars)
    OBVIOUS
  <2>0. Inv' /\ TypeOK'
    BY OrderedStep DEF Inv
  <2>1. CASE DspCycle
    BY <2>0, <2>1, PushPuts DEF DspCycle, Push, main
  <2>2. CASE SilentBlock
    BY <2>0, <2>2, SameQueue DEF SilentBlock, vars, main, ring
  <2>3. CASE RenderBlock
    BY <2>0, <2>3, SameQueue DEF RenderBlock, main
  <2>4. CASE Retire
    BY <2>0, <2>4, RetireTakes DEF Retire, main
  <2>5. CASE UNCHANGED vars
    BY <2>0, <2>5, SameQueue DEF vars, main, ring
  <2> QED BY <2>1, <2>2, <2>3, <2>4, <2>5
          DEF Next, Step, SaveState, LoadState, LoadTorn, ResetAudioTimeline, BeginAhead, RewindProducer,
              LiftRing, LoadBlob, RestoreRing, ResetWrite, ResetRead, ResetDelivery
<1> QED BY <1>1, <1>2, PTL DEF Spec, PlaysQueue, Q!QSpec
=============================================================================
