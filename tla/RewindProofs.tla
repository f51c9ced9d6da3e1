---------------------------- MODULE RewindProofs ----------------------------
(***************************************************************************)
(* The rewind ring proved for every depth, interval and number of moments: *)
(* its indices, that a failed capture spoils no slot but the oldest, that  *)
(* the caption holds, and that the ring implements RewindHistory, the      *)
(* memory a player is promised.                                            *)
(*                                                                         *)
(* The invariant is about the ring against the timeline: live slots are    *)
(* moments of it (or, after a jump, of one that was left), newest first    *)
(* and Interval apart, and the frame counter never runs ahead of the       *)
(* moments lived since the newest.                                         *)
(***************************************************************************)
EXTENDS Rewind, FiniteSetTheorems, SequenceTheorems, TLAPS

LiveSlots == 0 .. count - 1

\* No slot holds a moment that has not been lived.
SlotsBorn == \A i \in 0 .. Depth - 1 : ring[i] \in 0 .. born

\* Moments are numbered in the order they are lived.
Increasing(l) == \A i, j \in DOMAIN l : i < j => l[i] < l[j]

Ordered == \A l \in left \cup {timeline} : Increasing(l)

\* Every snapshot that loads is of the timeline or of one that was left.
Lived(m) == \E l \in left \cup {timeline} : m \in Range(l)

Remembered == \A s \in LiveSlots : SlotAt(s) # 0 => Lived(SlotAt(s))

Spaced ==
  left = {} =>
    \A s, t \in LiveSlots : \A i, j \in DOMAIN timeline :
      s < t /\ timeline[i] = SlotAt(s) /\ timeline[j] = SlotAt(t)
        => i - j >= (t - s) * Interval

\* The newest snapshot is at least `tick` frames old.
Ticked ==
  left = {} /\ count > 0 =>
    \A i \in DOMAIN timeline : timeline[i] = SlotAt(0) => Len(timeline) - i >= tick

\* At the top of the loop only a jump has raised the generation; the commit's own
\* change of it does not leave the modal loop.
Known == stale => place = "modal" \/ left # {}

Inv ==
  /\ TypeOK /\ SlotsBorn /\ Ordered
  /\ HolesAreOldest /\ Remembered /\ Spaced /\ Ticked
  /\ Known

---------------------------------------------------------------------------
(* The ring's arithmetic.                                                  *)

\* A slot taken round the whole ring is itself.
LEMMA Wrap ==
  ASSUME NEW a \in 0 .. Depth - 1
  PROVE  a % Depth = a /\ (a + Depth) % Depth = a /\ (a - Depth) % Depth = a
BY DepthAssumption, Z3

\* Where slot_at finds a selection.
LEMMA SlotIndex ==
  ASSUME NEW h \in 0 .. Depth - 1, NEW s \in 0 .. Depth - 1
  PROVE  (h - 1 - s) % Depth = IF s < h THEN h - 1 - s ELSE h - 1 - s + Depth
<1>1. CASE s < h
  <2>1. h - 1 - s \in 0 .. Depth - 1
    BY <1>1, DepthAssumption
  <2> QED BY <2>1, <1>1, Wrap
<1>2. CASE s >= h
  <2>1. h - 1 - s + Depth \in 0 .. Depth - 1
    BY <1>2, DepthAssumption
  <2>2. (h - 1 - s + Depth) - Depth = h - 1 - s
    BY DepthAssumption
  <2> QED BY <2>1, <2>2, <1>2, Wrap
<1> QED BY <1>1, <1>2, DepthAssumption

\* The slot after the head.
LEMMA NextHead ==
  ASSUME NEW h \in 0 .. Depth - 1
  PROVE  (h + 1) % Depth = IF h = Depth - 1 THEN 0 ELSE h + 1
<1>1. CASE h = Depth - 1
  <2>1. 0 + Depth = h + 1 /\ 0 \in 0 .. Depth - 1
    BY <1>1, DepthAssumption
  <2> QED BY <1>1, <2>1, Wrap
<1>2. CASE h # Depth - 1
  <2>1. h + 1 \in 0 .. Depth - 1
    BY <1>2, DepthAssumption
  <2> QED BY <2>1, <1>2, Wrap
<1> QED BY <1>1, <1>2

\* The slot some steps behind the head.
LEMMA BackHead ==
  ASSUME NEW h \in 0 .. Depth - 1, NEW s \in 0 .. Depth - 1
  PROVE  (h - s) % Depth = IF s <= h THEN h - s ELSE h - s + Depth
<1>1. CASE s <= h
  <2>1. h - s \in 0 .. Depth - 1
    BY <1>1, DepthAssumption
  <2> QED BY <1>1, <2>1, Wrap
<1>2. CASE s > h
  <2>1. h - s + Depth \in 0 .. Depth - 1
    BY <1>2, DepthAssumption
  <2>2. (h - s + Depth) - Depth = h - s
    BY DepthAssumption
  <2> QED BY <2>1, <2>2, <1>2, Wrap
<1> QED BY <1>1, <1>2, DepthAssumption

\* A capture moves every slot one back; a failed one marks the slot furthest
\* back and moves none.
LEMMA CaptureSlots ==
  ASSUME TypeOK, NEW now, NEW fits \in BOOLEAN, Capture(now, fits)
  PROVE  /\ head' \in 0 .. Depth - 1
         /\ fits => /\ SlotAt(0)' = now
                    /\ \A s \in 1 .. Depth - 1 : SlotAt(s)' = SlotAt(s - 1)
         /\ ~fits => /\ SlotAt(Depth - 1)' = 0
                     /\ \A s \in 0 .. Depth - 2 : SlotAt(s)' = SlotAt(s)
<1> USE DepthAssumption
<1>1. head \in 0 .. Depth - 1 /\ ring \in [0 .. Depth - 1 -> 0 .. MaxMoments]
  BY DEF TypeOK
<1>2. head' \in 0 .. Depth - 1
  BY <1>1, NextHead DEF Capture
<1>3. ASSUME fits
      PROVE  /\ SlotAt(0)' = now
             /\ \A s \in 1 .. Depth - 1 : SlotAt(s)' = SlotAt(s - 1)
  <2>1. head' = (IF head = Depth - 1 THEN 0 ELSE head + 1) /\ ring' = [ring EXCEPT ![head] = now]
    BY <1>1, <1>3, NextHead DEF Capture
  <2>2. (head' - 1 - 0) % Depth = head
    BY <1>1, <1>2, <2>1, SlotIndex
  <2>3. SlotAt(0)' = now
    BY <1>1, <2>1, <2>2 DEF SlotAt
  <2>4. ASSUME NEW s \in 1 .. Depth - 1 PROVE SlotAt(s)' = SlotAt(s - 1)
    <3>1. s - 1 \in 0 .. Depth - 1 /\ s \in 0 .. Depth - 1
      OBVIOUS
    <3>2. (head - 1 - (s - 1)) % Depth = IF s - 1 < head THEN head - s ELSE head - s + Depth
      BY <1>1, <3>1, SlotIndex
    <3>3. (head' - 1 - s) % Depth = IF s < head' THEN head' - 1 - s ELSE head' - 1 - s + Depth
      BY <1>2, <3>1, SlotIndex
    <3>4. (head' - 1 - s) % Depth = (head - 1 - (s - 1)) % Depth
      BY <1>1, <2>1, <3>2, <3>3
    <3>5. (head - 1 - (s - 1)) % Depth \in (0 .. Depth - 1) \ {head}
      BY <1>1, <3>2
    <3> QED BY <1>1, <2>1, <3>4, <3>5 DEF SlotAt
  <2> QED BY <2>3, <2>4
<1>4. ASSUME ~fits
      PROVE  /\ SlotAt(Depth - 1)' = 0
             /\ \A s \in 0 .. Depth - 2 : SlotAt(s)' = SlotAt(s)
  <2>1. head' = head /\ ring' = [ring EXCEPT ![head] = 0]
    BY <1>4 DEF Capture
  <2>2. (head - 1 - (Depth - 1)) % Depth = head
    BY <1>1, SlotIndex, Depth - 1 \in 0 .. Depth - 1
  <2>3. SlotAt(Depth - 1)' = 0
    BY <1>1, <2>1, <2>2 DEF SlotAt
  <2>4. ASSUME NEW s \in 0 .. Depth - 2 PROVE SlotAt(s)' = SlotAt(s)
    <3>1. (head - 1 - s) % Depth \in (0 .. Depth - 1) \ {head}
      BY <1>1, SlotIndex, s \in 0 .. Depth - 1
    <3> QED BY <1>1, <2>1, <3>1 DEF SlotAt
  <2> QED BY <2>3, <2>4
<1> QED BY <1>2, <1>3, <1>4

\* Going back drops the slots in front of the one chosen.
LEMMA LandSlots ==
  ASSUME TypeOK, sel < count, Land
  PROVE  /\ head' \in 0 .. Depth - 1
         /\ \A s \in 0 .. count - sel - 1 : SlotAt(s)' = SlotAt(sel + s)
<1> USE DepthAssumption
<1>1. /\ head \in 0 .. Depth - 1 /\ count \in 0 .. Depth /\ sel \in 0 .. Depth - 1
      /\ ring' = ring /\ head' = (head - sel) % Depth
  BY DEF TypeOK, Land
<1>2. head' = (IF sel <= head THEN head - sel ELSE head - sel + Depth) /\ head' \in 0 .. Depth - 1
  BY <1>1, BackHead
<1>3. ASSUME NEW s \in 0 .. count - sel - 1 PROVE SlotAt(s)' = SlotAt(sel + s)
  <2>1. s \in 0 .. Depth - 1 /\ sel + s \in 0 .. Depth - 1
    BY <1>1
  <2>2. (head' - 1 - s) % Depth = IF s < head' THEN head' - 1 - s ELSE head' - 1 - s + Depth
    BY <1>2, <2>1, SlotIndex
  <2>3. (head - 1 - (sel + s)) % Depth
          = IF sel + s < head THEN head - 1 - (sel + s) ELSE head - 1 - (sel + s) + Depth
    BY <1>1, <2>1, SlotIndex
  <2>4. (head' - 1 - s) % Depth = (head - 1 - (sel + s)) % Depth
    BY <1>1, <1>2, <2>1, <2>2, <2>3
  <2> QED BY <1>1, <2>4 DEF SlotAt
<1> QED BY <1>2, <1>3

---------------------------------------------------------------------------
(* The invariant holds at first and is kept by every action.               *)

\* What the invariant says of the ring against the timeline.
RingInv == SlotsBorn /\ Ordered /\ HolesAreOldest /\ Remembered /\ Spaced /\ Ticked

\* The invariant by its parts.
LEMMA InvParts == Inv <=> TypeOK /\ RingInv /\ Known
BY DEF Inv, RingInv

\* An action that leaves ring and timeline alone.
LEMMA RingKept ==
  ASSUME RingInv, UNCHANGED <<ring, head, count, tick, timeline, born, left>>
  PROVE  RingInv'
BY DEF RingInv, SlotsBorn, Ordered, HolesAreOldest, Remembered, Lived, Spaced, Ticked, SlotAt,
       LiveSlots

\* A timeline is of moments lived, also when more have been.
LEMMA MoreLived ==
  ASSUME NEW b \in Nat, NEW l \in Seq(1 .. b)
  PROVE  l \in Seq(1 .. b + 1) /\ Len(l) \in Nat /\ DOMAIN l = 1 .. Len(l)
         /\ \A i \in 1 .. Len(l) : l[i] \in 1 .. b
<1>1. 1 .. b \subseteq 1 .. b + 1
  OBVIOUS
<1> QED BY <1>1, SeqMonotonic, LenProperties, ElementOfSeq

\* The ring begins in the invariant.
LEMMA InitInv == Init => Inv
<1> SUFFICES ASSUME Init PROVE Inv
  OBVIOUS
<1> USE DepthAssumption, IntervalAssumption, MomentsAssumption
<1>1. timeline = <<1>> /\ <<1>> \in Seq(1 .. born) /\ DOMAIN timeline = {1}
  BY DEF Init
<1>2. TypeOK
  <2>1. ring \in [0 .. Depth - 1 -> 0 .. MaxMoments]
    BY DEF Init, NoSlots
  <2>2. head \in 0 .. Depth - 1 /\ count \in 0 .. Depth /\ tick \in 0 .. Interval - 1
    BY DEF Init
  <2>3. {enabled, open, stale, session} \subseteq BOOLEAN
    BY DEF Init
  <2>4. sel \in 0 .. Depth - 1 /\ born \in 1 .. MaxMoments /\ ~open
    BY DEF Init
  <2>5. place \in Places /\ left \subseteq Seq(1 .. born)
    BY DEF Init, Places
  <2> QED BY <1>1, <2>1, <2>2, <2>3, <2>4, <2>5 DEF TypeOK
<1>3. SlotsBorn
  BY DEF Init, SlotsBorn, NoSlots
<1>4. LiveSlots = {} /\ 0 .. count - 2 = {} /\ ~(count > 0)
  BY DEF Init, LiveSlots
<1>5. Ordered
  BY <1>1 DEF Ordered, Increasing, Init
<1>6. HolesAreOldest /\ Remembered /\ Spaced /\ Ticked
  BY <1>4 DEF HolesAreOldest, Remembered, Spaced, Ticked
<1>7. Known
  BY DEF Init, Known
<1> QED BY <1>2, <1>3, <1>5, <1>6, <1>7 DEF Inv

\* The top of the loop: either nothing happens or the ring is made anew.
LEMMA CheckInv == ASSUME Inv, Check PROVE Inv'
<1> USE DepthAssumption, IntervalAssumption, MomentsAssumption
<1>1. TypeOK'
  <2>1. CASE stale
    <3>1. ring' \in [0 .. Depth - 1 -> 0 .. MaxMoments]
      BY <2>1 DEF Check, Rebuild, NoSlots
    <3>2. head' \in 0 .. Depth - 1 /\ count' \in 0 .. Depth /\ tick' \in 0 .. Interval - 1
      BY <2>1 DEF Check, Rebuild
    <3> QED BY <2>1, <3>1, <3>2 DEF Inv, TypeOK, Check, Rebuild, Places
  <2>2. CASE ~stale
    BY <2>2 DEF Inv, TypeOK, Check, ringVars, strip, Places
  <2> QED BY <2>1, <2>2
<1>2. RingInv'
  <2>1. CASE stale
    <3>1. ring' = NoSlots /\ count' = 0 /\ timeline' = timeline /\ born' = born /\ born \in Nat
      BY <2>1 DEF Inv, TypeOK, Check, Rebuild
    <3>2. LiveSlots' = {} /\ (0 .. count - 2)' = {} /\ ~(count > 0)'
      BY <3>1 DEF LiveSlots
    <3>3. SlotsBorn'
      BY <3>1 DEF SlotsBorn, NoSlots
    <3>4. Ordered'
      BY <2>1, <3>1 DEF Inv, Ordered, Check
    <3>5. (HolesAreOldest /\ Remembered /\ Spaced /\ Ticked)'
      BY <3>2 DEF HolesAreOldest, Remembered, Spaced, Ticked
    <3> QED BY <3>3, <3>4, <3>5 DEF RingInv
  <2>2. CASE ~stale
    BY <2>2, RingKept, InvParts DEF Check, ringVars, strip
  <2> QED BY <2>1, <2>2
<1>3. Known'
  BY DEF Inv, Check, Rebuild, Known
<1> QED BY <1>1, <1>2, <1>3 DEF Inv, RingInv

\* A jump leaves a timeline of one moment that the ring knows nothing of.
LEMMA ElsewhereInv ==
  ASSUME Inv, Elsewhere, stale' \in BOOLEAN
  PROVE  TypeOK' /\ RingInv'
<1> USE DepthAssumption, IntervalAssumption, MomentsAssumption
<1>1. timeline' = <<born + 1>> /\ born' = born + 1 /\ born' \in 1 .. MaxMoments
  BY DEF Inv, TypeOK, Elsewhere
<1>2. timeline' \in Seq(1 .. born') /\ DOMAIN timeline' = {1}
  BY <1>1
<1>0. born \in Nat /\ timeline \in Seq(1 .. born) /\ left \subseteq Seq(1 .. born)
      /\ left' = left \cup {timeline}
  BY DEF Inv, TypeOK, Elsewhere
<1>3. TypeOK'
  <2>1. left' \subseteq Seq(1 .. born')
    BY <1>0, <1>1, MoreLived
  <2> QED BY <1>1, <1>2, <2>1 DEF Inv, TypeOK, Elsewhere, ringVars, strip
<1>4. SlotsBorn'
  BY <1>1 DEF Inv, TypeOK, SlotsBorn, Elsewhere, ringVars
<1>5. Ordered'
  BY <1>0, <1>2 DEF Inv, Ordered, Increasing
<1>6. HolesAreOldest'
  BY DEF Inv, HolesAreOldest, Elsewhere, ringVars, SlotAt
<1>7. Remembered'
  BY <1>0 DEF Inv, Elsewhere, ringVars, Remembered, Lived, LiveSlots, SlotAt
<1>8. (Spaced /\ Ticked)'
  BY <1>0 DEF Spaced, Ticked
<1> QED BY <1>3, <1>4, <1>5, <1>6, <1>7, <1>8 DEF RingInv

\* A jump keeps the invariant.
LEMMA JumpInv == ASSUME Inv, JumpTo \/ TornLoad PROVE Inv'
<1>1. CASE JumpTo
  <2>1. TypeOK' /\ RingInv'
    BY <1>1, ElsewhereInv DEF JumpTo
  <2>2. Known'
    BY <1>1 DEF JumpTo, Elsewhere, Known
  <2> QED BY <2>1, <2>2 DEF Inv, RingInv
<1>2. CASE TornLoad
  <2>1. TypeOK' /\ RingInv'
    BY <1>2, ElsewhereInv DEF TornLoad, Inv, TypeOK
  <2>2. Known'
    BY <1>2 DEF Inv, TornLoad, Elsewhere, Known
  <2> QED BY <2>1, <2>2 DEF Inv, RingInv
<1> QED BY <1>1, <1>2

\* Actions that touch neither ring nor timeline.
LEMMA StripInv ==
  ASSUME Inv, \/ SessionEnds \/ Idle \/ OpenStrip \/ Step
              \/ CommitRefused \/ CloseStrip \/ LeaveStrip \/ UNCHANGED vars
  PROVE  Inv'
<1> USE DepthAssumption, IntervalAssumption, MomentsAssumption
<1> USE DEF ringVars, strip, ghost
<1>1. CASE SessionEnds
  <2>1. RingInv'
    BY <1>1, RingKept, InvParts DEF SessionEnds
  <2>2. (TypeOK /\ Known)'
    BY <1>1 DEF Inv, SessionEnds, TypeOK, Known
  <2> QED BY <2>1, <2>2 DEF Inv, RingInv
<1>2. CASE Idle
  <2>1. RingInv'
    BY <1>2, RingKept, InvParts DEF Idle
  <2>2. (TypeOK /\ Known)'
    BY <1>2 DEF Inv, Idle, TypeOK, Known, Places
  <2> QED BY <2>1, <2>2 DEF Inv, RingInv
<1>3. CASE OpenStrip
  <2>1. RingInv'
    BY <1>3, RingKept, InvParts DEF OpenStrip
  <2>2. (TypeOK /\ Known)'
    BY <1>3 DEF Inv, OpenStrip, TypeOK, Known, Places
  <2> QED BY <2>1, <2>2 DEF Inv, RingInv
<1>4. CASE Step
  <2>1. RingInv'
    BY <1>4, RingKept, InvParts DEF Step
  <2>0. sel \in Nat /\ count \in Nat /\ sel < count
    BY <1>4 DEF Inv, TypeOK, Step
  <2>2. sel' \in 0 .. count - 1
    BY <1>4, <2>0 DEF Step, StepTo
  <2>3. (TypeOK /\ Known)'
    BY <1>4, <2>2 DEF Inv, Step, TypeOK, Known
  <2> QED BY <2>1, <2>3 DEF Inv, RingInv
<1>5. CASE CommitRefused
  <2>1. RingInv'
    BY <1>5, RingKept, InvParts DEF CommitRefused
  <2>2. (TypeOK /\ Known)'
    BY <1>5 DEF Inv, CommitRefused, TypeOK, Known
  <2> QED BY <2>1, <2>2 DEF Inv, RingInv
<1>6. CASE CloseStrip
  <2>1. RingInv'
    BY <1>6, RingKept, InvParts DEF CloseStrip
  <2>2. TypeOK'
    <3>1. {enabled, open, stale, session}' \subseteq BOOLEAN
      BY <1>6 DEF Inv, CloseStrip, TypeOK
    <3>2. sel' \in 0 .. Depth - 1 /\ ~open'
      BY <1>6 DEF CloseStrip
    <3> QED BY <1>6, <3>1, <3>2 DEF Inv, CloseStrip, TypeOK
  <2>3. Known'
    BY <1>6 DEF Inv, CloseStrip, Known
  <2> QED BY <2>1, <2>2, <2>3 DEF Inv, RingInv
<1>7. CASE LeaveStrip
  <2>1. RingInv'
    BY <1>7, RingKept, InvParts DEF LeaveStrip
  <2>2. (TypeOK /\ Known)'
    BY <1>7 DEF Inv, LeaveStrip, TypeOK, Known, Places
  <2> QED BY <2>1, <2>2 DEF Inv, RingInv
<1>8. CASE UNCHANGED vars
  <2>1. RingInv'
    BY <1>8, RingKept, InvParts DEF vars
  <2>2. (TypeOK /\ Known)'
    BY <1>8 DEF Inv, vars, TypeOK, Known
  <2> QED BY <2>1, <2>2 DEF Inv, RingInv
<1> QED BY <1>1, <1>2, <1>3, <1>4, <1>5, <1>6, <1>7, <1>8

\* A slot holds a moment lived or none.
LEMMA SlotValue ==
  ASSUME Inv, NEW s \in 0 .. Depth - 1
  PROVE  SlotAt(s) \in 0 .. born /\ born \in Nat
<1>1. head \in 0 .. Depth - 1 /\ born \in Nat
  BY DEF Inv, TypeOK
<1>2. (head - 1 - s) % Depth \in 0 .. Depth - 1
  BY <1>1, SlotIndex, DepthAssumption
<1> QED BY <1>1, <1>2 DEF Inv, SlotsBorn, SlotAt

\* A frame adds a moment that no slot and no earlier moment equals.
LEMMA NewMoment ==
  ASSUME Inv, Frame
  PROVE  /\ born' = born + 1 /\ born' \in 1 .. MaxMoments
         /\ timeline' \in Seq(1 .. born') /\ Len(timeline) \in Nat
         /\ DOMAIN timeline = 1 .. Len(timeline)
         /\ Len(timeline') = Len(timeline) + 1
         /\ DOMAIN timeline' = 1 .. Len(timeline) + 1
         /\ \A i \in 1 .. Len(timeline) : timeline'[i] = timeline[i] /\ timeline[i] \in 1 .. born
         /\ timeline'[Len(timeline) + 1] = born + 1
         /\ left' = left /\ left' \subseteq Seq(1 .. born')
<1>1. born \in 1 .. MaxMoments /\ born < MaxMoments /\ timeline \in Seq(1 .. born)
  BY DEF Inv, TypeOK, Frame
<1>2. born' = born + 1 /\ timeline' = Append(timeline, born + 1)
  BY DEF Frame
<1>3. timeline \in Seq(1 .. born + 1) /\ born + 1 \in 1 .. born + 1
  BY <1>1, SeqMonotonic, MomentsAssumption, 1 .. born \subseteq 1 .. born + 1
<1>4. /\ Append(timeline, born + 1) \in Seq(1 .. born + 1)
      /\ Len(Append(timeline, born + 1)) = Len(timeline) + 1
      /\ \A i \in 1 .. Len(timeline) : Append(timeline, born + 1)[i] = timeline[i]
      /\ Append(timeline, born + 1)[Len(timeline) + 1] = born + 1
  BY <1>3, AppendProperties
<1>5. Len(timeline) \in Nat /\ DOMAIN timeline = 1 .. Len(timeline)
  BY <1>1, LenProperties
<1>6. DOMAIN timeline' = 1 .. Len(timeline) + 1
  BY <1>2, <1>4, LenProperties
<1>7. \A i \in 1 .. Len(timeline) : timeline[i] \in 1 .. born
  BY <1>1, ElementOfSeq
<1>8. born' \in 1 .. MaxMoments
  BY <1>1, <1>2, MomentsAssumption
<1>9. left' = left /\ left' \subseteq Seq(1 .. born')
  <2>1. born \in Nat /\ left \subseteq Seq(1 .. born) /\ left' = left
    BY <1>1 DEF Inv, TypeOK, Frame
  <2> QED BY <1>2, <2>1, MoreLived
<1> QED BY <1>2, <1>4, <1>5, <1>6, <1>7, <1>8, <1>9

\* A new moment is later than those of the timeline.
LEMMA NewMomentOrdered == ASSUME Inv, Frame PROVE Ordered'
<1> DEFINE n == Len(timeline)
<1>1. /\ n \in Nat /\ born \in Nat /\ DOMAIN timeline = 1 .. n /\ DOMAIN timeline' = 1 .. n + 1
      /\ timeline'[n + 1] = born + 1
  BY NewMoment DEF Inv, TypeOK
<1>2. \A i \in 1 .. n : timeline'[i] = timeline[i] /\ timeline[i] \in 1 .. born
  BY NewMoment
<1>3. \A i, j \in 1 .. n : i < j => timeline[i] < timeline[j]
  BY <1>1 DEF Inv, Ordered, Increasing
<1>3a. \A l \in left : Increasing(l)
  BY DEF Inv, Ordered
<1> HIDE DEF n
<1>4. ASSUME NEW i \in 1 .. n + 1, NEW j \in 1 .. n + 1, i < j
      PROVE  timeline'[i] < timeline'[j]
  <2>1. i \in 1 .. n
    BY <1>1, <1>4
  <2>2. timeline'[i] = timeline[i] /\ timeline[i] \in 1 .. born
    BY <1>2, <2>1
  <2>3. CASE j = n + 1
    BY <1>1, <2>2, <2>3
  <2>4. CASE j \in 1 .. n
    <3>1. timeline'[j] = timeline[j] /\ timeline[i] < timeline[j]
      BY <1>2, <1>3, <1>4, <2>1, <2>4
    <3> QED BY <2>2, <3>1
  <2> QED BY <1>1, <2>3, <2>4
<1>5. Increasing(timeline')
  BY <1>1, <1>4 DEF Increasing
<1> QED BY <1>3a, <1>5, NewMoment DEF Ordered

\* What was lived has been lived, and so has the new moment.
LEMMA StillLived ==
  ASSUME Inv, Frame
  PROVE  \A m : Lived(m) \/ m = born + 1 => Lived(m)'
<1>1. /\ left' = left /\ DOMAIN timeline \subseteq DOMAIN timeline'
      /\ \A i \in DOMAIN timeline : timeline'[i] = timeline[i]
      /\ Len(timeline) + 1 \in DOMAIN timeline' /\ timeline'[Len(timeline) + 1] = born + 1
  BY NewMoment
<1>2. Range(timeline) \subseteq Range(timeline') /\ born + 1 \in Range(timeline')
  BY <1>1 DEF Range
<1> QED BY <1>1, <1>2 DEF Lived

\* No new moment is mistaken for an old one.
LEMMA OldMoment ==
  ASSUME Inv, Frame, NEW m \in 0 .. born, NEW i \in DOMAIN timeline', timeline'[i] = m
  PROVE  i \in DOMAIN timeline /\ timeline[i] = m
<1>1. born \in Nat /\ i \in 1 .. Len(timeline) + 1
  BY NewMoment DEF Inv, TypeOK
<1>2. i # Len(timeline) + 1
  BY <1>1, NewMoment
<1> QED BY <1>1, <1>2, NewMoment

\* A frame that is not captured only makes the newest snapshot older.
LEMMA FrameWithout ==
  ASSUME Inv, Frame, UNCHANGED <<ring, head, count>>, tick' \in {tick, tick + 1}
  PROVE  RingInv'
<1> USE DepthAssumption
<1> DEFINE n == Len(timeline)
<1>1. count \in 0 .. Depth /\ tick \in Nat /\ left' = left
  BY IntervalAssumption DEF Inv, TypeOK, Frame
<1>2. \A s : SlotAt(s)' = SlotAt(s)
  BY DEF SlotAt
<1>3. \A s \in LiveSlots : SlotAt(s) \in 0 .. born
  BY <1>1, SlotValue DEF LiveSlots
<1>4. LiveSlots' = LiveSlots
  BY DEF LiveSlots
<1>5. SlotsBorn'
  BY NewMoment DEF Inv, TypeOK, SlotsBorn
<1>6. Ordered'
  BY NewMomentOrdered
<1>7. HolesAreOldest'
  BY <1>2 DEF Inv, HolesAreOldest
<1>8. \A s \in LiveSlots : \A i \in DOMAIN timeline' :
        timeline'[i] = SlotAt(s) => i \in DOMAIN timeline /\ timeline[i] = SlotAt(s)
  BY <1>3, OldMoment
<1>9. Remembered'
  BY <1>2, <1>4, StillLived DEF Inv, Remembered
<1>10. Spaced'
  BY <1>1, <1>2, <1>4, <1>8 DEF Inv, Spaced
<1>11. Ticked'
  <2> SUFFICES ASSUME left = {}, count > 0, NEW i \in DOMAIN timeline',
                      timeline'[i] = SlotAt(0)
               PROVE  Len(timeline') - i >= tick'
    BY <1>1, <1>2 DEF Ticked
  <2>1. i \in DOMAIN timeline /\ timeline[i] = SlotAt(0)
    BY <1>1, <1>8 DEF LiveSlots
  <2>2. n - i >= tick
    BY <2>1 DEF Inv, Ticked
  <2> QED BY <2>1, <2>2, <1>1, NewMoment
<1> QED BY <1>5, <1>6, <1>7, <1>9, <1>10, <1>11 DEF RingInv

\* A capture that fails loses the oldest slot of a full ring and nothing else.
LEMMA FrameSpoilt ==
  ASSUME Inv, Frame, Capture(born + 1, FALSE), tick' = 0
  PROVE  RingInv'
<1> USE DepthAssumption
<1>1. /\ count \in 0 .. Depth /\ tick \in Nat /\ left' = left /\ count' = count
      /\ head' = head /\ ring' = [ring EXCEPT ![head] = 0]
      /\ ring \in [0 .. Depth - 1 -> 0 .. MaxMoments] /\ head \in 0 .. Depth - 1
  BY IntervalAssumption DEF Inv, TypeOK, Frame, Capture
<1>2. \A s \in 0 .. Depth - 1 : SlotAt(s)' = IF s = Depth - 1 THEN 0 ELSE SlotAt(s)
  <2>1. SlotAt(Depth - 1)' = 0 /\ \A s \in 0 .. Depth - 2 : SlotAt(s)' = SlotAt(s)
    BY CaptureSlots DEF Inv
  <2> QED BY <2>1
<1>3. \A s \in 0 .. Depth - 1 : SlotAt(s) \in 0 .. born
  BY SlotValue
<1>4. LiveSlots' = LiveSlots /\ LiveSlots \subseteq 0 .. Depth - 1
  BY <1>1 DEF LiveSlots
<1>5. SlotsBorn'
  <2>1. \A i \in 0 .. Depth - 1 : ring'[i] = IF i = head THEN 0 ELSE ring[i]
    BY <1>1
  <2>2. born \in Nat /\ born' = born + 1 /\ \A i \in 0 .. Depth - 1 : ring[i] \in 0 .. born
    BY NewMoment DEF Inv, TypeOK, SlotsBorn
  <2> QED BY <2>1, <2>2 DEF SlotsBorn
<1>6. Ordered'
  BY NewMomentOrdered
<1>7. HolesAreOldest'
  BY <1>1, <1>2 DEF Inv, HolesAreOldest
<1>8. \A s \in LiveSlots : \A i \in DOMAIN timeline' :
        timeline'[i] = SlotAt(s)' => i \in DOMAIN timeline /\ timeline[i] = SlotAt(s)
  <2> SUFFICES ASSUME NEW s \in LiveSlots, NEW i \in DOMAIN timeline', timeline'[i] = SlotAt(s)'
               PROVE  i \in DOMAIN timeline /\ timeline[i] = SlotAt(s)
    OBVIOUS
  <2>1. timeline'[i] # 0
    BY NewMoment DEF Inv, TypeOK
  <2>2. SlotAt(s)' = SlotAt(s) /\ SlotAt(s) \in 0 .. born
    BY <2>1, <1>2, <1>3, <1>4
  <2> QED BY <2>2, OldMoment
<1>9. Remembered'
  <2> SUFFICES ASSUME NEW s \in LiveSlots, SlotAt(s)' # 0
               PROVE  \E l \in (left \cup {timeline})' : SlotAt(s)' \in Range(l)
    BY <1>4 DEF Remembered, Lived
  <2>1. SlotAt(s)' = SlotAt(s)
    BY <1>2, <1>4
  <2>2. Lived(SlotAt(s))
    BY <2>1 DEF Inv, Remembered
  <2>3. \A m : m = SlotAt(s) => \E l \in (left \cup {timeline})' : m \in Range(l)
    BY <2>2, StillLived DEF Lived
  <2> QED BY <2>1, <2>3
<1>10. Spaced'
  BY <1>1, <1>4, <1>8 DEF Inv, Spaced
<1>11. Ticked'
  BY <1>1, NewMoment DEF Ticked
<1> QED BY <1>5, <1>6, <1>7, <1>9, <1>10, <1>11 DEF RingInv

\* A capture: the new moment is Interval frames after the newest snapshot.
LEMMA FrameCaptured ==
  ASSUME Inv, Frame, Capture(born + 1, TRUE), tick' = 0, tick + 1 >= Interval
  PROVE  RingInv'
<1> USE DepthAssumption, IntervalAssumption
<1> DEFINE n == Len(timeline)
<1>1. /\ count \in 0 .. Depth /\ tick \in Nat /\ left' = left
      /\ count' = (IF count < Depth THEN count + 1 ELSE count)
      /\ ring' = [ring EXCEPT ![head] = born + 1]
      /\ ring \in [0 .. Depth - 1 -> 0 .. MaxMoments] /\ head \in 0 .. Depth - 1
  BY DEF Inv, TypeOK, Frame, Capture
<1>2. SlotAt(0)' = born + 1 /\ \A s \in 1 .. Depth - 1 : SlotAt(s)' = SlotAt(s - 1)
  BY CaptureSlots DEF Inv
<1>3. \A s \in 0 .. Depth - 1 : SlotAt(s) \in 0 .. born
  BY SlotValue
<1>4. \A s \in LiveSlots' : s = 0 \/ (s \in 1 .. Depth - 1 /\ s - 1 \in LiveSlots)
  BY <1>1 DEF LiveSlots
<1>5. SlotsBorn'
  <2>1. \A i \in 0 .. Depth - 1 : ring'[i] = IF i = head THEN born + 1 ELSE ring[i]
    BY <1>1
  <2>2. \A i \in 0 .. Depth - 1 : ring[i] \in 0 .. born
    BY DEF Inv, SlotsBorn
  <2>3. born \in Nat /\ born' = born + 1
    BY NewMoment DEF Inv, TypeOK
  <2> QED BY <2>1, <2>2, <2>3 DEF SlotsBorn
<1>6. Ordered'
  BY NewMomentOrdered
<1>7. HolesAreOldest'
  <2> SUFFICES ASSUME NEW s \in 0 .. count' - 2 PROVE SlotAt(s)' # 0
    BY DEF HolesAreOldest
  <2>1. CASE s = 0
    BY <2>1, <1>2, NewMoment
  <2>2. CASE s # 0
    <3>1. s \in 1 .. Depth - 1 /\ s - 1 \in 0 .. count - 2
      BY <1>1, <2>2
    <3> QED BY <3>1, <1>2 DEF Inv, HolesAreOldest
  <2> QED BY <2>1, <2>2
<1>8. \A s \in 0 .. Depth - 1 : \A i \in DOMAIN timeline' :
        timeline'[i] = SlotAt(s) => i \in DOMAIN timeline /\ timeline[i] = SlotAt(s)
  BY <1>3, OldMoment
<1>9. Remembered'
  <2> SUFFICES ASSUME NEW s \in LiveSlots', SlotAt(s)' # 0
               PROVE  \E l \in (left \cup {timeline})' : SlotAt(s)' \in Range(l)
    BY DEF Remembered, Lived
  <2>0. \A m : Lived(m) \/ m = born + 1 => \E l \in (left \cup {timeline})' : m \in Range(l)
    BY StillLived DEF Lived
  <2>1. CASE s = 0
    <3>1. SlotAt(s)' = born + 1
      BY <2>1, <1>2
    <3> QED BY <2>0, <3>1
  <2>2. CASE s # 0
    <3>1. s - 1 \in LiveSlots /\ SlotAt(s)' = SlotAt(s - 1)
      BY <2>2, <1>2, <1>4
    <3>2. Lived(SlotAt(s - 1))
      BY <3>1, <2>0 DEF Inv, Remembered
    <3> QED BY <3>1, <3>2, <2>0
  <2> QED BY <2>1, <2>2
<1>10. Spaced'
  <2> SUFFICES ASSUME left = {}, NEW s \in LiveSlots', NEW t \in LiveSlots', s < t,
                      NEW i \in DOMAIN timeline', NEW j \in DOMAIN timeline',
                      timeline'[i] = SlotAt(s)', timeline'[j] = SlotAt(t)'
               PROVE  i - j >= (t - s) * Interval
    BY <1>1 DEF Spaced
  <2>0. s \in Nat /\ t \in Nat /\ n \in Nat
    BY NewMoment, <1>1 DEF LiveSlots
  <2>1. t \in 1 .. Depth - 1 /\ t - 1 \in LiveSlots
    BY <1>4, <2>0
  <2>2. j \in DOMAIN timeline /\ timeline[j] = SlotAt(t - 1)
    BY <2>1, <1>2, <1>8, t - 1 \in 0 .. Depth - 1
  <2>3. CASE s # 0
    <3>1. s \in 1 .. Depth - 1 /\ s - 1 \in LiveSlots /\ s - 1 \in 0 .. Depth - 1
      BY <2>3, <1>4
    <3>2. i \in DOMAIN timeline /\ timeline[i] = SlotAt(s - 1)
      BY <3>1, <1>2, <1>8
    <3>3. i - j >= ((t - 1) - (s - 1)) * Interval
      BY <2>0, <2>1, <2>2, <3>1, <3>2 DEF Inv, Spaced
    <3>4. (t - 1) - (s - 1) = t - s
      BY <2>0
    <3> QED BY <3>3, <3>4
  <2>4. CASE s = 0
    <3>0. i \in 1 .. n + 1 /\ timeline'[i] = born + 1 /\ born \in Nat
      <4>1. SlotAt(s)' = SlotAt(0)'
        BY <2>4
      <4>2. born \in Nat
        BY DEF Inv, TypeOK
      <4> QED BY <4>1, <4>2, <1>2, NewMoment
    <3>1. i = n + 1
      <4>1. i \notin 1 .. n
        BY <3>0, NewMoment
      <4> QED BY <3>0, <4>1, <2>0
    <3>2. CASE t = 1
      <4>1. count > 0
        BY <2>1, <3>2, <1>1 DEF LiveSlots
      <4>2. n - j >= tick
        BY <4>1, <2>2, <3>2 DEF Inv, Ticked
      <4>3. (t - s) * Interval = Interval
        BY <2>4, <3>2
      <4>4. j \in Int
        BY <2>2, NewMoment
      <4> HIDE DEF n
      <4>5. i - j >= tick + 1
        BY <3>1, <4>2, <4>4, <1>1, <2>0
      <4>6. i - j >= Interval
        BY <4>4, <4>5, <3>1, <1>1, <2>0
      <4> QED BY <4>3, <4>6
    <3>3. CASE t # 1
      <4>1. t - 1 > 0 /\ 0 \in 0 .. count - 2 /\ count > 0 /\ 0 \in LiveSlots
        BY <2>1, <3>3, <1>1 DEF LiveSlots
      <4>2. PICK k \in DOMAIN timeline : timeline[k] = SlotAt(0)
        BY <4>1 DEF Inv, HolesAreOldest, Remembered, Lived, Range
      <4>3. n - k >= tick
        BY <4>1, <4>2 DEF Inv, Ticked
      <4>4. k - j >= ((t - 1) - 0) * Interval
        BY <4>1, <4>2, <2>1, <2>2 DEF Inv, Spaced
      <4>5. ((t - 1) - 0) * Interval = t * Interval - Interval /\ (t - s) * Interval = t * Interval
            /\ t * Interval \in Int
        BY <2>0, <2>4
      <4> HIDE DEF n
      <4>6. j \in Int /\ k \in Int
        BY <2>2, <4>2, NewMoment
      <4> QED BY <3>1, <4>3, <4>4, <4>5, <4>6, <1>1, <2>0
    <3> QED BY <3>2, <3>3
  <2> QED BY <2>3, <2>4
<1>11. Ticked'
  BY <1>1, NewMoment DEF Ticked
<1> QED BY <1>5, <1>6, <1>7, <1>9, <1>10, <1>11 DEF RingInv

\* A frame keeps the invariant.
LEMMA FrameInv == ASSUME Inv, Frame PROVE Inv'
<1> USE DepthAssumption, IntervalAssumption
<1>1. tick \in 0 .. Interval - 1 /\ head \in 0 .. Depth - 1 /\ count \in 0 .. Depth
      /\ ring \in [0 .. Depth - 1 -> 0 .. MaxMoments]
  BY DEF Inv, TypeOK
<1> DEFINE Without  == UNCHANGED <<ring, head, count>> /\ tick' \in {tick, tick + 1}
                       /\ tick' \in 0 .. Interval - 1
           Taken    == tick' = 0 /\ tick + 1 >= Interval /\ Capture(born + 1, TRUE)
           Spoilt   == tick' = 0 /\ Capture(born + 1, FALSE)
           RingType == ring' \in [0 .. Depth - 1 -> 0 .. MaxMoments] /\ head' \in 0 .. Depth - 1
                       /\ count' \in 0 .. Depth /\ tick' \in 0 .. Interval - 1
<1>2. Without \/ Taken \/ Spoilt
  <2>1. CASE ~enabled \/ session
    BY <1>1, <2>1 DEF Frame, NoteFrame
  <2>2. CASE ~(~enabled \/ session) /\ tick + 1 < Interval
    <3>1. tick' = tick + 1 /\ UNCHANGED <<ring, head, count>>
      BY <2>2 DEF Frame, NoteFrame
    <3>2. tick' \in 0 .. Interval - 1
      BY <1>1, <2>2, <3>1
    <3> QED BY <3>1, <3>2
  <2>3. CASE ~(~enabled \/ session) /\ ~(tick + 1 < Interval)
    <3>1. tick' = 0 /\ \E fits \in BOOLEAN : Capture(born + 1, fits)
      BY <2>3 DEF Frame, NoteFrame
    <3>2. tick + 1 >= Interval
      BY <2>3, <1>1
    <3> QED BY <3>1, <3>2
  <2> QED BY <2>1, <2>2, <2>3
<1>3. RingInv' /\ RingType
  <2>1. CASE Without
    BY <1>1, <2>1, FrameWithout
  <2>2. CASE Taken
    <3>1. RingInv'
      BY <2>2, FrameCaptured
    <3>2. ring' = [ring EXCEPT ![head] = born + 1] /\ born + 1 \in 0 .. MaxMoments
      BY <2>2, NewMoment, MomentsAssumption DEF Capture
    <3>3. head' \in 0 .. Depth - 1 /\ count' \in 0 .. Depth
      BY <1>1, <2>2, NextHead DEF Capture
    <3> QED BY <1>1, <2>2, <3>1, <3>2, <3>3
  <2>3. CASE Spoilt
    <3>1. RingInv'
      BY <2>3, FrameSpoilt
    <3>2. ring' = [ring EXCEPT ![head] = 0] /\ head' = head /\ count' = count
      BY <2>3 DEF Capture
    <3> QED BY <1>1, <2>3, <3>1, <3>2, MomentsAssumption
  <2> QED BY <1>2, <2>1, <2>2, <2>3
<1> HIDE DEF Without, Taken, Spoilt
<1>4. TypeOK'
  <2>1. {enabled, open, stale, session}' \subseteq BOOLEAN
    BY DEF Inv, TypeOK, Frame, NoteFrame, strip
  <2>2. sel' = sel /\ open' = open /\ ~open /\ place' \in Places /\ left' = left
    BY DEF Inv, TypeOK, Frame, strip, Places
  <2> QED BY <1>3, <2>1, <2>2, NewMoment DEF Inv, TypeOK
<1>5. Known'
  BY DEF Inv, Frame, Known
<1> QED BY <1>3, <1>4, <1>5 DEF Inv, RingInv

\* Where the moment that the selected slot holds is: in a timeline that was lived.
LEMMA Landing ==
  ASSUME Inv, Commit
  PROVE  \E l \in left \cup {timeline} : \E k \in 1 .. Len(l) :
           /\ l[k] = SlotAt(sel) /\ timeline' = SubSeq(l, 1, k)
           /\ k = CHOOSE i \in DOMAIN l : l[i] = SlotAt(sel)
           /\ timeline' \in Seq(1 .. born) /\ Len(timeline') = k /\ DOMAIN timeline' = 1 .. k
           /\ l \in Seq(1 .. born) /\ Len(l) \in Nat /\ DOMAIN l = 1 .. Len(l)
           /\ Increasing(l)
           /\ \A i \in 1 .. k : timeline'[i] = l[i]
<1> DEFINE l == CHOOSE x \in left \cup {timeline} : SlotAt(sel) \in Range(x)
           k == CHOOSE i \in DOMAIN l : l[i] = SlotAt(sel)
<1>1. SlotAt(sel) # 0 /\ sel \in LiveSlots
  BY DepthAssumption DEF Inv, TypeOK, Commit, LiveSlots
<1>2. l \in left \cup {timeline} /\ SlotAt(sel) \in Range(l)
  BY <1>1 DEF Inv, Remembered, Lived
<1>3. timeline' = SubSeq(l, 1, k)
  BY DEF Commit, Land, Through
<1> HIDE DEF l
<1>4. l \in Seq(1 .. born) /\ Increasing(l)
  BY <1>2 DEF Inv, TypeOK, Ordered
<1>5. Len(l) \in Nat /\ DOMAIN l = 1 .. Len(l)
  BY <1>4, LenProperties
<1>6. k \in 1 .. Len(l) /\ l[k] = SlotAt(sel)
  BY <1>2, <1>5 DEF Range
<1>7. k = CHOOSE i \in DOMAIN l : l[i] = SlotAt(sel)
  OBVIOUS
<1> HIDE DEF k
<1>8. \A i \in 1 .. k : l[i] \in 1 .. born
  <2>1. \A i \in 1 .. k : i \in 1 .. Len(l)
    BY <1>5, <1>6
  <2> QED BY <1>4, <2>1, ElementOfSeq
<1>9. /\ timeline' \in Seq(1 .. born)
      /\ Len(timeline') = IF 1 <= k THEN k - 1 + 1 ELSE 0
      /\ \A i \in 1 .. k - 1 + 1 : timeline'[i] = l[1 + i - 1]
  BY <1>3, <1>5, <1>6, <1>8, SubSeqProperties, 1 \in Int
<1>10. Len(timeline') = k /\ DOMAIN timeline' = 1 .. k /\ \A i \in 1 .. k : timeline'[i] = l[i]
  BY <1>5, <1>6, <1>9, LenProperties
<1> QED BY <1>2, <1>3, <1>4, <1>5, <1>6, <1>7, <1>9, <1>10

\* Going back keeps the slots at and behind the one chosen, and the timeline
\* up to the moment they all lie before.
LEMMA CommitInv == ASSUME Inv, Commit PROVE Inv'
<1> USE DepthAssumption, IntervalAssumption
<1>1. /\ count \in 0 .. Depth /\ sel \in 0 .. Depth - 1 /\ sel < count /\ born \in 1 .. MaxMoments
      /\ born \in Nat /\ left \subseteq Seq(1 .. born) /\ timeline \in Seq(1 .. born)
      /\ count' = count - sel /\ tick' = 0 /\ sel' = 0 /\ ring' = ring /\ born' = born
      /\ left' = (IF left = {} THEN {} ELSE left \cup {timeline}) /\ SlotAt(sel) # 0
  BY MomentsAssumption DEF Inv, TypeOK, Commit, Land
<1>2. head' \in 0 .. Depth - 1 /\ \A s \in 0 .. count - sel - 1 : SlotAt(s)' = SlotAt(sel + s)
  BY <1>1, LandSlots DEF Inv, Commit
<1>3. SlotAt(sel) \in 1 .. born
  BY <1>1, SlotValue
<1>4. LiveSlots' = 0 .. count - sel - 1 /\ \A s \in LiveSlots' : s \in Nat /\ sel + s \in LiveSlots
  BY <1>1 DEF LiveSlots
<1>5. SlotsBorn'
  BY <1>1 DEF Inv, SlotsBorn
<1>6. HolesAreOldest'
  <2> SUFFICES ASSUME NEW s \in 0 .. count' - 2 PROVE SlotAt(s)' # 0
    BY DEF HolesAreOldest
  <2>1. SlotAt(s)' = SlotAt(sel + s) /\ sel + s \in 0 .. count - 2
    BY <1>1, <1>2
  <2> QED BY <2>1 DEF Inv, HolesAreOldest
<1>7. timeline' \in Seq(1 .. born) /\ Ordered' /\ (Remembered /\ Spaced /\ Ticked)'
  <2>01. PICK l \in left \cup {timeline} : \E k \in 1 .. Len(l) :
           /\ l[k] = SlotAt(sel) /\ timeline' \in Seq(1 .. born)
           /\ Len(timeline') = k /\ DOMAIN timeline' = 1 .. k
           /\ l \in Seq(1 .. born) /\ Len(l) \in Nat /\ DOMAIN l = 1 .. Len(l)
           /\ Increasing(l)
           /\ \A i \in 1 .. k : timeline'[i] = l[i]
    BY Landing
  <2>0. PICK k \in 1 .. Len(l) :
           /\ l[k] = SlotAt(sel) /\ timeline' \in Seq(1 .. born)
           /\ Len(timeline') = k /\ DOMAIN timeline' = 1 .. k
           /\ l \in Seq(1 .. born) /\ Len(l) \in Nat /\ DOMAIN l = 1 .. Len(l)
           /\ Increasing(l)
           /\ \A i \in 1 .. k : timeline'[i] = l[i]
    BY <2>01
  <2>3. \A i \in 1 .. k : i \in 1 .. Len(l) /\ i \in Int
    BY <2>0
  <2>4. Increasing(timeline')
    BY <2>0, <2>3 DEF Increasing
  <2>5. Ordered'
    BY <1>1, <2>4 DEF Inv, Ordered
  <2>1. CASE left # {}
    <3>1. \A m : Lived(m) => Lived(m)'
      BY <1>1, <2>1 DEF Lived
    <3>2. Remembered'
      <4> SUFFICES ASSUME NEW s \in LiveSlots', SlotAt(s)' # 0 PROVE Lived(SlotAt(s))'
        BY DEF Remembered
      <4>1. SlotAt(s)' = SlotAt(sel + s) /\ sel + s \in LiveSlots
        BY <1>2, <1>4
      <4>2. Lived(SlotAt(sel + s))
        BY <4>1 DEF Inv, Remembered
      <4> QED BY <4>1, <4>2, <3>1 DEF Lived
    <3>3. left' # {}
      BY <1>1, <2>1
    <3> QED BY <2>0, <2>5, <3>2, <3>3 DEF Spaced, Ticked
  <2>2. CASE left = {}
    <3>1. l = timeline
      BY <2>2
    <3>6. Ticked'
      <4> SUFFICES ASSUME NEW i \in 1 .. k, timeline'[i] = SlotAt(0)'
                   PROVE  k - i >= 0
        BY <1>1, <2>0 DEF Ticked
      <4> QED BY <2>3, <2>0
    <3>7. Remembered'
      <4> SUFFICES ASSUME NEW s \in LiveSlots', SlotAt(s)' # 0
                   PROVE  \E i \in 1 .. k : timeline'[i] = SlotAt(s)'
        BY <2>0 DEF Remembered, Lived, Range
      <4>1. SlotAt(s)' = SlotAt(sel + s) /\ sel + s \in LiveSlots /\ s \in Nat
        BY <1>2, <1>4
      <4>2. PICK i \in 1 .. Len(timeline) : timeline[i] = SlotAt(sel + s)
        BY <4>1, <2>2, <2>0, <3>1 DEF Inv, Remembered, Lived, Range
      <4>3. CASE s = 0
        <5>1. k \in 1 .. k /\ sel + s = sel
          BY <4>3, <2>0, <1>1
        <5> QED BY <5>1, <4>1, <2>0
      <4>4. CASE s # 0
        <5>1. sel \in LiveSlots /\ sel < sel + s
          BY <1>1, <4>1, <4>4 DEF LiveSlots
        <5>2. k \in DOMAIN timeline /\ i \in DOMAIN timeline
          BY <4>2, <2>0, <3>1
        <5>3. k - i >= ((sel + s) - sel) * Interval
          BY <5>1, <5>2, <4>1, <4>2, <2>0, <3>1, <2>2 DEF Inv, Spaced
        <5>4. ((sel + s) - sel) * Interval = s * Interval /\ s * Interval \in Nat
          BY <4>1, <1>1
        <5>5. i \in 1 .. k
          <6>1. k - i >= 0 /\ i \in Nat /\ k \in Nat /\ i >= 1
            BY <5>3, <5>4, <4>2, <2>0, <3>1
          <6> QED BY <6>1
        <5> QED BY <5>5, <4>1, <4>2, <2>0, <3>1
      <4> QED BY <4>3, <4>4
    <3>8. Spaced'
      <4> SUFFICES ASSUME NEW s \in LiveSlots', NEW t \in LiveSlots', s < t,
                          NEW i \in 1 .. k, NEW j \in 1 .. k,
                          timeline'[i] = SlotAt(s)', timeline'[j] = SlotAt(t)'
                   PROVE  i - j >= (t - s) * Interval
        BY <2>0 DEF Spaced
      <4>1. sel + s \in LiveSlots /\ sel + t \in LiveSlots /\ s \in Nat /\ t \in Nat
        BY <1>1, <1>4
      <4> sel + s < sel + t
        BY <1>1, <4>1
      <4>2. timeline[i] = SlotAt(sel + s) /\ timeline[j] = SlotAt(sel + t)
            /\ i \in DOMAIN timeline /\ j \in DOMAIN timeline
        BY <1>2, <1>4, <2>0, <3>1, <2>3
      <4>3. i - j >= ((sel + t) - (sel + s)) * Interval
        BY <4>1, <4>2, <2>2 DEF Inv, Spaced
      <4>4. (sel + t) - (sel + s) = t - s
        BY <4>1, <1>1
      <4> QED BY <4>3, <4>4
    <3> QED BY <2>0, <2>5, <3>6, <3>7, <3>8
  <2> QED BY <2>1, <2>2
<1>8. TypeOK'
  <2>1. {enabled, open, stale, session}' \subseteq BOOLEAN
    BY DEF Inv, TypeOK, Commit, Land
  <2>2. ~open' /\ place' = place /\ left' \subseteq Seq(1 .. born)
    BY <1>1 DEF Commit
  <2> QED BY <1>1, <1>2, <1>7, <2>1, <2>2 DEF Inv, TypeOK
<1>9. Known'
  BY DEF Inv, TypeOK, Commit, Land, Known
<1> QED BY <1>5, <1>6, <1>7, <1>8, <1>9 DEF Inv, RingInv

\* Every step keeps the invariant.
LEMMA NextInv == Inv /\ [Next]_vars => Inv'
BY CheckInv, JumpInv, FrameInv, StripInv, CommitInv DEF Next

\* The ring's indices stay in it and the selection among its live slots.
THEOREM Typed == Spec => []TypeOK
<1>1. Inv => TypeOK
  BY DEF Inv
<1> QED BY <1>1, InitInv, NextInv, PTL DEF Spec

\* Whatever captures fail and whatever the player does, the oldest live slot is
\* the only one that may not load.
THEOREM OnlyOldestSpoilt == Spec => []HolesAreOldest
<1>1. Inv => HolesAreOldest
  BY DEF Inv
<1> QED BY <1>1, InitInv, NextInv, PTL DEF Spec

\* What the filmstrip's caption says of a snapshot's age is never too much.
THEOREM CaptionTrue == Spec => []CaptionHolds
<1>1. ASSUME Inv PROVE CaptionHolds
  <2> DEFINE At(m) == CHOOSE i \in DOMAIN timeline : timeline[i] = m
  <2> SUFFICES ASSUME left = {}, NEW s \in 0 .. count - 1,
                      SlotAt(0) \in Range(timeline), SlotAt(s) \in Range(timeline)
               PROVE  At(SlotAt(0)) - At(SlotAt(s)) >= s * Interval
    BY DEF CaptionHolds
  <2>1. \A m \in Range(timeline) : At(m) \in DOMAIN timeline /\ timeline[At(m)] = m
    BY DEF Range
  <2>2. DOMAIN timeline \subseteq Nat
    BY <1>1, LenProperties DEF Inv, TypeOK
  <2>3. 0 \in LiveSlots /\ s \in LiveSlots /\ s \in Nat
    BY <1>1, DepthAssumption DEF Inv, TypeOK, LiveSlots
  <2> HIDE DEF At
  <2>4. CASE s = 0
    <3>1. At(SlotAt(0)) \in Nat
      BY <2>1, <2>2
    <3> QED BY <2>4, <3>1, IntervalAssumption
  <2>5. CASE s # 0
    <3>1. At(SlotAt(0)) - At(SlotAt(s)) >= (s - 0) * Interval
      BY <1>1, <2>1, <2>3, <2>5 DEF Inv, Spaced
    <3> QED BY <3>1, <2>3
  <2> QED BY <2>4, <2>5
<1> QED BY <1>1, InitInv, NextInv, PTL DEF Spec

---------------------------------------------------------------------------
(* The ring implements RewindHistory.                                      *)

Kept    == IF left = {} THEN Live ELSE {}
When(m) == CHOOSE i \in DOMAIN timeline : timeline[i] = m

\* Live snapshots are moments of the timeline, in the order of their slots.
LEMMA LiveOrder ==
  ASSUME Inv, left = {}
  PROVE  /\ DOMAIN timeline \subseteq Nat
         /\ \A s \in LiveSlots : SlotAt(s) # 0 =>
              When(SlotAt(s)) \in DOMAIN timeline /\ timeline[When(SlotAt(s))] = SlotAt(s)
         /\ \A s, t \in LiveSlots : s < t /\ SlotAt(s) # 0 /\ SlotAt(t) # 0 =>
              When(SlotAt(t)) < When(SlotAt(s)) /\ SlotAt(s) # SlotAt(t)
<1>1. DOMAIN timeline \subseteq Nat /\ LiveSlots \subseteq Nat
  BY LenProperties DEF Inv, TypeOK, LiveSlots
<1>2. ASSUME NEW s \in LiveSlots, SlotAt(s) # 0
      PROVE  When(SlotAt(s)) \in DOMAIN timeline /\ timeline[When(SlotAt(s))] = SlotAt(s)
  BY <1>2 DEF Inv, Remembered, Lived, Range, When
<1>3. ASSUME NEW s \in LiveSlots, NEW t \in LiveSlots, s < t, SlotAt(s) # 0, SlotAt(t) # 0
      PROVE  When(SlotAt(t)) < When(SlotAt(s)) /\ SlotAt(s) # SlotAt(t)
  <2>1. When(SlotAt(s)) - When(SlotAt(t)) >= (t - s) * Interval
    BY <1>2, <1>3 DEF Inv, Spaced
  <2>2. (t - s) * Interval >= 1
    BY <1>1, <1>3, IntervalAssumption
  <2>3. When(SlotAt(s)) \in Nat /\ When(SlotAt(t)) \in Nat
    BY <1>1, <1>2, <1>3
  <2>4. (t - s) * Interval \in Int
    BY <1>1, IntervalAssumption
  <2>5. When(SlotAt(t)) < When(SlotAt(s))
    BY <2>1, <2>2, <2>3, <2>4
  <2> QED BY <2>3, <2>5
<1> QED BY <1>1, <1>2, <1>3

\* No more moments are kept than slots are live, and as many when the ring is
\* full and unspoilt.
LEMMA LiveCount ==
  ASSUME Inv
  PROVE  /\ IsFiniteSet(Live) /\ Cardinality(Live) \in Nat /\ Cardinality(Live) <= count
         /\ left = {} /\ count > 0 /\ SlotAt(count - 1) # 0 => Cardinality(Live) = count
<1> DEFINE S == {s \in LiveSlots : SlotAt(s) # 0}
           f == [s \in S |-> SlotAt(s)]
<1>1. count \in Nat /\ LiveSlots \subseteq Nat
  BY DEF Inv, TypeOK, LiveSlots
<1>2. IsFiniteSet(LiveSlots) /\ Cardinality(LiveSlots) = count
  BY <1>1, FS_Interval DEF LiveSlots
<1>3. IsFiniteSet(S) /\ Cardinality(S) <= count /\ Cardinality(S) \in Nat
  BY <1>2, FS_Subset, FS_CardinalityType
<1>4. f \in Surjection(S, Live)
  BY DEF Surjection, Live, LiveSlots
<1>5. IsFiniteSet(Live) /\ Cardinality(Live) <= Cardinality(S)
      /\ (Cardinality(Live) = Cardinality(S) <=> f \in Injection(S, Live))
  BY <1>3, <1>4, FS_Surjection
<1>6. ASSUME left = {}, count > 0, SlotAt(count - 1) # 0 PROVE Cardinality(Live) = count
  <2>1. S = LiveSlots
    BY <1>1, <1>6 DEF Inv, HolesAreOldest, LiveSlots
  <2>2. \A s, t \in S : f[s] = f[t] => s = t
    <3> SUFFICES ASSUME NEW s \in S, NEW t \in S, SlotAt(s) = SlotAt(t) PROVE s = t
      OBVIOUS
    <3> QED BY <1>1, <1>6, LiveOrder
  <2>3. f \in Injection(S, Live)
    BY <1>4, <2>2 DEF Injection, Surjection, IsInjective
  <2> QED BY <1>2, <1>5, <2>1, <2>3
<1> QED BY <1>1, <1>3, <1>5, <1>6, FS_CardinalityType

\* A spoilt slot holds no memory.
LEMMA SpoiltCount ==
  ASSUME Inv, count > 0, SlotAt(count - 1) = 0
  PROVE  Cardinality(Live) < count
<1> DEFINE S == LiveSlots \ {count - 1}
           T == {s \in S : SlotAt(s) # 0}
           f == [s \in T |-> SlotAt(s)]
<1>1. count \in Nat /\ LiveSlots \subseteq Nat /\ count - 1 \in LiveSlots
  BY DEF Inv, TypeOK, LiveSlots
<1>2. IsFiniteSet(LiveSlots) /\ Cardinality(LiveSlots) = count
  BY <1>1, FS_Interval DEF LiveSlots
<1>3. IsFiniteSet(S) /\ Cardinality(S) = count - 1
  BY <1>1, <1>2, FS_RemoveElement
<1>4. IsFiniteSet(T) /\ Cardinality(T) <= count - 1 /\ Cardinality(T) \in Nat
  BY <1>3, FS_Subset, FS_CardinalityType
<1>5. f \in Surjection(T, Live)
  BY DEF Surjection, Live, LiveSlots
<1>6. Cardinality(Live) <= Cardinality(T)
  BY <1>4, <1>5, FS_Surjection
<1> QED BY <1>1, <1>4, <1>6, LiveCount

\* The slot furthest back is the oldest memory.
LEMMA OldestSlot ==
  ASSUME Inv, left = {}, count > 0, SlotAt(count - 1) # 0
  PROVE  /\ SlotAt(count - 1) = CHOOSE m \in Live : \A k \in Live : When(m) <= When(k)
         /\ SlotAt(count - 1) \in Live
<1> DEFINE last == SlotAt(count - 1)
<1>1. count \in Nat /\ count - 1 \in LiveSlots
  BY DEF Inv, TypeOK, LiveSlots
<1>2. last \in Live
  BY <1>1 DEF Live, LiveSlots
<1>3. ASSUME NEW k \in Live \ {last}
      PROVE  When(last) < When(k)
  <2>1. PICK s \in LiveSlots : k = SlotAt(s) /\ SlotAt(s) # 0
    BY DEF Live, LiveSlots
  <2>2. s < count - 1
    BY <1>1, <2>1 DEF LiveSlots
  <2> QED BY <1>1, <2>1, <2>2, LiveOrder
<1>4. When(last) \in Nat /\ \A k \in Live : When(k) \in Nat
  BY <1>1, LiveOrder DEF Live, LiveSlots
<1>5. \A k \in Live : When(last) <= When(k)
  BY <1>3, <1>4
<1>6. ASSUME NEW m \in Live, \A k \in Live : When(m) <= When(k) PROVE m = last
  BY <1>2, <1>3, <1>4, <1>6
<1> QED BY <1>2, <1>5, <1>6

\* A full ring without the slot furthest back.
LEMMA RestOfLive ==
  ASSUME Inv, left = {}, count = Depth
  PROVE  {SlotAt(s) : s \in 0 .. Depth - 2} \ {0} = Live \ {SlotAt(Depth - 1)}
<1> USE DepthAssumption
<1>1. \A s \in 0 .. Depth - 2 : SlotAt(s) # SlotAt(Depth - 1)
  <2> TAKE s \in 0 .. Depth - 2
  <2>1. SlotAt(s) # 0 /\ s \in LiveSlots /\ Depth - 1 \in LiveSlots /\ s < Depth - 1
    BY DEF Inv, HolesAreOldest, LiveSlots
  <2>2. CASE SlotAt(Depth - 1) = 0
    BY <2>1, <2>2
  <2>3. CASE SlotAt(Depth - 1) # 0
    BY <2>1, <2>3, LiveOrder
  <2> QED BY <2>2, <2>3
<1>2. \A s \in 0 .. Depth - 1 : s \in 0 .. Depth - 2 \/ s = Depth - 1
  OBVIOUS
<1> QED BY <1>1, <1>2 DEF Live

\* A frame adds a moment to the timeline and perhaps to the memory, and may
\* cost a full memory its oldest.
LEMMA FrameRemembers ==
  ASSUME Inv, Frame
  PROVE  \/ Kept' \in {Kept, Kept \cup {born + 1}} /\ Cardinality(Kept') <= Depth
         \/ /\ Cardinality(Kept) = Depth
            /\ Kept' \in {Kept \ {SlotAt(count - 1)},
                          (Kept \ {SlotAt(count - 1)}) \cup {born + 1}}
            /\ left = {} /\ count > 0 /\ SlotAt(count - 1) # 0
<1> USE DepthAssumption
<1>1. /\ left' = left /\ count \in 0 .. Depth /\ born + 1 # 0
      /\ LiveSlots \subseteq 0 .. Depth - 1 /\ Cardinality({}) = 0
  BY FS_EmptySet DEF Inv, TypeOK, Frame, LiveSlots
<1>2. Live = {SlotAt(s) : s \in LiveSlots} \ {0} /\ Live' = {SlotAt(s)' : s \in LiveSlots'} \ {0}
  BY DEF Live, LiveSlots
<1>3. CASE left # {}
  BY <1>1, <1>3 DEF Kept
<1>4. CASE left = {}
  <2>0. Kept = Live /\ Kept' = Live'
    BY <1>1, <1>4 DEF Kept
  <2>1. Cardinality(Live) \in Nat /\ Cardinality(Live) <= count /\ IsFiniteSet(Live)
    BY LiveCount
  <2>2. CASE UNCHANGED <<ring, head, count>>
    <3>1. Live' = Live
      BY <2>2 DEF Live, SlotAt
    <3> QED BY <1>1, <2>0, <2>1, <3>1
  <2>3. CASE Capture(born + 1, TRUE)
    <3>1. SlotAt(0)' = born + 1 /\ \A s \in 1 .. Depth - 1 : SlotAt(s)' = SlotAt(s - 1)
      BY <2>3, CaptureSlots DEF Inv
    <3>2. CASE count < Depth
      <4>1. LiveSlots' = 0 .. count /\ LiveSlots = 0 .. count - 1
        BY <1>1, <2>3, <3>2 DEF Capture, LiveSlots
      <4>2. \A s \in LiveSlots' : s = 0 \/ (s \in 1 .. Depth - 1 /\ s - 1 \in LiveSlots)
        BY <1>1, <3>2, <4>1
      <4>3. \A s \in LiveSlots : s + 1 \in 1 .. Depth - 1 /\ s + 1 \in LiveSlots' /\ (s + 1) - 1 = s
        BY <1>1, <3>2, <4>1
      <4>4. \A s \in LiveSlots : SlotAt(s) = SlotAt(s + 1)'
        BY <3>1, <4>3
      <4>5. 0 \in LiveSlots'
        BY <1>1, <4>1
      <4>6. Live' = Live \cup {born + 1}
        BY <1>1, <1>2, <3>1, <4>2, <4>3, <4>4, <4>5
      <4>7. Cardinality(Live \cup {born + 1}) <= Depth
        BY <1>1, <2>1, <3>2, FS_AddElement
      <4> QED BY <2>0, <4>6, <4>7
    <3>3. CASE count = Depth
      <4>1. LiveSlots' = 0 .. Depth - 1
        BY <2>3, <3>3 DEF Capture, LiveSlots
      <4>2. \A s \in 0 .. Depth - 1 : s = 0 \/ (s \in 1 .. Depth - 1 /\ s - 1 \in 0 .. Depth - 2)
        OBVIOUS
      <4>3. \A s \in 0 .. Depth - 2 : s + 1 \in 1 .. Depth - 1 /\ (s + 1) - 1 = s
        OBVIOUS
      <4>4. \A s \in 0 .. Depth - 2 : SlotAt(s) = SlotAt(s + 1)' /\ s + 1 \in LiveSlots'
        BY <3>1, <4>1, <4>3
      <4>5. Live' = ({SlotAt(s) : s \in 0 .. Depth - 2} \ {0}) \cup {born + 1}
        BY <1>1, <1>2, <3>1, <4>1, <4>2, <4>3, <4>4
      <4>6. Live' = (Live \ {SlotAt(Depth - 1)}) \cup {born + 1}
        BY <1>4, <3>3, <4>5, RestOfLive
      <4>7. CASE SlotAt(Depth - 1) = 0
        <5>1. Live' = Live \cup {born + 1}
          BY <1>2, <4>6, <4>7
        <5>2. Depth - 1 \notin {s \in LiveSlots : SlotAt(s) # 0}
          BY <4>7
        <5>3. Cardinality(Live) < Depth
          BY <3>3, <4>7, SpoiltCount, <1>4
        <5>4. Cardinality(Live \cup {born + 1}) <= Depth
          BY <2>1, <5>3, FS_AddElement
        <5> QED BY <2>0, <5>1, <5>4
      <4>8. CASE SlotAt(Depth - 1) # 0
        BY <1>4, <2>0, <3>3, <4>6, <4>8, LiveCount
      <4> QED BY <4>7, <4>8
    <3> QED BY <1>1, <3>2, <3>3
  <2>4. CASE Capture(born + 1, FALSE)
    <3>1. SlotAt(Depth - 1)' = 0 /\ \A s \in 0 .. Depth - 2 : SlotAt(s)' = SlotAt(s)
      BY <2>4, CaptureSlots DEF Inv
    <3>2. LiveSlots' = LiveSlots
      BY <2>4 DEF Capture, LiveSlots
    <3>3. CASE count < Depth
      <4>1. \A s \in LiveSlots : SlotAt(s)' = SlotAt(s)
        BY <1>1, <3>1, <3>3 DEF LiveSlots
      <4>2. Live' = Live
        BY <1>2, <3>2, <4>1
      <4> QED BY <1>1, <2>0, <2>1, <4>2
    <3>4. CASE count = Depth
      <4>1. LiveSlots' = (0 .. Depth - 2) \cup {Depth - 1}
        <5>1. LiveSlots' = 0 .. Depth - 1
          BY <3>2, <3>4 DEF LiveSlots
        <5>2. \A s : s \in 0 .. Depth - 1 <=> s \in 0 .. Depth - 2 \/ s = Depth - 1
          OBVIOUS
        <5> QED BY <5>1, <5>2
      <4>2. Live' = {SlotAt(s) : s \in 0 .. Depth - 2} \ {0}
        BY <1>2, <3>1, <4>1
      <4>3. Live' = Live \ {SlotAt(Depth - 1)}
        BY <1>4, <3>4, <4>2, RestOfLive
      <4>4. CASE SlotAt(Depth - 1) = 0
        <5>1. Live' = Live
          BY <1>2, <4>3, <4>4
        <5> QED BY <1>1, <2>0, <2>1, <5>1
      <4>5. CASE SlotAt(Depth - 1) # 0
        BY <1>4, <2>0, <3>4, <4>3, <4>5, LiveCount
      <4> QED BY <4>4, <4>5
    <3> QED BY <1>1, <3>3, <3>4
  <2> QED BY <2>2, <2>3, <2>4 DEF Frame, NoteFrame
<1> QED BY <1>3, <1>4

\* RewindHistory brings its own instance of FiniteSets.
LEMMA SameCardinality == \A S : History!Cardinality(S) = Cardinality(S)
BY DEF Cardinality, History!Cardinality

\* A frame is a moment lived.
LEMMA FrameRefines == ASSUME Inv, Frame PROVE History!Live
<1>1. born + 1 \in (1 .. MaxMoments) \ Range(timeline) /\ timeline' = Append(timeline, born + 1)
  <2>1. born + 1 \in 1 .. MaxMoments /\ timeline' = Append(timeline, born + 1) /\ born \in Nat
    BY NewMoment DEF Frame, Inv, TypeOK
  <2>2. \A i \in DOMAIN timeline : timeline[i] \in 1 .. born
    BY NewMoment
  <2> QED BY <2>1, <2>2 DEF Range
<1>2. CASE Kept' \in {Kept, Kept \cup {born + 1}} /\ Cardinality(Kept') <= Depth
  BY <1>1, <1>2, SameCardinality DEF History!Live, History!Range, Range, Kept
<1>3. CASE /\ Cardinality(Kept) = Depth
           /\ Kept' \in {Kept \ {SlotAt(count - 1)},
                         (Kept \ {SlotAt(count - 1)}) \cup {born + 1}}
           /\ left = {} /\ count > 0 /\ SlotAt(count - 1) # 0
  <2>1. History!Oldest = SlotAt(count - 1)
    BY <1>3, OldestSlot DEF History!Oldest, History!When, When
  <2> QED BY <1>1, <1>3, <2>1, SameCardinality DEF History!Live, History!Range, Range, Kept
<1> QED BY <1>2, <1>3, FrameRemembers

\* Going back forgets exactly the moments after the one chosen; while the ring
\* is of a machine that went elsewhere it may go back to any moment lived.
LEMMA CommitRefines == ASSUME Inv, Commit PROVE History!GoBack \/ History!Away
<1> DEFINE m == SlotAt(sel)
<1>1. /\ left' = (IF left = {} THEN {} ELSE left \cup {timeline})
      /\ m \in 1 .. MaxMoments /\ m # 0 /\ sel \in LiveSlots
      /\ sel \in Nat /\ count \in Nat /\ count' = count - sel /\ timeline' = Through(m)
  <2>1. sel \in 0 .. Depth - 1 /\ sel \in LiveSlots /\ count \in Nat /\ born \in 1 .. MaxMoments
    BY DepthAssumption DEF Inv, TypeOK, Commit, LiveSlots
  <2>2. m \in 0 .. born /\ m # 0
    BY <2>1, SlotValue DEF Commit
  <2> QED BY <2>1, <2>2, MomentsAssumption, DepthAssumption DEF Commit, Land
<1>2. CASE left # {}
  <2>1. timeline' \in Seq(1 .. born) /\ 1 .. born \subseteq 1 .. MaxMoments
    BY Landing, MomentsAssumption DEF Inv, TypeOK
  <2>2. timeline' \in Seq(1 .. MaxMoments) /\ left' # {}
    BY <1>1, <1>2, <2>1, SeqMonotonic
  <2> QED BY <1>2, <2>2 DEF History!Away
<1>3. CASE left = {}
  <2>1. timeline' = SubSeq(timeline, 1, When(m))
    BY <1>1, <1>3, Landing DEF When
  <2>2. \A s \in 0 .. count - sel - 1 : SlotAt(s)' = SlotAt(sel + s)
    BY LandSlots DEF Inv, TypeOK, Commit
  <2>3. \A k \in Live' : k \in Live /\ When(k) <= When(m)
    <3> SUFFICES ASSUME NEW s \in 0 .. count - sel - 1, SlotAt(sel + s) # 0
                 PROVE  SlotAt(sel + s) \in Live /\ When(SlotAt(sel + s)) <= When(m)
      BY <1>1, <2>2 DEF Live
    <3>1. sel + s \in LiveSlots /\ s \in Nat
      BY <1>1 DEF LiveSlots
    <3>2. When(m) \in Nat
      BY <1>1, <1>3, LiveOrder
    <3>3. CASE s = 0
      BY <1>1, <3>1, <3>2, <3>3, sel + 0 = sel DEF Live, LiveSlots
    <3>4. CASE s # 0
      <4>1. When(SlotAt(sel + s)) < When(m)
        BY <1>1, <1>3, <3>1, <3>4, LiveOrder, sel < sel + s
      <4>2. When(SlotAt(sel + s)) \in Nat
        BY <1>3, <3>1, LiveOrder
      <4> QED BY <3>1, <3>2, <4>1, <4>2 DEF Live, LiveSlots
    <3> QED BY <3>3, <3>4
  <2>4. \A k \in Live : When(k) <= When(m) => k \in Live'
    <3> SUFFICES ASSUME NEW t \in LiveSlots, SlotAt(t) # 0, When(SlotAt(t)) <= When(m)
                 PROVE  SlotAt(t) \in Live'
      BY DEF Live, LiveSlots
    <3>1. t \in Nat /\ When(m) \in Nat /\ When(SlotAt(t)) \in Nat
      BY <1>1, <1>3, LiveOrder DEF LiveSlots
    <3>2. ~(t < sel)
      BY <1>1, <1>3, <3>1, LiveOrder
    <3>3. PICK u \in 0 .. count - sel - 1 : sel + u = t
      <4>1. t - sel \in 0 .. count - sel - 1 /\ sel + (t - sel) = t
        BY <1>1, <3>1, <3>2 DEF LiveSlots
      <4> QED BY <4>1
    <3>4. SlotAt(u)' = SlotAt(t) /\ u \in 0 .. count' - 1
      BY <1>1, <2>2, <3>3
    <3> QED BY <3>4 DEF Live
  <2>5. m \in Live
    BY <1>1 DEF Live, LiveSlots
  <2>6. Live' = {k \in Live : When(k) <= When(m)}
    BY <2>3, <2>4
  <2> QED BY <1>1, <1>3, <2>1, <2>5, <2>6 DEF History!GoBack, History!When, When
<1> QED BY <1>2, <1>3

\* Every other step starts a timeline or changes nothing a player can go back to.
LEMMA NextRefines == ASSUME Inv, [Next]_vars PROVE [History!Next]_(History!vars)
<1> USE DEF History!vars, ringVars, strip, ghost
<1>1. ASSUME UNCHANGED <<ring, head, count, timeline, left>> PROVE UNCHANGED History!vars
  BY <1>1 DEF Live, SlotAt
<1>2. CASE Check
  <2>1. CASE stale
    <3>1. left # {}
      BY <1>2, <2>1 DEF Check, Inv, Known
    <3>2. Live' = {} /\ timeline' = timeline
      BY <1>2, <2>1 DEF Check, Rebuild, Live
    <3> QED BY <3>1, <3>2
  <2>2. CASE ~stale
    BY <1>1, <1>2, <2>2 DEF Check
  <2> QED BY <2>1, <2>2
<1>3. CASE JumpTo \/ TornLoad
  <2>1. timeline' = <<born + 1>> /\ born < MaxMoments /\ left' # {}
    BY <1>3 DEF JumpTo, TornLoad, Elsewhere
  <2>2. born + 1 \in 1 .. MaxMoments
    BY <2>1, MomentsAssumption DEF Inv, TypeOK
  <2> QED BY <2>1, <2>2 DEF History!Jump, History!Next
<1>4. CASE Frame
  BY <1>4, FrameRefines DEF History!Next
<1>5. CASE Commit
  BY <1>5, CommitRefines DEF History!Next
<1>6. CASE LeaveStrip
  BY <1>1, <1>6 DEF LeaveStrip
<1>7. CASE SessionEnds \/ Idle \/ OpenStrip \/ Step \/ CommitRefused \/ CloseStrip \/ UNCHANGED vars
  BY <1>1, <1>7 DEF SessionEnds, Idle, OpenStrip, Step, CommitRefused, CloseStrip, vars
<1> QED BY <1>2, <1>3, <1>4, <1>5, <1>6, <1>7 DEF Next

\* The initial states map to initial states.
LEMMA InitRefines == Init => History!Init
<1> SUFFICES ASSUME Init PROVE History!Init
  OBVIOUS
<1>1. timeline = <<1>> /\ 1 \in 1 .. MaxMoments /\ Live = {}
  BY MomentsAssumption DEF Init, Live
<1> QED BY <1>1 DEF History!Init

\* The ring is the memory RewindHistory promises.
THEOREM Refinement == Spec => RemembersTimeline
BY InitInv, NextInv, InitRefines, NextRefines, PTL DEF Spec, RemembersTimeline, History!Spec

=============================================================================
