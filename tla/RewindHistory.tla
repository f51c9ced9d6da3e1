--------------------------- MODULE RewindHistory ---------------------------
(* What the rewind feature promises a player, without ring, slots or loop:  *)
(* a bounded memory of moments of the timeline being played, and nothing    *)
(* else.  Going back cuts the timeline and the memory at the moment chosen; *)
(* a jump (a reset, a loaded state) starts both anew; a moment is given up  *)
(* only when the memory is full, and then it is the oldest.                 *)
EXTENDS Integers, Sequences, FiniteSets, Functions

CONSTANTS Moments, Depth

VARIABLES
  timeline,   \* the moments the machine has come through; the last is now
  kept        \* the moments one may go back to

vars == <<timeline, kept>>

When(m) == CHOOSE i \in DOMAIN timeline : timeline[i] = m

Oldest == CHOOSE m \in kept : \A k \in kept : When(m) <= When(k)

Init == \E m \in Moments : timeline = <<m>> /\ kept = {}

\* A moment goes by; it may be kept.  A failed attempt may cost the oldest.
Live == \E m \in Moments \ Range(timeline) :
  /\ timeline' = Append(timeline, m)
  /\ \/ kept' \in {kept, kept \cup {m}} /\ Cardinality(kept') <= Depth
     \/ /\ Cardinality(kept) = Depth
        /\ kept' \in {kept \ {Oldest}, (kept \ {Oldest}) \cup {m}}

GoBack == \E m \in kept :
  /\ timeline' = SubSeq(timeline, 1, When(m))
  /\ kept' = {k \in kept : When(k) <= When(m)}

Jump == \E m \in Moments : timeline' = <<m>> /\ kept' = {}

\* While nothing is kept nothing is promised: the machine may go to any past it had.
Away == kept = {} /\ kept' = {} /\ timeline' \in Seq(Moments)

Next == Live \/ GoBack \/ Jump \/ Away

Spec == Init /\ [][Next]_vars
=============================================================================
