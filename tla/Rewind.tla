------------------------------- MODULE Rewind -------------------------------
(* The rewind ring (snes_rewind.c) and the loop of the framework's desktop  *)
(* host around it (desktop/host_main.c): captures, the filmstrip and its    *)
(* modal loop, and the generation number by which the host learns that the  *)
(* guest was reset or loaded and that the ring must be made anew.           *)
(*                                                                          *)
(* A snapshot is the moment it was taken at: moments are numbered as they   *)
(* are lived, and 0 is a slot that is not `valid`.  Thumbnails, the strip's *)
(* drawing and the environment's settings are left out.                     *)
EXTENDS Integers, Sequences, FiniteSets, Functions

CONSTANTS
  Depth,       \* s_depth, at least RW_DEPTH_MIN = 4
  Interval,    \* s_interval: frames from capture to capture
  MaxMoments,  \* bound: moments lived in all timelines together
  Torn         \* whether a state file may end too soon

ASSUME DepthAssumption == Depth \in Nat /\ Depth >= 4
ASSUME IntervalAssumption == Interval \in Nat \ {0}
ASSUME MomentsAssumption == MaxMoments \in Nat \ {0} /\ Torn \in BOOLEAN

VARIABLES
  ring, head, count, tick,   \* s_ring, s_head, s_count, s_frame_tick
  enabled,                   \* snes_rewind_enabled(): the ring could be allocated
  open, sel,                 \* s_open, s_sel
  place,                     \* where the host's loop is
  stale,                     \* g_state_generation # RtlStateGeneration()
  session,                   \* snes_netplay_active()
  timeline,                  \* ghost: the moments the machine has come through
  born,                      \* ghost: the last moment numbered
  left                       \* ghost: the timelines that the machine has left
                             \* since it went elsewhere with this ring

ringVars == <<ring, head, count, tick, enabled>>
strip    == <<open, sel>>
ghost    == <<timeline, born, left>>
vars     == <<ring, head, count, tick, enabled, open, sel, place, stale, session,
              timeline, born, left>>

Places  == {"top", "input", "modal"}
NoSlots == [i \in 0 .. Depth - 1 |-> 0]

\* slot_at: selection 0 is the newest snapshot.
SlotAt(s) == ring[(head - 1 - s) % Depth]

Init ==
  /\ ring = NoSlots /\ head = 0 /\ count = 0 /\ tick = 0
  /\ enabled \in BOOLEAN
  /\ open = FALSE /\ sel = 0
  /\ place = "top" /\ stale = FALSE
  /\ session \in BOOLEAN
  /\ timeline = <<1>> /\ born = 1 /\ left = {}

(***************************** the host's loop ******************************)

\* Wrong: the ring survives the jump.
RebuildKeepsRing ==
  /\ UNCHANGED <<ring, head, count>>
  /\ tick' = 0 /\ enabled' \in BOOLEAN
  /\ open' = FALSE /\ sel' = 0

\* snes_rewind_shutdown, then snes_rewind_configure, whose calloc may fail.
Rebuild ==
  /\ ring' = NoSlots /\ head' = 0 /\ count' = 0 /\ tick' = 0
  /\ enabled' \in BOOLEAN
  /\ open' = FALSE /\ sel' = 0

\* The top of the loop.
Check ==
  /\ place = "top"
  /\ place' = "input"
  /\ stale' = FALSE
  /\ left' = IF stale THEN {} ELSE left
  /\ IF stale THEN Rebuild ELSE UNCHANGED <<ringVars, strip>>
  /\ UNCHANGED <<session, timeline, born>>

\* The machine is somewhere else: no moment of the ring is in its past.
Elsewhere ==
  /\ place = "input" /\ born < MaxMoments
  /\ born' = born + 1 /\ timeline' = <<born + 1>>
  /\ left' = left \cup {timeline}
  /\ UNCHANGED <<ringVars, strip, place, session>>

\* A hotkey or the debug server resets the guest or loads a state.
JumpTo == Elsewhere /\ stale' = TRUE

\* A state file that ends too soon: snes_saveload has written the machine
\* before RtlLoadSnapshot sees the error and leaves the generation as it is.
TornLoad == Torn /\ Elsewhere /\ UNCHANGED stale

\* snes_netplay_shutdown().
SessionEnds ==
  /\ place = "input" /\ session
  /\ session' = FALSE
  /\ UNCHANGED <<ringVars, strip, place, stale, ghost>>

\* Paused, or the next frame is not due.
Idle ==
  /\ place = "input"
  /\ place' = "top"
  /\ UNCHANGED <<ringVars, strip, stale, session, ghost>>

(******************************** captures **********************************)

\* Wrong: the ring moves on over a failed capture.
CaptureHeadMoves(now, fits) ==
  /\ ring' = [ring EXCEPT ![head] = IF fits THEN now ELSE 0]
  /\ head' = (head + 1) % Depth
  /\ count' = IF count < Depth THEN count + 1 ELSE count

\* capture: a snapshot of `now`, or a slot that is marked and not left behind.
Capture(now, fits) ==
  /\ ring' = [ring EXCEPT ![head] = IF fits THEN now ELSE 0]
  /\ head' = IF fits THEN (head + 1) % Depth ELSE head
  /\ count' = IF fits /\ count < Depth THEN count + 1 ELSE count

\* snes_rewind_note_frame, after a frame of the guest.
NoteFrame(now) ==
  /\ UNCHANGED enabled
  /\ IF ~enabled \/ session THEN UNCHANGED <<ring, head, count, tick>>
     ELSE IF tick + 1 < Interval
       THEN tick' = tick + 1 /\ UNCHANGED <<ring, head, count>>
       ELSE tick' = 0 /\ \E fits \in BOOLEAN : Capture(now, fits)

Frame ==
  /\ place = "input" /\ born < MaxMoments
  /\ born' = born + 1 /\ timeline' = Append(timeline, born + 1)
  /\ NoteFrame(born + 1)
  /\ place' = "top"
  /\ UNCHANGED <<strip, stale, session, left>>

(******************************* the filmstrip ******************************)

OpenStrip ==
  /\ place = "input" /\ enabled /\ ~session /\ count >= 2
  /\ open' = TRUE /\ sel' = 0
  /\ place' = "modal"
  /\ UNCHANGED <<ringVars, stale, session, ghost>>

\* Wrong: the selection wraps.
StepToWrapped(s) == s % Depth

\* Further back, or forward again; clamped at both ends.
StepTo(s) == IF s < 0 THEN 0 ELSE IF s >= count THEN count - 1 ELSE s

Step ==
  /\ open
  /\ \E d \in {-1, 1} : sel' = StepTo(sel + d)
  /\ UNCHANGED <<ringVars, open, place, stale, session, ghost>>

\* The timeline up to a moment: of the one being played, or of one that was left.
Through(m) ==
  LET line == CHOOSE l \in left \cup {timeline} : m \in Range(l)
  IN  SubSeq(line, 1, CHOOSE i \in DOMAIN line : line[i] = m)

\* Wrong: the frame counter runs on.
LandKeepsTick ==
  /\ timeline' = Through(SlotAt(sel))
  /\ stale' = TRUE
  /\ count' = count - sel
  /\ head' = (head - sel) % Depth
  /\ sel' = 0
  /\ UNCHANGED <<ring, tick>>

\* Wrong: the abandoned future stays live.
LandKeepsFuture ==
  /\ timeline' = Through(SlotAt(sel))
  /\ stale' = TRUE
  /\ sel' = 0 /\ tick' = 0
  /\ UNCHANGED <<ring, count, head>>

\* snes_rewind_commit with a snapshot that loads: the machine goes back, and
\* what comes after it in the ring is dropped.
Land ==
  /\ timeline' = Through(SlotAt(sel))
  /\ stale' = TRUE
  /\ count' = count - sel
  /\ head' = (head - sel) % Depth
  /\ sel' = 0 /\ tick' = 0
  /\ UNCHANGED ring

Commit ==
  /\ open
  /\ open' = FALSE
  /\ SlotAt(sel) # 0 /\ Land
  /\ left' = IF left = {} THEN {} ELSE left \cup {timeline}
  /\ UNCHANGED <<enabled, place, session, born>>

\* A slot that is not valid, or a snapshot the loader refuses.
CommitRefused ==
  /\ open
  /\ open' = FALSE
  /\ UNCHANGED <<ringVars, sel, place, stale, session, ghost>>

CloseStrip ==
  /\ open
  /\ open' = FALSE /\ sel' = 0
  /\ UNCHANGED <<ringVars, place, stale, session, ghost>>

\* The modal loop ends: the ring that the commit has cut is to be kept, so the
\* generation is taken over, whatever else had raised it.
LeaveStrip ==
  /\ place = "modal" /\ ~open
  /\ place' = "top"
  /\ stale' = FALSE
  /\ UNCHANGED <<ringVars, strip, session, ghost>>

Next ==
  \/ Check \/ JumpTo \/ TornLoad \/ SessionEnds \/ Idle \/ Frame
  \/ OpenStrip \/ Step \/ Commit \/ CommitRefused \/ CloseStrip \/ LeaveStrip

Spec == Init /\ [][Next]_vars

(******************************* properties *********************************)

Live == {SlotAt(s) : s \in 0 .. count - 1} \ {0}

\* The ring's indices stay in it, and the filmstrip's selection among its live
\* slots however the player steps.
TypeOK ==
  /\ ring \in [0 .. Depth - 1 -> 0 .. MaxMoments]
  /\ head \in 0 .. Depth - 1 /\ count \in 0 .. Depth /\ tick \in 0 .. Interval - 1
  /\ {enabled, open, stale, session} \subseteq BOOLEAN
  /\ sel \in 0 .. Depth - 1 /\ (open => sel < count /\ place = "modal")
  /\ place \in Places /\ left \subseteq Seq(1 .. born)
  /\ timeline \in Seq(1 .. born) /\ born \in 1 .. MaxMoments

\* A capture that fails marks a slot and leaves the ring where it was.  Through
\* any captures, failures and rewinds, the only live slot it can have spoilt is
\* the oldest: every other one the filmstrip offers loads.
HolesAreOldest == \A s \in 0 .. count - 2 : SlotAt(s) # 0

\* The caption counts slots; each is at least `Interval` frames of the timeline
\* older than the one before it, also across rewinds, failures and sessions, so
\* a rewind never goes back less than it says.
CaptionHolds ==
  LET At(m) == CHOOSE i \in DOMAIN timeline : timeline[i] = m
  IN  left = {} =>
        \A s \in 0 .. count - 1 :
          {SlotAt(0), SlotAt(s)} \subseteq Range(timeline) =>
            At(SlotAt(0)) - At(SlotAt(s)) >= s * Interval

History == INSTANCE RewindHistory WITH
  Moments <- 1 .. MaxMoments,
  kept <- IF left = {} THEN Live ELSE {}

\* From the making of the ring until the machine goes elsewhere, the ring is a bounded
\* memory of the timeline being played: a rewind goes to a moment of its past and never
\* to an abandoned future, and a moment is given up only when the ring is full. A ring
\* made anew starts empty. Of the ring that is not made anew see KeepsOneTimeline.
RemembersTimeline == History!Spec

\* "keeping snapshots from the timeline just abandoned would let the next rewind travel
\* to a future that no longer happens": a ring that the loop is about to keep holds
\* moments of the timeline being played and no others.
KeepsOneTimeline == place = "top" /\ ~stale => Live \subseteq Range(timeline)
=============================================================================
