----------------------------- MODULE AudioRing -----------------------------
(***************************************************************************)
(* The sound path between the emulated machine and the host's audio        *)
(* thread: the S-DSP's output ring (runner/src/snes/dsp.c), the consumer   *)
(* that resamples out of it (rtl_render_native in common_rtl.c), the       *)
(* host's audio callback (AudioCallback in src/desktop.c), and what the    *)
(* main thread does to the ring besides filling it: save states, run-ahead *)
(* (snes_runahead.c) with its rollback, and reset.                         *)
(*                                                                         *)
(* The ring is shared under RtlApuLock; an action of the main thread that  *)
(* takes the lock is guarded by Unlocked.  Positions inside a sample are   *)
(* in units of 1/Unit.                                                     *)
(***************************************************************************)
EXTENDS Integers, Sequences

CONSTANTS
  Ring,      \* DSP_SAMPLE_RING
  Width,     \* the cursors count modulo this (2^32)
  Stamps,    \* stamps told apart
  Bytes,     \* what a cursor counts up to in its first byte, two, ... all
  Unit, Ratios,    \* natives per output frame the servo may choose, in 1/Unit
  Frames,    \* output frames of a block (g_frames_per_block)
  Target,    \* RTL_AUDIO_TARGET_NATIVES and HOST_AUDIO_PREFILL
  Low,       \* below this the host goes back to priming
  Fade,      \* RTL_AUDIO_FADE_FRAMES
  Speculated,\* bound: samples the frames run ahead produce (a few frames' worth)
  Commands   \* what the host calls: "state", "torn", "runahead", "reset"

VARIABLES
  sampleBuffer, sampleWrite, sampleRead,  \* the ring: stamps and cursors
  stamp,                       \* history: stamp of the next sample
  priming, fadeOut, phase,     \* the consumer: s_render_*
  primed,                      \* the host: s_audio_primed
  block,                       \* the callback's block between peek and retire
  heard,                       \* history: stamps last retired
  spoilt,                      \* history: a reset beside a callback, a torn load
  pc, saved,                   \* the main thread; the ring in its save state
  blob, mark, lifted           \* run-ahead's snapshot, cursor and lifted ring

ring     == <<sampleBuffer, sampleWrite, sampleRead>>
delivery == <<priming, fadeOut, phase>>
ahead    == <<blob, mark, lifted>>
main     == <<pc, saved, ahead>>
vars     == <<ring, stamp, delivery, primed, block, heard, spoilt, main>>

ASSUME AudioAssumption ==
  /\ Ring \in Nat \ {0} /\ Width \in Nat /\ Width > Ring /\ Width % Ring = 0
  /\ Bytes \subseteq Nat \ {0}
  /\ Stamps \in Nat \ {0} /\ Unit \in Nat \ {0}
  /\ Ratios \subseteq Nat \ {0}
  /\ {Frames, Target, Low, Fade} \subseteq Nat
  /\ Speculated \in Nat /\ Speculated <= Width \div 2
  /\ Commands \subseteq {"state", "torn", "runahead", "reset"}

None == [none |-> TRUE]
AtMost(a, b) == IF a < b THEN a ELSE b

\* dsp_available(): an unsigned difference.
Available == (sampleWrite - sampleRead) % Width

\* The lock is free between two callbacks: a callback holds it throughout.
Unlocked == block = None

RingNow == [samples |-> sampleBuffer, write |-> sampleWrite, read |-> sampleRead]
RingIs(r) ==
  /\ sampleBuffer' = r.samples /\ sampleWrite' = r.write /\ sampleRead' = r.read

\* rtl_reset_audio_delivery()
DeliveryReset == priming' = TRUE /\ fadeOut' = Fade /\ phase' = 0

---------------------------------------------------------------------------
(* The emulated sound chip.                                                *)

Push(limit) ==
  /\ pc \in {"frame", "ahead"} /\ Unlocked
  /\ Available < limit
  /\ pc = "ahead" => (sampleWrite - mark) % Width < Speculated
  /\ sampleBuffer' = [sampleBuffer EXCEPT ![sampleWrite % Ring] = stamp]
  /\ sampleWrite' = (sampleWrite + 1) % Width
  /\ stamp' = (stamp + 1) % Stamps
  /\ UNCHANGED <<sampleRead, delivery, primed, block, heard, spoilt, main>>

\* Mutants: the ring overrun by one; the old cap of one block.
DspCycleOverrun == Push(Ring + 1)
DspCycleBlock   == Push(Frames)

\* dsp_cycle()'s output: one sample, dropped when the ring is full.
DspCycle == Push(Ring)

---------------------------------------------------------------------------
(* The audio thread.                                                       *)

\* Mutant: the interpolation partner of the last frame is not counted.
NeedNoPartner(span) == span \div Unit + 1

\* Natives the request touches, and the frames they are enough for.
Need(span) == span \div Unit + 2
Usable(ratio) ==
  IF Available >= Need(phase + (Frames - 1) * ratio) THEN Frames
  ELSE LET maxSpan == (Available - 2) * Unit - phase
       IN  IF maxSpan <= 0 THEN 0 ELSE AtMost(maxSpan \div ratio + 1, Frames)

Waits == priming /\ (Available < Target \/ fadeOut > 0)

\* Mutant: the fade runs past its end.
WaitPastFade ==
  /\ Waits
  /\ fadeOut' = fadeOut - Frames
  /\ block' = [retire |-> 0, peek |-> 0]
  /\ UNCHANGED <<priming, phase>>

\* rtl_render_wait(): the fade of the last sample, then silence.
Wait ==
  /\ Waits
  /\ fadeOut' = IF fadeOut > Frames THEN fadeOut - Frames ELSE 0
  /\ block' = [retire |-> 0, peek |-> 0]
  /\ UNCHANGED <<priming, phase>>

Play ==
  /\ ~Waits
  /\ \E ratio \in Ratios :
       LET n     == Usable(ratio)
           total == phase + n * ratio
       IN  /\ block' = [retire |-> AtMost(total \div Unit, Available),
                        peek |-> IF n = 0 THEN 0
                                 ELSE (phase + (n - 1) * ratio) \div Unit + 2]
           /\ priming' = (n < Frames)
           /\ phase' = IF n < Frames THEN 0 ELSE total % Unit
           /\ fadeOut' = IF n = Frames \/ Fade < Frames - n THEN 0
                         ELSE Fade - (Frames - n)

\* A block of the callback while the host primes: silence, and nothing moves.
SilentBlock ==
  /\ Unlocked
  /\ ~primed /\ Available < Target
  /\ UNCHANGED vars

\* A block of the callback, up to dsp_advance()'s clamp: its natives have been
\* peeked, block.peek of them from the read cursor on.
RenderBlock ==
  /\ Unlocked
  /\ primed \/ Available >= Target
  /\ primed' = TRUE
  /\ Wait \/ Play
  /\ spoilt' = (spoilt \/ pc = "resetWrite")
  /\ UNCHANGED <<ring, stamp, heard, main>>

\* ... and its end: the cursor moves, the host looks at what is left.
Retire ==
  /\ ~Unlocked
  /\ sampleRead' = (sampleRead + block.retire) % Width
  /\ heard' = IF block.retire = 0 THEN heard
              ELSE [i \in 1 .. block.retire |-> sampleBuffer[(sampleRead + i - 1) % Ring]]
  /\ primed' = ((sampleWrite - sampleRead') % Width >= Low)
  /\ block' = None
  /\ UNCHANGED <<sampleBuffer, sampleWrite, stamp, delivery, spoilt, main>>

---------------------------------------------------------------------------
(* The main thread.                                                        *)

Step(command, from, to) == command \in Commands /\ pc = from /\ pc' = to

\* RtlSaveSnapshot(): the ring lies inside the blob.
SaveState ==
  /\ Step("state", "frame", "frame") /\ Unlocked
  /\ saved' = RingNow
  /\ UNCHANGED <<ring, stamp, delivery, primed, block, heard, spoilt, ahead>>

\* RtlLoadSnapshot(); the host drops its timeline when it sees the generation.
LoadState ==
  /\ Step("state", "frame", "loadedState") /\ Unlocked
  /\ saved # None
  /\ RingIs(saved) /\ DeliveryReset
  /\ UNCHANGED <<stamp, primed, block, heard, spoilt, saved, ahead>>

\* A state file that ends too soon, at whatever byte: samples and cursors as far as
\* they were read, no reset of the delivery and no new generation.
LoadCutInRing ==
  \E n \in 0 .. Ring :
    /\ sampleBuffer' = [i \in 0 .. Ring - 1 |->
                          IF i < n THEN saved.samples[i] ELSE sampleBuffer[i]]
    /\ UNCHANGED <<sampleWrite, sampleRead, spoilt>>
Cut(old, new) ==
  {c \in 0 .. Width - 1 : \E b \in Bytes : c \div b = old \div b /\ c % b = new % b}
LoadCutInCursors ==
  /\ sampleBuffer' = saved.samples /\ spoilt' = TRUE
  /\ \/ sampleWrite' \in Cut(sampleWrite, saved.write) /\ UNCHANGED sampleRead
     \/ sampleWrite' = saved.write /\ sampleRead' \in Cut(sampleRead, saved.read)
LoadCutBehind == RingIs(saved) /\ UNCHANGED spoilt

LoadTorn ==
  /\ Step("torn", "frame", "frame") /\ Unlocked
  /\ saved # None
  /\ LoadCutInRing \/ LoadCutInCursors \/ LoadCutBehind
  /\ UNCHANGED <<stamp, delivery, primed, block, heard, saved, ahead>>

ResetAudioTimeline ==
  /\ Step("state", "loadedState", "frame") /\ Unlocked
  /\ primed' = FALSE
  /\ UNCHANGED <<ring, stamp, delivery, block, heard, spoilt, saved, ahead>>

\* snes_runahead_run_frame(): the real frame is over; snapshot, cursor, and on.
BeginAhead ==
  /\ Step("runahead", "frame", "ahead") /\ Unlocked
  /\ blob' = RingNow /\ mark' = sampleWrite
  /\ UNCHANGED <<ring, stamp, delivery, primed, block, heard, spoilt, saved, lifted>>

\* Mutant: the cursor goes back without looking at the consumer's.
SetWriteUnclamped(write) == sampleWrite' = write

\* dsp_output_ring_set_write(): never behind the consumer.
SetWrite(write) ==
  sampleWrite' = IF (write - sampleRead) % Width >= Width \div 2
                 THEN sampleRead ELSE write

\* RtlAudioRewindProducer()
RewindProducer ==
  /\ Step("runahead", "ahead", "rewound") /\ Unlocked
  /\ SetWrite(mark)
  /\ UNCHANGED <<sampleBuffer, sampleRead, stamp, delivery, primed, block, heard, spoilt,
                 saved, ahead>>

\* RtlRollbackLoadFromMemory(), one action per time it holds the lock: the
\* ring is lifted out, the blob goes in, the ring is put back.
LiftRing ==
  /\ Step("runahead", "rewound", "lifted") /\ Unlocked
  /\ lifted' = RingNow
  /\ UNCHANGED <<ring, stamp, delivery, primed, block, heard, spoilt, saved, blob, mark>>
LoadBlob ==
  /\ Step("runahead", "lifted", "loaded") /\ Unlocked
  /\ RingIs(blob) /\ DeliveryReset
  /\ UNCHANGED <<stamp, primed, block, heard, spoilt, saved, ahead>>
RestoreRing ==
  /\ Step("runahead", "loaded", "frame") /\ Unlocked
  /\ RingIs(lifted)
  /\ blob' = None /\ mark' = 0 /\ lifted' = None   \* dead from here on
  /\ UNCHANGED <<stamp, delivery, primed, block, heard, spoilt, saved>>

\* RtlReset(): dsp_reset() runs without the lock, one store after the other.
ResetWrite ==
  /\ Step("reset", "frame", "resetWrite")
  /\ sampleBuffer' = [i \in 0 .. Ring - 1 |-> 0] /\ sampleWrite' = 0
  /\ spoilt' = (spoilt \/ ~Unlocked)
  /\ UNCHANGED <<sampleRead, stamp, delivery, primed, block, heard, saved, ahead>>
ResetRead ==
  /\ Step("reset", "resetWrite", "resetRead")
  /\ sampleRead' = 0
  /\ spoilt' = (spoilt \/ ~Unlocked)
  /\ UNCHANGED <<sampleBuffer, sampleWrite, stamp, delivery, primed, block, heard,
                 saved, ahead>>
ResetDelivery ==
  /\ Step("reset", "resetRead", "frame") /\ Unlocked
  /\ DeliveryReset
  /\ UNCHANGED <<ring, stamp, primed, block, heard, spoilt, saved, ahead>>

---------------------------------------------------------------------------
Init ==
  /\ sampleBuffer = [i \in 0 .. Ring - 1 |-> 0]
  /\ sampleWrite = 0 /\ sampleRead = 0 /\ stamp = 0
  /\ priming = TRUE /\ fadeOut = 0 /\ phase = 0
  /\ primed = FALSE /\ block = None /\ heard = <<>> /\ spoilt = FALSE
  /\ pc = "frame" /\ saved = None /\ blob = None /\ mark = 0 /\ lifted = None

Next ==
  \/ DspCycle \/ SilentBlock \/ RenderBlock \/ Retire
  \/ SaveState \/ LoadState \/ LoadTorn \/ ResetAudioTimeline
  \/ BeginAhead \/ RewindProducer \/ LiftRing \/ LoadBlob \/ RestoreRing
  \/ ResetWrite \/ ResetRead \/ ResetDelivery

Spec == Init /\ [][Next]_vars

\* The emulated machine goes on producing, and gets the lock it asks for between
\* two callbacks (strong fairness); the audio device goes on asking.
FairSpec == Spec /\ SF_vars(DspCycle) /\ WF_vars(RenderBlock) /\ WF_vars(Retire)

---------------------------------------------------------------------------
(* Properties.                                                             *)

\* Cursors, buffers and the consumer's state have their types.
TypeOK ==
  LET Rings == [samples : [0 .. Ring - 1 -> 0 .. Stamps - 1],
                write : 0 .. Width - 1, read : 0 .. Width - 1]
  IN  /\ RingNow \in Rings /\ {saved, blob, lifted} \subseteq Rings \cup {None}
      /\ stamp \in 0 .. Stamps - 1 /\ mark \in 0 .. Width - 1
      /\ priming \in BOOLEAN /\ primed \in BOOLEAN
      /\ fadeOut \in 0 .. Fade /\ phase \in 0 .. Unit - 1
      /\ block \in {None} \cup [retire : 0 .. Width - 1, peek : 0 .. Width - 1]

\* dsp_available() never exceeds the ring: no cut, load or rollback, no load cut
\* short but one that ends inside the cursors, and no reset that ran between
\* callbacks, leaves the producer behind the consumer, which an unsigned
\* difference would show as four billion samples.
FillBounded == pc # "resetWrite" /\ ~spoilt => Available <= Ring

\* Every native a block interpolates with was queued (dsp_peek's contract).
PeeksQueued == block # None /\ ~spoilt => block.peek <= Available

\* The path is the queue: samples are heard in order, each at most once.
Queue == [i \in 1 .. Available |-> sampleBuffer[(sampleRead + i - 1) % Ring]]
Q == INSTANCE AudioQueue WITH queue <- Queue
PlaysQueue == Q!QSpec

\* Starvation and priming pass: the callback plays samples again and again.
PlaybackResumes == []<>(block # None /\ block # [retire |-> 0, peek |-> 0])

\* No sample is heard twice: stamps go up from one block to the next.
Newer(s, t) == (s - t) % Stamps \in 1 .. Stamps \div 2
HeardOnce == [][(~Unlocked /\ block' = None /\ block.retire > 0 /\ heard # <<>>)
                 => Newer(heard'[1], heard[Len(heard)])]_vars

============================================================================
