----------------------------- MODULE AudioQueue -----------------------------
(***************************************************************************)
(* What the S-DSP's output ring (runner/src/snes/dsp.c) promises: a FIFO    *)
(* of bounded length between the emulated sound chip and the host's audio  *)
(* callback.  Samples come out in the order they went in, each at most     *)
(* once, and a full queue refuses new ones instead of losing old ones.     *)
(* Samples are told apart by stamps that come round after Stamps of them.  *)
(***************************************************************************)
EXTENDS Integers, Sequences

CONSTANTS Ring, Stamps

VARIABLES queue, stamp  \* the stamps queued, the stamp of the next sample

qvars == <<queue, stamp>>

QInit == queue = <<>> /\ stamp = 0

Put ==
  /\ Len(queue) < Ring
  /\ queue' = Append(queue, stamp)
  /\ stamp' = (stamp + 1) % Stamps

Take ==
  /\ \E n \in 1 .. Len(queue) : queue' = SubSeq(queue, n + 1, Len(queue))
  /\ UNCHANGED stamp

QSpec == QInit /\ [][Put \/ Take]_qvars
=============================================================================
