--------------------------- MODULE MCFrameEngine ---------------------------
(* FrameEngine on small frames. *)
EXTENDS FrameEngine

\* The program's $4200 values: V and H+V IRQs with NMI, and the H IRQ alone.
MCWrites ==
  {[nmi |-> TRUE, h |-> FALSE, v |-> TRUE], [nmi |-> TRUE, h |-> TRUE, v |-> TRUE],
   [nmi |-> FALSE, h |-> TRUE, v |-> FALSE]}
============================================================================
