---------------------------- MODULE FrameEngine ----------------------------
(***************************************************************************)
(* The frame engine of the recompiled game (src/game_rtl.c), on top of     *)
(* Beam.  GameRunOneFrame() walks the scanlines of a frame; run_scanline() *)
(* lets the CPU run to a deadline, dispatching the comparator's IRQ and    *)
(* skipping time while the CPU is parked, and then brings the beam to the  *)
(* deadline; a visible line is rendered between its two deadlines.         *)
(*                                                                         *)
(* The CPU is what the guest program may do: any instruction, register     *)
(* access, WAI or masking of interrupts, in any order.  It overshoots a    *)
(* deadline by up to one instruction, a handler by its whole length.       *)
(***************************************************************************)
EXTENDS Beam

CONSTANTS
  ActiveClocks,  \* deadline within a visible line before it is rendered (1000)
  MaxSlices,     \* iterations of run_scanline()'s first loop before Die() (100000)
  HandlerMax,    \* bound on the instructions of an interrupt handler
  NmitimenWrites,\* [nmi, h, v] the program writes to $4200
  TimerBytes,    \* bytes the program writes to the H and V timers
  MaxWrites,     \* bound on the registers and flags the program writes
  MaxFrames      \* bound on the frames explored

ASSUME EngineAssumption ==
  /\ ActiveClocks \in Nat /\ 0 < ActiveClocks /\ ActiveClocks < HBlank
  /\ MaxSlices \in Nat /\ MaxSlices >= LineClocks
  /\ HandlerMax \in Nat \ {0} /\ MaxWrites \in Nat /\ MaxFrames \in Nat \ {0}
  /\ MaxFrames * Field <= MaxClock
  /\ NmitimenWrites \subseteq [nmi : BOOLEAN, h : BOOLEAN, v : BOOLEAN]
  /\ TimerBytes \subseteq 0 .. Byte - 1
  /\ 0 \notin CpuCharges

VARIABLES
  pc,          \* where the engine is
  line,        \* GameRunOneFrame's line
  segment,     \* which run_scanline() of the line: "active" or "rest"
  base,        \* s_frame_base_clock
  parked,      \* the mainline waits for an interrupt
  flagI,       \* CpuState._flag_I
  nmiEnabled, inNmi,  \* $4200 bit 7 and $4210 bit 7
  slices,      \* iterations of the first loop in this run_scanline()
  ran,         \* the slice has executed an instruction
  from,        \* where the running handler returns to
  left,        \* instructions the handler may still execute
  acked,       \* the handler has read $4211
  frames,      \* frames completed
  writes       \* registers and flags the program may still write

engine  == <<pc, line, segment, base, slices, from, frames>>
guest   == <<parked, flagI, nmiEnabled, inNmi, ran, left, acked, writes>>
evars   == <<vars, engine, guest>>
beam    == vars

Deadline ==
  IF segment = "active" THEN base + line * LineClocks + ActiveClocks
  ELSE base + (line + 1) * LineClocks

Deliverable == inIrq /\ ~flagI

---------------------------------------------------------------------------
(* The beam's walk under an engine step.                                   *)

Walk ==
  /\ WalkToMatch \/ WalkSpan
  /\ UNCHANGED <<engine, guest>>

\* snes_sync_master_clock(m) as part of an engine step that leaves the rest of
\* the beam alone.
SyncTo(m) ==
  /\ Sync(m)
  /\ UNCHANGED <<pos, inIrq, regs, joy, beamMasterLast, hist>>

---------------------------------------------------------------------------
(* interrupt_at(): push a frame at resume_pc and run the handler to its RTI *)
(* with no deadline; the RTI restores the flags, the mainline is not parked *)
(* any more.                                                               *)

Interrupt(return) ==
  /\ pc' = "handler" /\ from' = return
  /\ left' = HandlerMax /\ acked' = FALSE /\ UNCHANGED writes

\* The RTI.  An IRQ handler has acknowledged the comparator by then (a guest
\* that does not is interrupted again for ever), and step 2 resyncs the beam.
Rti ==
  /\ pc = "handler" /\ Idle
  /\ left < HandlerMax
  /\ from # "run" => acked
  /\ pc' = (IF from = "run" THEN "step1" ELSE from)
  /\ parked' = FALSE
  /\ IF from = "step2" THEN SyncTo(Deadline) /\ UNCHANGED masterCycles
     ELSE UNCHANGED beam
  /\ UNCHANGED <<line, segment, base, slices, from, frames, flagI, nmiEnabled, inNmi,
                 ran, left, acked, writes>>

---------------------------------------------------------------------------
(* What the guest's instructions do, in the mainline's slice or a handler. *)

\* A slice starts no instruction past its deadline.
Running == pc = "handler" \/ (pc = "slice" /\ masterCycles < Deadline)

Spend == writes > 0 /\ writes' = writes - 1

Execute ==
  /\ \/ pc = "slice" /\ masterCycles < Deadline /\ ran' = TRUE /\ left' = left
     \/ pc = "handler" /\ left > 0 /\ left' = left - 1 /\ ran' = ran
  /\ \E n \in CpuCharges : Elapse(n)
  /\ UNCHANGED <<engine, parked, flagI, nmiEnabled, inNmi, acked, writes>>

AckIrq ==
  /\ Running
  /\ ReadTimeup
  /\ acked' = (pc = "handler")
  /\ UNCHANGED <<engine, parked, flagI, nmiEnabled, inNmi, ran, left, writes>>

\* A read of $4210 clears the NMI flag.
ReadRdnmi ==
  /\ Running /\ Idle /\ Spend
  /\ inNmi' = FALSE
  /\ UNCHANGED <<beam, engine, parked, flagI, nmiEnabled, ran, left, acked>>

WriteControl ==
  /\ Running /\ Spend
  /\ \E w \in NmitimenWrites : WriteNmitimen(w.h, w.v, FALSE) /\ nmiEnabled' = w.nmi
  /\ UNCHANGED <<engine, parked, flagI, inNmi, ran, left, acked>>

WriteTimers ==
  /\ Running /\ Spend
  /\ \E b \in TimerBytes : WriteHTimer(b) \/ WriteVTimer(b)
  /\ UNCHANGED <<engine, parked, flagI, nmiEnabled, inNmi, ran, left, acked>>

\* CLI and SEI; a handler's own are undone by its RTI.
MaskIrq(i) ==
  /\ Running /\ pc = "slice" /\ Idle /\ Spend
  /\ flagI' = i
  /\ UNCHANGED <<beam, engine, parked, nmiEnabled, inNmi, ran, left, acked>>

\* WAI ends the slice and parks the mainline.
Wai ==
  /\ pc = "slice" /\ masterCycles < Deadline
  /\ \E n \in CpuCharges : Elapse(n)
  /\ pc' = "step1" /\ parked' = TRUE
  /\ UNCHANGED <<line, segment, base, slices, from, frames, flagI, nmiEnabled, inNmi,
                 ran, left, acked, writes>>

---------------------------------------------------------------------------
(* run_scanline(), step 1: the CPU up to the deadline.                     *)

\* The loop's head: `slices` counts iterations; past the limit the program Die()s
\* and nothing follows.
InLoop == pc = "step1" /\ Idle /\ masterCycles < Deadline

Count == slices <= MaxSlices /\ slices' = slices + 1

DispatchIrq ==
  /\ InLoop /\ Count
  /\ Deliverable
  /\ Interrupt("step1")
  /\ UNCHANGED <<beam, line, segment, base, frames, parked, flagI, nmiEnabled, inNmi,
                 ran>>

\* Mutant: 0, "no match scheduled", taken for a distance.
SkipTargetOfZero ==
  IF ~flagI /\ masterCycles + UntilIrq < Deadline
  THEN masterCycles + UntilIrq ELSE Deadline

\* Parked: skip to the deadline, or to the next match when it can be taken.
SkipTarget ==
  IF UntilIrq # 0 /\ ~flagI /\ masterCycles + UntilIrq < Deadline
  THEN masterCycles + UntilIrq ELSE Deadline

SkipParked ==
  /\ InLoop /\ Count
  /\ ~Deliverable /\ parked
  /\ masterCycles' = SkipTarget
  /\ SyncTo(SkipTarget)
  /\ UNCHANGED <<pc, line, segment, base, from, frames, guest>>

EnterSlice ==
  /\ InLoop /\ Count
  /\ ~Deliverable /\ ~parked
  /\ pc' = "slice" /\ ran' = FALSE
  /\ UNCHANGED <<beam, line, segment, base, from, frames, parked, flagI, nmiEnabled,
                 inNmi, left, acked, writes>>

\* interp_bridge_run_until_quiescent() returns at its deadline, or after an
\* instruction with interrupts enabled when the comparator (or the SuperFX,
\* whose IRQ the engine does not dispatch) asserts one.  Compiled code does not
\* sample the latter, so it may also run on.
LeaveSlice ==
  /\ pc = "slice" /\ Idle
  /\ masterCycles >= Deadline \/ (ran /\ ~flagI)
  /\ pc' = "step1" /\ parked' = FALSE
  /\ UNCHANGED <<beam, line, segment, base, slices, from, frames, flagI, nmiEnabled,
                 inNmi, ran, left, acked, writes>>

---------------------------------------------------------------------------
(* run_scanline(), step 2: the beam to the deadline, and what it latched.  *)

\* Mutant: the beam left where the CPU's own syncs left it.
BeginStep2Unsynced ==
  /\ pc = "step1" /\ Idle /\ masterCycles >= Deadline
  /\ pc' = "step2"
  /\ UNCHANGED <<beam, line, segment, base, slices, from, frames, guest>>

BeginStep2 ==
  /\ pc = "step1" /\ Idle /\ masterCycles >= Deadline
  /\ SyncTo(Deadline)
  /\ pc' = "step2"
  /\ UNCHANGED <<masterCycles, line, segment, base, slices, from, frames, guest>>

DispatchLate ==
  /\ pc = "step2" /\ Idle
  /\ Deliverable
  /\ Interrupt("step2")
  /\ UNCHANGED <<beam, line, segment, base, slices, frames, parked, flagI, nmiEnabled,
                 inNmi, ran>>

EndSegment ==
  /\ pc = "step2" /\ Idle
  /\ ~Deliverable
  /\ pc' = IF segment = "active" THEN "render" ELSE "next"
  /\ UNCHANGED <<beam, line, segment, base, slices, from, frames, guest>>

---------------------------------------------------------------------------
(* GameRunOneFrame(): the body of its loop over the lines.                 *)

\* Mutant: NMI a line early.
BeginLineEarly ==
  /\ pc = "line" /\ Idle
  /\ segment' = IF line < VBlankLine THEN "active" ELSE "rest"
  /\ slices' = 0
  /\ inNmi' = IF line = 0 THEN FALSE ELSE IF line = VBlankLine - 1 THEN TRUE ELSE inNmi
  /\ IF line = VBlankLine - 1 /\ nmiEnabled
     THEN Interrupt("run")
     ELSE pc' = "step1" /\ UNCHANGED <<from, left, acked, writes>>
  /\ UNCHANGED <<beam, line, base, frames, parked, flagI, nmiEnabled, ran>>

BeginLine ==
  /\ pc = "line" /\ Idle
  /\ segment' = IF line < VBlankLine THEN "active" ELSE "rest"
  /\ slices' = 0
  /\ inNmi' = IF line = 0 THEN FALSE ELSE IF line = VBlankLine THEN TRUE ELSE inNmi
  /\ IF line = VBlankLine /\ nmiEnabled
     THEN Interrupt("run")
     ELSE pc' = "step1" /\ UNCHANGED <<from, left, acked, writes>>
  /\ UNCHANGED <<beam, line, base, frames, parked, flagI, nmiEnabled, ran>>

\* ppu_runLine(line), between the line's two deadlines.
Render ==
  /\ pc = "render" /\ Idle
  /\ pc' = "step1" /\ segment' = "rest" /\ slices' = 0
  /\ UNCHANGED <<beam, line, base, from, frames, guest>>

\* Mutant: a frame counted one line longer than its loop.
NextLineLongBase ==
  /\ pc = "next" /\ Idle
  /\ IF line + 1 < Lines
     THEN pc' = "line" /\ line' = line + 1 /\ UNCHANGED <<base, frames>>
     ELSE /\ line' = 0 /\ base' = base + Field + LineClocks /\ frames' = frames + 1
          /\ pc' = IF frames + 1 < MaxFrames THEN "line" ELSE "done"
  /\ UNCHANGED <<beam, segment, slices, from, guest>>

NextLine ==
  /\ pc = "next" /\ Idle
  /\ IF line + 1 < Lines
     THEN pc' = "line" /\ line' = line + 1 /\ UNCHANGED <<base, frames>>
     ELSE /\ line' = 0 /\ base' = base + Field /\ frames' = frames + 1
          /\ pc' = IF frames + 1 < MaxFrames THEN "line" ELSE "done"
  /\ UNCHANGED <<beam, segment, slices, from, guest>>

---------------------------------------------------------------------------
EInit ==
  /\ Init
  /\ pc = "line" /\ line = 0 /\ segment = "rest" /\ base = 0
  /\ parked = FALSE /\ flagI = TRUE /\ nmiEnabled = FALSE /\ inNmi = FALSE
  /\ slices = 0 /\ ran = FALSE /\ from = "run" /\ left = 0 /\ acked = FALSE
  /\ writes = MaxWrites
  /\ frames = 0

Engine ==
  \/ BeginLine \/ Render \/ NextLine
  \/ DispatchIrq \/ SkipParked \/ EnterSlice \/ LeaveSlice
  \/ BeginStep2 \/ DispatchLate \/ EndSegment

Guest ==
  \/ AckIrq \/ ReadRdnmi \/ WriteControl \/ WriteTimers
  \/ Wai
  \/ \E i \in BOOLEAN : MaskIrq(i)

ENext == Walk \/ Engine \/ Execute \/ Rti \/ Guest

\* The thread never stops: walks and engine steps happen, an instruction stream
\* executes, a handler acknowledges its IRQ and returns.
Fairness ==
  /\ WF_evars(Walk) /\ WF_evars(Engine) /\ WF_evars(Execute \/ Rti)
  /\ WF_evars(AckIrq /\ pc = "handler" /\ ~acked)

ESpec == EInit /\ [][ENext]_evars /\ Fairness

---------------------------------------------------------------------------
(* Properties.                                                             *)

ETypeOK ==
  /\ TypeOK
  /\ pc \in {"line", "step1", "slice", "step2", "handler", "render", "next", "done"}
  /\ line \in 0 .. Lines - 1 /\ segment \in {"active", "rest"}
  /\ base = frames * Field /\ frames \in 0 .. MaxFrames
  /\ parked \in BOOLEAN /\ flagI \in BOOLEAN
  /\ nmiEnabled \in BOOLEAN /\ inNmi \in BOOLEAN
  /\ slices \in 0 .. MaxSlices + 1 /\ ran \in BOOLEAN
  /\ from \in {"step1", "step2", "run"} /\ left \in 0 .. HandlerMax
  /\ acked \in BOOLEAN /\ writes \in 0 .. MaxWrites

\* HDMA slots executed since power-on.
SlotsEver == fields * VBlankLine + slots

\* A line is rendered after the HDMA of every line above it, and before its own
\* unless the CPU itself ran past the edge: a masked IRQ may have cut the sync
\* of either deadline short, a handler may have overrun it.
RenderBetweenSlots ==
  pc = "render" =>
    /\ SlotsEver >= frames * VBlankLine + line
    /\ masterCycles < base + line * LineClocks + HBlank
         => SlotsEver = frames * VBlankLine + line

\* A CPU that takes interrupts leaves no match of a line to the next: when run_scanline()
\* returns, the beam has walked up to the deadline, although a match in the last clocks
\* cut the sync short there and a handler of any length and its masks came in between.
NothingDeferred == pc \in {"render", "next"} /\ ~flagI => beamMasterLast >= Deadline

\* "frame slice limit exceeded" cannot happen: every iteration of the loop
\* moves the CPU's clock.
NeverDies == InLoop => slices <= MaxSlices

\* At the NMI the beam is at most a line behind vertical blank (snes.h:80 calls a
\* beam inside the visible field at the NMI a drift of host and PPU frames).
NmiAtVblank ==
  pc = "handler" /\ from = "run" =>
    beamMasterLast > base + (VBlankLine - 1) * LineClocks

\* A frame ends: no schedule of IRQs, WAIs and masks keeps run_scanline() for
\* ever, given handlers shorter than the distance between two IRQs.
FrameEnds == <>(pc = "done")
============================================================================
