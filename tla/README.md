# Yoshi's Island recompilation: TLA+ models and proofs

The program is a static recompilation of a SNES game. The game's 65816 code is generated C
(`src/src/game`); everything around it is an emulator and a desktop host: the beam and its
interrupts, DMA, the sound chip, the picture unit, save states, netplay, an SDL window. This
directory models the parts of that surrounding whose correctness depends on *order*: what runs
before what within a scanline, between two threads, or before a process dies.

Paths below are relative to the repository root; `runner/` stands for
`snesrecomp/runner/src/`.

## 1. Inventory

| part | state | operations | who it talks to | what makes it correct |
|---|---|---|---|---|
| beam, H/V comparator (`runner/snes/snes.c`) | position, $4200/$4207-A registers, IRQ latch, joypad timer, clock of the beam | walk by span, sync to the CPU's clock, register accesses, two predictors of the next match | driven by every CPU access; runs HDMA | no beam time lost or repeated, one HDMA slot per visible line, stops exactly at a match |
| frame engine (`src/game_rtl.c`) | line, deadlines, resume address, parked | frame, two segments per line, IRQ and NMI dispatch | runs the CPU, the beam, the PPU per line | lines rendered between the right slots, interrupts delivered, frames end |
| DMA (`runner/snes/dma.c`) | 8 channels, pending initialisations | HDMA slot, field top, $420B/$420C | called by the beam and by register writes | each slot moves the bytes the table has there |
| audio path (`runner/snes/dsp.c`, `common_rtl.c`, `desktop.c`) | sample ring, resampler phase, priming, host's prefill flag | produce, render a block, snapshot, rewind, roll back, reset | main thread against SDL's audio thread, under a mutex | a bounded FIFO: in order, once, never read past its end; playback resumes |
| battery saves (`src/desktop.c`) | three candidate files, save RAM, autosave counter | resolve and migrate, load, autosave, final save | the file system; process death | a start loads the last save; a crash costs at most one period |
| save states, rollback residue (`runner/common_rtl.c`) | blobs, generation counter | save, load, roll back | every part of the machine | a replayed frame reads only restored state |
| run-ahead (`snes_runahead.c`) | snapshot buffer | speculate, rewind the sound, load | snapshots, audio | no trace of speculation |
| rewind (`snes_rewind.c`, the loop of `runner/desktop/host_main.c`) | ring of snapshots, head, count, frame counter, selection; the host's generation number | capture, open, step, commit, close; rebuild after a jump | snapshots; the host's modal loop | a memory of the timeline being played, never of a future that was abandoned |
| guarded patches (`guarded_patch.c`) | patch registry, suspension depth | apply, revert, suspend, resume | mods outside this tree | snapshots hold original bytes |
| netplay rollback (`runner/netplay/snes_netplay_rb.c`) | predicted rows, snapshot ring, one episode: stage, span, digests; cooldown, fork cap, lockstep | admit a frame, reconcile late rows, begin, seal, replay, verify, hold, extend, abort | the other peer over a lossy link; transport and engine submodules | peers commit the same states, run with the rows really sent; the match goes on |
| other netplay, lobby (`runner/netplay`, `runner/lobby`) | delay-sync sessions, state transfer, lobby connection | admit, save and load together, join | peers, lobby server | peers run the same inputs |
| CPU tiers (`interp816.c`, `interp_bridge.c`, `cpu_state.c`), PPU, SPC, coprocessors | registers and memories | instruction and pixel semantics | | data-level equivalence with hardware |
| launcher, overlays, mods, diagnostics | settings, menus, traces | user interface | | |

*How they interact.* One thread runs `GameRunOneFrame()`. It gives the CPU a deadline; every CPU
instruction charges master clocks and syncs the beam; the beam latches IRQs and runs HDMA as it
goes; the engine dispatches interrupts between slices and renders a line between its two
segments. Sound samples leave this thread through the ring, which a second thread (SDL's audio
callback) drains. Snapshots, run-ahead, rewind and reset reach into all of it from the first thread.
In a rollback match two such programs exchange pad rows and, when a prediction was wrong, the
messages of an episode in which both load a snapshot and run the same span again.

*What is hard.* Where a walk of the beam is cut (any clock), what a masked interrupt postpones,
handlers that overrun deadlines, HDMA inside a handler; two threads over one ring with a lock
that is dropped in the middle of an operation; free-running cursors with unsigned differences;
files truncated before they are rewritten, in a process that may die; a ring that is cut and refilled
while captures fail; two peers that call each other to correct a span over a link that loses and
reorders what they say. `PROJECT.json` lists these
under `hazards`, each at its line.

## 2. Modules

| module | models | composed from |
|---|---|---|
| `Beam` | `snes_advance_beam`, `snes_sync_master_clock`, `$4200`, `$4207`-`$4212`, predictors | |
| `BeamProofs` | its theorems | `Beam` |
| `FrameEngine`, `MCFrameEngine` | `GameRunOneFrame`, `run_scanline`, `interrupt_at`, the slice contract of `interp_bridge.c`, any guest program | EXTENDS `Beam` |
| `FrameProofs` | the engine's theorems | `FrameEngine`, `BeamProofs` |
| `HdmaTable` | abstract: an HDMA table played row by row | |
| `Hdma`, `MCHdma` | `dma_doHdma`, `dma_initHdma`, `$420C`, channel registers, `interrupt_at`'s restore of channel 0 | refines `HdmaTable` |
| `Modular` | lemmas about `%` | |
| `HdmaProofs` | its theorems and its refinement | `Hdma`, `Modular` |
| `AudioQueue` | abstract: a bounded FIFO | |
| `AudioRing` | ring, consumer, callback, snapshot, run-ahead rollback, reset | refines `AudioQueue` |
| `AudioProofs` | its theorems and its refinement | `AudioRing`, `Modular` |
| `RewindHistory` | abstract: a bounded memory of the timeline being played | |
| `Rewind` | `snes_rewind.c`, generation check and filmstrip loop of `host_main.c` | refines `RewindHistory` |
| `RewindProofs` | its theorems and its refinement | `Rewind` |
| `Rollback` | the episodes of `snes_netplay_rb.c` between two peers, with reconcile and admission | |
| `RollbackProofs` | its theorems | `Rollback` |
| `SramStore` | save files of the desktop host | |
| `SramProofs` | its theorems | `SramStore` |

Definitions keep the names of the code's functions and fields. A definition named after a fault
(`SpanToLineEnd`, `SetWriteUnclamped`, ...) under a comment `Mutant:` is not part of the model: it
is a version of the definition beside it with a bug in it, used to see that a property notices.

### Beam

A step is one iteration of the walk's loop (`WalkSpan`), the iteration that meets the comparator
and stops (`WalkToMatch`), or a CPU access. The CPU charges clocks (`Elapse`) and asks for a sync;
`walk` and `owed` hold what the sync still has to walk, so that a cut leaves exactly what the code
leaves. One thread: no CPU action in the middle of a walk (`Idle`). Histories `fields`, `slots`
and `joyClock` count what has no variable in the code.

Simplifications: the beam-hold switch and `snes_next_irq_master()` have no callers in this
repository (the latter serves as the reference for the walk and for the other predictor);
`hdmaBeamOff` is never set; debug counters are left out. `$4212`'s read syncs the beam and its
value is what the variables already show.

### FrameEngine

`pc` is where the engine is; the guest is nondeterministic: any instruction length in
`CpuCharges`, acknowledging, masking, programming the comparator, WAI. `Interrupt` runs a handler
with no deadline, as `interp_bridge_set_master_deadline(0)` does; `Rti` requires an IRQ handler to have
read `$4211`, since one that does not is re-entered at once, for ever. `LeaveSlice` returns at the
deadline or after an instruction with interrupts enabled: the bridge also returns for a SuperFX
interrupt, which the engine does not dispatch. `Die()` at the slice limit ends the program, so it
is a property (`NeverDies`) and not an action.

### Hdma

Working registers are per channel functions; `LoadDescriptor`, `PlayRow`, `Restart` are the
functions of `dma.c` on a record of them. Memory is one bank of bytes with the code's 16-bit
wrap-around, `Half` standing for 128: the repeat bit, the 128-line entry and the wrap of the
counter are all there at `Half` = 4. Simplifications: one bank; B-bus offsets of a mode are
reduced to the number of bytes per row; the program does not write the working registers of a
channel that is on, nor changes its mode while it is; a general-purpose DMA appears only by the register
values it leaves behind (`WriteWorking`).

`HdmaTable` knows entries and rows and computes every address from the header, where the code
keeps a running pointer and a counter. The refinement mapping recovers the row from the count:
`Memory[entry] - repCount`.

### AudioRing

Actions of the main thread that take `RtlApuLock` are guarded by `Unlocked`; the callback holds
the lock from its first peek (`RenderBlock`) to its last store (`Retire`), and the main thread's
unlocked stores (`ResetWrite`, `ResetRead`) fall between the two. A rollback is three actions
because it takes the lock three times. The servo picks any of `Ratios`; positions inside a sample
are multiples of 1/`Unit`. `Stamps` tell samples apart (one stamp where content does not matter).
The desktop host of this repository uses no `Commands`; the framework's host, which shares this
code, uses all. A state file may end at any byte (`LoadTorn`): the samples and the cursors are replaced
as far as the file was read, a cursor possibly in its low bytes only (`Cut`, with `Bytes` the values a
first byte, two bytes, ... count to), and the delivery is not reset. `heard` and `spoilt` are
histories.

Simplifications: the amplitude of fades; MSU-1 and mod mixing; `RtlAudioSetFastForward` and
`dsp_trimSamples` have no callers; host_main's throttle that waits in `RtlApuUnlock` for the ring
to drain; netplay's resimulation, which loads before it rewinds the cursor.

### Rewind

A snapshot is the moment it was taken at; moments are numbered as they are lived, and `timeline` is
the sequence the machine has come through. A failed allocation of a slot is a capture that fails on
a slot that was not valid. `stale` is the comparison of the host's and the machine's generation
numbers, which only ever grow. A jump (a reset, a loaded state) and a file that ends too soon
(`TornLoad`) both put the machine on a timeline the ring does not belong to; only the first raises the
generation. `timeline`, `born` and `left` are histories; `left` holds the timelines the machine has left
since it went elsewhere with this ring, and is what a rewind to one of their moments needs to find its past.
While `left` is not empty the refinement promises nothing of the ring. That such a ring
is thrown away before the loop goes on is a property of its own, `KeepsOneTimeline`, which does not hold
in two cases. A snapshot the ring made itself is only refused whole
(`CommitRefused`); a file is also read in part (`TornLoad`). Left out: thumbnails and the strip,
environment settings, and what a netplay session does to the machine: the ring only sees that frames
pass uncaptured (`session`), and a session is not started from inside the loop.

### Rollback

`st[p]` is `g_rb` of peer p. A poll is one action: the late rows among those that have arrived
(`Reconcile`), the episode (`Pump`), the preparation of the local row, and the frame if admission
allows one; each message is taken in an action of its own, which is `rb_drain_wire`'s loop with
the rest of the poll left for later. The data are abstracted to right and wrong: a row invented for
the other peer either is the one it sent or is not (the environment chooses, at most `MaxMisses`
times), and a machine is the set of ticks it ran with a wrong row, the odd rows it ran and the set of
ticks it never ran. Two digests agree iff no wrong row is in either and the rest is the same, since a
wrong row differs from what its owner ran. `committed` and `forkSeen` are histories: the last tick
committed on the timeline the peer is on, and whether a comparison of digests has failed at this peer.

A row is *odd* where the code samples a tick twice. The latch of `tip_prepared_for` holds one tick, so
after a replay that moved `sim` back the ticks it had prepared are prepared again, at most `MaxAgain`
times with another pad, and the session then holds another row for a tick the other peer
has already (`Prepared`, `resampled`). The frame, and a span sealed later, read the row as the session
holds it then; the other peer keeps the one that came first. A sample after the second is not told apart from
the second.

The engine may be unwilling to seal a span, to grow it or to hold a tip (`willing`): the caller is left as
`rb_begin_episode()` leaves it, the one who was called sends no answer, and a commit whose hold is refused
ends the episode with a COMMIT that bears no number (1533-1538).

What the submodules do is taken from the calls and comments here: the snapshot ring drops its
oldest tick; `prepare_local_tip` overwrites the row of the tick it is called for, published or not; pad rows
arrive in order and are repeated until acknowledged; the initiator's engine takes the row found wrong from the peer and
the rest of the span from rows that are confirmed or sent; a follower's likewise; extends are
accepted in tip hold and verification. The link loses, delays and reorders the episode messages and
duplicates none. Left out: the hash chain and its watermark (the scan begins at the first row
still predicted), the 64-row limit of a span and the depth of the input history (not reached by
these bounds), boot digest, identity and mod-set exchange, forced faults for testing, more than two
seats and spectators.

### SramStore

The three candidate names in the order of `resolve_sram_paths()`; a file holds the blocks written
so far, and a write is open, block after block, close. `Crash` may come between any two steps.
`kept`, `since` and `damage` are histories: the image a user would call the last save, the frames
since, and what failed. A failed `fopen` skips the save, a short write closes a short file, as in
the code. The build modelled is the launcher build, where the path is the resolved one. Power
loss, where even a closed file may be lost, is not modelled.

## 3. Runs

| run | what it shows | states |
|---|---|---|
| `beam` | position is clock; one slot per line; never ahead of the CPU; joypad busy ends; stops one clock past exactly the predicted match; every sync ends | 359,118 |
| `frame` | lines rendered between the right HDMA slots; no match of a line left to the next; slice limit unreachable; NMI at vertical blank | 4.1 million |
| `frame_ends` | a frame ends, handlers being short | 133,000 |
| `hdma` | a channel switched between direct and indirect tables implements `HdmaTable`, handlers or not | 823,534 |
| `audio_host` | the ring implements `AudioQueue`; playback always resumes | 31,394 |
| `audio_ahead` | with snapshots, torn loads, rollbacks and resets: cursors in order, nothing read past the end | 1.9 million |
| `audio_lift` | **violated**: a callback in the rollback's gap replays samples | |
| `rewind` | the ring implements `RewindHistory`, torn loads or not; only its oldest slot can be spoilt; captions never promise more than a rewind goes back | REWSTATES |
| `rewind_strip` | **violated**: a jump and the filmstrip in one turn of the loop leave a ring of another timeline | |
| `rollback` | what is committed was run with the true rows, by both; no stale snapshot but a base fork's; the match goes on | 259,723 |
| `rollback_once` | **violated**: a published row is sampled again, and the peers run a tick with different rows | |
| `sram` | a start loads the last save unless a write was cut; a crash costs at most one period | 186,804 |

The violated runs check a sentence of a comment against the code; `PROJECT.json` quotes each.

*Seen while modelling, with no run of their own.* `snes_master_clocks_until_irq()` compares the
target with `>` (`snes.c:525`, 536) where the walk's window includes the clock the beam stands on,
so it predicts a whole line or field for a match under the beam. A parked CPU is moved exactly to the
match (`game_rtl.c:67`), the sync does not pass it, the next prediction is a line or a field later, and so
the IRQ is taken at the deadline, not where it matched, against the purpose that `snes.h:139` gives the bound.
`interrupt_at()` puts back channel 0's `size` after the handler (`game_rtl.c:46`), which for an indirect
HDMA channel is its running data pointer: a slot inside the handler is undone. TLC refutes `PlaysTables` as soon as
`Interrupted` holds `"indirect"`. A match inside the automatic joypad read charges part of a span twice, so busy ends early by up to a
span (`snes.c:401`). A rollback loads its blob through the ordinary snapshot load, which resets
the audio delivery although the comment above it says a rollback is not a timeline jump
(`common_rtl.c:1271`, 975). The save migration copies in place, so a process that dies in it leaves
a truncated file that wins the next start (`desktop.c:439`); `sram` excludes that case from
`LoadsLastSave` by name (`damage` holds `"migrate"`). `RtlReset()` clears the ring before it takes the lock
(`common_rtl.c:448`): a callback between its clamp and its store leaves the read cursor ahead and
the fill reads as four billion; `FillBounded` names the case (`spoilt`). A state file that ends between the
two cursors of the ring leaves a producer far ahead of the consumer, and the delivery is not reset because the
load has failed (`common_rtl.c:919`-925): stale samples are played and new ones dropped with nothing queued, until
the consumer has caught up; `FillBounded` names this case too, and holds for a file that ends anywhere else.

The host learns of a jump at the top of its loop, but closing the filmstrip takes the generation
over as its own to keep the ring the commit has cut (`host_main.c:1719`): a state loaded or a reset
made by a key of the same iteration that opens the filmstrip is taken over with it, and the ring then
holds moments of two timelines; `rewind_strip` shows it. A state file that ends too soon overwrites the machine
and does not raise the generation (`common_rtl.c:926`): the same ring is kept by another way
(`KeepsOneTimeline` fails there too, with `Torn`). After a failed capture in a full ring and a rewind to the slot next to it, the
filmstrip opens with nothing to go back to, which its test of two live slots is there to prevent
(`snes_rewind.c:227`).

In the rollback, a NACK is answered by an abort whose comment (`snes_netplay_rb.c:2081`) says that its
cooldown is zero so that the episode re-opens at once; `rb_episode_abort()` always sets 30 ticks
(1346), and the row, promoted already (2401), is given up. A row found wrong in the span of an episode that
still seals is left to the replay as "already covered" (2410), and stays in the machine if that episode is
aborted first. A baseline fork ends the episode
between the load and the replay (1446): the machine stays at the load tick while `sim` stays at the
tip, so those ticks are never run; it takes two wrong rows of which one is not known yet, and
lockstep and the digest of a later episode are what notices. None of these machines is ever committed as an
agreed one, which is what `CommittedExact` and `CommitsTogether` say through all of them.

Three more became visible when the invariant of the rollback was made inductive. A late row of a tick
*before* the load of a held tip goes to `rb_tip_extend()`, which grows the span at its end only
(`new_target` is at least the tick, the load stays); the caller then takes it for resimulated ("not a
loss", 2426) although it is not in the span that runs again. A delayed BEGIN of the lower slot can
take a peer that has committed a tip back to an earlier one (2062), whose ticks it then runs anew,
perhaps with new inventions. And a baseline fork leaves the snapshots past its load in the ring under a cap
(`rb_snap_floor`, 313) that bounds the loads of an initiator only. A commit as follower lifts it,
though the comment there says that "whatever was poisoned before is gone" (1514); and it lifts itself when the
snapshot at the load is the oldest, though the later ones are of the same given-up run and the comment finds
"nothing left to avoid" (328).

*Bounds.* A line is 6 clocks of 2-clock dots with its HBlank edge at 4, a field 3 lines of which
two are visible: the comparator has targets before, on and after the edge, on the line's end and
out of reach; instruction lengths 1 and 7 (2 and 13 for the engine) cut walks at every clock and
span more than a line and two lines. `Chunk` = 5 makes a sync take several chunks. `MaxClock` = 40
is a little over two fields, so that every wrap happens under every register value; the engine's
bound leaves room for its frames (`MaxFrames * Field <= MaxClock`), or the bound would end them. The engine runs two frames and
lets the program write at most `MaxWrites` = 4 registers or flags: enough to arm, mask, unmask and
re-arm. Three tables in 64 bytes cover rows with shared and own data, the longest entry, a table across
the end of the bank, an indirect one and an empty one. The ring holds 4 or 8 samples, blocks of 2
or 3 frames and cursors modulo 8 to 32: full, empty, short by one and wrapped all occur. A run-ahead speculates at most `Speculated` samples, half the cursors' width (two
billion samples in the code, which speculates a few frames): beyond it the comparison by which the rewind tells
ahead from behind means nothing. Two
blocks tell absent, empty, cut and whole files apart; a period of 3 has a first, a middle and a
last frame. `Interrupted` = {"direct"} lets handlers in only while channel 0 is direct: what they do to
an indirect one is described above. The rewind ring has the smallest depth the program
allows, 4, and 12 moments at two frames a capture fill it, spoil it, cut it and fill it again. The
rollback's ring holds 2 snapshots, a peer runs ahead of its rows by one tick and a match is watched for 3
ticks with 2 wrong rows: concurrent calls, spans of two ticks, an extended tip, aged-out snapshots, forks, skipped ticks,
cooldown and lockstep all occur. A row sampled again needs a fourth tick and is `rollback_once`'s
(`MaxAgain` = 1); the theorems hold with any number of them. The match is watched for at least the input delay
(`Delay <= MaxTick`).

*Fairness.* `Beam`: the walk's loop goes on (weak fairness of the walk only; the CPU need not do
anything). `FrameEngine`: walks and engine steps go on, the CPU executes, a handler acknowledges and
returns; one thread runs a loop, so none of it can be starved. `FrameEnds` also takes handlers no
longer than the distance of two IRQs (`HandlerMax` and one-clock instructions against 6-clock
lines): with longer ones step 2's `while` does run for ever, as it would on hardware. `AudioRing`:
the device keeps asking (weak fairness of the two halves of a block), and the producer gets the
mutex again and again between callbacks (strong fairness of `DspCycle`): the lock is free from the
end of one callback to the next, some 16 ms, and the main thread asks every frame. `Rollback`: the
host polls on every turn of its loop, pad rows are repeated until acknowledged, and the watchdog's
clock goes on, so a poll with all rows there, and with the time of its stage over, is taken if it
would go on changing something (weak fairness; `Fairness` spells it out, since
`PollMoves` is much quicker to evaluate than `ENABLED`). No episode message is assumed to arrive, and no engine
to be willing.

Deadlock is not checked where a bound ends the exploration (`MaxClock`, `MaxFrames`, `MaxTick`).

*Reading the weaker ones.* `NmiAtVblank` allows the beam one line of lag: with two syncs in a row
cut by a masked IRQ the beam is inside the last visible line at the NMI, and TLC shows it when the
slack is taken away. `RenderBetweenSlots` says exactly when a line's own slot may already have
run: the CPU itself was past the edge. `FillBounded` and `PeeksQueued` exclude resets that ran
beside a callback, which break them. `NothingDeferred` speaks of a CPU that takes interrupts: a masked match is left by design.
`JoyNeverOverstays` bounds the busy flag from above only. `SetSource` lets the source address of a channel
change at any time, so what `interrupt_at()` does to a handler's own write of it is not seen. `CommittedExact` speaks of
peers that have seen no fork, since the snapshots a fork leaves behind may be loaded again once the cap is lifted, and of
the timeline the peer is on: an episode that takes it back before what it had committed makes it uncommitted.
`SnapshotsCurrent` compares a snapshot with the machine in every component, skipped ticks and odd rows
included; its one exception is read off the machine itself, that it never ran the tick of the snapshot nor the one before.
`CommitsTogether` speaks of peers in the same episode (one that has left meanwhile is found by the digests of a
later one) and compares them as far as the tip: the other may have gone on to a later tip, or be at work on the same
span again after an extend both asked for. A difference that is odd rows alone is guarded twice, by the sealed rows
and by the digests. While the machine is elsewhere with an old ring, `RemembersTimeline` and `CaptionHolds`
promise nothing of it.

## 4. Proofs

`BeamProofs` proves, for every geometry of lines (`GeometryAssumption`), dots no narrower than two
clocks with both edges on dots (`DotAssumption`) and every set of charges, that
`Spec => []TypeOK`, `[]BeamOnClock`, `[]SlotPerLine`, `[]NeverAhead` and `[]JoyNeverOverstays`. The inductive
invariant is their conjunction and `JoyPast` (the last automatic read is not in the future). The
conjunction is needed: that a slot runs once per line rests on the position being the clock and
on `MatchOffEdge`: a stop one clock past a dot boundary is never on the HBlank edge nor on the
end of a line. So a cut walk neither skips nor repeats the edge, which is why the `+ 1` in the code
is harmless; `DotAssumption` is exactly what it needs. `WalkStopsAtMatch` then proves `StopsAtMatch`, that the walk's match
test and `snes_next_irq_master()` agree: the predictor's scan over the lines is a least element (`LeastLine`, from the
well-foundedness of the natural numbers), which is the beam's own line when that can still match and is out
of an iteration's reach otherwise (`NextIrqBounds`).

`SramProofs` proves `Spec => []TypeOK`, `Spec => []AutosaveBounds` and `Spec => LoadsLastSave` for save
RAM of any number of blocks and any period. `LoadsLastSave` is far from inductive: the invariant
says which file would win the next start (`Winner`), that it is the last save whenever nothing is
open and nothing was cut (`WinnerKept`), that the running process saves to that very file
(`ActiveWins`), that the old name counts only while neither new one exists (`LegacyKept`,
`Migrating`), and that an open file is a beginning of the save RAM (`Prefix`). `AutosaveBounds` needs that
the counter is the number of frames since the last save while saves succeed (`Counted`). The lemmas
about sequences (`FileBlocks`, `AppendBlock`, `CopyBlock`) say what a file is after one more block.
TLC checked both invariants before they were proved.

`FrameProofs` builds on the beam's invariant and proves, for the same geometries, any program and any
handlers, `ETypeOK`, `NothingDeferred`, `NeverDies`, `NmiAtVblank` and `RenderBetweenSlots`. The hard direction is
the lower bound: a masked match cuts the sync of a deadline short, line after line, and the beam could
fall behind without limit. It does not, because a walk that was cut has passed the comparator's target on
its line (`Clear`), nothing can match there again until the program runs, and the next sync makes good
what the last one left (`Behind`, `Cut`, `LastSync`). `NeverDies` needs that an iteration of the loop has moved the
clock (`Progress`). The bounds on frames and clocks are the model's; the theorems hold for all of them.

`HdmaProofs` proves `HTypeOK`, and that `Hdma` implements `HdmaTable` if no handler is entered while channel 0
is indirect: `"indirect" \notin Interrupted => (HSpec => PlaysTables)`. It is false without the hypothesis (section 3). The invariant (`Running`) says where a running channel's pointer is: past the units that the rows before
have used, with the row recovered from the count, through every wrap of pointer and counter.

`AudioProofs` proves `TypeOK`, `FillBounded` and `PeeksQueued` for any ring, block, cushion, ratio and width of the
cursors, with every command, a state file that ends at any byte included; and `Commands = {} => (Spec => PlaysQueue)`: without snapshots and resets between callbacks, as in
this repository's own host, the ring is the queue. `AudioRing` takes the cursors modulo `Width`, so
its invariant is about distances modulo `Width` (`Filled`, `Held`, and `Ahead` for a consumer that a
rewind may find on either side of its mark); `Modular` holds the arithmetic.

`RewindProofs` proves `TypeOK`, `HolesAreOldest`, `CaptionHolds` and the refinement of `RewindHistory` for every
depth, interval and number of moments. The ring's slots are moments of the timeline in order,
`Interval` apart from the newest on (`Remembered`, `Spaced`, `Ticked`); a failed capture touches the slot at the head, and that
slot is the oldest live one only when the ring is full, which is what keeps this inductive.

`RollbackProofs` proves `TypeOK`, `CommittedExact`, `SnapshotsCurrent` and `CommitsTogether` for every delay,
prediction, depth of the ring, runway, cooldown and number of extends, wrong rows and rows sampled again. The invariant
for the first three (`Sound`) is of each peer's record alone
and assumes of a message only its form, so that loss, reordering and any sender are covered. Its heart is
`OneRun`: a machine and the snapshots in the ring are of one run, each later one holding the wrong rows of an
earlier one, except those it has skipped. With it, equal digests without a wrong row (`Commit`) say
that *no snapshot in the ring* holds one, which is what makes the later loads of `CommittedExact` safe; and a replay
from a snapshot leaves no row of the span wrong. Between the load and the end of the replay the machine is
older than its snapshots, so those lemmas keep `Shape` only. `TargetStays` shows that the ring never drops the
tick a replay ends at.

`CommitsTogether` relates both peers, so it needs an invariant of the messages between them (`Link`). A
POST on the link, or taken by its receiver, is stood by by its sender while that is in the
episode (`Answer`): the sender is past the tip, and its machine *and the snapshot it would run the span again
from* are, up to the tip, what the digest was taken of. The snapshot is why an extend and a
second replay of the span do not take the answer back. That an answer is never of
an earlier episode rests on the numbers: an owner counts its episodes (`Numbered`), and a BEGIN on the
link names one that its receiver has neither entered nor answered in, once (`BeginOnLink`); so a peer that left an
episode does not come back to it. `Since` states what a peer's record may become in
one step; each operation is shown to respect it and `LinkStep` does the rest. Loss and
reordering are covered; that the link duplicates nothing is the model's (`net` is a set, a message is taken once).

TLC checked every inductive invariant on the run of its component before it was proved. Four did not hold at first
and the model or the property was wrong: what `lost` and `committed` record (see "Seen while modelling"), the
snapshots after a fork, the missing bound on run-ahead in `AudioRing`, and `CommitsTogether`. That one
said that both peers are past replay of the same span. It held with one extend per episode, which is what the run has, and fails with two:
when both extend to the same tip, one may be replaying again up to a tip it has answered for
while the other commits it. The states agree all the same, and that is what the property now says; TLC
has checked it with two extends and five ticks too.

Every safety property of a passing run is so proved. *Model-checked only*: `WakeOnTime` and `HeardOnce`,
which do not hold; all liveness (`WalkEnds`, `FrameEnds`, `PlaybackResumes`, `MatchSettles`), which is outside what the
prover can do.

## 5. Not modelled

Instruction, pixel and synthesis semantics (CPU tiers, PPU, SPC700, coprocessors): data against
hardware, with no order to get wrong; the models accept any behaviour of theirs. The recompiled
game is generated. `recomp-net`, the rollback engine and `recomp-ui` are submodules and not in the
tree; `Rollback` models their use. Nothing in the tree calls the guarded patches. Launcher, overlays, mods, scripting and diagnostics are user interface, file parsing and
observation. `desktop.c`'s pacing, hot-plugging and rendering are sequential calls of SDL.

## 6. Plan

In this order:

1. `SramFramework`: `RtlWriteSram`'s `.bak` rotation against the promise of `SramStore`, with the crash between the two.
2. `FrameHdma`: the frame engine with `Hdma` in the walk, and snapshots at frame boundaries against
   `hdmaPendingInit`, which they do not hold.
3. General-purpose DMA.
4. The start of a netplay match (identity, mod set, boot digest) and the state transfer of `snes_netplay.c`;
   the lobby's connection states.

Each would get its inductive invariant checked with TLC first, as the present ones did.
