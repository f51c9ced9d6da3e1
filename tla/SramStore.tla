----------------------------- MODULE SramStore -----------------------------
(***************************************************************************)
(* Battery saves of the desktop host (src/desktop.c, launcher build): how  *)
(* a start picks the save file and migrates an old one, and how the save   *)
(* RAM gets back to disk every few frames and at a clean exit.  A process  *)
(* may die between any two steps; a file keeps the blocks written so far.  *)
(***************************************************************************)
EXTENDS Integers, Sequences

CONSTANTS
  Blocks,   \* blocks of the save RAM (stdio and the migration copy in blocks)
  Values,   \* contents of a block; Fresh is what the cartridge starts with
  Fresh,
  Absent,   \* marks a file that is not there
  Period    \* frames from one autosave to the next (300)

VARIABLES
  file,     \* the three candidates, each absent or the blocks it holds
  active,   \* g_active_sram_path
  sram,     \* g_sram
  pc,       \* where the process is; "off" between two runs
  open,     \* the active file is open for writing
  quitting, \* running = false has been set
  frames,   \* s_frame_save_counter, modulo Period
  kept,     \* history: the image a user would call the last save
  since,    \* history: frames run since then, up to Period + 1
  damage    \* history: what went wrong since then

vars == <<file, active, sram, pc, open, quitting, frames, kept, since, damage>>

ASSUME SramAssumption ==
  /\ Blocks \in Nat \ {0} /\ Period \in Nat \ {0}
  /\ Fresh \in Values /\ Absent \notin Values

\* saves/save.srm, save.srm and ../saves/save.srm, in the order they are tried.
Saves == 1
Exe == 2
Parent == 3
Paths == {Saves, Exe, Parent}

NoFile == <<Absent>>
Images == [1 .. Blocks -> Values]
Files  == {NoFile} \cup UNION {[1 .. n -> Values] : n \in 0 .. Blocks}
Exists(f) == file[f] # NoFile
Put(f, content) == file' = [file EXCEPT ![f] = content]

---------------------------------------------------------------------------
(* A start.                                                                *)

\* Mutant: save.srm is tried before saves/save.srm.
CandidateExeFirst == IF Exists(Exe) THEN Exe ELSE Saves

\* resolve_sram_paths(): what it settles on.
Candidate == IF ~Exists(Saves) /\ Exists(Exe) THEN Exe ELSE Saves

Migrates == ~Exists(Saves) /\ ~Exists(Exe) /\ Exists(Parent)

Resolve ==
  /\ pc = "off" /\ ~Migrates
  /\ active' = Candidate /\ pc' = "load"
  /\ UNCHANGED <<file, sram, open, quitting, frames, kept, since, damage>>

\* The copy out of ../saves: opened and truncated, or not opened at all, which
\* nobody reports.
MigrateOpen ==
  /\ pc = "off" /\ Migrates
  /\ active' = Saves /\ pc' = "migrate" /\ open' = TRUE
  /\ Put(Saves, <<>>)
  /\ UNCHANGED <<sram, quitting, frames, kept, since, damage>>
MigrateRefused ==
  /\ pc = "off" /\ Migrates
  /\ active' = Saves /\ pc' = "load"
  /\ damage' = damage \cup {"short"}
  /\ UNCHANGED <<file, sram, open, quitting, frames, kept, since>>

MigrateBlock ==
  /\ pc = "migrate" /\ Len(file[Saves]) < Len(file[Parent])
  /\ Put(Saves, SubSeq(file[Parent], 1, Len(file[Saves]) + 1))
  /\ UNCHANGED <<active, sram, pc, open, quitting, frames, kept, since, damage>>

\* The end of the copy, complete or (the result of fwrite is ignored) short.
MigrateClose ==
  /\ pc = "migrate"
  /\ pc' = "load" /\ open' = FALSE
  /\ damage' = IF file[Saves] = file[Parent] THEN damage \ {"short"}
               ELSE damage \cup {"short"}
  /\ UNCHANGED <<file, active, sram, quitting, frames, kept, since>>

\* load_sram(): a short file fills the beginning only.
LoadSram ==
  /\ pc = "load"
  /\ sram' = IF ~Exists(active) THEN sram
             ELSE [b \in 1 .. Blocks |-> IF b <= Len(file[active])
                                         THEN file[active][b] ELSE sram[b]]
  /\ pc' = "run" /\ since' = 0
  /\ UNCHANGED <<file, active, open, quitting, frames, kept, damage>>

---------------------------------------------------------------------------
(* The main loop.                                                          *)

\* Where the loop goes after a frame or an autosave.
Onward == IF quitting' THEN "final" ELSE "run"

\* Mutant: the autosave waits for a counter that passes Period.
FrameSavesLate ==
  /\ pc = "run"
  /\ sram' \in Images /\ quitting' \in BOOLEAN
  /\ frames' = (frames + 1) % (Period + 2)
  /\ pc' = IF frames' = 0 THEN "save" ELSE Onward
  /\ since' = IF since > Period THEN since ELSE since + 1
  /\ UNCHANGED <<file, active, open, kept, damage>>

\* The events, one frame of the program, which may write its save RAM, and the
\* counter.  An exit asked for before the frame takes effect after it.
Frame ==
  /\ pc = "run"
  /\ sram' \in Images /\ quitting' \in BOOLEAN
  /\ frames' = (frames + 1) % Period
  /\ pc' = IF frames' = 0 THEN "save" ELSE Onward
  /\ since' = IF since > Period THEN since ELSE since + 1
  /\ UNCHANGED <<file, active, open, kept, damage>>

\* After the exit's save the process ends.
End ==
  /\ quitting' = FALSE /\ frames' = 0
  /\ sram' = [b \in 1 .. Blocks |-> Fresh] /\ pc' = "off"
Done ==
  \/ pc = "save" /\ UNCHANGED <<sram, quitting, frames>> /\ pc' = Onward
  \/ pc = "final" /\ End

\* save_sram(): fopen("wb") truncates ...
SaveOpen ==
  /\ pc \in {"save", "final"} /\ ~open
  /\ open' = TRUE
  /\ Put(active, <<>>)
  /\ UNCHANGED <<active, sram, pc, quitting, frames, kept, since, damage>>

\* ... or fails, and the save is skipped with a message.
SaveRefused ==
  /\ pc \in {"save", "final"} /\ ~open
  /\ damage' = damage \cup {"late"}
  /\ Done
  /\ UNCHANGED <<file, active, open, kept, since>>

SaveBlock ==
  /\ pc \in {"save", "final"} /\ open /\ Len(file[active]) < Blocks
  /\ Put(active, Append(file[active], sram[Len(file[active]) + 1]))
  /\ UNCHANGED <<active, sram, pc, open, quitting, frames, kept, since, damage>>

SaveClose ==
  /\ pc \in {"save", "final"} /\ open /\ Len(file[active]) >= Blocks
  /\ open' = FALSE
  /\ kept' = sram /\ since' = 0 /\ damage' = {}
  /\ Done
  /\ UNCHANGED <<file, active>>

\* A full disk: the save goes on with what could be written.
SaveShort ==
  /\ pc \in {"save", "final"} /\ open /\ Len(file[active]) < Blocks
  /\ open' = FALSE
  /\ damage' = damage \cup {"save"}
  /\ Done
  /\ UNCHANGED <<file, active, kept, since>>

\* The process dies: killed, crashed, or through Die(), which saves nothing.
Crash ==
  /\ pc # "off"
  /\ damage' = IF ~open THEN damage
               ELSE damage \cup {IF pc = "migrate" THEN "migrate" ELSE "save"}
  /\ open' = FALSE
  /\ End
  /\ UNCHANGED <<file, active, kept, since>>

---------------------------------------------------------------------------
\* Any of the candidates may be there from earlier installations.
Init ==
  /\ file \in [Paths -> {NoFile} \cup Images]
  /\ active = Saves /\ sram = [b \in 1 .. Blocks |-> Fresh]
  /\ pc = "off" /\ open = FALSE /\ quitting = FALSE /\ frames = 0
  /\ kept = IF Exists(Saves) THEN file[Saves] ELSE IF Exists(Exe) THEN file[Exe]
            ELSE IF Exists(Parent) THEN file[Parent] ELSE sram
  /\ since = 0 /\ damage = {}

Save == SaveOpen \/ SaveRefused \/ SaveBlock \/ SaveClose \/ SaveShort
Migrate == MigrateOpen \/ MigrateRefused \/ MigrateBlock \/ MigrateClose
Next == Resolve \/ Migrate \/ LoadSram \/ Frame \/ Save \/ Crash

Spec == Init /\ [][Next]_vars

---------------------------------------------------------------------------
(* Properties.                                                             *)

\* Files hold at most the save RAM; a file is open only while it is written.
TypeOK ==
  /\ file \in [Paths -> Files]
  /\ active \in {Saves, Exe} /\ sram \in Images /\ kept \in Images
  /\ pc \in {"off", "migrate", "load", "run", "save", "final"}
  /\ open => pc \in {"migrate", "save", "final"} /\ Exists(active)
  /\ quitting \in BOOLEAN /\ frames \in 0 .. Period - 1
  /\ since \in 0 .. Period + 1 /\ damage \subseteq {"migrate", "short", "save", "late"}

\* A start loads the last save, bit for bit, whichever candidate holds it and
\* however the run before ended, unless a write was cut short.
LoadsLastSave ==
  [][pc = "load" /\ pc' = "run" /\ damage \subseteq {"late"} => sram' = kept]_vars

\* Between two runs, at most Period frames have been lost.
AutosaveBounds == pc = "off" /\ damage = {} => since <= Period

============================================================================
