----------------------------- MODULE SramProofs -----------------------------
(***************************************************************************)
(* SramStore proved for save RAM of any size and any autosave period: its  *)
(* types, that a start loads the last save unless a write was cut short,   *)
(* and the bound on what is lost.                                          *)
(*                                                                         *)
(* The invariant follows the file that would win the next start: whatever  *)
(* candidates exist, it is the last save whenever nothing is being written *)
(* and nothing was cut short.                                              *)
(***************************************************************************)
EXTENDS SramStore, SequenceTheorems, TLAPS

FreshImage == [b \in 1 .. Blocks |-> Fresh]
Whole      == damage \subseteq {"late"}
Writing    == pc \in {"save", "final"} /\ open

\* What a user would call the last save while neither new name exists.
Legacy == IF Exists(Parent) THEN file[Parent] ELSE FreshImage

\* What the next start would load.
Winner == IF Exists(Saves) THEN file[Saves]
          ELSE IF Exists(Exe) THEN file[Exe] ELSE Legacy

\* The file the process saves to is the one the next start picks.
ActiveWins ==
  pc \in {"load", "run", "save", "final"} =>
    /\ active = Exe => ~Exists(Saves) /\ Exists(Exe)
    /\ active = Saves /\ ~Exists(Saves) => ~Exists(Exe)

LegacyKept == ~Exists(Saves) /\ ~Exists(Exe) => kept = Legacy

Migrating ==
  pc = "migrate" => /\ open /\ active = Saves /\ Exists(Saves) /\ ~Exists(Exe)
                    /\ Exists(Parent) /\ kept = file[Parent]

WinnerKept == Whole /\ ~open => Winner = kept

Idle ==
  /\ pc \in {"off", "migrate", "load"} => sram = FreshImage /\ ~quitting
  /\ pc \in {"off", "migrate", "load", "save"} => frames = 0

Loadable ==
  pc = "load" => ~open /\ (Whole /\ ~Exists(active) => ~Exists(Parent))

\* A save in progress holds the beginning of the save RAM.
Prefix ==
  Writing => \A i \in 1 .. Len(file[active]) : file[active][i] = sram[i]

Safe == ActiveWins /\ LegacyKept /\ Migrating /\ WinnerKept /\ Idle /\ Loadable /\ Prefix

\* Frames counted since the last save, while every save worked.
Counted ==
  damage \subseteq {"short"} =>
    /\ pc = "run" => since = frames
    /\ pc # "run" => since <= Period

Inv == TypeOK /\ Safe /\ Counted

---------------------------------------------------------------------------
(* Files are sequences of blocks.                                          *)

\* A file that exists has blocks of the save RAM, up to its size.
LEMMA FileBlocks ==
  ASSUME NEW f \in Files, f # NoFile
  PROVE  /\ Len(f) \in 0 .. Blocks
         /\ f \in [1 .. Len(f) -> Values]
         /\ f \in Seq(Values)
<1>1. PICK n \in 0 .. Blocks : f \in [1 .. n -> Values]
  BY DEF Files
<1>2. f \in Seq(Values) /\ Len(f) = n
  BY <1>1, SramAssumption, LenProperties
<1> QED
  BY <1>1, <1>2

\* No content is taken for the mark of an absent file.
LEMMA ContentExists ==
  ASSUME NEW n \in 0 .. Blocks, NEW f \in [1 .. n -> Values]
  PROVE  f \in Files /\ f # NoFile /\ Len(f) = n
<1>1. f \in Files
  BY DEF Files
<1>2. Len(f) = n
  BY SramAssumption
<1>3. f # NoFile
  <2>1. CASE n = 0
    BY <2>1, <1>2 DEF NoFile
  <2>2. CASE n # 0
    BY <2>2, SramAssumption DEF NoFile
  <2> QED
    BY <2>1, <2>2
<1> QED
  BY <1>1, <1>2, <1>3

LEMMA EmptyFile == <<>> \in Files /\ <<>> # NoFile /\ Len(<<>>) = 0
<1>1. <<>> \in [1 .. 0 -> Values] /\ 0 \in 0 .. Blocks
  BY SramAssumption
<1> QED
  BY <1>1, ContentExists

\* Writing one more block leaves the ones before it alone.
LEMMA AppendBlock ==
  ASSUME NEW f \in Files, f # NoFile, Len(f) < Blocks, NEW b \in Values
  PROVE  /\ Append(f, b) \in Files /\ Append(f, b) # NoFile
         /\ Len(Append(f, b)) = Len(f) + 1
         /\ \A i \in 1 .. Len(f) : Append(f, b)[i] = f[i]
         /\ Append(f, b)[Len(f) + 1] = b
<1>1. /\ f \in Seq(Values) /\ Len(f) \in 0 .. Blocks
      /\ Len(f) + 1 \in 0 .. Blocks
  BY FileBlocks, SramAssumption
<1>2. /\ Append(f, b) \in Seq(Values) /\ Len(Append(f, b)) = Len(f) + 1
      /\ \A i \in 1 .. Len(f) : Append(f, b)[i] = f[i]
      /\ Append(f, b)[Len(f) + 1] = b
  BY <1>1, AppendProperties
<1>3. Append(f, b) \in [1 .. Len(f) + 1 -> Values]
  BY <1>2, LenProperties
<1> QED
  BY <1>1, <1>2, <1>3, ContentExists

\* One more block of the copy.
LEMMA CopyBlock ==
  ASSUME NEW f \in Files, f # NoFile, NEW n \in Nat, n < Len(f)
  PROVE  SubSeq(f, 1, n + 1) \in Files /\ SubSeq(f, 1, n + 1) # NoFile
<1>1. /\ f \in Seq(Values) /\ Len(f) \in 0 .. Blocks /\ n + 1 \in 0 .. Blocks
  BY FileBlocks, SramAssumption
<1>2. SubSeq(f, 1, n + 1) \in Seq(Values) /\ Len(SubSeq(f, 1, n + 1)) = n + 1
  BY <1>1, SubSeqProperties
<1>3. SubSeq(f, 1, n + 1) \in [1 .. n + 1 -> Values]
  BY <1>2, LenProperties
<1> QED
  BY <1>1, <1>3, ContentExists

\* The counter of frames comes round at Period.
LEMMA NextFrame ==
  ASSUME NEW n \in 0 .. Period - 1
  PROVE  /\ n + 1 = Period => (n + 1) % Period = 0
         /\ n + 1 # Period => (n + 1) % Period = n + 1
  BY SramAssumption
---------------------------------------------------------------------------
LEMMA InitInv == Init => Inv
<1> SUFFICES ASSUME Init PROVE Inv
  OBVIOUS
<1>1. Images \subseteq Files /\ NoFile \in Files
  BY SramAssumption DEF Images, Files
<1>2. FreshImage \in Images
  BY SramAssumption DEF FreshImage, Images
<1>3. file \in [Paths -> Files]
  BY <1>1 DEF Init
<1>4. kept \in Images
  BY <1>2 DEF Init, Paths, Saves, Exe, Parent, Exists, FreshImage
<1>5. TypeOK
  <2>1. quitting \in BOOLEAN
    BY Zenon DEF Init
  <2> QED
    BY <1>2, <1>3, <1>4, <2>1, SramAssumption DEF Init, TypeOK, FreshImage
<1>6. Safe
  BY DEF Init, Safe, ActiveWins, LegacyKept, Migrating, WinnerKept, Idle, Loadable,
         Prefix, Writing, Winner, Legacy, FreshImage, Whole
<1>7. Counted
  BY SramAssumption DEF Init, Counted
<1> QED
  BY <1>5, <1>6, <1>7 DEF Inv

LEMMA StepInv == Inv /\ [Next]_vars => Inv'
<1> SUFFICES ASSUME Inv, [Next]_vars PROVE Inv'
  OBVIOUS
<1> USE SramAssumption DEF Inv, Paths, Saves, Exe, Parent
<1>1. CASE Resolve
  <2> USE <1>1 DEF Resolve
  <2>1. TypeOK'
    BY DEF TypeOK, Exists, Candidate
  <2>2. Safe'
    BY DEF TypeOK, Safe, ActiveWins, LegacyKept, Migrating, WinnerKept, Idle, Loadable,
           Prefix, Writing, Winner, Legacy, FreshImage, Whole, Exists, Candidate, Migrates
  <2>3. Counted'
    BY DEF TypeOK, Counted, Safe, Idle
  <2> QED
    BY <2>1, <2>2, <2>3
<1>2. CASE MigrateOpen
  <2> USE <1>2 DEF MigrateOpen, Put
  <2>1. <<>> \in Files /\ <<>> # NoFile
    BY EmptyFile
  <2>2. TypeOK'
    BY <2>1 DEF TypeOK, Exists
  <2>3. Safe'
    BY <2>1 DEF TypeOK, Safe, ActiveWins, LegacyKept, Migrating, WinnerKept, Idle, Loadable,
           Prefix, Writing, Winner, Legacy, FreshImage, Whole, Exists, Migrates
  <2>4. Counted'
    BY DEF TypeOK, Counted, Safe, Idle
  <2> QED
    BY <2>2, <2>3, <2>4
<1>3. CASE MigrateRefused
  <2> USE <1>3 DEF MigrateRefused
  <2>1. TypeOK'
    BY DEF TypeOK, Exists
  <2>2. Safe'
    BY DEF TypeOK, Safe, ActiveWins, LegacyKept, Migrating, WinnerKept, Idle, Loadable,
           Prefix, Writing, Winner, Legacy, FreshImage, Whole, Exists, Migrates
  <2>3. Counted'
    BY DEF TypeOK, Counted, Safe, Idle
  <2> QED
    BY <2>1, <2>2, <2>3
<1>4. CASE MigrateBlock
  <2> USE <1>4 DEF MigrateBlock, Put
  <2>1. SubSeq(file[Parent], 1, Len(file[Saves]) + 1) \in Files \ {NoFile}
    <3>1. /\ file[Parent] \in Files /\ file[Parent] # NoFile
          /\ file[Saves] \in Files /\ file[Saves] # NoFile
      BY DEF TypeOK, Safe, Migrating, Exists
    <3>2. Len(file[Saves]) \in Nat
      BY <3>1, FileBlocks
    <3> QED
      BY <3>1, <3>2, CopyBlock
  <2>2. TypeOK'
    BY <2>1 DEF TypeOK, Exists
  <2>3. Safe'
    BY <2>1 DEF TypeOK, Safe, ActiveWins, LegacyKept, Migrating, WinnerKept, Idle, Loadable,
           Prefix, Writing, Winner, Legacy, FreshImage, Whole, Exists
  <2>4. Counted'
    BY <2>1 DEF TypeOK, Counted, Safe, Idle
  <2> QED
    BY <2>2, <2>3, <2>4
<1>5. CASE MigrateClose
  <2> USE <1>5 DEF MigrateClose
  <2>1. TypeOK'
    BY DEF TypeOK, Exists
  <2>2. Safe'
    BY DEF TypeOK, Safe, ActiveWins, LegacyKept, Migrating, WinnerKept, Idle, Loadable,
           Prefix, Writing, Winner, Legacy, FreshImage, Whole, Exists
  <2>3. Counted'
    BY DEF TypeOK, Counted, Safe, Idle
  <2> QED
    BY <2>1, <2>2, <2>3
<1>6. CASE LoadSram
  <2> USE <1>6 DEF LoadSram
  <2>1. sram' \in Images
    <3>1. CASE ~Exists(active)
      BY <3>1 DEF TypeOK
    <3>2. CASE Exists(active)
      <4>1. file[active] \in Files /\ file[active] # NoFile
        BY <3>2 DEF TypeOK, Exists
      <4>2. /\ Len(file[active]) \in 0 .. Blocks
            /\ file[active] \in [1 .. Len(file[active]) -> Values]
        BY <4>1, FileBlocks
      <4>3. \A b \in 1 .. Blocks : b <= Len(file[active]) => file[active][b] \in Values
        BY <4>2
      <4> QED
        BY <3>2, <4>3 DEF TypeOK, Images
    <3> QED
      BY <3>1, <3>2
  <2>2. TypeOK'
    BY <2>1 DEF TypeOK, Exists
  <2>3. Safe'
    BY <2>1 DEF TypeOK, Safe, ActiveWins, LegacyKept, Migrating, WinnerKept, Idle, Loadable,
           Prefix, Writing, Winner, Legacy, FreshImage, Whole, Exists
  <2>4. Counted'
    BY <2>1 DEF TypeOK, Counted, Safe, Idle
  <2> QED
    BY <2>2, <2>3, <2>4
<1>7. CASE Frame
  <2> USE <1>7 DEF Frame, Onward
  <2>1. TypeOK'
    BY NextFrame DEF TypeOK, Exists
  <2>2. Safe'
    BY NextFrame DEF TypeOK, Safe, ActiveWins, LegacyKept, Migrating, WinnerKept, Idle, Loadable,
           Prefix, Writing, Winner, Legacy, FreshImage, Whole, Exists
  <2>3. Counted'
    <3> SUFFICES ASSUME damage \subseteq {"short"}
                 PROVE  /\ pc' = "run" => since' = frames'
                        /\ since' <= Period
      BY DEF Counted
    <3>1. since = frames /\ frames \in 0 .. Period - 1 /\ since' = since + 1
      BY DEF TypeOK, Counted
    <3>2. CASE frames + 1 = Period
      <4>1. frames' = 0
        BY <3>1, <3>2, NextFrame
      <4> QED
        BY <3>1, <3>2, <4>1
    <3>3. CASE frames + 1 # Period
      <4>1. frames' = frames + 1
        BY <3>1, <3>3, NextFrame
      <4> QED
        BY <3>1, <4>1
    <3> QED
      BY <3>2, <3>3
  <2> QED
    BY <2>1, <2>2, <2>3
<1>8. CASE SaveOpen
  <2> USE <1>8 DEF SaveOpen, Put
  <2>1. <<>> \in Files /\ <<>> # NoFile /\ Len(<<>>) = 0
    BY EmptyFile
  <2>2. TypeOK'
    BY <2>1 DEF TypeOK, Exists
  <2>3. Safe'
    BY <2>1 DEF TypeOK, Safe, ActiveWins, LegacyKept, Migrating, WinnerKept, Idle, Loadable,
           Prefix, Writing, Winner, Legacy, FreshImage, Whole, Exists
  <2>4. Counted'
    BY <2>1 DEF TypeOK, Counted, Safe, Idle
  <2> QED
    BY <2>2, <2>3, <2>4
<1>9. CASE SaveRefused
  <2> USE <1>9 DEF SaveRefused, Done, End, Onward
  <2>1. FreshImage \in Images
    BY DEF FreshImage, Images
  <2>2. TypeOK'
    <3>1. quitting' \in BOOLEAN
      BY Zenon DEF TypeOK
    <3> QED
      BY <2>1, <3>1 DEF TypeOK, Exists, FreshImage
  <2>3. Safe'
    BY <2>1 DEF TypeOK, Safe, ActiveWins, LegacyKept, Migrating, WinnerKept, Idle, Loadable,
           Prefix, Writing, Winner, Legacy, FreshImage, Whole, Exists
  <2>4. Counted'
    BY <2>1 DEF TypeOK, Counted, Safe, Idle
  <2> QED
    BY <2>2, <2>3, <2>4
<1>10. CASE SaveBlock
  <2> USE <1>10 DEF SaveBlock, Put
  <2>1. /\ file[active] \in Files /\ file[active] # NoFile
        /\ sram[Len(file[active]) + 1] \in Values
    <3>1. file[active] \in Files /\ file[active] # NoFile
      BY DEF TypeOK, Exists
    <3>2. Len(file[active]) \in 0 .. Blocks
      BY <3>1, FileBlocks
    <3> QED
      BY <3>1, <3>2 DEF TypeOK, Images
  <2>2. LET f == Append(file[active], sram[Len(file[active]) + 1])
        IN  /\ f \in Files /\ f # NoFile /\ Len(f) = Len(file[active]) + 1
            /\ \A i \in 1 .. Len(file[active]) : f[i] = file[active][i]
            /\ f[Len(file[active]) + 1] = sram[Len(file[active]) + 1]
    BY <2>1, AppendBlock
  <2>3. TypeOK'
    BY <2>1, <2>2 DEF TypeOK, Exists
  <2>4. Safe'
    BY <2>1, <2>2 DEF TypeOK, Safe, ActiveWins, LegacyKept, Migrating, WinnerKept, Idle, Loadable,
           Prefix, Writing, Winner, Legacy, FreshImage, Whole, Exists
  <2>5. Counted'
    BY <2>1, <2>2 DEF TypeOK, Counted, Safe, Idle
  <2> QED
    BY <2>3, <2>4, <2>5
<1>11. CASE SaveClose
  <2> USE <1>11 DEF SaveClose, Done, End, Onward
  <2>1. FreshImage \in Images
    BY DEF FreshImage, Images
  <2>2. file[active] = sram
    <3>1. file[active] \in Files /\ file[active] # NoFile
      BY DEF TypeOK, Exists
    <3>2. file[active] \in [1 .. Blocks -> Values]
      BY <3>1, FileBlocks
    <3>3. \A i \in 1 .. Blocks : file[active][i] = sram[i]
      BY <3>1, <3>2, FileBlocks DEF Safe, Prefix, Writing
    <3> QED
      BY <3>2, <3>3 DEF TypeOK, Images
  <2>3. TypeOK'
    <3>1. quitting' \in BOOLEAN
      BY Zenon DEF TypeOK
    <3> QED
      BY <2>1, <2>2, <3>1 DEF TypeOK, Exists, FreshImage
  <2>4. Safe'
    BY <2>1, <2>2 DEF TypeOK, Safe, ActiveWins, LegacyKept, Migrating, WinnerKept, Idle, Loadable,
           Prefix, Writing, Winner, Legacy, FreshImage, Whole, Exists
  <2>5. Counted'
    BY <2>1, <2>2 DEF TypeOK, Counted, Safe, Idle
  <2> QED
    BY <2>3, <2>4, <2>5
<1>12. CASE SaveShort
  <2> USE <1>12 DEF SaveShort, Done, End, Onward
  <2>1. FreshImage \in Images
    BY DEF FreshImage, Images
  <2>2. TypeOK'
    <3>1. quitting' \in BOOLEAN
      BY Zenon DEF TypeOK
    <3> QED
      BY <2>1, <3>1 DEF TypeOK, Exists, FreshImage
  <2>3. Safe'
    BY <2>1 DEF TypeOK, Safe, ActiveWins, LegacyKept, Migrating, WinnerKept, Idle, Loadable,
           Prefix, Writing, Winner, Legacy, FreshImage, Whole, Exists
  <2>4. Counted'
    BY <2>1 DEF TypeOK, Counted, Safe, Idle
  <2> QED
    BY <2>2, <2>3, <2>4
<1>13. CASE Crash
  <2> USE <1>13 DEF Crash, End
  <2>1. FreshImage \in Images
    BY DEF FreshImage, Images
  <2>2. TypeOK'
    <3>1. quitting' \in BOOLEAN
      BY Zenon DEF TypeOK
    <3> QED
      BY <2>1, <3>1 DEF TypeOK, Exists, FreshImage
  <2>3. Safe'
    BY <2>1 DEF TypeOK, Safe, ActiveWins, LegacyKept, Migrating, WinnerKept, Idle, Loadable,
           Prefix, Writing, Winner, Legacy, FreshImage, Whole, Exists
  <2>4. Counted'
    <3>1. CASE open
      <4>1. damage' # {} /\ ~(damage' \subseteq {"short"})
        BY <3>1
      <4> QED
        BY <4>1 DEF Counted
    <3>2. CASE ~open
      <4>1. since <= Period \/ ~(damage \subseteq {"short"})
        BY DEF TypeOK, Counted
      <4> QED
        BY <3>2, <4>1 DEF Counted
    <3> QED
      BY <3>1, <3>2
  <2> QED
    BY <2>2, <2>3, <2>4
<1>14. CASE UNCHANGED vars
  <2> USE <1>14 DEF vars
  <2>1. TypeOK'
    BY DEF TypeOK, Exists
  <2>2. Safe'
    BY DEF TypeOK, Safe, ActiveWins, LegacyKept, Migrating, WinnerKept, Idle, Loadable,
           Prefix, Writing, Winner, Legacy, FreshImage, Whole, Exists
  <2>3. Counted'
    BY DEF TypeOK, Counted, Safe, Idle
  <2> QED
    BY <2>1, <2>2, <2>3
<1> QED
  BY <1>1, <1>2, <1>3, <1>4, <1>5, <1>6, <1>7, <1>8, <1>9, <1>10, <1>11, <1>12, <1>13,
     <1>14 DEF Next, Migrate, Save

LEMMA Invariance == Spec => []Inv
<1> QED
  BY InitInv, StepInv, PTL DEF Spec

---------------------------------------------------------------------------
\* The files never hold more than the save RAM and everything keeps its type.
THEOREM SramTypes == Spec => []TypeOK
<1>1. Inv => TypeOK
  BY DEF Inv
<1> QED
  BY <1>1, Invariance, PTL

\* Between two runs at most Period frames are lost, if every save of the run
\* could be opened and was written to its end (autosave of src/desktop.c).
THEOREM AtMostOnePeriodLost == Spec => []AutosaveBounds
<1>1. Inv => AutosaveBounds
  BY SramAssumption DEF Inv, Counted, AutosaveBounds
<1> QED
  BY <1>1, Invariance, PTL

\* What a start loads: the winner, which is the last save.
LEMMA LoadStep ==
  Inv /\ [Next]_vars =>
    (pc = "load" /\ pc' = "run" /\ damage \subseteq {"late"} => sram' = kept)
<1> SUFFICES ASSUME Inv, [Next]_vars, pc = "load", pc' = "run", Whole
             PROVE  sram' = kept
  BY DEF Whole
<1> USE DEF Paths, Saves, Exe, Parent
<1>1. LoadSram
  BY DEF Next, vars, Resolve, Migrate, MigrateOpen, MigrateRefused, MigrateBlock,
         MigrateClose, Frame, Save, SaveOpen, SaveRefused, SaveBlock, SaveClose,
         SaveShort, Crash, End
<1>2. kept \in Images /\ active \in {Saves, Exe} /\ file \in [Paths -> Files]
  BY DEF Inv, TypeOK
<1>3. Winner = kept
  BY DEF Inv, Safe, WinnerKept, Loadable
<1>4. CASE Exists(active)
  <2>1. file[active] = kept
    BY <1>2, <1>3, <1>4 DEF Inv, Safe, ActiveWins, Winner
  <2>2. Len(kept) = Blocks
    BY <1>2, SramAssumption DEF Images
  <2> QED
    BY <1>1, <1>2, <1>4, <2>1, <2>2, SramAssumption DEF LoadSram, Images
<1>5. CASE ~Exists(active)
  <2>1. kept = FreshImage
    BY <1>2, <1>3, <1>5 DEF Inv, Safe, ActiveWins, Loadable, Winner, Legacy
  <2>2. sram = FreshImage
    BY DEF Inv, Safe, Idle
  <2> QED
    BY <1>1, <1>5, <2>1, <2>2 DEF LoadSram
<1> QED
  BY <1>4, <1>5

\* A start loads the last save, whichever candidate holds it, unless a write
\* was cut short since (resolve_sram_paths, load_sram, save_sram).
THEOREM StartLoadsLastSave == Spec => LoadsLastSave
<1>1. Inv /\ [Next]_vars =>
        [pc = "load" /\ pc' = "run" /\ damage \subseteq {"late"} => sram' = kept]_vars
  BY LoadStep
<1> QED
  BY <1>1, Invariance, PTL DEF Spec, LoadsLastSave

=============================================================================
