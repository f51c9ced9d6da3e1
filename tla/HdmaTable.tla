----------------------------- MODULE HdmaTable -----------------------------
(***************************************************************************)
(* What HDMA promises the program: an enabled channel plays its table, one *)
(* row per slot, from the top of the field or, if it was enabled later,    *)
(* from the slot after the one in which it read its header.  The table in  *)
(* memory is a list of entries: a header byte (row count, and whether      *)
(* every row has data of its own or only the first), then the data or,     *)
(* for an indirect table, a pointer to it; a zero header ends it.          *)
(***************************************************************************)
EXTENDS Integers

CONSTANTS
  Channels,   \* the channels in use
  Half,       \* weight of a header's repeat bit (128)
  Memory,     \* the bytes of the bank, by address
  Unit        \* bytes a channel's mode moves per row

Byte  == 2 * Half
Space == Byte * Byte
Addr  == 0 .. Space - 1

VARIABLES
  indirect,\* channels with indirect tables ($43x0 bit 6)
  source,  \* $43x2-3: where the channel's table starts
  cursor,  \* Off, Owed (its header not read yet), or the row to play next
  sent     \* addresses of the bytes each channel moved in the last slot

tvars == <<indirect, source, cursor, sent>>

Off  == [kind |-> "off"]
Owed == [kind |-> "owed"]
At(entry, row) == [kind |-> "at", entry |-> entry, row |-> row]

At16(a) == a % Space
Word(a) == Memory[At16(a)] + Byte * Memory[At16(a + 1)]

Rows(header)     == IF header % Half = 0 THEN Half ELSE header % Half
Repeats(header)  == header > Half

HasData(cur) == cur.row = 0 \/ Repeats(Memory[cur.entry])
DataAt(c, cur) ==
  LET first == IF c \in indirect THEN Word(cur.entry + 1) ELSE cur.entry + 1
  IN  first + (IF Repeats(Memory[cur.entry]) THEN cur.row * Unit[c] ELSE 0)

EntrySize(c, header) ==
  IF c \in indirect THEN 3
  ELSE 1 + Unit[c] * (IF Repeats(header) THEN Rows(header) ELSE 1)

Plays(cur) == cur.kind = "at" /\ Memory[cur.entry] # 0

Moved(c, cur) ==
  IF Plays(cur) /\ HasData(cur)
  THEN [i \in 1 .. Unit[c] |-> At16(DataAt(c, cur) + i - 1)] ELSE <<>>

Advanced(c, cur) ==
  LET header == Memory[cur.entry]
  IN  IF cur.row + 1 < Rows(header) THEN At(cur.entry, cur.row + 1)
      ELSE At(At16(cur.entry + EntrySize(c, header)), 0)

---------------------------------------------------------------------------
TInit ==
  /\ indirect = Channels
  /\ source = [c \in Channels |-> Space - 1]
  /\ cursor = [c \in Channels |-> Off]
  /\ sent = [c \in Channels |-> <<>>]

\* The program moves a channel's table; the channel reads it when it starts again.
SetSource ==
  /\ \E c \in Channels, a \in Addr : source' = [source EXCEPT ![c] = a]
  /\ UNCHANGED <<indirect, cursor, sent>>

\* The program makes the tables of a channel that is off direct or indirect.
SetMode ==
  /\ \E c \in Channels : /\ cursor[c] = Off
                        /\ indirect' \in {indirect \cup {c}, indirect \ {c}}
  /\ UNCHANGED <<source, cursor, sent>>

\* $420C: channels switched on owe a header, running ones run on.
Enable ==
  /\ \E on \in SUBSET Channels :
       cursor' = [c \in Channels |-> IF c \notin on THEN Off
                                     ELSE IF cursor[c] = Off THEN Owed ELSE cursor[c]]
  /\ UNCHANGED <<indirect, source, sent>>

\* The top of a field: every enabled channel starts again.
FieldTop ==
  /\ cursor' = [c \in Channels |-> IF cursor[c] = Off THEN Off ELSE At(source[c], 0)]
  /\ UNCHANGED <<indirect, source, sent>>

\* One slot: a row is played, or an owed header is read.
Slot ==
  /\ sent' = [c \in Channels |-> Moved(c, cursor[c])]
  /\ cursor' = [c \in Channels |->
       CASE cursor[c] = Owed  -> At(source[c], 0)
         [] Plays(cursor[c])  -> Advanced(c, cursor[c])
         [] OTHER             -> cursor[c]]
  /\ UNCHANGED <<indirect, source>>

TNext == SetSource \/ SetMode \/ Enable \/ FieldTop \/ Slot
TSpec == TInit /\ [][TNext]_tvars
============================================================================
