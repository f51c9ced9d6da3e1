------------------------------- MODULE Hdma -------------------------------
(***************************************************************************)
(* The HDMA engine (runner/src/snes/dma.c) as the beam and the CPU drive   *)
(* it: dma_initHdma() at the top of the field, dma_doHdma() at the HBlank  *)
(* of each visible line, $420C and the channel registers written by the    *)
(* program in between, and interrupt_at() (game_rtl.c), which puts channel *)
(* 0's registers back when a handler returns, whatever ran meanwhile.      *)
(*                                                                         *)
(* A channel's working registers are a cursor into its table, worked out   *)
(* byte by byte; HdmaTable says what they have to add up to.               *)
(***************************************************************************)
EXTENDS Integers

CONSTANTS
  Channels, Half, Memory, Unit,  \* as in HdmaTable
  Interrupted,  \* bound: handlers are entered while channel 0 has such tables
  Sources,      \* table addresses the program uses
  Leftovers,    \* addresses a general-purpose transfer leaves behind
  VisibleLines  \* slots of a field (225)

VARIABLES
  hdmaActive, hdmaPendingInit, indirect,  \* sets of channels
  aAdr, tableAdr, size,            \* per channel: start, pointer, data pointer
  repCount, doTransfer, terminated,
  slot,                            \* slots run in this field
  savedCh0,                        \* interrupt_at()'s saved_ch0, or NoSave
  entry,                           \* history: header a channel last read
  sent                             \* history: addresses moved in the last slot

working == <<tableAdr, size, repCount, doTransfer, terminated, entry>>
hvars   == <<hdmaActive, hdmaPendingInit, indirect, aAdr, working, slot, savedCh0, sent>>

NoSave == [none |-> TRUE]

\* HdmaTable, with the row recovered from the count of the current entry.
Cursor == [c \in Channels |->
  IF c \notin hdmaActive THEN [kind |-> "off"]
  ELSE IF c \in hdmaPendingInit THEN [kind |-> "owed"]
  ELSE [kind |-> "at", entry |-> entry[c], row |-> Memory[entry[c]] - repCount[c]]]

T == INSTANCE HdmaTable WITH source <- aAdr, cursor <- Cursor

Byte  == 2 * Half
Space == Byte * Byte
Addr  == 0 .. Space - 1
Incr(a, n) == (a + n) % Space

ASSUME HdmaAssumption ==
  /\ Half \in Nat \ {0}
  /\ Memory \in [Addr -> 0 .. Byte - 1]
  /\ Unit \in [Channels -> Nat \ {0}]
  /\ Interrupted \subseteq {"direct", "indirect"} /\ Sources \cup Leftovers \subseteq Addr
  /\ VisibleLines \in Nat

---------------------------------------------------------------------------
(* One channel, as a record of its working registers.                      *)

Regs(c) == [tableAdr |-> tableAdr[c], size |-> size[c], repCount |-> repCount[c],
            doTransfer |-> doTransfer[c], terminated |-> terminated[c],
            entry |-> entry[c], sent |-> <<>>]

\* Mutant: a table pointer that leaves the bank.
LoadDescriptorUnwrapped(c, r) ==
  LET header == Memory[r.tableAdr]
      ptr    == Incr(r.tableAdr, 1)
      takes  == c \in indirect /\ header # 0
  IN  [r EXCEPT !.entry = r.tableAdr, !.repCount = header,
                !.terminated = (header = 0), !.doTransfer = (header # 0),
                !.size = IF takes THEN Memory[ptr] + Byte * Memory[Incr(ptr, 1)] ELSE @,
                !.tableAdr = @ + (IF takes THEN 3 ELSE 1)]

\* dma_hdmaLoadDescriptor()
LoadDescriptor(c, r) ==
  LET header == Memory[r.tableAdr]
      ptr    == Incr(r.tableAdr, 1)
      takes  == c \in indirect /\ header # 0
  IN  [r EXCEPT !.entry = r.tableAdr, !.repCount = header,
                !.terminated = (header = 0), !.doTransfer = (header # 0),
                !.size = IF takes THEN Memory[ptr] + Byte * Memory[Incr(ptr, 1)] ELSE @,
                !.tableAdr = Incr(@, IF takes THEN 3 ELSE 1)]

\* Start the channel's table again.
Restart(c) == LoadDescriptor(c, [Regs(c) EXCEPT !.tableAdr = aAdr[c]])

\* The unit of the row, from the table or through the data pointer.
Transfer(c, r) ==
  LET first == IF c \in indirect THEN r.size ELSE r.tableAdr
      moved == [r EXCEPT !.sent = [i \in 1 .. Unit[c] |-> Incr(first, i - 1)]]
  IN  IF c \in indirect THEN [moved EXCEPT !.size = Incr(@, Unit[c])]
      ELSE [moved EXCEPT !.tableAdr = Incr(@, Unit[c])]

\* Mutant: the repeat bit tested before the count moves.
PlayRowEarlyRepeat(c) ==
  LET r == IF doTransfer[c] THEN Transfer(c, Regs(c)) ELSE Regs(c)
      n == (r.repCount - 1) % Byte
      s == [r EXCEPT !.repCount = n, !.doTransfer = (r.repCount >= Half)]
  IN  IF n % Half = 0 THEN LoadDescriptor(c, s) ELSE s

\* One row: transfer, count, and the next entry at the last one.
PlayRow(c) ==
  LET r == IF doTransfer[c] THEN Transfer(c, Regs(c)) ELSE Regs(c)
      n == (r.repCount - 1) % Byte
      s == [r EXCEPT !.repCount = n, !.doTransfer = (n >= Half)]
  IN  IF n % Half = 0 THEN LoadDescriptor(c, s) ELSE s

RunSlot(c) ==
  IF c \notin hdmaActive THEN Regs(c)
  ELSE IF c \in hdmaPendingInit THEN Restart(c)
  ELSE IF terminated[c] THEN Regs(c)
  ELSE PlayRow(c)

\* Every channel's working registers become those of its record.
Assign(rec) ==
  /\ tableAdr' = [c \in Channels |-> rec[c].tableAdr]
  /\ size' = [c \in Channels |-> rec[c].size]
  /\ repCount' = [c \in Channels |-> rec[c].repCount]
  /\ doTransfer' = [c \in Channels |-> rec[c].doTransfer]
  /\ terminated' = [c \in Channels |-> rec[c].terminated]
  /\ entry' = [c \in Channels |-> rec[c].entry]

---------------------------------------------------------------------------
(* The beam.                                                               *)

\* dma_doHdma() at the HBlank of a visible line.
DoHdma ==
  /\ slot < VisibleLines
  /\ slot' = slot + 1
  /\ Assign([c \in Channels |-> RunSlot(c)])
  /\ sent' = [c \in Channels |-> RunSlot(c).sent]
  /\ hdmaPendingInit' = hdmaPendingInit \ hdmaActive
  /\ UNCHANGED <<hdmaActive, indirect, aAdr, savedCh0>>

\* dma_initHdma() where the field wraps.
InitHdma ==
  /\ slot = VisibleLines
  /\ slot' = 0
  /\ Assign([c \in Channels |-> IF c \in hdmaActive THEN Restart(c) ELSE Regs(c)])
  /\ hdmaPendingInit' = hdmaPendingInit \ hdmaActive
  /\ UNCHANGED <<hdmaActive, indirect, aAdr, savedCh0, sent>>

---------------------------------------------------------------------------
(* The program.                                                            *)

\* dma_startDma(on, hdma): only a channel going from off to on owes a header.
StartHdma(on) ==
  /\ hdmaPendingInit' = (hdmaPendingInit \cap on) \cup (on \ hdmaActive)
  /\ hdmaActive' = on
  /\ UNCHANGED <<indirect, aAdr, working, slot, savedCh0, sent>>

\* $43x2-3, which a running channel reads only when it starts again.
WriteSource(c, a) ==
  /\ aAdr' = [aAdr EXCEPT ![c] = a]
  /\ UNCHANGED <<hdmaActive, hdmaPendingInit, indirect, working, slot, savedCh0, sent>>

\* $43x5-6 and $43x8-A, while the channel is off: a general-purpose transfer on
\* the channel leaves such values behind, and switching it on must forget them.
WriteWorking(c, a) ==
  /\ c \notin hdmaActive
  /\ size' = [size EXCEPT ![c] = a]
  /\ tableAdr' = [tableAdr EXCEPT ![c] = a]
  /\ repCount' = [repCount EXCEPT ![c] = a % Byte]
  /\ UNCHANGED <<hdmaActive, hdmaPendingInit, indirect, aAdr, doTransfer, terminated, entry,
                 slot, savedCh0, sent>>

Mode(c, set) == IF c \in set THEN "indirect" ELSE "direct"

\* $43x0 bit 6, while the channel is off.
WriteMode(c, set) ==
  /\ c \notin hdmaActive
  /\ savedCh0 # NoSave => Mode(0, set) \in Interrupted
  /\ indirect' = set
  /\ UNCHANGED <<hdmaActive, hdmaPendingInit, aAdr, working, slot, savedCh0, sent>>

\* interrupt_at(): the handler's entry and its return.
EnterHandler ==
  /\ savedCh0 = NoSave /\ Mode(0, indirect) \in Interrupted
  /\ savedCh0' = IF 0 \in Channels THEN [aAdr |-> aAdr[0], size |-> size[0]]
                 ELSE [aAdr |-> 0, size |-> 0]
  /\ UNCHANGED <<hdmaActive, hdmaPendingInit, indirect, aAdr, working, slot, sent>>

LeaveHandler ==
  /\ savedCh0 # NoSave
  /\ savedCh0' = NoSave
  /\ aAdr' = [c \in Channels |-> IF c = 0 THEN savedCh0.aAdr ELSE aAdr[c]]
  /\ size' = [c \in Channels |-> IF c = 0 THEN savedCh0.size ELSE size[c]]
  /\ UNCHANGED <<hdmaActive, hdmaPendingInit, indirect, tableAdr, repCount, doTransfer,
                 terminated, entry, slot, sent>>

---------------------------------------------------------------------------
\* dma_reset()
HInit ==
  /\ hdmaActive = {} /\ hdmaPendingInit = {} /\ indirect = Channels
  /\ aAdr = [c \in Channels |-> Space - 1]
  /\ tableAdr = [c \in Channels |-> Space - 1]
  /\ size = [c \in Channels |-> Space - 1]
  /\ repCount = [c \in Channels |-> Byte - 1]
  /\ doTransfer = [c \in Channels |-> FALSE]
  /\ terminated = [c \in Channels |-> FALSE]
  /\ slot = 0 /\ savedCh0 = NoSave
  /\ entry = [c \in Channels |-> 0]
  /\ sent = [c \in Channels |-> <<>>]

HNext ==
  \/ DoHdma \/ InitHdma
  \/ \E on \in SUBSET Channels : StartHdma(on)
  \/ \E c \in Channels, a \in Sources : WriteSource(c, a)
  \/ \E c \in Channels, a \in Leftovers : WriteWorking(c, a)
  \/ \E c \in Channels : WriteMode(c, indirect \cup {c}) \/ WriteMode(c, indirect \ {c})
  \/ EnterHandler \/ LeaveHandler

HSpec == HInit /\ [][HNext]_hvars

---------------------------------------------------------------------------
(* Properties.                                                             *)

HTypeOK ==
  /\ {hdmaActive, hdmaPendingInit, indirect} \subseteq SUBSET Channels
  /\ aAdr \in [Channels -> Addr] /\ tableAdr \in [Channels -> Addr]
  /\ size \in [Channels -> Addr] /\ entry \in [Channels -> Addr]
  /\ repCount \in [Channels -> 0 .. Byte - 1]
  /\ doTransfer \in [Channels -> BOOLEAN] /\ terminated \in [Channels -> BOOLEAN]
  /\ slot \in 0 .. VisibleLines
  /\ savedCh0 \in {NoSave} \cup [aAdr : Addr, size : Addr]

\* The engine plays the tables: every slot moves the bytes of the row the table
\* has there, whatever $420C, the sources and the working registers were before.
PlaysTables == T!TSpec
===========================================================================
