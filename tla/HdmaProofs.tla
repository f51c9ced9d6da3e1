----------------------------- MODULE HdmaProofs -----------------------------
(***************************************************************************)
(* HDMA proved for every bank, set of channels and unit: its types, and    *)
(* that the engine's cursors play the tables row by row (HdmaTable), as    *)
(* long as no handler is entered while channel 0 is indirect.              *)
(*                                                                         *)
(* The invariant says where a running channel's registers are: at the row  *)
(* that its count leaves, with the pointer past the units that the rows    *)
(* before it have used.                                                    *)
(***************************************************************************)
EXTENDS Hdma, Modular, TLAPS

\* Units the rows before this one have used.
Used(header, row) == IF row = 0 THEN 0 ELSE IF T!Repeats(header) THEN row ELSE 1

RowOf(r) == Memory[r.entry] - r.repCount

\* A running channel's registers, as a record.
Playing(c, r) ==
  LET header == Memory[r.entry]
      row    == RowOf(r)
  IN  /\ r.terminated <=> header = 0
      /\ header = 0 => r.repCount = 0
      /\ header # 0 =>
           /\ row \in 0 .. T!Rows(header) - 1
           /\ r.doTransfer <=> T!HasData(T!At(r.entry, row))
           /\ IF c \in indirect
              THEN /\ r.tableAdr = (r.entry + 3) % Space
                   /\ r.size = (T!Word(r.entry + 1) + Used(header, row) * Unit[c]) % Space
              ELSE r.tableAdr = (r.entry + 1 + Used(header, row) * Unit[c]) % Space

Running == \A c \in hdmaActive \ hdmaPendingInit : Playing(c, Regs(c))

\* A handler that interrupted a direct table returns to one.
Undisturbed == savedCh0 # NoSave => Mode(0, indirect) \in Interrupted

Inv == HTypeOK /\ hdmaPendingInit \subseteq hdmaActive /\ Running /\ Undisturbed

---------------------------------------------------------------------------
(* The bank.                                                               *)

\* The constants as numbers.
LEMMA Constants ==
  /\ Half \in Nat \ {0} /\ Byte \in Nat \ {0} /\ Byte = 2 * Half
  /\ Space \in Nat \ {0} /\ Space = Byte * Byte /\ Byte <= Space /\ 4 <= Space
  /\ T!Space = Space /\ T!Byte = Byte /\ T!Addr = Addr
<1>1. Half \in Nat \ {0} /\ Byte = 2 * Half /\ Byte \in Nat \ {0} /\ Byte >= 2
  BY HdmaAssumption DEF Byte
<1>2. Byte * Byte \in Nat /\ Byte * Byte >= 2 * Byte
  BY <1>1
<1>3. T!Byte = Byte
  BY DEF T!Byte, Byte
<1> HIDE DEF Byte
<1>4. T!Space = Space /\ T!Addr = Addr
  BY <1>3 DEF T!Space, Space, T!Addr, Addr
<1> QED BY <1>1, <1>2, <1>3, <1>4 DEF Space

\* Every byte of the bank is one, and two of them make an address.
LEMMA Bytes ==
  ASSUME NEW a \in Int, NEW n \in Int
  PROVE  /\ Incr(a, n) \in Addr /\ T!At16(a) \in Addr
         /\ Memory[Incr(a, n)] \in 0 .. Byte - 1 /\ Memory[T!At16(a)] \in 0 .. Byte - 1
<1>1. (a + n) % Space \in 0 .. Space - 1 /\ a % Space \in 0 .. Space - 1
  <2>1. Space \in Nat \ {0} /\ a + n \in Int
    BY Constants
  <2> QED BY <2>1, Division
<1> QED BY <1>1, Constants, HdmaAssumption DEF Incr, Addr, T!At16

\* Two bytes make an address.
LEMMA Words ==
  ASSUME NEW lo \in 0 .. Byte - 1, NEW hi \in 0 .. Byte - 1
  PROVE  lo + Byte * hi \in Addr
<1>1. Byte * hi \in Int /\ Byte * hi >= 0
  BY Constants
<1>2. Byte * (Byte - 1 - hi) >= 0 /\ Byte * (Byte - 1 - hi) = Byte * Byte - Byte - Byte * hi
  BY Constants
<1> QED BY <1>1, <1>2, Constants DEF Addr

\* Adding to an address in two steps, as the pointer does.
LEMMA InTwoSteps ==
  ASSUME NEW a \in Int, NEW b \in Int
  PROVE  Incr(a % Space, b) = (a + b) % Space
BY ModPlus, Constants DEF Incr

---------------------------------------------------------------------------
(* Headers.                                                                *)

\* The rows of a header, and the values its count takes.
LEMMA HeaderRows ==
  ASSUME NEW h \in 1 .. Byte - 1
  PROVE  /\ T!Rows(h) \in 1 .. Half
         /\ T!Repeats(h) <=> h > Half
         /\ h <= Half => T!Rows(h) = h
         /\ h > Half => T!Rows(h) = h - Half
<1>1. h < Half => h % Half = h
  BY Constants, ModSmall
<1>2. h = Half => h % Half = 0
  BY Constants, ModUnique
<1>3. h > Half => h % Half = h - Half
  <2>1. h > Half => h - Half \in 0 .. Half - 1 /\ (h - Half) + Half = h
    BY Constants
  <2> QED BY <2>1, Constants, ModSmall
<1> QED BY <1>1, <1>2, <1>3, Constants DEF T!Rows, T!Repeats

\* The count of a row: it runs down with the rows, comes to a multiple of Half
\* after the last one, and says from the second row on whether there is data.
LEMMA Count ==
  ASSUME NEW h \in 1 .. Byte - 1, NEW row \in 0 .. T!Rows(h) - 1,
         NEW count, count = h - row
  PROVE  LET n == (count - 1) % Byte
         IN  /\ n = h - (row + 1) /\ n \in 0 .. Byte - 1
             /\ (n % Half = 0) <=> (row + 1 = T!Rows(h))
             /\ (n >= Half) <=> T!Repeats(h)
<1> DEFINE n == (count - 1) % Byte
<1>1. count - 1 \in 0 .. Byte - 1 /\ count \in Int
  BY HeaderRows, Constants
<1>2. n = h - (row + 1) /\ n \in 0 .. Byte - 1
  <2>1. n = count - 1
    BY <1>1, Constants, ModSmall
  <2>2. h \in Int /\ row \in Int
    BY HeaderRows, Constants
  <2> HIDE DEF n
  <2> QED BY <1>1, <2>1, <2>2
<1> HIDE DEF n
<1>3. CASE h <= Half
  <2>1. n \in 0 .. Half - 1 /\ T!Rows(h) = h
    BY <1>2, <1>3, HeaderRows, Constants
  <2>2. n % Half = n
    BY <2>1, Constants, ModSmall
  <2> QED BY <1>2, <1>3, <2>1, <2>2, HeaderRows, Constants DEF n
<1>4. CASE h > Half
  <2>1. n - Half \in 0 .. Half - 1 /\ T!Rows(h) = h - Half /\ (n - Half) + Half = n
    BY <1>2, <1>4, HeaderRows, Constants
  <2>2. n % Half = n - Half
    BY <2>1, Constants, ModSmall
  <2> QED BY <1>2, <1>4, <2>1, <2>2, HeaderRows, Constants DEF n
<1> QED BY <1>3, <1>4, Constants

---------------------------------------------------------------------------
(* One channel.                                                            *)

\* The records LoadDescriptor, Transfer and PlayRow work on.
Records(c) ==
  [tableAdr : Addr, size : Addr, repCount : 0 .. Byte - 1, doTransfer : BOOLEAN,
   terminated : BOOLEAN, entry : Addr, sent : {<<>>} \cup [1 .. Unit[c] -> Addr]]

\* The registers of a channel are one of its records.
LEMMA RegsTyped ==
  ASSUME HTypeOK, NEW c \in Channels
  PROVE  Regs(c) \in Records(c) /\ aAdr[c] \in Addr
BY DEF HTypeOK, Regs, Records

\* dma_hdmaLoadDescriptor() leaves the channel at the first row of the entry
\* that its pointer was at.
LEMMA LoadDescriptorPlays ==
  ASSUME NEW c \in Channels, NEW r \in Records(c)
  PROVE  LET l == LoadDescriptor(c, r)
         IN  /\ l \in Records(c) /\ l.sent = r.sent
             /\ l.entry = r.tableAdr /\ RowOf(l) = 0
             /\ Playing(c, l)
<1> DEFINE l == LoadDescriptor(c, r)
           e == r.tableAdr
           h == Memory[e]
<1>1. e \in Addr /\ e \in Int /\ h \in 0 .. Byte - 1 /\ h \in Int
  BY Constants, HdmaAssumption DEF Records, Addr
<1>2. Incr(e, 1) = T!At16(e + 1) /\ Incr(Incr(e, 1), 1) = T!At16(e + 1 + 1)
  <2> HIDE DEF e
  <2>1. e + 1 \in Int
    BY <1>1
  <2>2. Incr((e + 1) % Space, 1) = (e + 1 + 1) % Space
    BY <2>1, InTwoSteps
  <2> QED BY <2>1, <2>2, Constants DEF Incr, T!At16
<1> DEFINE w == Memory[Incr(e, 1)] + Byte * Memory[Incr(Incr(e, 1), 1)]
<1>3. w = T!Word(e + 1) /\ w \in Addr
  <2>1. w = T!Word(e + 1)
    BY <1>2, Constants DEF T!Word
  <2>2. e + 1 \in Int /\ e + 1 + 1 \in Int
    BY <1>1
  <2> QED BY <1>2, <2>1, <2>2, Bytes, Words
<1>4. Incr(e, 1) \in Addr /\ Incr(e, 3) \in Addr
  BY <1>1, Bytes
<1> HIDE DEF w
<1>5. /\ l.entry = e /\ l.repCount = h /\ l.sent = r.sent
      /\ l.terminated = (h = 0) /\ l.doTransfer = (h # 0)
      /\ l.size = IF c \in indirect /\ h # 0 THEN w ELSE r.size
      /\ l.tableAdr = IF c \in indirect /\ h # 0 THEN Incr(e, 3) ELSE Incr(e, 1)
  BY DEF LoadDescriptor, Records, w
<1>6. l \in Records(c)
  BY <1>1, <1>3, <1>4 DEF LoadDescriptor, Records, w
<1> HIDE DEF l, e, h
<1>7. RowOf(l) = 0
  BY <1>1, <1>5 DEF RowOf, h
<1>8. Playing(c, l)
  <2>1. Memory[l.entry] = h
    BY <1>5 DEF h
  <2>2. h = 0 => l.repCount = 0 /\ l.terminated
    BY <1>5
  <2>3. ASSUME h # 0
        PROVE  /\ RowOf(l) \in 0 .. T!Rows(h) - 1
               /\ l.doTransfer <=> T!HasData(T!At(l.entry, RowOf(l)))
               /\ IF c \in indirect
                  THEN /\ l.tableAdr = (l.entry + 3) % Space
                       /\ l.size = (T!Word(l.entry + 1) + Used(h, RowOf(l)) * Unit[c]) % Space
                  ELSE l.tableAdr = (l.entry + 1 + Used(h, RowOf(l)) * Unit[c]) % Space
    <3>1. h \in 1 .. Byte - 1
      BY <1>1, <2>3, Constants
    <3>2. 0 \in 0 .. T!Rows(h) - 1
      BY <3>1, HeaderRows, Constants
    <3>3. T!HasData(T!At(l.entry, 0))
      BY DEF T!HasData, T!At
    <3>4. Used(h, 0) * Unit[c] = 0
      BY HdmaAssumption DEF Used
    <3>5. w % Space = w
      BY <1>3, Constants, ModSmall DEF Addr
    <3>6. e + 1 + 0 = e + 1 /\ w + 0 = w
      BY <1>1, <1>3, Constants DEF Addr
    <3> QED BY <1>3, <1>5, <1>7, <2>3, <3>2, <3>3, <3>4, <3>5, <3>6 DEF Incr
  <2> QED BY <1>5, <2>1, <2>2, <2>3 DEF Playing
<1> QED BY <1>5, <1>6, <1>7, <1>8 DEF l, e

\* A running channel's registers, and what they say of the table's row.
LEMMA TransferMoves ==
  ASSUME NEW c \in Channels, NEW r \in Records(c)
  PROVE  LET t == Transfer(c, r)
             first == IF c \in indirect THEN r.size ELSE r.tableAdr
         IN  /\ t \in Records(c)
             /\ t.sent = [i \in 1 .. Unit[c] |-> Incr(first, i - 1)]
             /\ t.entry = r.entry /\ t.repCount = r.repCount
             /\ t.terminated = r.terminated /\ t.doTransfer = r.doTransfer
             /\ t.size = IF c \in indirect THEN Incr(r.size, Unit[c]) ELSE r.size
             /\ t.tableAdr = IF c \in indirect THEN r.tableAdr ELSE Incr(r.tableAdr, Unit[c])
<1> DEFINE first == IF c \in indirect THEN r.size ELSE r.tableAdr
           s == [i \in 1 .. Unit[c] |-> Incr(first, i - 1)]
<1>1. first \in Addr /\ first \in Int /\ Unit[c] \in Nat
  BY Constants, HdmaAssumption DEF Records, Addr
<1>2. ASSUME NEW i \in 1 .. Unit[c] PROVE Incr(first, i - 1) \in Addr
  BY <1>1, Bytes
<1>3. s \in [1 .. Unit[c] -> Addr]
  BY <1>2
<1>4. Incr(r.size, Unit[c]) \in Addr /\ Incr(r.tableAdr, Unit[c]) \in Addr
  <2>1. r.size \in Int /\ r.tableAdr \in Int
    BY Constants DEF Records, Addr
  <2> QED BY <1>1, <2>1, Bytes
<1> HIDE DEF s
<1>5. Transfer(c, r) = IF c \in indirect
        THEN [[r EXCEPT !.sent = s] EXCEPT !.size = Incr(@, Unit[c])]
        ELSE [[r EXCEPT !.sent = s] EXCEPT !.tableAdr = Incr(@, Unit[c])]
  BY DEF Transfer, s
<1> QED BY <1>3, <1>4, <1>5 DEF Records, s

\* Units used by the next row: one more if this one has data.
LEMMA UsedNext ==
  ASSUME NEW e, NEW row \in Nat
  PROVE  Used(Memory[e], row + 1) = IF T!HasData(T!At(e, row)) THEN Used(Memory[e], row) + 1
                                    ELSE Used(Memory[e], row)
BY DEF Used, T!HasData, T!At

\* PlayRow() on a running channel: what it sends is the row of the table, and
\* it leaves the registers at the row that follows.
LEMMA PlayRowPlays ==
  ASSUME HTypeOK, NEW c \in Channels, Playing(c, Regs(c)), Memory[entry[c]] # 0
  PROVE  LET p   == PlayRow(c)
             cur == T!At(entry[c], Memory[entry[c]] - repCount[c])
         IN  /\ p \in Records(c) /\ Playing(c, p)
             /\ p.sent = T!Moved(c, cur)
             /\ T!At(p.entry, RowOf(p)) = T!Advanced(c, cur)
<1> DEFINE q == Regs(c)
           e == entry[c]
           h == Memory[e]
           row == h - repCount[c]
           cur == T!At(e, row)
           u == Unit[c]
           base == IF c \in indirect THEN T!Word(e + 1) ELSE e + 1
           first == IF c \in indirect THEN q.size ELSE q.tableAdr
           t == IF doTransfer[c] THEN Transfer(c, q) ELSE q
           n == (t.repCount - 1) % Byte
           s == [t EXCEPT !.repCount = n, !.doTransfer = (n >= Half)]
<1>0. PlayRow(c) = IF n % Half = 0 THEN LoadDescriptor(c, s) ELSE s
  BY DEF PlayRow
<1>1. /\ q \in Records(c) /\ q.entry = e /\ q.repCount = repCount[c] /\ q.sent = <<>>
      /\ q.doTransfer = doTransfer[c] /\ RowOf(q) = row
      /\ q.size = size[c] /\ q.tableAdr = tableAdr[c] /\ q.terminated = terminated[c]
  <2>1. q \in Records(c)
    BY RegsTyped
  <2> QED BY <2>1 DEF Regs, RowOf
<1>2. /\ e \in Int /\ h \in 1 .. Byte - 1 /\ h \in Int /\ u \in Nat \ {0}
      /\ e \in Addr /\ repCount[c] \in Int
  BY Constants, HdmaAssumption DEF HTypeOK, Addr
<1>3. base \in Int
  <2>1. e + 1 \in Int /\ e + 1 + 1 \in Int
    BY <1>2
  <2>2. T!Word(e + 1) \in Addr
    BY <2>1, Bytes, Words, Constants DEF T!Word
  <2> QED BY <2>1, <2>2, Constants DEF Addr
<1>4. /\ row \in 0 .. T!Rows(h) - 1 /\ row \in Nat
      /\ doTransfer[c] <=> T!HasData(cur)
      /\ first = (base + Used(h, row) * u) % Space
      /\ c \in indirect => q.tableAdr = (e + 3) % Space
      /\ terminated[c] = FALSE
  <2>1. /\ row \in 0 .. T!Rows(h) - 1
        /\ doTransfer[c] <=> T!HasData(cur)
        /\ first = (base + Used(h, row) * u) % Space
        /\ c \in indirect => q.tableAdr = (e + 3) % Space
    BY <1>1 DEF Playing
  <2>2. T!Rows(h) \in Int
    BY <1>2, HeaderRows, Constants
  <2>3. terminated[c] = FALSE
    <3>1. terminated[c] \in BOOLEAN /\ ~terminated[c]
      BY <1>1 DEF Playing, HTypeOK
    <3> QED BY <3>1
  <2> QED BY <2>1, <2>2, <2>3
<1>5. Used(h, row) \in Nat /\ Used(h, row) * u \in Int /\ Used(h, row + 1) \in Nat
      /\ Used(h, row + 1) * u \in Int
  BY <1>2, <1>4 DEF Used
<1>6. Used(h, row + 1) = IF doTransfer[c] THEN Used(h, row) + 1 ELSE Used(h, row)
  BY <1>4, UsedNext
\* The bytes moved are the row's.
<1>7. t.sent = T!Moved(c, cur)
  <2>1. CASE ~doTransfer[c]
    <3>1. ~T!HasData(cur)
      BY <1>4, <2>1
    <3> QED BY <1>1, <2>1, <3>1 DEF T!Moved
  <2>2. CASE doTransfer[c]
    <3>1. t.sent = [i \in 1 .. u |-> Incr(first, i - 1)]
      BY <1>1, <2>2, TransferMoves
    <3>2. T!Moved(c, cur) = [i \in 1 .. u |-> T!At16(T!DataAt(c, cur) + i - 1)]
      BY <1>2, <1>4, <2>2 DEF T!Moved, T!Plays, T!At
    <3>3. T!DataAt(c, cur) = base + Used(h, row) * u
      <4>1. T!Repeats(h) \/ row = 0
        BY <1>4, <2>2 DEF T!HasData, T!At
      <4>2. T!DataAt(c, cur) = base + (IF T!Repeats(h) THEN row * u ELSE 0)
        BY DEF T!DataAt, T!At
      <4>3. Used(h, row) * u = IF T!Repeats(h) THEN row * u ELSE 0
        BY <1>2, <4>1 DEF Used
      <4> QED BY <4>2, <4>3
    <3>4. ASSUME NEW i \in 1 .. u
          PROVE  Incr(first, i - 1) = T!At16(T!DataAt(c, cur) + i - 1)
      <4> DEFINE a == base + Used(h, row) * u
      <4>1. a \in Int /\ i \in Int /\ i - 1 \in Int
        BY <1>2, <1>3, <1>5
      <4> HIDE DEF a
      <4>2. Incr(a % Space, i - 1) = (a + (i - 1)) % Space
        BY <4>1, InTwoSteps
      <4>3. a + (i - 1) = a + i - 1
        BY <4>1
      <4> QED BY <1>4, <3>3, <4>2, <4>3, Constants DEF a, T!At16
    <3> QED BY <3>1, <3>2, <3>4
  <2> QED BY <2>1, <2>2
\* The registers after the transfer.
<1>8. /\ t \in Records(c) /\ t.entry = e /\ t.repCount = repCount[c]
      /\ t.terminated = terminated[c]
      /\ IF c \in indirect
         THEN /\ t.tableAdr = (e + 3) % Space
              /\ t.size = (base + Used(h, row + 1) * u) % Space
         ELSE t.tableAdr = (base + Used(h, row + 1) * u) % Space
  <2>1. CASE ~doTransfer[c]
    BY <1>1, <1>4, <1>6, <2>1
  <2>2. CASE doTransfer[c]
    <3>1. Incr(first, u) = (base + Used(h, row + 1) * u) % Space
      <4>1. Incr(first, u) = ((base + Used(h, row) * u) + u) % Space
        <5> DEFINE a == base + Used(h, row) * u
        <5>1. a \in Int /\ u \in Int
          BY <1>2, <1>3, <1>5
        <5> HIDE DEF a
        <5>2. Incr(a % Space, u) = (a + u) % Space
          BY <5>1, InTwoSteps
        <5> QED BY <1>4, <5>2 DEF a
      <4>2. Used(h, row + 1) * u = Used(h, row) * u + u
        <5> DEFINE k == Used(h, row)
        <5> HIDE DEF k
        <5>1. k \in Nat /\ Used(h, row + 1) = k + 1
          BY <1>5, <1>6, <2>2 DEF k
        <5>2. (k + 1) * u = k * u + u
          BY <1>2, <5>1
        <5> QED BY <5>1, <5>2 DEF k
      <4>3. (base + Used(h, row) * u) + u = base + (Used(h, row) * u + u)
        BY <1>2, <1>3, <1>5
      <4> QED BY <4>1, <4>2, <4>3
    <3>2. /\ Transfer(c, q) \in Records(c) /\ Transfer(c, q).entry = q.entry
          /\ Transfer(c, q).repCount = q.repCount
          /\ Transfer(c, q).terminated = q.terminated
          /\ Transfer(c, q).size = IF c \in indirect THEN Incr(q.size, u) ELSE q.size
          /\ Transfer(c, q).tableAdr
               = IF c \in indirect THEN q.tableAdr ELSE Incr(q.tableAdr, u)
      BY <1>1, TransferMoves
    <3> QED BY <1>1, <1>4, <2>2, <3>1, <3>2
  <2> QED BY <2>1, <2>2
<1>9. /\ n = h - (row + 1) /\ n \in 0 .. Byte - 1
      /\ (n % Half = 0) <=> (row + 1 = T!Rows(h))
      /\ (n >= Half) <=> T!Repeats(h)
  <2>1. t.repCount = h - row
    BY <1>2, <1>8
  <2> QED BY <1>2, <1>4, <2>1, Count
<1> HIDE DEF q, first, t, n, base
<1>10. /\ s \in Records(c) /\ s.entry = e /\ s.repCount = n /\ s.sent = t.sent
       /\ s.doTransfer = (n >= Half) /\ s.terminated = terminated[c]
       /\ s.size = t.size /\ s.tableAdr = t.tableAdr
  <2>1. n \in 0 .. Byte - 1 /\ (n >= Half) \in BOOLEAN
    BY <1>9
  <2>2. t \in Records(c) /\ t.entry = e /\ t.terminated = terminated[c]
    BY <1>8
  <2> QED BY <2>1, <2>2 DEF Records
<1> HIDE DEF s
<1>11. CASE n % Half # 0
  <2>1. PlayRow(c) = s /\ row + 1 \in 0 .. T!Rows(h) - 1 /\ row + 1 # 0 /\ RowOf(s) = row + 1
    <3>1. T!Rows(h) \in Nat
      BY <1>2, HeaderRows, Constants
    <3>2. RowOf(s) = row + 1
      BY <1>2, <1>4, <1>9, <1>10 DEF RowOf
    <3> QED BY <1>0, <1>4, <1>9, <1>11, <3>1, <3>2
  <2>2. s.doTransfer <=> T!HasData(T!At(e, row + 1))
    BY <1>9, <1>10, <2>1 DEF T!HasData, T!At
  <2>3. Playing(c, s)
    BY <1>2, <1>4, <1>8, <1>10, <2>1, <2>2 DEF Playing, base
  <2>4. T!At(s.entry, RowOf(s)) = T!Advanced(c, cur)
    <3>1. row + 1 < T!Rows(h)
      BY <1>2, <2>1, HeaderRows, Constants
    <3> QED BY <1>10, <2>1, <3>1 DEF T!Advanced, T!At
  <2> QED BY <1>7, <1>10, <2>1, <2>3, <2>4
<1>12. CASE n % Half = 0
  <2>1. PlayRow(c) = LoadDescriptor(c, s) /\ row + 1 = T!Rows(h)
    BY <1>0, <1>9, <1>12
  <2>2. /\ PlayRow(c) \in Records(c) /\ PlayRow(c).sent = s.sent
        /\ PlayRow(c).entry = s.tableAdr /\ RowOf(PlayRow(c)) = 0
        /\ Playing(c, PlayRow(c))
    BY <1>10, <2>1, LoadDescriptorPlays
  <2>3. s.tableAdr = T!At16(e + T!EntrySize(c, h))
    <3>1. CASE c \in indirect
      BY <1>8, <1>10, <3>1, Constants DEF T!At16, T!EntrySize
    <3>2. CASE c \notin indirect
      <4>1. Used(h, row + 1) = IF T!Repeats(h) THEN T!Rows(h) ELSE 1
        BY <1>4, <2>1 DEF Used
      <4>2. Used(h, row + 1) * u = u * (IF T!Repeats(h) THEN T!Rows(h) ELSE 1)
        <5> DEFINE k == Used(h, row + 1)
        <5> HIDE DEF k
        <5>1. k \in Nat
          BY <1>5 DEF k
        <5>2. k * u = u * k
          BY <1>2, <5>1
        <5> QED BY <4>1, <5>2 DEF k
      <4>3. T!EntrySize(c, h) = 1 + Used(h, row + 1) * u
        BY <3>2, <4>2 DEF T!EntrySize
      <4>4. base = e + 1
        BY <3>2 DEF base
      <4>5. e + 1 + Used(h, row + 1) * u = e + (1 + Used(h, row + 1) * u)
        BY <1>2, <1>5
      <4> QED BY <1>8, <1>10, <3>2, <4>3, <4>4, <4>5, Constants DEF T!At16
    <3> QED BY <3>1, <3>2
  <2>4. T!At(PlayRow(c).entry, RowOf(PlayRow(c))) = T!Advanced(c, cur)
    <3>1. ~(row + 1 < T!Rows(h))
      BY <1>2, <2>1, HeaderRows, Constants
    <3> QED BY <2>2, <2>3, <3>1 DEF T!Advanced, T!At
  <2> QED BY <1>7, <1>10, <2>2, <2>4
<1> QED BY <1>11, <1>12

\* A restarted channel plays the header of its table.
LEMMA RestartPlays ==
  ASSUME HTypeOK, NEW c \in Channels
  PROVE  /\ Restart(c) \in Records(c) /\ Restart(c).sent = <<>>
         /\ Restart(c).entry = aAdr[c] /\ RowOf(Restart(c)) = 0
         /\ Playing(c, Restart(c))
<1> DEFINE r == [Regs(c) EXCEPT !.tableAdr = aAdr[c]]
<1>1. Regs(c) \in Records(c) /\ aAdr[c] \in Addr
  BY RegsTyped
<1>2. r \in Records(c) /\ r.tableAdr = aAdr[c] /\ r.sent = <<>>
  BY <1>1 DEF Records, Regs
<1> HIDE DEF r
<1>3. LoadDescriptor(c, r) = Restart(c)
  BY DEF Restart, r
<1> QED BY <1>2, <1>3, LoadDescriptorPlays

\* A slot leaves well typed registers.
LEMMA RunSlotTyped ==
  ASSUME HTypeOK, NEW c \in Channels
  PROVE  RunSlot(c) \in Records(c)
<1> DEFINE q == Regs(c)
           t == IF doTransfer[c] THEN Transfer(c, q) ELSE q
           n == (t.repCount - 1) % Byte
           s == [t EXCEPT !.repCount = n, !.doTransfer = (n >= Half)]
<1>1. q \in Records(c)
  BY RegsTyped
<1>2. t \in Records(c)
  BY <1>1, TransferMoves
<1> HIDE DEF t
<1>3. n \in 0 .. Byte - 1 /\ (n >= Half) \in BOOLEAN
  <2>1. t.repCount - 1 \in Int
    BY <1>2, Constants DEF Records
  <2>2. n \in 0 .. Byte - 1
    BY <2>1, Constants, Division
  <2> QED BY <2>2
<1> HIDE DEF n
<1>4. s \in Records(c)
  BY <1>2, <1>3 DEF Records
<1> HIDE DEF s, q
<1>5. PlayRow(c) = IF n % Half = 0 THEN LoadDescriptor(c, s) ELSE s
  BY DEF PlayRow, s, n, t, q
<1>6. PlayRow(c) \in Records(c)
  BY <1>4, <1>5, LoadDescriptorPlays
<1> QED BY <1>1, <1>6, RestartPlays DEF RunSlot, q

\* Assigning records of the type keeps the registers' types.
LEMMA AssignTyped ==
  ASSUME NEW rec, Assign(rec), \A c \in Channels : rec[c] \in Records(c)
  PROVE  /\ tableAdr' \in [Channels -> Addr] /\ size' \in [Channels -> Addr]
         /\ entry' \in [Channels -> Addr] /\ repCount' \in [Channels -> 0 .. Byte - 1]
         /\ doTransfer' \in [Channels -> BOOLEAN] /\ terminated' \in [Channels -> BOOLEAN]
<1>1. ASSUME NEW c \in Channels
      PROVE  /\ rec[c].tableAdr \in Addr /\ rec[c].size \in Addr /\ rec[c].entry \in Addr
             /\ rec[c].repCount \in 0 .. Byte - 1 /\ rec[c].doTransfer \in BOOLEAN
             /\ rec[c].terminated \in BOOLEAN
  BY DEF Records
<1> QED BY <1>1 DEF Assign

\* ... and what they say of a channel is what the record said.
LEMMA AssignPlays ==
  ASSUME NEW rec, Assign(rec), NEW c \in Channels, UNCHANGED indirect, Playing(c, rec[c])
  PROVE  /\ Playing(c, Regs(c))'
         /\ entry'[c] = rec[c].entry /\ Memory[entry'[c]] - repCount'[c] = RowOf(rec[c])
<1>1. /\ Regs(c)'.tableAdr = rec[c].tableAdr /\ Regs(c)'.size = rec[c].size
      /\ Regs(c)'.entry = rec[c].entry /\ Regs(c)'.repCount = rec[c].repCount
      /\ Regs(c)'.doTransfer = rec[c].doTransfer
      /\ Regs(c)'.terminated = rec[c].terminated
      /\ entry'[c] = rec[c].entry /\ repCount'[c] = rec[c].repCount
  BY DEF Regs, Assign
<1> QED BY <1>1 DEF Playing, RowOf

---------------------------------------------------------------------------
(* Types.                                                                  *)

\* The channel begins well typed.
LEMMA InitTyped == HInit => HTypeOK
<1>1. Space - 1 \in Addr /\ 0 \in Addr /\ Byte - 1 \in 0 .. Byte - 1
      /\ 0 \in 0 .. VisibleLines
  BY Constants, HdmaAssumption DEF Addr
<1> QED BY <1>1 DEF HInit, HTypeOK

\* Every step keeps the types.
LEMMA TypedStep == HTypeOK /\ [HNext]_hvars => HTypeOK'
<1> SUFFICES ASSUME HTypeOK, [HNext]_hvars PROVE HTypeOK'
  OBVIOUS
<1> USE DEF HTypeOK
<1>1. CASE DoHdma
  <2> DEFINE rec == [c \in Channels |-> RunSlot(c)]
  <2>1. \A c \in Channels : rec[c] \in Records(c)
    BY RunSlotTyped
  <2>2. Assign(rec)
    BY <1>1 DEF DoHdma
  <2> HIDE DEF rec
  <2>3. /\ tableAdr' \in [Channels -> Addr] /\ size' \in [Channels -> Addr]
        /\ entry' \in [Channels -> Addr] /\ repCount' \in [Channels -> 0 .. Byte - 1]
        /\ doTransfer' \in [Channels -> BOOLEAN] /\ terminated' \in [Channels -> BOOLEAN]
    BY <2>1, <2>2, AssignTyped
  <2>4. slot' \in 0 .. VisibleLines
    BY <1>1, HdmaAssumption DEF DoHdma
  <2> QED BY <1>1, <2>3, <2>4 DEF DoHdma
<1>2. CASE InitHdma
  <2> DEFINE rec == [c \in Channels |-> IF c \in hdmaActive THEN Restart(c) ELSE Regs(c)]
  <2>1. \A c \in Channels : rec[c] \in Records(c)
    BY RestartPlays, RegsTyped
  <2>2. Assign(rec)
    BY <1>2 DEF InitHdma
  <2> HIDE DEF rec
  <2>3. /\ tableAdr' \in [Channels -> Addr] /\ size' \in [Channels -> Addr]
        /\ entry' \in [Channels -> Addr] /\ repCount' \in [Channels -> 0 .. Byte - 1]
        /\ doTransfer' \in [Channels -> BOOLEAN] /\ terminated' \in [Channels -> BOOLEAN]
    BY <2>1, <2>2, AssignTyped
  <2>4. slot' \in 0 .. VisibleLines
    BY <1>2, HdmaAssumption DEF InitHdma
  <2> QED BY <1>2, <2>3, <2>4 DEF InitHdma
<1>3. ASSUME NEW on \in SUBSET Channels, StartHdma(on) PROVE HTypeOK'
  BY <1>3 DEF StartHdma, working
<1>4. ASSUME NEW c \in Channels, NEW a \in Sources, WriteSource(c, a) PROVE HTypeOK'
  BY <1>4, HdmaAssumption DEF WriteSource, working
<1>5. ASSUME NEW c \in Channels, NEW a \in Leftovers, WriteWorking(c, a) PROVE HTypeOK'
  <2>1. a \in Addr /\ a \in Int
    BY Constants, HdmaAssumption DEF Addr
  <2>2. a % Byte \in 0 .. Byte - 1
    BY <2>1, Constants, Division
  <2> QED BY <1>5, <2>1, <2>2 DEF WriteWorking
<1>6. ASSUME NEW c \in Channels, WriteMode(c, indirect \cup {c}) \/ WriteMode(c, indirect \ {c})
      PROVE  HTypeOK'
  BY <1>6 DEF WriteMode, working
<1>7. CASE EnterHandler
  BY <1>7, Constants DEF EnterHandler, working, Addr
<1>8. CASE LeaveHandler
  <2>1. savedCh0 \in [aAdr : Addr, size : Addr]
    BY <1>8 DEF LeaveHandler
  <2> QED BY <1>8, <2>1 DEF LeaveHandler
<1>9. CASE UNCHANGED hvars
  BY <1>9 DEF hvars, working
<1> QED BY <1>1, <1>2, <1>3, <1>4, <1>5, <1>6, <1>7, <1>8, <1>9 DEF HNext

\* Whatever the tables and the program do, pointers stay in the bank, counts
\* are bytes and the slots of a field are VisibleLines at most.
THEOREM Typed == HSpec => []HTypeOK
<1> QED BY InitTyped, TypedStep, PTL DEF HSpec

---------------------------------------------------------------------------
(* The tables are played.                                                  *)

\* What a channel of the table may be doing is told apart.
LEMMA Kinds ==
  ASSUME NEW e, NEW row
  PROVE  T!Off # T!Owed /\ T!At(e, row) # T!Off /\ T!At(e, row) # T!Owed
<1>1. T!Off.kind = "off" /\ T!Owed.kind = "owed" /\ T!At(e, row).kind = "at"
  BY DEF T!Off, T!Owed, T!At
<1> QED BY <1>1

\* The cursor of a channel, by what the channel is doing.
LEMMA CursorOf ==
  ASSUME NEW c \in Channels
  PROVE  /\ c \notin hdmaActive => Cursor[c] = T!Off
         /\ c \in hdmaActive /\ c \in hdmaPendingInit => Cursor[c] = T!Owed
         /\ c \in hdmaActive /\ c \notin hdmaPendingInit
              => Cursor[c] = T!At(entry[c], Memory[entry[c]] - repCount[c])
         /\ Cursor[c] = T!Off <=> c \notin hdmaActive
         /\ Cursor[c] = T!Owed <=> c \in hdmaActive /\ c \in hdmaPendingInit
<1>1. /\ c \notin hdmaActive => Cursor[c] = T!Off
      /\ c \in hdmaActive /\ c \in hdmaPendingInit => Cursor[c] = T!Owed
      /\ c \in hdmaActive /\ c \notin hdmaPendingInit
           => Cursor[c] = T!At(entry[c], Memory[entry[c]] - repCount[c])
  BY DEF Cursor, T!Off, T!Owed, T!At
<1> QED BY <1>1, Kinds

\* One slot of a channel: it plays its row, or reads the header it owes.
LEMMA RunSlotPlays ==
  ASSUME Inv, NEW c \in Channels
  PROVE  /\ RunSlot(c).sent = T!Moved(c, Cursor[c])
         /\ c \in hdmaActive =>
              /\ Playing(c, RunSlot(c))
              /\ T!At(RunSlot(c).entry, RowOf(RunSlot(c)))
                   = CASE Cursor[c] = T!Owed    -> T!At(aAdr[c], 0)
                       [] T!Plays(Cursor[c])    -> T!Advanced(c, Cursor[c])
                       [] OTHER                 -> Cursor[c]
<1> USE DEF Inv
<1> DEFINE e == entry[c]
           here == T!At(e, Memory[e] - repCount[c])
<1>1. CASE c \notin hdmaActive
  <2>1. T!Moved(c, Cursor[c]) = <<>>
    BY <1>1, CursorOf DEF T!Moved, T!Plays, T!Off
  <2> QED BY <1>1, <2>1 DEF RunSlot, Regs
<1>2. CASE c \in hdmaActive /\ c \in hdmaPendingInit
  <2>1. Cursor[c] = T!Owed
    BY <1>2, CursorOf
  <2>2. T!Moved(c, T!Owed) = <<>>
    BY DEF T!Moved, T!Plays, T!Owed
  <2>3. RunSlot(c) = Restart(c) /\ ~T!Plays(T!Owed)
    BY <1>2 DEF RunSlot, T!Plays, T!Owed
  <2>4. /\ Restart(c).sent = <<>> /\ Restart(c).entry = aAdr[c] /\ RowOf(Restart(c)) = 0
        /\ Playing(c, Restart(c))
    BY RestartPlays
  <2> HIDE DEF Inv
  <2> QED BY <2>1, <2>2, <2>3, <2>4
<1>3. CASE c \in hdmaActive /\ c \notin hdmaPendingInit
  <2>1. Cursor[c] = here /\ Cursor[c] # T!Owed
    BY <1>3, CursorOf
  <2>2. Playing(c, Regs(c)) /\ Regs(c).entry = e /\ Regs(c).terminated = terminated[c]
        /\ Regs(c).sent = <<>> /\ RowOf(Regs(c)) = Memory[e] - repCount[c]
    BY <1>3 DEF Running, Regs, RowOf
  <2>3. T!Plays(here) <=> Memory[e] # 0
    BY DEF T!Plays, T!At
  <2>4. terminated[c] <=> Memory[e] = 0
    BY <2>2 DEF Playing
  <2> HIDE DEF here, e
  <2>5. CASE Memory[e] = 0
    <3>1. RunSlot(c) = Regs(c)
      BY <1>3, <2>4, <2>5 DEF RunSlot
    <3>2. T!Moved(c, here) = <<>>
      BY <2>3, <2>5 DEF T!Moved
    <3>3. T!At(Regs(c).entry, RowOf(Regs(c))) = here
      BY <2>2 DEF here
    <3> QED BY <2>1, <2>2, <2>3, <2>5, <3>1, <3>2, <3>3
  <2>6. CASE Memory[e] # 0
    <3>1. RunSlot(c) = PlayRow(c)
      BY <1>3, <2>4, <2>6 DEF RunSlot
    <3>2. /\ Playing(c, PlayRow(c)) /\ PlayRow(c).sent = T!Moved(c, here)
          /\ T!At(PlayRow(c).entry, RowOf(PlayRow(c))) = T!Advanced(c, here)
      BY <2>2, <2>6, PlayRowPlays DEF here, e
    <3> QED BY <2>1, <2>3, <2>6, <3>1, <3>2
  <2> QED BY <2>5, <2>6
<1> QED BY <1>1, <1>2, <1>3

\* Every step of the engine, the program and the handlers is one of the
\* table's, and leaves the running channels where the table says.
LEMMA StepPlays ==
  ASSUME "indirect" \notin Interrupted, Inv, [HNext]_hvars
  PROVE  Inv' /\ [T!TNext]_(T!tvars)
<1> USE DEF Inv
<1> HIDE DEF HTypeOK
<1>0. HTypeOK'
  BY TypedStep
<1> SUFFICES /\ hdmaPendingInit' \subseteq hdmaActive' /\ Running' /\ Undisturbed'
             /\ [T!TNext]_(T!tvars)
  BY <1>0
<1>1. CASE DoHdma
  <2> DEFINE rec == [c \in Channels |-> RunSlot(c)]
  <2>1. Assign(rec) /\ UNCHANGED <<hdmaActive, indirect, aAdr, savedCh0>>
        /\ hdmaPendingInit' = {} /\ sent' = [c \in Channels |-> rec[c].sent]
    BY <1>1 DEF DoHdma
  <2>2. \A c \in Channels : rec[c] = RunSlot(c)
    OBVIOUS
  <2> HIDE DEF rec
  <2>3. ASSUME NEW c \in Channels, c \in hdmaActive
        PROVE  /\ Playing(c, Regs(c))'
               /\ entry'[c] = RunSlot(c).entry
               /\ Memory[entry'[c]] - repCount'[c] = RowOf(RunSlot(c))
    BY <2>1, <2>2, <2>3, RunSlotPlays, AssignPlays
  <2>4. Running' /\ Undisturbed' /\ hdmaPendingInit' \subseteq hdmaActive'
    <3>1. hdmaActive \subseteq Channels
      BY DEF HTypeOK
    <3> QED BY <2>1, <2>3, <3>1 DEF Running, Undisturbed, Mode
  <2>5. T!Slot
    <3>1. sent' = [c \in Channels |-> T!Moved(c, Cursor[c])]
      BY <2>1, <2>2, RunSlotPlays
    <3> DEFINE next(c) == CASE Cursor[c] = T!Owed  -> T!At(aAdr[c], 0)
                            [] T!Plays(Cursor[c])  -> T!Advanced(c, Cursor[c])
                            [] OTHER               -> Cursor[c]
    <3>2. ASSUME NEW c \in Channels PROVE Cursor'[c] = next(c)
      <4>1. CASE c \in hdmaActive
        <5>1. Cursor'[c] = T!At(entry'[c], Memory[entry'[c]] - repCount'[c])
          BY <2>1, <4>1 DEF Cursor, T!At
        <5> QED BY <2>3, <4>1, <5>1, RunSlotPlays
      <4>2. CASE c \notin hdmaActive
        <5>1. Cursor[c] = T!Off /\ ~T!Plays(T!Off) /\ T!Off # T!Owed
          BY <4>2, CursorOf, Kinds DEF T!Plays, T!Off
        <5>2. Cursor'[c] = T!Off
          BY <2>1, <4>2 DEF Cursor, T!Off
        <5> QED BY <5>1, <5>2
      <4> QED BY <4>1, <4>2
    <3>3. Cursor' = [c \in Channels |-> next(c)]
      BY <3>2 DEF Cursor
    <3> QED BY <2>1, <3>1, <3>3 DEF T!Slot
  <2> QED BY <2>4, <2>5 DEF T!TNext
<1>2. CASE InitHdma
  <2> DEFINE rec == [c \in Channels |-> IF c \in hdmaActive THEN Restart(c) ELSE Regs(c)]
  <2>1. Assign(rec) /\ UNCHANGED <<hdmaActive, indirect, aAdr, savedCh0, sent>>
        /\ hdmaPendingInit' = {}
    BY <1>2 DEF InitHdma
  <2>2. \A c \in Channels : c \in hdmaActive => rec[c] = Restart(c)
    OBVIOUS
  <2> HIDE DEF rec
  <2>3. ASSUME NEW c \in Channels, c \in hdmaActive
        PROVE  Playing(c, Regs(c))' /\ entry'[c] = aAdr[c]
               /\ Memory[entry'[c]] - repCount'[c] = 0
    BY <2>1, <2>2, <2>3, RestartPlays, AssignPlays
  <2>4. Running' /\ Undisturbed' /\ hdmaPendingInit' \subseteq hdmaActive'
    <3>1. hdmaActive \subseteq Channels
      BY DEF HTypeOK
    <3> QED BY <2>1, <2>3, <3>1 DEF Running, Undisturbed, Mode
  <2>5. T!FieldTop
    <3>1. ASSUME NEW c \in Channels
          PROVE  Cursor'[c] = IF Cursor[c] = T!Off THEN T!Off ELSE T!At(aAdr[c], 0)
      <4>1. CASE c \in hdmaActive
        <5>1. Cursor'[c] = T!At(entry'[c], Memory[entry'[c]] - repCount'[c])
          BY <2>1, <4>1 DEF Cursor, T!At
        <5> QED BY <2>3, <4>1, <5>1, CursorOf
      <4>2. CASE c \notin hdmaActive
        BY <2>1, <4>2, CursorOf DEF Cursor, T!Off
      <4> QED BY <4>1, <4>2
    <3>2. Cursor' = [c \in Channels |-> IF Cursor[c] = T!Off THEN T!Off ELSE T!At(aAdr[c], 0)]
      BY <3>1 DEF Cursor
    <3> QED BY <2>1, <3>2 DEF T!FieldTop
  <2> QED BY <2>4, <2>5 DEF T!TNext
<1>3. ASSUME NEW on \in SUBSET Channels, StartHdma(on)
      PROVE  /\ hdmaPendingInit' \subseteq hdmaActive' /\ Running' /\ Undisturbed'
             /\ T!Enable
  <2> USE <1>3 DEF StartHdma, working
  <2>1. hdmaPendingInit' \subseteq hdmaActive' /\ Undisturbed'
    BY DEF Undisturbed, Mode
  <2>2. Running'
    <3>1. hdmaActive' \ hdmaPendingInit' \subseteq hdmaActive \ hdmaPendingInit
      OBVIOUS
    <3>2. ASSUME NEW c, Playing(c, Regs(c)) PROVE Playing(c, Regs(c))'
      BY <3>2 DEF Playing, Regs, RowOf
    <3> QED BY <3>1, <3>2 DEF Running
  <2>3. ASSUME NEW c \in Channels
        PROVE  Cursor'[c] = IF c \notin on THEN T!Off
                            ELSE IF Cursor[c] = T!Off THEN T!Owed ELSE Cursor[c]
    BY CursorOf DEF Cursor, T!Off, T!Owed
  <2>4. Cursor' = [c \in Channels |-> IF c \notin on THEN T!Off
                    ELSE IF Cursor[c] = T!Off THEN T!Owed ELSE Cursor[c]]
    BY <2>3 DEF Cursor
  <2> QED BY <2>1, <2>2, <2>4 DEF T!Enable
<1>4. ASSUME NEW c \in Channels, NEW a \in Sources, WriteSource(c, a)
      PROVE  /\ hdmaPendingInit' \subseteq hdmaActive' /\ Running' /\ Undisturbed'
             /\ T!SetSource
  <2> USE <1>4 DEF WriteSource, working
  <2>1. Running'
    BY DEF Running, Playing, Regs, RowOf
  <2>2. Cursor' = Cursor /\ a \in Addr
    BY HdmaAssumption DEF Cursor
  <2> QED BY <2>1, <2>2, Constants DEF Undisturbed, Mode, T!SetSource
<1>5. ASSUME NEW c \in Channels, NEW a \in Leftovers, WriteWorking(c, a)
      PROVE  /\ hdmaPendingInit' \subseteq hdmaActive' /\ Running' /\ Undisturbed'
             /\ UNCHANGED T!tvars
  <2> USE <1>5 DEF WriteWorking
  <2>1. ASSUME NEW d \in Channels, d \in hdmaActive
        PROVE  size'[d] = size[d] /\ tableAdr'[d] = tableAdr[d] /\ repCount'[d] = repCount[d]
    BY <2>1 DEF HTypeOK
  <2>2. Running'
    <3>1. ASSUME NEW d \in hdmaActive \ hdmaPendingInit PROVE Playing(d, Regs(d))'
      <4>1. d \in Channels /\ Playing(d, Regs(d))
        BY DEF HTypeOK, Running
      <4> QED BY <2>1, <4>1 DEF Playing, Regs, RowOf
    <3> QED BY <3>1 DEF Running
  <2>3. Cursor' = Cursor
    BY <2>1 DEF Cursor
  <2> QED BY <2>2, <2>3 DEF Undisturbed, Mode, T!tvars
<1>6. ASSUME NEW c \in Channels, NEW set \in {indirect \cup {c}, indirect \ {c}},
             WriteMode(c, set)
      PROVE  /\ hdmaPendingInit' \subseteq hdmaActive' /\ Running' /\ Undisturbed'
             /\ T!SetMode
  <2> USE <1>6 DEF WriteMode, working
  <2>1. Running'
    <3>1. ASSUME NEW d \in hdmaActive \ hdmaPendingInit PROVE Playing(d, Regs(d))'
      <4>1. Playing(d, Regs(d)) /\ (d \in indirect' <=> d \in indirect)
        BY DEF Running
      <4> QED BY <4>1 DEF Playing, Regs, RowOf
    <3> QED BY <3>1 DEF Running
  <2>2. Cursor' = Cursor /\ Cursor[c] = T!Off
    BY CursorOf DEF Cursor
  <2> QED BY <2>1, <2>2 DEF Undisturbed, T!SetMode
<1>7. CASE EnterHandler
  <2> USE <1>7 DEF EnterHandler, working
  <2>1. Running'
    BY DEF Running, Playing, Regs, RowOf
  <2> QED BY <2>1 DEF Undisturbed, Mode, T!tvars, Cursor
<1>8. CASE LeaveHandler
  <2> USE <1>8 DEF LeaveHandler
  <2>1. 0 \notin indirect /\ savedCh0.aAdr \in Addr
    <3>1. Mode(0, indirect) \in Interrupted
      BY DEF Undisturbed
    <3>2. savedCh0 \in [aAdr : Addr, size : Addr]
      BY DEF HTypeOK
    <3> QED BY <3>1, <3>2 DEF Mode
  <2>2. Running'
    <3>1. ASSUME NEW d \in hdmaActive \ hdmaPendingInit PROVE Playing(d, Regs(d))'
      <4>1. d \in Channels /\ Playing(d, Regs(d)) /\ (d \in indirect => size'[d] = size[d])
        BY <2>1 DEF HTypeOK, Running
      <4> QED BY <4>1 DEF Playing, Regs, RowOf
    <3> QED BY <3>1 DEF Running
  <2>3. Cursor' = Cursor
    BY DEF Cursor
  <2>4. T!SetSource \/ UNCHANGED T!tvars
    <3>1. CASE 0 \in Channels
      <4>1. aAdr' = [aAdr EXCEPT ![0] = savedCh0.aAdr]
        BY <3>1 DEF HTypeOK
      <4> QED BY <2>1, <2>3, <3>1, <4>1, Constants DEF T!SetSource
    <3>2. CASE 0 \notin Channels
      <4>1. aAdr' = aAdr
        BY <3>2 DEF HTypeOK
      <4> QED BY <2>3, <4>1 DEF T!tvars
    <3> QED BY <3>1, <3>2
  <2> QED BY <2>2, <2>4 DEF Undisturbed, T!TNext
<1>9. CASE UNCHANGED hvars
  <2> USE <1>9 DEF hvars, working
  <2>1. Running'
    BY DEF Running, Playing, Regs, RowOf
  <2> QED BY <2>1 DEF Undisturbed, Mode, T!tvars, Cursor
<1> QED BY <1>1, <1>2, <1>3, <1>4, <1>5, <1>6, <1>7, <1>8, <1>9 DEF HNext, T!TNext

\* The initial states map to initial states of the table.
LEMMA InitPlays == HInit => Inv /\ T!TInit
<1> SUFFICES ASSUME HInit PROVE Inv /\ T!TInit
  OBVIOUS
<1>1. Inv
  BY InitTyped DEF HInit, Inv, Running, Undisturbed
<1>2. Cursor = [c \in Channels |-> T!Off]
  BY DEF HInit, Cursor, T!Off
<1> QED BY <1>1, <1>2, Constants DEF HInit, T!TInit

\* As long as no handler is entered while channel 0 is indirect, the cursors
\* of dma_doHdma() play the tables: in every slot every channel moves exactly
\* the bytes of the row that its table has there.
THEOREM TablesPlayed == "indirect" \notin Interrupted => (HSpec => PlaysTables)
<1> SUFFICES ASSUME "indirect" \notin Interrupted PROVE HSpec => PlaysTables
  OBVIOUS
<1>1. Inv /\ [HNext]_hvars => Inv' /\ [T!TNext]_(T!tvars)
  BY StepPlays
<1> QED BY <1>1, InitPlays, PTL DEF HSpec, PlaysTables, T!TSpec
=============================================================================
