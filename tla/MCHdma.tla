------------------------------- MODULE MCHdma -------------------------------
(* Hdma with three tables in 64 bytes: rows with and without data of their   *)
(* own, the longest entry (a header of Half), a table across the end of the  *)
(* bank, an indirect one, and one that is empty.                             *)
EXTENDS Hdma

\* Direct table at 2 (2 rows of one unit, 2 rows of two, 4 rows of one, end),
\* another at 62 (one row, wrapping to 0); the indirect one at 32.
MCMemory == [a \in 0 .. 63 |->
  CASE a = 2 -> 2  [] a = 3 -> 5 [] a = 4 -> 1
    [] a = 5 -> 6  [] a \in 6 .. 9 -> 3
    [] a = 10 -> 4 [] a \in {11, 12} -> 7
    [] a = 62 -> 5 [] a = 63 -> 2 [] a = 0 -> 1 [] a = 1 -> 3
    [] a = 32 -> 6 [] a = 33 -> 6 [] a = 34 -> 7
    [] a = 35 -> 2 [] a = 36 -> 3 [] a = 37 -> 1
    [] OTHER -> 0]

MCUnit == [c \in Channels |-> 2 - c]
=============================================================================
