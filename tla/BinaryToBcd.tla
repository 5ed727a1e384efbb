---------------------------- MODULE BinaryToBcd ----------------------------
(***************************************************************************)
(* binary_to_bcd: the score, a byte, as three decimal digits.  The loop     *)
(* takes the bits from the highest on and shifts the digits left with them, *)
(* all in registers of four bits; a digit of five or more gets three added  *)
(* before the shift, so that its carry comes out as decimal.                *)
(***************************************************************************)
EXTENDS Integers

Width == 8

VARIABLES
    binary,      \* the bits of the input
    i,           \* the bits still to take
    h, t, o,     \* hundreds, tens, ones
    read         \* for the properties: the number the bits taken so far make

vars == <<binary, i, h, t, o, read>>

Nibble == 0 .. 15

TypeOK ==
    /\ binary \in [0 .. Width - 1 -> {0, 1}] /\ i \in 0 .. Width
    /\ h \in Nibble /\ t \in Nibble /\ o \in Nibble /\ read \in 0 .. 255

Init ==
    /\ binary \in [0 .. Width - 1 -> {0, 1}]
    /\ i = Width /\ h = 0 /\ t = 0 /\ o = 0 /\ read = 0

\* Mutant: the digit is adjusted one too late.
AdjustedLate(d) == IF d > 5 THEN (d + 3) % 16 ELSE d

Adjusted(d) == IF d >= 5 THEN (d + 3) % 16 ELSE d

TopBit(d) == d \div 8
ShiftIn(d, bit) == ((2 * d) % 16) + bit

Step ==
    /\ i > 0 /\ i' = i - 1
    /\ h' = ShiftIn(Adjusted(h), TopBit(Adjusted(t)))
    /\ t' = ShiftIn(Adjusted(t), TopBit(Adjusted(o)))
    /\ o' = ShiftIn(Adjusted(o), binary[i - 1])
    /\ read' = 2 * read + binary[i - 1]
    /\ UNCHANGED binary

Next == Step

Spec == Init /\ [][Next]_vars
-----------------------------------------------------------------------------
\* After every bit the digits are those of the number read so far, so at the
\* end those of the score (binary_to_bcd.sv:16-31); nothing is lost above.
Decimal == /\ h = read \div 100 /\ t = (read \div 10) % 10 /\ o = read % 10
=============================================================================
