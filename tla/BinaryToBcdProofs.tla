------------------------- MODULE BinaryToBcdProofs -------------------------
(***************************************************************************)
(* The digits of BinaryToBcd are right for every byte.  Inductive once the  *)
(* number read so far is known to have as many bits as were taken: the      *)
(* hundreds then have two bits at most and nothing is shifted out of them.  *)
(***************************************************************************)
EXTENDS BinaryToBcd, TLAPS

BitsTaken ==
    \/ i = 8 /\ read = 0
    \/ i = 7 /\ read \in 0 .. 1
    \/ i = 6 /\ read \in 0 .. 3
    \/ i = 5 /\ read \in 0 .. 7
    \/ i = 4 /\ read \in 0 .. 15
    \/ i = 3 /\ read \in 0 .. 31
    \/ i = 2 /\ read \in 0 .. 63
    \/ i = 1 /\ read \in 0 .. 127
    \/ i = 0 /\ read \in 0 .. 255

DigitInv == TypeOK /\ Decimal /\ BitsTaken

IsDigits(n, a, b, c) == a = n \div 100 /\ b = (n \div 10) % 10 /\ c = n % 10

\* One round of the loop of binary_to_bcd.sv:16-31 doubles the number that the
\* digits stand for, and adds the bit.
LEMMA RoundDoubles ==
    ASSUME NEW n \in 0 .. 127, NEW bit \in {0, 1}, NEW a, NEW b, NEW c,
           IsDigits(n, a, b, c)
    PROVE  IsDigits(2 * n + bit, ShiftIn(Adjusted(a), TopBit(Adjusted(b))),
                    ShiftIn(Adjusted(b), TopBit(Adjusted(c))), ShiftIn(Adjusted(c), bit))
<1>1. /\ a \in 0 .. 1 /\ b \in 0 .. 9 /\ c \in 0 .. 9
      /\ n = 100 * a + 10 * b + c
      BY DEF IsDigits
<1>2. ShiftIn(Adjusted(c), bit) = (2 * n + bit) % 10
      BY <1>1 DEF ShiftIn, Adjusted
<1>3. ShiftIn(Adjusted(b), TopBit(Adjusted(c))) = ((2 * n + bit) \div 10) % 10
      BY <1>1 DEF ShiftIn, Adjusted, TopBit
<1>4. ShiftIn(Adjusted(a), TopBit(Adjusted(b))) = (2 * n + bit) \div 100
      BY <1>1 DEF ShiftIn, Adjusted, TopBit
<1> QED BY <1>2, <1>3, <1>4 DEF IsDigits

LEMMA DigitsFit ==
    ASSUME NEW n \in 0 .. 255, NEW a, NEW b, NEW c, IsDigits(n, a, b, c)
    PROVE  a \in Nibble /\ b \in Nibble /\ c \in Nibble
<1>1. a \in Nibble
      BY DEF IsDigits, Nibble
<1>2. b \in Nibble /\ c \in Nibble
      BY DEF IsDigits, Nibble
<1> QED BY <1>1, <1>2

\* The digits are those of the number the bits taken so far make, at the end
\* those of the score, whatever the score is (binary_to_bcd.sv:16-31).
THEOREM DigitsAreDecimal == Spec => []Decimal
<1>1. Init => DigitInv
      BY DEF Init, DigitInv, TypeOK, Decimal, BitsTaken, Nibble, Width
<1>2. DigitInv /\ [Next]_vars => DigitInv'
  <2>a. CASE UNCHANGED vars
        BY <2>a DEF DigitInv, TypeOK, Decimal, BitsTaken, vars
  <2> SUFFICES ASSUME DigitInv, Step PROVE DigitInv'
      BY <2>a DEF Next
  <2>1. /\ read \in 0 .. 127 /\ i \in 1 .. 8 /\ binary[i - 1] \in {0, 1}
        BY DEF DigitInv, TypeOK, BitsTaken, Step, Width
  <2>2. IsDigits(read', h', t', o')
    <3>1. IsDigits(read, h, t, o)
          BY DEF DigitInv, Decimal, IsDigits
    <3> QED BY <2>1, <3>1, RoundDoubles DEF Step
  <2>3. BitsTaken'
        BY <2>1 DEF DigitInv, BitsTaken, Step
  <2>4. TypeOK'
    <3>1. read' \in 0 .. 255 /\ i' \in 0 .. Width
          BY <2>1 DEF Step, Width
    <3>2. h' \in Nibble /\ t' \in Nibble /\ o' \in Nibble
          BY <2>2, <3>1, DigitsFit
    <3> QED BY <3>1, <3>2 DEF DigitInv, TypeOK, Step
  <2>5. Decimal'
        BY <2>2 DEF Decimal, IsDigits
  <2> QED BY <2>3, <2>4, <2>5 DEF DigitInv
<1>3. DigitInv => Decimal
      BY DEF DigitInv
<1> QED BY <1>1, <1>2, <1>3, PTL DEF Spec
=============================================================================
