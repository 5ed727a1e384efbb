--------------------------- MODULE JtagUartProofs ---------------------------
(***************************************************************************)
(* The proof that the driver of the console keeps every character and their *)
(* order, for rings, FIFOs and calls of every size.                        *)
(***************************************************************************)
EXTENDS JtagUart, TLAPS

LEMMA UartFacts ==
    /\ BufLen \in Nat /\ BufLen >= 2 /\ Depth \in Nat /\ Depth >= 1 /\ Marks \in Nat
    /\ Marks >= BufLen + Depth /\ Threshold \in Nat /\ MaxCount \in Nat
  BY UartAssumption

-----------------------------------------------------------------------------
(* The ring from its first character on, and the characters not yet shown. *)

Held == IF tx_in >= tx_out THEN tx_in - tx_out ELSE tx_in - tx_out + BufLen
Slot(i) == IF tx_out + i < BufLen THEN tx_out + i ELSE tx_out + i - BufLen
Mark(i) == IF shown + i < Marks THEN shown + i ELSE shown + i - Marks

TypeInv ==
    /\ pc \in {"idle", "room", "copy", "advance", "kick", "wait"}
    /\ count \in Nat /\ n \in Nat
    /\ tx_in \in Slots /\ tx_out \in Slots /\ rx_in \in Slots
    /\ tx_buf \in [Slots -> Nat] /\ rx_buf \in [Slots -> Nat]
    /\ handler \in {"none", "control", "read", "write"} /\ space \in Nat
    /\ txFifo \in Seq(Nat) /\ Len(txFifo) <= Depth /\ rxFifo \in Seq(Nat)
    /\ printed \in 0 .. Marks - 1 /\ shown \in 0 .. Marks - 1 /\ typed \in Nat

\* The handler has read how much the FIFO takes; since then it can only take more.
SpaceInv == handler \in {"read", "write"} => space + Len(txFifo) <= Depth

\* What the writer is about to add fits before the end and behind the reader.
RoomInv ==
    pc \in {"copy", "advance"} =>
        /\ n >= 1 /\ tx_in + n <= BufLen /\ Held + n <= BufLen - 1
        /\ pc = "copy" => n <= count

CopiedInv ==
    pc = "advance" => \A j \in Nat : j < n => tx_buf[tx_in + j] = (printed + j) % Marks

FifoInv == \A i \in 1 .. Len(txFifo) : txFifo[i] = Mark(i - 1)
RingInv == \A i \in Nat : i < Held => tx_buf[Slot(i)] = Mark(Len(txFifo) + i)
PrintedInv == printed = Mark(Len(txFifo) + Held)

TypedInv ==
    /\ typed = rx_in + Len(rxFifo)
    /\ \A i \in Nat : i < rx_in => rx_buf[i] = i
    /\ \A i \in 1 .. Len(rxFifo) : rxFifo[i] = rx_in + i - 1

OrderInv == SpaceInv /\ RoomInv /\ CopiedInv /\ FifoInv /\ RingInv /\ PrintedInv /\ TypedInv

UartInv == TypeInv /\ OrderInv

LEMMA HeldRange == TypeInv => Held \in 0 .. BufLen - 1
  BY UartFacts DEF TypeInv, Slots, Held

-----------------------------------------------------------------------------
LEMMA UartInit == Init => UartInv
  <1> SUFFICES ASSUME Init PROVE UartInv
    OBVIOUS
  <1>1. TypeInv
    BY UartFacts DEF Init, TypeInv, Slots
  <1>2. Held = 0 /\ Mark(0) = 0
    BY UartFacts DEF Init, Held, Mark
  <1> QED BY <1>1, <1>2, UartFacts
          DEF Init, UartInv, OrderInv, SpaceInv, RoomInv, CopiedInv, FifoInv, RingInv,
              PrintedInv, TypedInv

\* The ring and the FIFO of an unchanged writer.
LEMMA TxKept ==
    ASSUME UartInv,
           UNCHANGED <<pc, count, n, printed, tx_in, tx_out, tx_buf, txFifo, shown>>
    PROVE  RoomInv' /\ CopiedInv' /\ FifoInv' /\ RingInv' /\ PrintedInv'
  BY DEF UartInv, OrderInv, RoomInv, CopiedInv, FifoInv, RingInv, PrintedInv, Held, Slot, Mark

LEMMA RxKept == ASSUME UartInv, UNCHANGED <<rx_in, rx_buf, rxFifo, typed>> PROVE TypedInv'
  BY DEF UartInv, OrderInv, TypedInv

LEMMA CallSteps ==
    ASSUME UartInv, Call \/ Kick \/ Wait
    PROVE  UartInv'
  <1>1. /\ UNCHANGED <<n, printed, tx_in, tx_out, tx_buf, txFifo, shown, rx_in, rx_buf, rxFifo,
                       typed, handler, space>>
        /\ pc' \in {"idle", "room", "wait"} /\ count' \in Nat
    BY UartFacts DEF UartInv, TypeInv, Call, Kick, Wait, rings, irq, device
  <1>2. TypeInv'
    BY <1>1 DEF UartInv, TypeInv
  <1>3. SpaceInv' /\ TypedInv'
    BY <1>1, RxKept DEF UartInv, OrderInv, SpaceInv
  <1>4. RoomInv' /\ CopiedInv'
    BY <1>1 DEF RoomInv, CopiedInv
  <1>5. FifoInv' /\ RingInv' /\ PrintedInv'
    BY <1>1 DEF UartInv, OrderInv, FifoInv, RingInv, PrintedInv, Held, Slot, Mark
  <1> QED BY <1>2, <1>3, <1>4, <1>5 DEF UartInv, OrderInv

LEMMA RoomStep ==
    ASSUME UartInv, LookForRoom
    PROVE  UartInv'
  <1>1. /\ UNCHANGED <<count, printed, tx_in, tx_out, tx_buf, txFifo, shown, rx_in, rx_buf,
                       rxFifo, typed, handler, space>>
        /\ pc' \in {"kick", "copy"}
    BY DEF LookForRoom, rings, irq, device
  <1>2. /\ tx_in \in Slots /\ tx_out \in Slots /\ count \in Nat
        /\ n \in Nat
    BY DEF UartInv, TypeInv
  <1>3. CASE pc' = "kick"
    <2>1. n' = n
      BY <1>3 DEF LookForRoom
    <2>2. TypeInv'
      BY <1>1, <1>3, <2>1 DEF UartInv, TypeInv
    <2>3. SpaceInv' /\ TypedInv'
      BY <1>1, RxKept DEF UartInv, OrderInv, SpaceInv
    <2>4. RoomInv' /\ CopiedInv'
      BY <1>3 DEF RoomInv, CopiedInv
    <2>5. FifoInv' /\ RingInv' /\ PrintedInv'
      BY <1>1 DEF UartInv, OrderInv, FifoInv, RingInv, PrintedInv, Held, Slot, Mark
    <2> QED BY <2>2, <2>3, <2>4, <2>5 DEF UartInv, OrderInv
  <1>4. CASE pc' = "copy"
    <2>1. /\ count > 0 /\ Room(tx_in, tx_out) > 0
          /\ n' = IF Room(tx_in, tx_out) > count THEN count ELSE Room(tx_in, tx_out)
      BY <1>4 DEF LookForRoom
    <2>2. /\ Room(tx_in, tx_out) \in Nat
          /\ tx_in + Room(tx_in, tx_out) <= BufLen
          /\ Held + Room(tx_in, tx_out) <= BufLen - 1
      BY <1>2, <2>1, UartFacts DEF Room, Held, Slots
    <2>3. n' \in Nat /\ n' >= 1 /\ n' <= count /\ n' <= Room(tx_in, tx_out)
      BY <1>2, <2>1, <2>2
    <2>4. TypeInv'
      BY <1>1, <1>4, <2>3 DEF UartInv, TypeInv
    <2>5. SpaceInv' /\ TypedInv'
      BY <1>1, RxKept DEF UartInv, OrderInv, SpaceInv
    <2>6. Held' = Held /\ Held \in Nat
      BY <1>1, HeldRange, UartFacts DEF Held, UartInv
    <2>7. RoomInv' /\ CopiedInv'
      <3>1. tx_in + n' <= BufLen /\ Held + n' <= BufLen - 1
        <4> DEFINE h == Held
                   r == Room(tx_in, tx_out)
                   k == n'
        <4>1. /\ h \in Nat /\ r \in Nat /\ k \in Nat /\ k <= r /\ tx_in \in Nat /\ BufLen \in Nat
              /\ tx_in + r <= BufLen /\ h + r <= BufLen - 1
          BY <1>2, <2>2, <2>3, <2>6, UartFacts DEF Slots
        <4> HIDE DEF h, r, k
        <4>2. tx_in + k <= BufLen /\ h + k <= BufLen - 1
          BY <4>1
        <4> QED BY <4>2 DEF h, k
      <3> QED BY <1>1, <1>4, <2>3, <2>6, <3>1 DEF RoomInv, CopiedInv
    <2>8. FifoInv' /\ RingInv' /\ PrintedInv'
      BY <1>1 DEF UartInv, OrderInv, FifoInv, RingInv, PrintedInv, Held, Slot, Mark
    <2> QED BY <2>4, <2>5, <2>7, <2>8 DEF UartInv, OrderInv
  <1> QED BY <1>1, <1>3, <1>4

LEMMA CopyStep ==
    ASSUME UartInv, Copy
    PROVE  UartInv'
  <1>1. /\ UNCHANGED <<n, printed, tx_in, tx_out, txFifo, shown, rx_in, rx_buf,
                       rxFifo, typed, handler, space>>
        /\ pc = "copy" /\ pc' = "advance" /\ count' = count - n
        /\ tx_buf' = [s \in Slots |-> IF s >= tx_in /\ s < tx_in + n
                                      THEN (printed + s - tx_in) % Marks ELSE tx_buf[s]]
    BY DEF Copy, Runs, irq, device
  <1>2. /\ tx_in \in Slots /\ tx_out \in Slots /\ count \in Nat
        /\ n \in Nat /\ n >= 1 /\ n <= count /\ tx_in + n <= BufLen /\ Held + n <= BufLen - 1
        /\ printed \in Nat
    BY <1>1 DEF UartInv, OrderInv, TypeInv, RoomInv
  <1>3. TypeInv'
    <2>1. \A a \in Int : a % Marks \in Nat
      BY UartFacts
    <2>2. tx_buf' \in [Slots -> Nat]
      <3>1. ASSUME NEW s \in Slots PROVE tx_buf'[s] \in Nat
        <4>1. s \in Nat /\ printed + s - tx_in \in Int
          BY <1>2, UartFacts DEF Slots
        <4>2. tx_buf[s] \in Nat
          BY DEF UartInv, TypeInv
        <4> QED BY <1>1, <2>1, <4>1, <4>2
      <3> QED BY <1>1, <3>1
    <2>3. count - n \in Nat
      BY <1>2
    <2> QED BY <1>1, <2>2, <2>3 DEF UartInv, TypeInv
  <1>4. SpaceInv' /\ TypedInv'
    BY <1>1, RxKept DEF UartInv, OrderInv, SpaceInv
  <1>5. Held' = Held /\ Held \in Nat
    BY <1>1, HeldRange, UartFacts DEF Held, UartInv
  <1>6. RoomInv'
    BY <1>1, <1>2, <1>5 DEF RoomInv
  <1>7. CopiedInv'
    <2>1. ASSUME NEW j \in Nat, j < n
          PROVE  tx_buf'[tx_in + j] = (printed + j) % Marks
      <3>1. /\ tx_in + j \in Slots /\ tx_in + j >= tx_in /\ tx_in + j < tx_in + n
            /\ printed + (tx_in + j) - tx_in = printed + j
        BY <1>2, <2>1, UartFacts DEF Slots
      <3> QED BY <1>1, <3>1
    <2> QED BY <1>1, <2>1 DEF CopiedInv
  <1>8. RingInv'
    <2>1. ASSUME NEW i \in Nat, i < Held
          PROVE  tx_buf'[Slot(i)] = tx_buf[Slot(i)]
      <3>1. Slot(i) \in Slots /\ ~(Slot(i) >= tx_in /\ Slot(i) < tx_in + n)
        BY <1>2, <2>1, UartFacts DEF Slot, Slots, Held
      <3> QED BY <1>1, <3>1
    <2>2. \A i : Slot(i)' = Slot(i) /\ Mark(i)' = Mark(i)
      BY <1>1 DEF Slot, Mark
    <2>3. RingInv
      BY DEF UartInv, OrderInv
    <2> QED BY <1>1, <1>5, <2>1, <2>2, <2>3 DEF RingInv, Slot, Mark
  <1>9. FifoInv' /\ PrintedInv'
    BY <1>1 DEF UartInv, OrderInv, FifoInv, PrintedInv, Held, Mark
  <1> QED BY <1>3, <1>4, <1>6, <1>7, <1>8, <1>9 DEF UartInv, OrderInv

LEMMA AdvanceStep ==
    ASSUME UartInv, Advance
    PROVE  UartInv'
  <1>1. /\ UNCHANGED <<count, tx_out, tx_buf, txFifo, shown, rx_in, rx_buf,
                       rxFifo, typed, handler, space>>
        /\ pc = "advance" /\ pc' = "room" /\ n' = 0
        /\ tx_in' = (tx_in + n) % BufLen /\ printed' = (printed + n) % Marks
    BY DEF Advance, Runs, irq, device
  <1> DEFINE F == Len(txFifo)
  <1>2. /\ tx_in \in Slots /\ tx_out \in Slots /\ n \in Nat /\ n >= 1 /\ tx_in + n <= BufLen
        /\ Held + n <= BufLen - 1 /\ printed \in 0 .. Marks - 1 /\ shown \in 0 .. Marks - 1
        /\ F \in 0 .. Depth /\ printed = Mark(F + Held) /\ Held \in 0 .. BufLen - 1
    BY <1>1, HeldRange DEF UartInv, OrderInv, TypeInv, RoomInv, PrintedInv
  <1> HIDE DEF F
  <1>3. tx_in' = IF tx_in + n = BufLen THEN 0 ELSE tx_in + n
    <2> DEFINE a == tx_in + n
    <2>1. a \in Nat /\ a <= BufLen /\ BufLen \in Nat /\ BufLen > 0 /\ tx_in' = a % BufLen
      BY <1>1, <1>2, UartFacts DEF Slots
    <2> HIDE DEF a
    <2>2. a % BufLen = IF a = BufLen THEN 0 ELSE a
      BY <2>1
    <2>3. tx_in' = IF a = BufLen THEN 0 ELSE a
      BY <2>1, <2>2
    <2> QED BY <2>3 DEF a
  <1>4. printed' = IF printed + n < Marks THEN printed + n ELSE printed + n - Marks
    <2> DEFINE a == printed + n
    <2>1. a \in Nat /\ a < Marks + Marks /\ Marks \in Nat /\ Marks > 0 /\ printed' = a % Marks
      BY <1>1, <1>2, UartFacts DEF Slots
    <2> HIDE DEF a
    <2>2. a % Marks = IF a < Marks THEN a ELSE a - Marks
      BY <2>1
    <2>3. printed' = IF a < Marks THEN a ELSE a - Marks
      BY <2>1, <2>2
    <2> QED BY <1>2, <2>3, UartFacts DEF a
  <1>5. Held' = Held + n
    BY <1>1, <1>2, <1>3, UartFacts DEF Held, Slots
  <1>6. TypeInv'
    <2>1. tx_in' \in Slots /\ printed' \in 0 .. Marks - 1
      BY <1>2, <1>3, <1>4, UartFacts DEF Slots
    <2> QED BY <1>1, <2>1 DEF UartInv, TypeInv
  <1>7. SpaceInv' /\ TypedInv' /\ RoomInv' /\ CopiedInv'
    BY <1>1, RxKept DEF UartInv, OrderInv, SpaceInv, RoomInv, CopiedInv
  <1>8. \A i : Slot(i)' = Slot(i) /\ Mark(i)' = Mark(i)
    BY <1>1 DEF Slot, Mark
  <1>9. FifoInv'
    BY <1>1 DEF UartInv, OrderInv, FifoInv, Mark
  <1>10. PrintedInv'
    <2>1. printed' = Mark(F + (Held + n))
      BY <1>2, <1>4, UartFacts DEF Mark
    <2> QED BY <1>1, <1>5, <2>1 DEF PrintedInv, Mark, F
  <1>11. RingInv'
    <2>1. ASSUME NEW i \in Nat, i < Held + n
          PROVE  tx_buf[Slot(i)] = Mark(F + i)
      <3>1. CASE i < Held
        BY <3>1 DEF UartInv, OrderInv, RingInv, F
      <3>2. CASE i >= Held
        <4> DEFINE j == i - Held
        <4>1. j \in Nat /\ j < n /\ Slot(i) = tx_in + j
          BY <1>2, <2>1, <3>2, UartFacts DEF Slot, Slots, Held
        <4>2. F + i = F + Held + j
          BY <1>2
        <4> HIDE DEF j
        <4>3. tx_buf[tx_in + j] = (printed + j) % Marks
          BY <1>1, <4>1 DEF UartInv, OrderInv, CopiedInv
        <4>4. (printed + j) % Marks = IF printed + j < Marks THEN printed + j ELSE printed + j - Marks
          <5> DEFINE a == printed + j
          <5>1. a \in Nat /\ a < Marks + Marks /\ Marks \in Nat /\ Marks > 0
            BY <1>2, <4>1, UartFacts
          <5> HIDE DEF a
          <5>2. a % Marks = IF a < Marks THEN a ELSE a - Marks
            BY <5>1
          <5> QED BY <1>2, <4>1, <5>2, UartFacts DEF a
        <4>5. (printed + j) % Marks = Mark(F + Held + j)
          BY <1>2, <4>1, <4>4, UartFacts DEF Mark
        <4> QED BY <4>1, <4>2, <4>3, <4>5
      <3> QED BY <1>2, <3>1, <3>2
    <2> QED BY <1>1, <1>5, <2>1 DEF RingInv, Slot, Mark, F
  <1> QED BY <1>6, <1>7, <1>9, <1>10, <1>11 DEF UartInv, OrderInv
LEMMA SendStep ==
    ASSUME UartInv, Send
    PROVE  UartInv'
  <1> DEFINE F == Len(txFifo)
             c == tx_buf[tx_out]
  <1>1. /\ UNCHANGED <<pc, count, n, out, printed, tx_in, tx_buf, shown, rx_in, rx_buf, rxFifo,
                       typed, handler>>
        /\ handler = "write" /\ space > 0 /\ tx_out # tx_in
        /\ tx_out' = After(tx_out) /\ space' = space - 1
        /\ txFifo' = IF F < Depth THEN Append(txFifo, c) ELSE txFifo
    BY DEF Send, MoreToSend, writer
  <1>2. /\ tx_in \in Slots /\ tx_out \in Slots /\ n \in Nat /\ space \in Nat
        /\ F \in Nat /\ space + F <= Depth /\ Held \in 0 .. BufLen - 1
        /\ txFifo \in Seq(Nat) /\ c \in Nat
    BY <1>1, HeldRange DEF UartInv, OrderInv, TypeInv, SpaceInv
  <1>3. /\ txFifo' = Append(txFifo, c) /\ txFifo' \in Seq(Nat) /\ Len(txFifo') = F + 1
        /\ \A i \in 1 .. F : txFifo'[i] = txFifo[i]
        /\ txFifo'[F + 1] = c
    <2>1. F < Depth
      BY <1>1, <1>2, UartFacts
    <2>2. txFifo' = Append(txFifo, c)
      BY <1>1, <2>1
    <2> HIDE DEF c
    <2> QED BY <1>2, <2>2
  <1>4. tx_out' \in Slots /\ tx_out' = IF tx_out + 1 = BufLen THEN 0 ELSE tx_out + 1
    <2> DEFINE a == tx_out + 1
    <2>1. a \in Nat /\ a >= 1 /\ a <= BufLen /\ BufLen \in Nat /\ BufLen > 0 /\ tx_out' = a % BufLen
      BY <1>1, <1>2, UartFacts DEF Slots, After
    <2> HIDE DEF a
    <2>2. a % BufLen = IF a = BufLen THEN 0 ELSE a
      BY <2>1
    <2>3. /\ tx_out' = IF a = BufLen THEN 0 ELSE a
          /\ tx_out' \in Slots
      BY <2>1, <2>2 DEF Slots
    <2> QED BY <2>3 DEF a
  <1>5. Held >= 1 /\ Held' = Held - 1
    BY <1>1, <1>2, <1>4, UartFacts DEF Held, Slots
  <1>6. c = Mark(F)
    <2>1. tx_buf[Slot(0)] = Mark(F + 0)
      BY <1>2, <1>5 DEF UartInv, OrderInv, RingInv
    <2>2. Slot(0) = tx_out /\ F + 0 = F
      BY <1>2, UartFacts DEF Slot, Slots
    <2> QED BY <2>1, <2>2
  <1>7. ASSUME NEW i \in Nat, i < Held - 1
        PROVE  tx_buf[Slot(i)'] = Mark(F + 1 + i)
    <2>1. Slot(i)' = Slot(i + 1)
      BY <1>1, <1>2, <1>4, <1>7, UartFacts DEF Slot, Slots
    <2>2. i + 1 \in Nat /\ i + 1 < Held
      BY <1>2, <1>7
    <2>3. tx_buf[Slot(i + 1)] = Mark(F + (i + 1))
      BY <2>2 DEF UartInv, OrderInv, RingInv
    <2>4. F + (i + 1) = F + 1 + i
      BY <1>2
    <2> QED BY <2>1, <2>3, <2>4
  <1>8. printed = Mark(F + 1 + (Held - 1))
    <2>1. F + Held = F + 1 + (Held - 1)
      BY <1>2
    <2> QED BY <2>1 DEF UartInv, OrderInv, PrintedInv
  <1>9. \A i : Mark(i)' = Mark(i)
    BY <1>1 DEF Mark
  <1> HIDE DEF c, F
  <1>10. TypeInv'
    <2>1. space' \in Nat /\ Len(txFifo') <= Depth
      BY <1>1, <1>2, <1>3, UartFacts
    <2> QED BY <1>1, <1>3, <1>4, <2>1 DEF UartInv, TypeInv
  <1>11. SpaceInv'
    BY <1>1, <1>2, <1>3, UartFacts DEF SpaceInv
  <1>12. TypedInv'
    BY <1>1, RxKept
  <1>13. RoomInv' /\ CopiedInv'
    <2>1. RoomInv /\ CopiedInv
      BY DEF UartInv, OrderInv
    <2>2. CopiedInv'
      BY <1>1, <2>1 DEF CopiedInv
    <2>3. Held + n <= BufLen - 1 => Held' + n <= BufLen - 1
      BY <1>2, <1>5, UartFacts
    <2> QED BY <1>1, <2>1, <2>2, <2>3 DEF RoomInv
  <1>14. FifoInv'
    <2>1. ASSUME NEW i \in 1 .. F + 1 PROVE txFifo'[i] = Mark(i - 1)
      <3>1. CASE i \in 1 .. F
        <4>1. txFifo[i] = Mark(i - 1)
          BY <3>1 DEF UartInv, OrderInv, FifoInv, F
        <4> QED BY <1>3, <3>1, <4>1
      <3>2. CASE i = F + 1
        <4>1. i - 1 = F
          BY <1>2, <3>2
        <4> QED BY <1>3, <1>6, <3>2, <4>1
      <3> QED BY <1>2, <3>1, <3>2
    <2> QED BY <1>3, <1>9, <2>1 DEF FifoInv, Mark
  <1>15. RingInv'
    BY <1>1, <1>3, <1>5, <1>7, <1>9 DEF RingInv, Slot, Mark
  <1>16. PrintedInv'
    BY <1>1, <1>3, <1>5, <1>8, <1>9 DEF PrintedInv, Mark
  <1> QED BY <1>10, <1>11, <1>12, <1>13, <1>14, <1>15, <1>16 DEF UartInv, OrderInv

LEMMA ShowStep ==
    ASSUME UartInv, HostReads
    PROVE  UartInv'
  <1> DEFINE F == Len(txFifo)
  <1>1. /\ UNCHANGED <<pc, count, n, out, printed, tx_in, tx_out, tx_buf, rx_in, rx_buf, rxFifo,
                       typed, handler, space>>
        /\ txFifo # <<>> /\ txFifo' = Tail(txFifo) /\ shown' = (shown + 1) % Marks
    BY DEF HostReads, writer, rings, irq
  <1>2. /\ tx_in \in Slots /\ tx_out \in Slots /\ n \in Nat /\ space \in Nat
        /\ F \in 0 .. Depth /\ Held \in 0 .. BufLen - 1 /\ shown \in 0 .. Marks - 1
        /\ txFifo \in Seq(Nat)
    BY HeldRange DEF UartInv, TypeInv
  <1>3. /\ txFifo' \in Seq(Nat) /\ F >= 1 /\ Len(txFifo') = F - 1
        /\ \A i \in 1 .. F - 1 : txFifo'[i] = txFifo[i + 1]
    BY <1>1, <1>2
  <1>4. shown' \in 0 .. Marks - 1 /\ shown' = IF shown + 1 = Marks THEN 0 ELSE shown + 1
    <2> DEFINE a == shown + 1
    <2>1. a \in Nat /\ a >= 1 /\ a <= Marks /\ Marks \in Nat /\ Marks > 0 /\ shown' = a % Marks
      BY <1>1, <1>2, UartFacts
    <2> HIDE DEF a
    <2>2. a % Marks = IF a = Marks THEN 0 ELSE a
      BY <2>1
    <2>3. /\ shown' = IF a = Marks THEN 0 ELSE a
          /\ shown' \in 0 .. Marks - 1
      BY <2>1, <2>2
    <2> QED BY <2>3 DEF a
  <1>5. Held' = Held /\ \A i : Slot(i)' = Slot(i)
    BY <1>1 DEF Held, Slot
  <1>6. ASSUME NEW i \in Nat, i + 1 < Marks
        PROVE  Mark(i)' = Mark(i + 1)
    BY <1>2, <1>4, <1>6, UartFacts DEF Mark
  <1> HIDE DEF F
  <1>7. TypeInv'
    <2>1. Len(txFifo') <= Depth
      BY <1>2, <1>3, UartFacts
    <2> QED BY <1>1, <1>3, <1>4, <2>1 DEF UartInv, TypeInv
  <1>8. SpaceInv'
    <2>1. SpaceInv /\ space \in Nat
      BY <1>2 DEF UartInv, OrderInv
    <2> QED BY <1>1, <1>2, <1>3, <2>1, UartFacts DEF SpaceInv, F
  <1>9. TypedInv'
    BY <1>1, RxKept
  <1>10. RoomInv' /\ CopiedInv'
    BY <1>1, <1>5 DEF UartInv, OrderInv, RoomInv, CopiedInv
  <1>11. FifoInv'
    <2>1. ASSUME NEW i \in 1 .. F - 1 PROVE txFifo'[i] = Mark(i - 1)'
      <3>1. i + 1 \in 1 .. F /\ i - 1 \in Nat /\ (i - 1) + 1 < Marks /\ (i - 1) + 1 = (i + 1) - 1
        BY <1>2, <1>3, UartFacts
      <3>2. txFifo[i + 1] = Mark((i + 1) - 1)
        BY <3>1 DEF UartInv, OrderInv, FifoInv, F
      <3>3. Mark(i - 1)' = Mark((i - 1) + 1)
        BY <1>6, <3>1
      <3> QED BY <1>3, <3>1, <3>2, <3>3
    <2> QED BY <1>3, <2>1 DEF FifoInv
  <1>12. RingInv'
    <2>1. ASSUME NEW i \in Nat, i < Held, NEW k \in Nat, k = F - 1 + i
          PROVE  tx_buf[Slot(i)] = Mark(k)'
      <3>1. k + 1 < Marks /\ k + 1 = F + i
        BY <1>2, <1>3, <2>1, UartFacts
      <3>2. tx_buf[Slot(i)] = Mark(F + i)
        BY <2>1 DEF UartInv, OrderInv, RingInv, F
      <3> QED BY <1>6, <3>1, <3>2
    <2>2. ASSUME NEW i \in Nat, i < Held'
          PROVE  tx_buf'[Slot(i)'] = Mark(Len(txFifo) + i)'
      <3>1. F - 1 + i \in Nat /\ i < Held
        BY <1>2, <1>3, <1>5, <2>2
      <3>2. PICK k \in Nat : k = F - 1 + i
        BY <3>1
      <3>3. tx_buf[Slot(i)] = Mark(k)'
        BY <2>1, <3>1, <3>2
      <3> QED BY <1>1, <1>3, <1>5, <3>2, <3>3 DEF Mark
    <2> QED BY <2>2 DEF RingInv
  <1>13. PrintedInv'
    <2>1. F - 1 + Held \in Nat /\ (F - 1 + Held) + 1 < Marks /\ (F - 1 + Held) + 1 = F + Held
      BY <1>2, <1>3, UartFacts
    <2>2. printed = Mark(F + Held)
      BY DEF UartInv, OrderInv, PrintedInv, F
    <2> QED BY <1>1, <1>3, <1>5, <1>6, <2>1, <2>2 DEF PrintedInv, Mark
  <1> QED BY <1>7, <1>8, <1>9, <1>10, <1>11, <1>12, <1>13 DEF UartInv, OrderInv
LEMMA TypeStep ==
    ASSUME UartInv, HostTypes
    PROVE  UartInv'
  <1> DEFINE R == Len(rxFifo)
  <1>1. /\ UNCHANGED <<pc, count, n, printed, tx_in, tx_out, tx_buf, txFifo, shown, rx_in, rx_buf,
                       handler, space>>
        /\ rxFifo' = Append(rxFifo, typed) /\ typed' = typed + 1
    BY DEF HostTypes, writer, rings, irq
  <1>2. /\ rxFifo \in Seq(Nat) /\ typed \in Nat /\ R \in Nat /\ rx_in \in Nat /\ typed = rx_in + R
    BY UartFacts DEF UartInv, OrderInv, TypeInv, TypedInv, Slots
  <1>3. /\ rxFifo' \in Seq(Nat) /\ Len(rxFifo') = R + 1
        /\ \A i \in 1 .. R : rxFifo'[i] = rxFifo[i]
        /\ rxFifo'[R + 1] = typed
    BY <1>1, <1>2
  <1> HIDE DEF R
  <1>4. TypeInv'
    BY <1>1, <1>2, <1>3 DEF UartInv, TypeInv
  <1>5. SpaceInv'
    BY <1>1 DEF UartInv, OrderInv, SpaceInv
  <1>6. TypedInv'
    <2>1. ASSUME NEW i \in 1 .. R + 1 PROVE rxFifo'[i] = rx_in + i - 1
      <3>1. CASE i \in 1 .. R
        BY <1>3, <3>1 DEF UartInv, OrderInv, TypedInv, R
      <3>2. CASE i = R + 1
        <4>1. typed = rx_in + i - 1
          BY <1>2, <3>2
        <4> QED BY <1>3, <3>2, <4>1
      <3> QED BY <1>2, <3>1, <3>2
    <2>2. typed' = rx_in + (R + 1)
      BY <1>1, <1>2
    <2>3. \A i \in Nat : i < rx_in => rx_buf[i] = i
      BY DEF UartInv, OrderInv, TypedInv
    <2> QED BY <1>1, <1>3, <2>1, <2>2, <2>3 DEF TypedInv
  <1> QED BY <1>1, <1>4, <1>5, <1>6, TxKept DEF UartInv, OrderInv

LEMMA TakeStep ==
    ASSUME UartInv, TakeTyped
    PROVE  UartInv'
  <1> DEFINE R == Len(rxFifo)
  <1>1. /\ UNCHANGED <<pc, count, n, printed, tx_in, tx_out, tx_buf, txFifo, shown, typed,
                       handler, space>>
        /\ After(rx_in) # 0 /\ rx_in' = After(rx_in) /\ rxFifo # <<>>
        /\ rx_buf' = [rx_buf EXCEPT ![rx_in] = Head(rxFifo)] /\ rxFifo' = Tail(rxFifo)
    BY DEF TakeTyped, RxFull, rx_out, writer
  <1>2. /\ rxFifo \in Seq(Nat) /\ R \in Nat /\ rx_in \in Slots /\ typed = rx_in + R
        /\ rx_buf \in [Slots -> Nat]
    BY UartFacts DEF UartInv, OrderInv, TypeInv, TypedInv
  <1>3. /\ rxFifo' \in Seq(Nat) /\ R >= 1 /\ Len(rxFifo') = R - 1 /\ Head(rxFifo) = rxFifo[1]
        /\ \A i \in 1 .. R - 1 : rxFifo'[i] = rxFifo[i + 1]
    BY <1>1, <1>2
  <1>4. rx_in' \in Slots /\ rx_in' = rx_in + 1
    <2> DEFINE a == rx_in + 1
    <2>1. a \in Nat /\ a >= 1 /\ a <= BufLen /\ BufLen \in Nat /\ BufLen > 0 /\ a % BufLen # 0
          /\ rx_in' = a % BufLen
      BY <1>1, <1>2, UartFacts DEF Slots, After
    <2> HIDE DEF a
    <2>2. a % BufLen = a /\ a % BufLen \in Slots
      BY <2>1 DEF Slots
    <2> QED BY <2>1, <2>2 DEF a
  <1>5. rxFifo[1] = rx_in
    <2>1. rxFifo[1] = rx_in + 1 - 1
      BY <1>2, <1>3 DEF UartInv, OrderInv, TypedInv
    <2> QED BY <1>2, <2>1, UartFacts DEF Slots
  <1> HIDE DEF R
  <1>6. rx_buf' \in [Slots -> Nat] /\ rx_buf'[rx_in] = rx_in
        /\ \A i \in Slots : i # rx_in => rx_buf'[i] = rx_buf[i]
    BY <1>1, <1>2, <1>3, <1>5, UartFacts DEF Slots
  <1>7. TypeInv'
    BY <1>1, <1>3, <1>4, <1>6 DEF UartInv, TypeInv
  <1>8. SpaceInv'
    BY <1>1 DEF UartInv, OrderInv, SpaceInv
  <1>9. TypedInv'
    <2>1. typed' = rx_in' + Len(rxFifo')
      <3>1. rx_in + R = (rx_in + 1) + (R - 1)
        BY <1>2, UartFacts DEF Slots
      <3> QED BY <1>1, <1>2, <1>3, <1>4, <3>1
    <2>2. ASSUME NEW i \in Nat, i < rx_in + 1 PROVE rx_buf'[i] = i
      <3>1. CASE i = rx_in
        BY <1>6, <3>1
      <3>2. CASE i # rx_in
        <4>1. i \in Slots /\ i < rx_in
          BY <1>2, <2>2, <3>2, UartFacts DEF Slots
        <4> QED BY <1>6, <3>2, <4>1 DEF UartInv, OrderInv, TypedInv
      <3> QED BY <3>1, <3>2
    <2>3. ASSUME NEW i \in 1 .. R - 1 PROVE rxFifo'[i] = rx_in + 1 + i - 1
      <3>1. i + 1 \in 1 .. R /\ rx_in + (i + 1) - 1 = rx_in + 1 + i - 1
        BY <1>2, <1>3, UartFacts DEF Slots
      <3>2. rxFifo[i + 1] = rx_in + (i + 1) - 1
        BY <3>1 DEF UartInv, OrderInv, TypedInv, R
      <3> QED BY <1>3, <3>1, <3>2
    <2> QED BY <1>1, <1>3, <1>4, <2>1, <2>2, <2>3 DEF TypedInv
  <1> QED BY <1>1, <1>7, <1>8, <1>9, TxKept DEF UartInv, OrderInv

\* The steps that move no character: the handler's decisions, the host.
LEMMA HandlerSteps ==
    ASSUME UartInv,
           Interrupt \/ ReadControl \/ NothingTyped \/ StopReading \/ StopSending \/ HostComesOrGoes
               \/ UNCHANGED vars
    PROVE  UartInv'
  <1>1. /\ UNCHANGED <<pc, count, n, printed, tx_in, tx_out, tx_buf, txFifo, shown>>
        /\ UNCHANGED <<rx_in, rx_buf, rxFifo, typed>>
    BY DEF Interrupt, ReadControl, NothingTyped, StopReading, StopSending, HostComesOrGoes, vars,
           writer, rings, device
  <1>2. /\ handler' \in {"none", "control", "read", "write"} /\ space' \in Nat
        /\ SpaceInv'
    <2>1. /\ handler \in {"none", "control", "read", "write"} /\ space \in Nat
          /\ Len(txFifo) \in Nat /\ Len(txFifo) <= Depth /\ SpaceInv
      BY DEF UartInv, OrderInv, TypeInv
    <2>2. CASE Interrupt
      BY <2>1, <2>2 DEF Interrupt, SpaceInv
    <2>3. CASE ReadControl
      <3>1. /\ txFifo' = txFifo /\ handler' \in {"none", "read", "write"}
            /\ space' \in {0, Depth - Len(txFifo)}
        BY <2>3 DEF ReadControl, device
      <3>2. space' \in Nat /\ space' + Len(txFifo) <= Depth
        BY <2>1, <3>1, UartFacts
      <3> QED BY <3>1, <3>2 DEF SpaceInv
    <2>4. CASE NothingTyped \/ StopReading
      <3>1. /\ txFifo' = txFifo /\ space' = space /\ handler = "read"
            /\ handler' \in {"write", "control"}
        BY <2>4 DEF NothingTyped, StopReading, AfterRead, device
      <3> QED BY <2>1, <3>1 DEF SpaceInv
    <2>5. CASE StopSending
      BY <2>1, <2>5 DEF StopSending, SpaceInv
    <2>6. CASE HostComesOrGoes \/ UNCHANGED vars
      BY <2>1, <2>6 DEF HostComesOrGoes, vars, irq, device, SpaceInv
    <2> QED BY <2>2, <2>3, <2>4, <2>5, <2>6
  <1>3. TypeInv'
    BY <1>1, <1>2 DEF UartInv, TypeInv
  <1> QED BY <1>1, <1>2, <1>3, TxKept, RxKept DEF UartInv, OrderInv

LEMMA UartStep == UartInv /\ [Next]_vars => UartInv'
  BY CallSteps, RoomStep, CopyStep, AdvanceStep, SendStep, ShowStep, TypeStep, TakeStep,
     HandlerSteps DEF Next, Writer, Handler
-----------------------------------------------------------------------------
LEMMA RingHeld ==
    ASSUME UartInv
    PROVE  /\ InRing \in Seq(Nat) /\ Len(InRing) = Held
           /\ \A i \in 1 .. Held : InRing[i] = Mark(Len(txFifo) + (i - 1))
  <1>1. /\ tx_in \in Slots /\ tx_out \in Slots /\ Held \in 0 .. BufLen - 1
        /\ tx_buf \in [Slots -> Nat]
    BY HeldRange DEF UartInv, TypeInv
  <1>2. (tx_in - tx_out) % BufLen = Held
    <2> DEFINE a == tx_in - tx_out
    <2>1. a \in Int /\ -BufLen < a /\ a < BufLen /\ BufLen \in Nat /\ BufLen > 0
          /\ Held = IF a >= 0 THEN a ELSE a + BufLen
      BY <1>1, UartFacts DEF Slots, Held
    <2> HIDE DEF a
    <2>2. a % BufLen = IF a >= 0 THEN a ELSE a + BufLen
      BY <2>1
    <2> QED BY <2>1, <2>2 DEF a
  <1>3. ASSUME NEW i \in 1 .. Held
        PROVE  tx_buf[(tx_out + i - 1) % BufLen] = Mark(Len(txFifo) + (i - 1))
    <2> DEFINE a == tx_out + i - 1
               b == i - 1
    <2>1. a \in Nat /\ a < BufLen + BufLen /\ BufLen \in Nat /\ BufLen > 0
          /\ Slot(b) = (IF a < BufLen THEN a ELSE a - BufLen) /\ b \in Nat /\ b < Held
      BY <1>1, UartFacts DEF Slots, Slot
    <2>2. tx_buf[Slot(b)] = Mark(Len(txFifo) + b)
      BY <2>1 DEF UartInv, OrderInv, RingInv
    <2> HIDE DEF a, b
    <2>3. a % BufLen = IF a < BufLen THEN a ELSE a - BufLen
      BY <2>1
    <2>4. tx_buf[a % BufLen] = Mark(Len(txFifo) + b)
      BY <2>1, <2>2, <2>3
    <2> QED BY <2>4 DEF a, b
  <1>4. InRing = [i \in 1 .. Held |-> tx_buf[(tx_out + i - 1) % BufLen]]
    BY <1>2 DEF InRing
  <1>5. ASSUME NEW i \in 1 .. Held PROVE tx_buf[(tx_out + i - 1) % BufLen] \in Nat
    <2> DEFINE a == tx_out + i - 1
    <2>1. a \in Int /\ BufLen \in Nat /\ BufLen > 0
      BY <1>1, UartFacts DEF Slots
    <2> HIDE DEF a
    <2>2. a % BufLen \in Slots
      BY <2>1 DEF Slots
    <2>3. tx_buf[a % BufLen] \in Nat
      BY <1>1, <2>2
    <2> QED BY <2>3 DEF a
  <1> DEFINE f(i) == tx_buf[(tx_out + i - 1) % BufLen]
             m(i) == Mark(Len(txFifo) + (i - 1))
             h == Held
  <1>6. /\ InRing = [i \in 1 .. h |-> f(i)] /\ h \in Nat
        /\ \A i \in 1 .. h : f(i) \in Nat /\ f(i) = m(i)
    BY <1>1, <1>3, <1>4, <1>5
  <1> HIDE DEF f, m, h
  <1>7. InRing \in Seq(Nat) /\ Len(InRing) = h /\ \A i \in 1 .. h : InRing[i] = m(i)
    BY <1>6
  <1> QED BY <1>7 DEF m, h

LEMMA OutstandingInOrder ==
    ASSUME UartInv
    PROVE  Outstanding = [i \in 1 .. (printed - shown) % Marks |-> (shown + i - 1) % Marks]
  <1> DEFINE F == Len(txFifo)
             h == Held
             K == F + h
  <1>1. /\ txFifo \in Seq(Nat) /\ F \in 0 .. Depth /\ h \in 0 .. BufLen - 1
        /\ shown \in 0 .. Marks - 1 /\ printed = Mark(K)
        /\ \A i \in 1 .. F : txFifo[i] = Mark(i - 1)
    BY HeldRange DEF UartInv, OrderInv, TypeInv, FifoInv, PrintedInv
  <1>2. /\ InRing \in Seq(Nat) /\ Len(InRing) = h
        /\ \A i \in 1 .. h : InRing[i] = Mark(F + (i - 1))
    BY RingHeld
  <1> HIDE DEF F, h
  <1>3. K \in Nat /\ K < Marks
    BY <1>1, UartFacts
  <1>4. (printed - shown) % Marks = K
    <2> DEFINE a == printed - shown
               k == K
    <2>1. a \in Int /\ k \in Nat /\ k < Marks /\ Marks \in Nat /\ Marks > 0
          /\ (a = k \/ a = k - Marks)
      BY <1>1, <1>3, UartFacts DEF Mark
    <2> HIDE DEF a, k
    <2>2. a % Marks = k
      BY <2>1
    <2> QED BY <2>2 DEF a, k
  <1>5. ASSUME NEW i \in 1 .. K PROVE (shown + i - 1) % Marks = Mark(i - 1)
    <2> DEFINE a == shown + i - 1
    <2>1. a \in Nat /\ a < Marks + Marks /\ Marks \in Nat /\ Marks > 0
          /\ Mark(i - 1) = IF a < Marks THEN a ELSE a - Marks
      BY <1>1, <1>3, UartFacts DEF Mark
    <2> HIDE DEF a
    <2>2. a % Marks = IF a < Marks THEN a ELSE a - Marks
      BY <2>1
    <2>3. a % Marks = Mark(i - 1)
      BY <2>1, <2>2
    <2> QED BY <2>3 DEF a
  <1>6. ASSUME NEW i \in 1 .. K PROVE Outstanding[i] = Mark(i - 1)
    <2>1. CASE i <= F
      <3>1. i \in 1 .. F /\ Outstanding[i] = txFifo[i]
        BY <1>1, <1>2, <2>1 DEF Outstanding, F
      <3> QED BY <1>1, <3>1
    <2>2. CASE i > F
      <3>1. i - F \in 1 .. h /\ F + ((i - F) - 1) = i - 1
        BY <1>1, <2>2
      <3>2. Outstanding[i] = InRing[i - F]
        BY <1>1, <1>2, <2>2 DEF Outstanding, F
      <3>3. InRing[i - F] = Mark(F + ((i - F) - 1))
        BY <1>2, <3>1
      <3> QED BY <3>1, <3>2, <3>3
    <2> QED BY <1>1, <2>1, <2>2
  <1>7. Outstanding \in Seq(Nat) /\ Len(Outstanding) = K
    BY <1>1, <1>2 DEF Outstanding, F
  <1> DEFINE e(i) == (shown + i - 1) % Marks
             r == (printed - shown) % Marks
  <1>8. r = K /\ \A i \in 1 .. K : Outstanding[i] = e(i)
    BY <1>4, <1>5, <1>6
  <1> HIDE DEF e, r, K
  <1>9. Outstanding = [i \in 1 .. r |-> e(i)]
    BY <1>7, <1>8
  <1> QED BY <1>9 DEF e, r

LEMMA ReceivedInOrder ==
    ASSUME UartInv
    PROVE  Received \o rxFifo = [i \in 1 .. typed |-> i - 1]
  <1> DEFINE R == Len(rxFifo)
             all == Received \o rxFifo
  <1>1. /\ rxFifo \in Seq(Nat) /\ R \in Nat /\ rx_in \in Nat /\ rx_in < BufLen
        /\ typed = rx_in + R /\ rx_buf \in [Slots -> Nat]
        /\ \A i \in Nat : i < rx_in => rx_buf[i] = i
        /\ \A i \in 1 .. R : rxFifo[i] = rx_in + i - 1
    BY UartFacts DEF UartInv, OrderInv, TypeInv, TypedInv, Slots
  <1>2. /\ Received \in Seq(Nat) /\ Len(Received) = rx_in
        /\ \A i \in 1 .. rx_in : Received[i] = i - 1
    <2>1. ASSUME NEW i \in 1 .. rx_in PROVE rx_buf[i - 1] = i - 1 /\ i - 1 \in Nat
      <3>1. i - 1 \in Nat /\ i - 1 < rx_in
        BY <1>1
      <3> QED BY <1>1, <3>1
    <2> DEFINE g(i) == rx_buf[i - 1]
    <2>2. Received = [i \in 1 .. rx_in |-> g(i)] /\ \A i \in 1 .. rx_in : g(i) = i - 1 /\ g(i) \in Nat
      BY <2>1 DEF Received
    <2> HIDE DEF g
    <2> QED BY <1>1, <2>2
  <1> HIDE DEF R
  <1>3. all \in Seq(Nat) /\ Len(all) = typed
    BY <1>1, <1>2 DEF R
  <1>4. ASSUME NEW i \in 1 .. typed PROVE all[i] = i - 1
    <2>1. CASE i <= rx_in
      BY <1>1, <1>2, <2>1 DEF R
    <2>2. CASE i > rx_in
      <3>1. i - rx_in \in 1 .. R /\ all[i] = rxFifo[i - rx_in] /\ rx_in + (i - rx_in) - 1 = i - 1
        BY <1>1, <1>2, <2>2 DEF R
      <3> QED BY <1>1, <3>1
    <2>3. i <= rx_in \/ i > rx_in
      BY <1>1
    <2> QED BY <2>1, <2>2, <2>3
  <1> HIDE DEF all
  <1>5. all = [i \in 1 .. typed |-> i - 1]
    BY <1>1, <1>3, <1>4
  <1> QED BY <1>5 DEF all

\* Every character that was printed and not yet shown is in the FIFO or in the
\* ring, once and in the order of printing, at whatever step of write the
\* interrupt comes and however often; and what was typed is kept in order while
\* it fits (altera_avalon_jtag_uart_write.c:103-127, altera_avalon_jtag_uart_init.c:132-194).
THEOREM CharactersInOrder == Spec => []InOrder
  <1>1. UartInv => InOrder
    BY OutstandingInOrder, ReceivedInOrder DEF InOrder
  <1> QED BY <1>1, UartInit, UartStep, PTL DEF Spec
=============================================================================
