------------------------ MODULE TransferListsProofs -------------------------
(***************************************************************************)
(* Proofs about the transfer lists, for keyboards with descriptors of every *)
(* length, any number of lost packets and of steps of a controller astray:  *)
(* no answer is stored over the list that asks for it, and a list that works *)
(* has the whole answer where the program looks.                            *)
(***************************************************************************)
EXTENDS TransferLists, TLAPS

-----------------------------------------------------------------------------
(* What the ten lists have in common: a setup packet, data packets of eight *)
(* bytes for buffers that follow one another, and a status packet.          *)

Requests == (1 .. 10) \ {Info}

First == <<\h500, \h680, \h680, \h680, \h680, 0, \h900, \hA21, \h681, \h681>>
Which == <<2, \h100, \h100, \h200, \h200, 0, 1, 0, \h2100, \h2200>>
Count == <<0, 8, \h12, 9, \hFF, 0, 0, 0, \h7B, \h7B>>
Packets == <<0, 1, 3, 2, 5, 0, 0, 0, 1, 8>>
Buffers == <<0, \h52C, \h544, \h544, \h55C, 0, 0, 0, \h544, \h580>>
Last == <<0, 8, 2, 1, 2, 0, 0, 0, 8, 3>>
AddressIn(s) == IF s = 1 THEN 0 ELSE 2
StatusIn(s) == IF Packets[s] = 0 THEN \h90 ELSE \h10

DataShape(list, s, d) ==
    /\ list[6 * d + 5] = Buffers[s] + 8 * (d - 1)
    /\ list[6 * d + 6] = IF d < Packets[s] THEN 8 ELSE Last[s]
    /\ list[6 * d + 7] = \h290
    /\ list[6 * d + 8] = IF d % 2 = 1 THEN \h41 ELSE \h01
    /\ list[6 * d + 10] = \h514 + 12 * d

HasShape(list, s) ==
    /\ list \in Seq(Nat) /\ Len(list) = 16 + 6 * Packets[s]
    /\ list[1] = \h50C /\ list[3] = 256 * AddressIn(s) + \hD0 /\ list[5] = Retry /\ list[6] = \h514
    /\ list[7] = First[s] /\ list[8] = Which[s] /\ list[10] = Count[s]
    /\ \A d \in 1 .. Packets[s] : DataShape(list, s, d)
    /\ LET e == 6 * Packets[s]
       IN  /\ list[e + 11] = 0 /\ list[e + 12] = 0
           /\ list[e + 13] = 256 * AddressIn(s) + StatusIn(s)
           /\ list[e + 14] = \h41 /\ list[e + 16] = 0

LEMMA ListShape == ASSUME NEW s \in Requests PROVE HasShape(Enumeration[s], s)
  <1> USE DEF HasShape, DataShape, First, Which, Count, Packets, Buffers, Last, AddressIn, StatusIn,
              Request, Td, Retry
  <1>1. HasShape(UsbSetAddress, 1)
    BY SMTT(30) DEF UsbSetAddress
  <1>2. HasShape(UsbGetDeviceDesc1, 2)
    BY SMTT(30) DEF UsbGetDeviceDesc1
  <1>3. HasShape(UsbGetDeviceDesc2, 3)
    BY SMTT(30) DEF UsbGetDeviceDesc2
  <1>4. HasShape(UsbGetConfigDesc1, 4)
    BY SMTT(30) DEF UsbGetConfigDesc1
  <1>5. HasShape(UsbGetConfigDesc2, 5)
    BY SMTT(30) DEF UsbGetConfigDesc2
  <1>7. HasShape(UsbSetConfig, 7)
    BY SMTT(30) DEF UsbSetConfig
  <1>8. HasShape(UsbClassRequest, 8)
    BY SMTT(30) DEF UsbClassRequest
  <1>9. HasShape(UsbGetHidDesc, 9)
    BY SMTT(30) DEF UsbGetHidDesc
  <1>10. HasShape(UsbGetReportDesc, 10)
    BY SMTT(60) DEF UsbGetReportDesc
  <1> HIDE DEF HasShape, DataShape, First, Which, Count, Packets, Buffers, Last, AddressIn, StatusIn,
               Request, Td, Retry
  <1> QED BY <1>1, <1>2, <1>3, <1>4, <1>5, <1>7, <1>8, <1>9, <1>10 DEF Requests, Info, Enumeration

\* The buffers come after the list, and in memory.
LEMMA Tables ==
    ASSUME NEW s \in Requests
    PROVE  /\ Packets[s] \in 0 .. 8 /\ Last[s] \in 0 .. 8 /\ Buffers[s] \in Nat
           /\ First[s] \in Nat /\ Which[s] \in Nat /\ Count[s] \in Nat
           /\ Packets[s] > 0 => /\ Buffers[s] >= \h520 + 12 * Packets[s]
                                /\ Buffers[s] + 8 * Packets[s] <= \h5C0
                                /\ Buffers[s] % 2 = 0
           /\ (First[s] % 256 >= 128) <=> (Packets[s] > 0)
           /\ Packets[s] > 0 => Which[s] \in {\h100, \h200, \h2100, \h2200}
           /\ (s = 1) <=> (First[s] = \h500)
  <1> USE DEF First, Which, Count, Packets, Buffers, Last
  <1>1. CASE s = 1
    BY <1>1
  <1>2. CASE s = 2
    BY <1>2
  <1>3. CASE s = 3
    BY <1>3
  <1>4. CASE s = 4
    BY <1>4
  <1>5. CASE s = 5
    BY <1>5
  <1>7. CASE s = 7
    BY <1>7
  <1>8. CASE s = 8
    BY <1>8
  <1>9. CASE s = 9
    BY <1>9
  <1>10. CASE s = 10
    BY <1>10
  <1> QED BY <1>1, <1>2, <1>3, <1>4, <1>5, <1>7, <1>8, <1>9, <1>10 DEF Requests, Info

LEMMA PollShape ==
    ASSUME NEW l \in Nat, NEW o
    PROVE  LET list == PollList(l, o)
           IN  /\ list \in Seq(Nat) /\ Len(list) = 6
               /\ list[1] = \h51C /\ list[2] = l /\ list[3] = \h291 /\ list[5] = Retry /\ list[6] = 0
  BY DEF PollList, Td, Retry

LEMMA DescriptorKnown ==
    ASSUME NEW which
    PROVE  /\ which = \h100 => Descriptor(which) = 18
           /\ which = \h200 => Descriptor(which) = kbd.config
           /\ which = \h2100 => Descriptor(which) = 9
           /\ which = \h2200 => Descriptor(which) = kbd.report
  <1> DEFINE e == 18
             n == 9
  <1>1. /\ OfDevice # OfConfig /\ OfDevice # OfHid /\ OfDevice # OfReport
        /\ OfConfig # OfHid /\ OfConfig # OfReport /\ OfHid # OfReport
    BY DEF OfDevice, OfConfig, OfHid, OfReport
  <1>2. Descriptor(which) = CASE which = OfDevice -> e [] which = OfConfig -> kbd.config
                              [] which = OfHid -> n [] which = OfReport -> kbd.report
    BY Zenon DEF Descriptor
  <1> HIDE DEF e, n
  <1>3. /\ which = OfDevice => Descriptor(which) = e
        /\ which = OfConfig => Descriptor(which) = kbd.config
        /\ which = OfHid => Descriptor(which) = n
        /\ which = OfReport => Descriptor(which) = kbd.report
    BY <1>1, <1>2, Zenon
  <1> QED BY <1>3 DEF e, n, OfDevice, OfConfig, OfHid, OfReport
-----------------------------------------------------------------------------
(***************************************************************************)
(* The invariant.  A list that is written stays in memory until it is       *)
(* started, if the controller is at rest meanwhile, and while it is executed, *)
(* since what the controller stores comes after it; then the descriptor the *)
(* controller is at says how much of the answer the keyboard has given, and *)
(* that much of it is in the buffers.  The list that is executed, current,  *)
(* need not be that of the step the program is at.                          *)
(***************************************************************************)
Cell == [of : Nat, v : Nat]

\* Where the controller can be in the list of step s: d = 0 is the setup packet.
At(d) == IF d = 0 THEN Base ELSE \h514 + 12 * (d - 1)
PlacesOf(s) == IF s = Poll THEN {Base} ELSE {At(d) : d \in 0 .. Packets[s] + 1}

AskedFor(s) == kbd.asked[1] = First[s] /\ kbd.asked[2] = Which[s] /\ kbd.asked[4] = Count[s]

TypeInv ==
    /\ step \in 1 .. Poll /\ current \in 0 .. Poll /\ written \in BOOLEAN
    /\ dataSize \in Cell /\ mem \in [Words -> Cell]
    /\ kbd \in [address : {0, 2}, asked : [1 .. 4 -> Nat], sent : Nat,
                stage : {"idle", "asked", "refused"}, config : 9 .. 255, report : 8 .. 255]
    /\ kbd.stage = "asked" => \E s \in Requests : AskedFor(s)

\* Which list the controller can be at.
InOrder ==
    /\ written => step # Info
    /\ next \notin {0, InfoAt, Astray} => current \in (1 .. Poll) \ {Info}
    /\ next = InfoAt => current = Info
    /\ next = Astray => lost \/ written
    /\ current = Poll => step = Poll
    /\ step = Poll => current \in {10, Poll}

ListKept ==
    Executing =>
        /\ next \in PlacesOf(current)
        /\ \A k \in 1 .. Len(ListOf(current)) :
              (k # 5 \/ next = Base) => mem[Base + 2 * (k - 1)] = FromHost(ListOf(current)[k])

\* The list that is written and not yet started.
Loaded ==
    written /\ ~lost =>
        \A k \in 1 .. Len(ListOf(step)) : mem[Base + 2 * (k - 1)] = FromHost(ListOf(step)[k])

KeyWords == {FromHost(\h520), FromKeyboard(Report, 2), Strayed}

KeyKept == step = Poll \/ (step = 10 /\ (written \/ current = 10)) => mem[\h51E] \in KeyWords

\* Nothing went wrong since the keyboard has taken the setup packet.
Going == FirstDone /\ current < Poll /\ ~lost /\ Fits

\* What the keyboard has given after d data packets.
Given(d) == IF d = 0 \/ Packets[current] = 0 THEN 0 ELSE AtMost(8 * d, Answer)

InTurn ==
    Going =>
        /\ AskedFor(current)
        /\ next = 0 => kbd.stage = "idle" /\ kbd.sent = Given(Packets[current])
        /\ \A d \in 1 .. Packets[current] + 1 :
              next = At(d) => /\ kbd.stage = "asked" /\ kbd.address = AddressIn(current)
                              /\ kbd.sent = Given(d - 1)
        /\ \A i \in Nat : 2 * i < kbd.sent
              => mem[Buffers[current] + 2 * i] = FromKeyboard(Which[current], 2 * i)

ListsInv == TypeInv /\ InOrder /\ ListKept /\ Loaded /\ KeyKept /\ InTurn

-----------------------------------------------------------------------------
(* Memory. *)

ListFor(s, size, o) == IF s = Poll THEN PollList(size.v % 16, o) ELSE Enumeration[s]

\* Every list is short enough for the buffers behind it.
LEMMA AnyList ==
    ASSUME NEW s \in (1 .. Poll) \ {Info}, NEW size \in Cell, NEW o
    PROVE  LET list == ListFor(s, size, o)
           IN  /\ list \in Seq(Nat) /\ Len(list) \in 6 .. 64 /\ list[5] = Retry
               /\ s # Poll => s \in Requests /\ list = Enumeration[s]
               /\ s \in Requests => Len(list) = 16 + 6 * Packets[s]
               /\ s = Poll => Len(list) = 6 /\ list[1] = \h51C /\ list[3] = \h291 /\ list[6] = 0
  <1>1. CASE s = Poll
    <2>1. size.v % 16 \in Nat
      BY DEF Cell
    <2>2. ListFor(s, size, o) = PollList(size.v % 16, o) /\ s \notin Requests
      BY <1>1 DEF ListFor, Requests, Poll
    <2> QED BY <1>1, <2>1, <2>2, PollShape
  <1>2. CASE s # Poll
    <2>1. s \in Requests /\ ListFor(s, size, o) = Enumeration[s]
      BY <1>2 DEF ListFor, Requests, Poll, Info
    <2>2. /\ Enumeration[s] \in Seq(Nat) /\ Len(Enumeration[s]) = 16 + 6 * Packets[s]
          /\ Enumeration[s][5] = Retry
      BY <2>1, ListShape DEF HasShape
    <2>3. Packets[s] \in 0 .. 8
      BY <2>1, Tables
    <2>4. 16 + 6 * Packets[s] \in 6 .. 64
      BY <2>3
    <2> QED BY <1>2, <2>1, <2>2, <2>4
  <1> QED BY <1>1, <1>2

\* The list that the controller is told to execute.
LEMMA CurrentList ==
    ASSUME TypeInv, NEW s \in (1 .. Poll) \ {Info}
    PROVE  /\ ListOf(s) \in Seq(Nat) /\ Len(ListOf(s)) \in 6 .. 64 /\ ListOf(s)[5] = Retry
           /\ s # Poll => s \in Requests /\ ListOf(s) = Enumeration[s]
           /\ s \in Requests => Len(ListOf(s)) = 16 + 6 * Packets[s]
           /\ s = Poll => /\ Len(ListOf(s)) = 6 /\ ListOf(s)[1] = \h51C
                          /\ ListOf(s)[3] = \h291 /\ ListOf(s)[6] = 0
  <1>1. ListOf(s) = ListFor(s, dataSize, odd)
    BY DEF ListOf, ListFor
  <1>2. dataSize \in Cell
    BY DEF TypeInv
  <1> QED BY <1>1, <1>2, AnyList

\* The places of a list are none of those where there is no list.
LEMMA Places ==
    ASSUME NEW s \in (1 .. Poll) \ {Info}, NEW a \in PlacesOf(s)
    PROVE  a \notin {0, InfoAt, Astray}
  <1>1. CASE s = Poll
    BY <1>1 DEF PlacesOf, Base, InfoAt, Astray
  <1>2. CASE s # Poll
    <2>1. s \in Requests
      BY <1>2 DEF Requests, Poll
    <2>2. Packets[s] \in 0 .. 8
      BY <2>1, Tables
    <2>3. PICK d \in 0 .. Packets[s] + 1 : a = At(d)
      BY <1>2 DEF PlacesOf
    <2>4. d \in 0 .. 9
      BY <2>2
    <2> QED BY <2>3, <2>4 DEF At, Base, InfoAt, Astray
  <1> QED BY <1>1, <1>2

LEMMA WordPlaces ==
    /\ \A k \in 1 .. 96 : Base + 2 * (k - 1) \in Words
    /\ \A a \in Words : a \in Nat /\ \E k \in 1 .. 96 : a = Base + 2 * (k - 1)
  <1>1. ASSUME NEW k \in 1 .. 96 PROVE Base + 2 * (k - 1) \in Words
    <2>1. k - 1 \in 0 .. 95
      OBVIOUS
    <2> QED BY <2>1 DEF Words
  <1>2. ASSUME NEW a \in Words PROVE a \in Nat /\ \E k \in 1 .. 96 : a = Base + 2 * (k - 1)
    <2>1. PICK i \in 0 .. 95 : a = Base + 2 * i
      BY DEF Words
    <2>2. i + 1 \in 1 .. 96 /\ a = Base + 2 * ((i + 1) - 1) /\ a \in Nat
      BY <2>1 DEF Base
    <2> QED BY <2>2
  <1> QED BY <1>1, <1>2

\* A list in memory from 0x0500 on.
LEMMA WrittenWords ==
    ASSUME mem \in [Words -> Cell], NEW list \in Seq(Nat), Len(list) <= 64
    PROVE  /\ Written(list, Base) \in [Words -> Cell]
           /\ \A k \in 1 .. Len(list) : Written(list, Base)[Base + 2 * (k - 1)] = FromHost(list[k])
           /\ \A a \in Words : a >= Base + 2 * Len(list) => Written(list, Base)[a] = mem[a]
  <1>1. \A w \in Nat : FromHost(w) \in Cell
    BY DEF FromHost, Cell
  <1>2. ASSUME NEW k \in 1 .. 96
        PROVE  /\ k <= Len(list) => Written(list, Base)[Base + 2 * (k - 1)] = FromHost(list[k])
               /\ k > Len(list) => Written(list, Base)[Base + 2 * (k - 1)] = mem[Base + 2 * (k - 1)]
    <2> DEFINE a == Base + 2 * (k - 1)
    <2>1. a \in Words
      BY WordPlaces
    <2>2. (a - Base) \div 2 + 1 = k
      BY DEF Base
    <2>3. a >= Base /\ (a < Base + 2 * Len(list) <=> k <= Len(list))
      BY DEF Base
    <2>4. Written(list, Base)[a] = IF a >= Base /\ a < Base + 2 * Len(list)
                                   THEN FromHost(list[(a - Base) \div 2 + 1]) ELSE mem[a]
      BY <2>1 DEF Written
    <2> HIDE DEF a
    <2>5. Written(list, Base)[a] = IF k <= Len(list) THEN FromHost(list[k]) ELSE mem[a]
      BY <2>2, <2>3, <2>4
    <2>6. k > Len(list) => ~(k <= Len(list))
      OBVIOUS
    <2>7. /\ k <= Len(list) => Written(list, Base)[a] = FromHost(list[k])
          /\ k > Len(list) => Written(list, Base)[a] = mem[a]
      BY <2>5, <2>6
    <2> QED BY <2>7 DEF a
  <1>3. ASSUME NEW a \in Words
        PROVE  /\ Written(list, Base)[a] \in Cell
               /\ a >= Base + 2 * Len(list) => Written(list, Base)[a] = mem[a]
    <2>1. PICK k \in 1 .. 96 : a = Base + 2 * (k - 1)
      BY WordPlaces
    <2>2. CASE k <= Len(list)
      <3>1. list[k] \in Nat /\ ~(a >= Base + 2 * Len(list))
        BY <2>1, <2>2 DEF Base
      <3> QED BY <1>1, <1>2, <2>1, <2>2, <3>1
    <2>3. CASE k > Len(list)
      BY <1>2, <2>1, <2>3
    <2> QED BY <2>2, <2>3
  <1>4. Written(list, Base) \in [Words -> Cell]
    <2>1. Written(list, Base) = [a \in Words |-> Written(list, Base)[a]]
      BY DEF Written
    <2> QED BY <1>3, <2>1
  <1>5. ASSUME NEW k \in 1 .. Len(list)
        PROVE  Written(list, Base)[Base + 2 * (k - 1)] = FromHost(list[k])
    <2>1. k \in 1 .. 96 /\ k <= Len(list)
      OBVIOUS
    <2> QED BY <1>2, <2>1
  <1> QED BY <1>3, <1>4, <1>5

\* A packet in a buffer.
LEMMA StoredWords ==
    ASSUME mem \in [Words -> Cell], Buffer \in Nat, NEW which \in Nat, NEW byte \in Nat,
           NEW length \in Int
    PROVE  /\ Stored(which, byte, length) \in [Words -> Cell]
           /\ \A a \in Words : (a < Buffer \/ a >= Buffer + length)
                 => Stored(which, byte, length)[a] = mem[a]
           /\ \A a \in Words : a >= Buffer /\ a < Buffer + length
                 => Stored(which, byte, length)[a] = FromKeyboard(which, byte + a - Buffer)
  <1> DEFINE b == Buffer
             f == Stored(which, byte, length)
  <1>1. f = [a \in Words |-> IF a >= b /\ a < b + length
                             THEN FromKeyboard(which, byte + a - b) ELSE mem[a]] /\ b \in Nat
    BY DEF Stored
  <1> HIDE DEF b, f
  <1>2. ASSUME NEW a \in Words
        PROVE  /\ f[a] \in Cell
               /\ a < b \/ a >= b + length => f[a] = mem[a]
               /\ a >= b /\ a < b + length => f[a] = FromKeyboard(which, byte + a - b)
    <2>1. a \in Nat
      BY WordPlaces
    <2>2. CASE a >= b /\ a < b + length
      <3>1. f[a] = FromKeyboard(which, byte + a - b) /\ ~(a < b \/ a >= b + length)
        BY <1>1, <2>1, <2>2
      <3>2. byte + a - b \in Nat
        BY <1>1, <2>1, <2>2
      <3>3. FromKeyboard(which, byte + a - b) \in Cell
        BY <3>2 DEF FromKeyboard, Cell
      <3> QED BY <3>1, <3>3
    <2>3. CASE ~(a >= b /\ a < b + length)
      <3>1. f[a] = mem[a]
        BY <1>1, <2>3
      <3> QED BY <2>3, <3>1
    <2> QED BY <2>2, <2>3
  <1>3. f \in [Words -> Cell]
    BY <1>1, <1>2
  <1> QED BY <1>2, <1>3 DEF b, f

\* The control byte of the first descriptor.
LEMMA MarkedWords ==
    ASSUME NEW memory \in [Words -> Cell], NEW control \in Nat
    PROVE  /\ Marked(memory, control) \in [Words -> Cell]
           /\ \A a \in Words : (a # \h508 \/ next # Base) => Marked(memory, control)[a] = memory[a]
           /\ next = Base => Marked(memory, control)[\h508] = FromHost(control)
  <1>1. FromHost(control) \in Cell
    BY DEF FromHost, Cell
  <1>2. \h508 \in Words
    <2>1. \h508 = Base + 2 * (5 - 1) /\ 5 \in 1 .. 96
      BY DEF Base
    <2> QED BY <2>1, WordPlaces
  <1> QED BY <1>1, <1>2 DEF Marked

-----------------------------------------------------------------------------
(* The descriptor that the controller is at. *)

SetupHere ==
    /\ next = Base /\ Pid = \hD0 /\ Device = AddressIn(current) /\ Buffer = \h50C /\ Field(5) = At(1)
DataHere(d) ==
    /\ next = At(d) /\ Pid = \h90 /\ Device = 2 /\ Field(5) = At(d + 1)
    /\ Buffer = Buffers[current] + 8 * (d - 1)
    /\ Length = IF d < Packets[current] THEN 8 ELSE Last[current]
    /\ Field(3) = IF d % 2 = 1 THEN \h41 ELSE \h01
StatusHere ==
    /\ next = At(Packets[current] + 1) /\ Pid = StatusIn(current) /\ Device = AddressIn(current)
    /\ Buffer = 0 /\ Length = 0 /\ Field(3) = \h41 /\ Field(5) = 0
ReportHere == next = Base /\ Pid = \h91 /\ Buffer = \h51C /\ Field(5) = 0

LEMMA Here ==
    ASSUME TypeInv, InOrder, ListKept, Executing
    PROVE  \/ current \in Requests /\ SetupHere
           \/ current \in Requests /\ \E d \in 1 .. Packets[current] : DataHere(d)
           \/ current \in Requests /\ StatusHere
           \/ current = Poll /\ ReportHere
  <1> DEFINE list == ListOf(current)
  <1>1. current \in (1 .. Poll) \ {Info}
    BY DEF InOrder, Executing
  <1>2. ASSUME NEW k \in 1 .. Len(list), k # 5 \/ next = Base
        PROVE  mem[Base + 2 * (k - 1)].v = list[k]
    <2>1. mem[Base + 2 * (k - 1)] = FromHost(list[k])
      BY <1>2 DEF ListKept
    <2> QED BY <2>1 DEF FromHost
  <1>3. CASE current = Poll
    <2>1. next = Base /\ Len(list) = 6 /\ list[1] = \h51C /\ list[3] = \h291 /\ list[6] = 0
      BY <1>1, <1>3, CurrentList DEF ListKept, PlacesOf
    <2>2. 1 \in 1 .. Len(list) /\ 3 \in 1 .. Len(list) /\ 6 \in 1 .. Len(list)
      BY <2>1
    <2>3. /\ mem[Base + 2 * (1 - 1)].v = \h51C /\ mem[Base + 2 * (3 - 1)].v = \h291
          /\ mem[Base + 2 * (6 - 1)].v = 0
      BY <1>2, <2>1, <2>2
    <2>4. Field(0) = \h51C /\ Field(2) = \h291 /\ Field(5) = 0
      BY <2>1, <2>3 DEF Field, Base
    <2> QED BY <1>3, <2>1, <2>4 DEF ReportHere, Pid, Buffer
  <1>4. CASE current # Poll
    <2>1. current \in Requests /\ list = Enumeration[current]
      BY <1>1, <1>4, CurrentList DEF Requests, Poll, Info
    <2>l. HasShape(Enumeration[current], current)
      BY <2>1, ListShape
    <2> DEFINE p == Packets[current]
    <2>2. HasShape(list, current) /\ p \in 0 .. 8 /\ Len(list) = 16 + 6 * p
      BY <2>1, <2>l, Tables DEF HasShape
    <2>3. PICK d \in 0 .. p + 1 : next = At(d)
      BY <1>4 DEF ListKept, PlacesOf
    <2> HIDE DEF list, p
    <2>4. CASE d = 0
      <3>1. /\ next = Base
            /\ list[1] = \h50C /\ list[3] = 256 * AddressIn(current) + \hD0 /\ list[6] = \h514
        BY <2>2, <2>3, <2>4 DEF HasShape, At
      <3>2. 1 \in 1 .. Len(list) /\ 3 \in 1 .. Len(list) /\ 6 \in 1 .. Len(list)
        BY <2>2
      <3>3. /\ mem[Base + 2 * (1 - 1)].v = \h50C /\ mem[Base + 2 * (6 - 1)].v = \h514
            /\ mem[Base + 2 * (3 - 1)].v = 256 * AddressIn(current) + \hD0
        BY <1>2, <3>1, <3>2
      <3>4. Field(0) = \h50C /\ Field(2) = 256 * AddressIn(current) + \hD0 /\ Field(5) = \h514
        BY <3>1, <3>3 DEF Field, Base
      <3>5. AddressIn(current) \in {0, 2}
        BY DEF AddressIn
      <3>6. Field(2) % 256 = \hD0 /\ Field(2) \div 256 = AddressIn(current)
        BY <3>4, <3>5
      <3>7. At(1) = \h514
        BY DEF At
      <3> QED BY <2>1, <3>1, <3>4, <3>6, <3>7 DEF SetupHere, Pid, Device, Buffer
    <2>5. CASE d \in 1 .. p
      <3> DEFINE e == 6 * d
      <3>1. /\ list[e + 5] = Buffers[current] + 8 * (d - 1)
            /\ list[e + 6] = IF d < p THEN 8 ELSE Last[current]
            /\ list[e + 7] = \h290
            /\ list[e + 8] = IF d % 2 = 1 THEN \h41 ELSE \h01
            /\ list[e + 10] = \h514 + 12 * d
        <4>1. \A j \in 1 .. p : DataShape(list, current, j)
          BY <2>2 DEF HasShape, p
        <4>2. DataShape(list, current, d)
          BY <2>5, <4>1
        <4> QED BY <4>2 DEF DataShape, p
      <3>2. /\ next = Base + 2 * (e + 4) /\ next # Base
            /\ e + 5 \in 1 .. Len(list) /\ e + 6 \in 1 .. Len(list)
            /\ e + 7 \in 1 .. Len(list) /\ e + 8 \in 1 .. Len(list)
            /\ e + 10 \in 1 .. Len(list)
            /\ e + 5 # 5 /\ e + 6 # 5 /\ e + 7 # 5 /\ e + 8 # 5 /\ e + 10 # 5
            /\ e \in Nat
        BY <2>2, <2>3, <2>5 DEF At, Base
      <3> HIDE DEF e
      <3>3. /\ mem[Base + 2 * (e + 5 - 1)].v = list[e + 5]
            /\ mem[Base + 2 * (e + 6 - 1)].v = list[e + 6]
            /\ mem[Base + 2 * (e + 7 - 1)].v = list[e + 7]
            /\ mem[Base + 2 * (e + 8 - 1)].v = list[e + 8]
            /\ mem[Base + 2 * (e + 10 - 1)].v = list[e + 10]
        <4> DEFINE Word(k) == mem[Base + 2 * (k - 1)].v
        <4>1. \A k \in 1 .. Len(list) : k # 5 => Word(k) = list[k]
          BY <1>2
        <4> HIDE DEF Word
        <4>2. /\ Word(e + 5) = list[e + 5] /\ Word(e + 6) = list[e + 6] /\ Word(e + 7) = list[e + 7]
              /\ Word(e + 8) = list[e + 8] /\ Word(e + 10) = list[e + 10]
          BY <3>2, <4>1
        <4>3. e \in Nat
          BY <3>2
        <4> QED BY <4>2, <4>3 DEF Word
      <3>4. /\ Base + 2 * (e + 5 - 1) = next + 2 * 0 /\ Base + 2 * (e + 6 - 1) = next + 2 * 1
            /\ Base + 2 * (e + 7 - 1) = next + 2 * 2 /\ Base + 2 * (e + 8 - 1) = next + 2 * 3
            /\ Base + 2 * (e + 10 - 1) = next + 2 * 5
        BY <3>2 DEF Base
      <3>5. /\ Field(0) = Buffers[current] + 8 * (d - 1) /\ Field(2) = \h290
            /\ Field(1) = IF d < p THEN 8 ELSE Last[current]
            /\ Field(3) = IF d % 2 = 1 THEN \h41 ELSE \h01
            /\ Field(5) = \h514 + 12 * d
        BY <3>1, <3>3, <3>4 DEF Field
      <3>6. At(d + 1) = \h514 + 12 * d
        BY <2>5, <2>2 DEF At
      <3>7. Field(2) % 256 = \h90 /\ Field(2) \div 256 = 2
        BY <3>5
      <3>8. DataHere(d)
        BY <2>3, <3>5, <3>6, <3>7 DEF DataHere, Pid, Device, Buffer, Length, p
      <3> QED BY <2>1, <2>5, <3>8 DEF p
    <2>6. CASE d = p + 1
      <3> DEFINE e == 6 * p
      <3>1. /\ list[e + 11] = 0 /\ list[e + 12] = 0
            /\ list[e + 13] = 256 * AddressIn(current) + StatusIn(current)
            /\ list[e + 14] = \h41 /\ list[e + 16] = 0
        BY <2>2 DEF HasShape, p
      <3>2. /\ next = Base + 2 * (e + 10) /\ next # Base
            /\ e + 11 \in 1 .. Len(list) /\ e + 12 \in 1 .. Len(list) /\ e + 13 \in 1 .. Len(list)
            /\ e + 14 \in 1 .. Len(list) /\ e + 16 \in 1 .. Len(list)
            /\ e + 11 # 5 /\ e + 12 # 5 /\ e + 13 # 5 /\ e + 14 # 5 /\ e + 16 # 5 /\ e \in Nat
        BY <2>2, <2>3, <2>6 DEF At, Base
      <3> HIDE DEF e
      <3>3. /\ mem[Base + 2 * (e + 11 - 1)].v = list[e + 11]
            /\ mem[Base + 2 * (e + 12 - 1)].v = list[e + 12]
            /\ mem[Base + 2 * (e + 13 - 1)].v = list[e + 13]
            /\ mem[Base + 2 * (e + 14 - 1)].v = list[e + 14]
            /\ mem[Base + 2 * (e + 16 - 1)].v = list[e + 16]
        <4> DEFINE Word(k) == mem[Base + 2 * (k - 1)].v
        <4>1. \A k \in 1 .. Len(list) : k # 5 => Word(k) = list[k]
          BY <1>2
        <4> HIDE DEF Word
        <4>2. /\ Word(e + 11) = list[e + 11] /\ Word(e + 12) = list[e + 12]
              /\ Word(e + 13) = list[e + 13] /\ Word(e + 14) = list[e + 14]
              /\ Word(e + 16) = list[e + 16]
          BY <3>2, <4>1
        <4>3. e \in Nat
          BY <3>2
        <4> QED BY <4>2, <4>3 DEF Word
      <3>4. /\ Base + 2 * (e + 11 - 1) = next + 2 * 0 /\ Base + 2 * (e + 12 - 1) = next + 2 * 1
            /\ Base + 2 * (e + 13 - 1) = next + 2 * 2 /\ Base + 2 * (e + 14 - 1) = next + 2 * 3
            /\ Base + 2 * (e + 16 - 1) = next + 2 * 5
        BY <3>2 DEF Base
      <3>5. /\ Field(0) = 0 /\ Field(1) = 0 /\ Field(3) = \h41 /\ Field(5) = 0
            /\ Field(2) = 256 * AddressIn(current) + StatusIn(current)
        BY <3>1, <3>3, <3>4 DEF Field
      <3>6. AddressIn(current) \in {0, 2} /\ StatusIn(current) \in {\h10, \h90}
        BY DEF AddressIn, StatusIn
      <3>7. Field(2) % 256 = StatusIn(current) /\ Field(2) \div 256 = AddressIn(current)
        BY <3>5, <3>6
      <3>8. StatusHere
        BY <2>3, <2>6, <3>5, <3>7 DEF StatusHere, Pid, Device, Buffer, Length, p
      <3> QED BY <2>1, <3>8
    <2>7. d = 0 \/ d \in 1 .. p \/ d = p + 1
      BY <2>2
    <2> QED BY <2>4, <2>5, <2>6, <2>7
  <1> QED BY <1>3, <1>4
-----------------------------------------------------------------------------
(* What the keyboard answers. *)

LEMMA AnswerKnown ==
    ASSUME TypeInv, NEW s \in Requests, AskedFor(s)
    PROVE  /\ AsksForData <=> Packets[s] > 0
           /\ Packets[s] > 0 => Answer \in Nat
  <1>1. AsksForData <=> Packets[s] > 0
    BY Tables DEF AskedFor, AsksForData
  <1>2. CASE Packets[s] > 0
    <2>1. Which[s] \in {\h100, \h200, \h2100, \h2200} /\ Count[s] \in Nat
      BY <1>2, Tables
    <2>2. kbd.config \in Nat /\ kbd.report \in Nat
      BY DEF TypeInv
    <2>3. Descriptor(Which[s]) \in Nat
      BY <2>1, <2>2, DescriptorKnown
    <2> QED BY <1>1, <2>1, <2>3 DEF Answer, AskedFor, AtMost
  <1> QED BY <1>1, <1>2

\* The keyboards that fit have data for every packet, and none that is too long.
LEMMA AnswerFits ==
    ASSUME TypeInv, Fits, current \in Requests, AskedFor(current), Packets[current] > 0
    PROVE  /\ 8 * (Packets[current] - 1) < Answer
           /\ AtMost(8, Answer - 8 * (Packets[current] - 1)) <= Last[current]
           /\ current \in {2, 9} => AtMost(8, Answer) = 8
           /\ current = 3 => Answer = 18
           /\ current = 4 => Answer = 9
           /\ current = 5 => Answer >= 33 /\ Answer <= 34
           /\ current = 10 => Answer >= 57 /\ Answer <= 59
  <1>1. Answer = AtMost(Count[current], Descriptor(Which[current]))
    BY DEF Answer, AskedFor
  <1>2. kbd.config \in 33 .. 34 /\ kbd.report \in 57 .. 59
    BY DEF Fits
  <1>3. current \in {2, 3, 4, 5, 9, 10}
    BY DEF Requests, Info, Packets
  <1> USE DEF Which, Count, Packets, Last, AtMost
  <1>4. CASE current = 2
    BY <1>1, <1>4, DescriptorKnown
  <1>5. CASE current = 3
    BY <1>1, <1>5, DescriptorKnown
  <1>6. CASE current = 4
    BY <1>1, <1>2, <1>6, DescriptorKnown
  <1>7. CASE current = 5
    BY <1>1, <1>2, <1>7, DescriptorKnown
  <1>8. CASE current = 9
    BY <1>1, <1>8, DescriptorKnown
  <1>9. CASE current = 10
    BY <1>1, <1>2, <1>9, DescriptorKnown
  <1> QED BY <1>3, <1>4, <1>5, <1>6, <1>7, <1>8, <1>9

LEMMA SameAnswer ==
    ASSUME kbd'.asked = kbd.asked, kbd'.config = kbd.config, kbd'.report = kbd.report
    PROVE  Answer' = Answer
  <1>1. \A w : Descriptor(w)' = Descriptor(w)
    BY Zenon DEF Descriptor
  <1> QED BY <1>1 DEF Answer, AtMost

-----------------------------------------------------------------------------
\* What InTurn says depends on the list that is executed, not on the step.
LEMMA SameTurn ==
    ASSUME InTurn, UNCHANGED <<mem, current, next, kbd, lost>>
    PROVE  InTurn'
  <1>1. Answer' = Answer
    BY SameAnswer
  <1>2. \A d : Given(d)' = Given(d)
    BY <1>1 DEF Given, AtMost
  <1>3. Going' <=> Going
    BY DEF Going, FirstDone, Fits
  <1> QED BY <1>2, <1>3, Zenon DEF InTurn, AskedFor

LEMMA ListsInit == Init => ListsInv
  <1> SUFFICES ASSUME Init PROVE ListsInv
    OBVIOUS
  <1>1. TypeInv
    <2>1. Unwritten \in Cell
      BY DEF Unwritten, Cell
    <2>2. kbd \in [address : {0}, asked : {<<0, 0, 0, 0>>}, sent : {0}, stage : {"idle"},
                   config : 9 .. 255, report : 8 .. 255]
      BY ListsAssumption DEF Init, NewKeyboard
    <2>3. <<0, 0, 0, 0>> \in [1 .. 4 -> Nat]
      OBVIOUS
    <2>4. kbd \in [address : {0, 2}, asked : [1 .. 4 -> Nat], sent : Nat,
                   stage : {"idle", "asked", "refused"}, config : 9 .. 255, report : 8 .. 255]
      BY <2>2, <2>3
    <2>5. kbd.stage # "asked"
      BY <2>2
    <2>6. written \in BOOLEAN
      BY Zenon DEF Init
    <2>7. step \in 1 .. Poll /\ current \in 0 .. Poll
      BY DEF Init, Poll
    <2>8. dataSize \in Cell /\ mem \in [Words -> Cell]
      BY <2>1 DEF Init
    <2> QED BY <2>4, <2>5, <2>6, <2>7, <2>8 DEF TypeInv
  <1>2. InOrder
    BY DEF Init, InOrder, InfoAt, Astray, Poll, Info
  <1> QED BY <1>1, <1>2 DEF Init, ListsInv, ListKept, Executing, Loaded, KeyKept, InTurn, Going,
                            FirstDone, Poll

LEMMA ControlPlace == \h508 \in Words /\ \h508 = Base + 2 * (5 - 1)
  <1>1. \h508 = Base + 2 * (5 - 1) /\ 5 \in 1 .. 96
    BY DEF Base
  <1> QED BY <1>1, WordPlaces

LEMMA KeyPlace == \h51E \in Words /\ \h51E = Base + 2 * (16 - 1)
  <1>1. \h51E = Base + 2 * (16 - 1) /\ 16 \in 1 .. 96
    BY DEF Base
  <1> QED BY <1>1, WordPlaces

\* A list that is written and not started has not worked.
LEMMA LoadedUndone ==
    ASSUME TypeInv, InOrder, Loaded, written, ~lost
    PROVE  ~FirstDone
  <1>1. step \in (1 .. Poll) \ {Info}
    BY DEF TypeInv, InOrder
  <1> DEFINE list == ListOf(step)
             l == Len(list)
  <1>2. l \in 6 .. 64 /\ list[5] = Retry
    BY <1>1, CurrentList
  <1>3. \A k \in 1 .. l : mem[Base + 2 * (k - 1)] = FromHost(list[k])
    BY DEF Loaded
  <1> HIDE DEF list, l
  <1>4. 5 \in 1 .. l
    BY <1>2
  <1>5. mem[\h508] = FromHost(\h13)
    BY <1>2, <1>3, <1>4, ControlPlace DEF Retry
  <1> QED BY <1>5 DEF FirstDone, FromHost

\* A list is written, the first time or again.
LEMMA NewList ==
    ASSUME ListsInv, step # Info, NEW o, o = odd', written' = TRUE, lost' = FALSE,
           mem' = Written(ListFor(step, dataSize, o), Base),
           UNCHANGED <<step, dataSize, current, next, kbd>>
    PROVE  ListsInv'
  <1> DEFINE list == ListFor(step, dataSize, o)
  <1>1. /\ TypeInv /\ InOrder /\ step \in (1 .. Poll) \ {Info} /\ dataSize \in Cell
        /\ mem \in [Words -> Cell]
    BY DEF ListsInv, TypeInv
  <1>2. /\ list \in Seq(Nat) /\ Len(list) \in 6 .. 64 /\ list[5] = Retry
        /\ step # Poll => step \in Requests /\ list = Enumeration[step]
        /\ step = Poll => Len(list) = 6
    BY <1>1, AnyList
  <1>l. Len(list) <= 64 /\ 5 \in 1 .. Len(list) /\ (step = Poll => \h51E >= Base + 2 * Len(list))
    <2> DEFINE l == Len(list)
    <2>1. l \in 6 .. 64 /\ (step = Poll => l = 6)
      BY <1>2
    <2> HIDE DEF l
    <2>2. l <= 64 /\ 5 \in 1 .. l /\ (step = Poll => \h51E >= Base + 2 * l)
      BY <2>1 DEF Base
    <2> QED BY <2>2 DEF l
  <1>3. ListOf(step)' = list
    BY DEF ListOf, ListFor
  <1>4. mem' = Written(list, Base)
    OBVIOUS
  <1> HIDE DEF list
  <1>5. /\ mem' \in [Words -> Cell]
        /\ \A k \in 1 .. Len(list) : mem'[Base + 2 * (k - 1)] = FromHost(list[k])
        /\ \A a \in Words : a >= Base + 2 * Len(list) => mem'[a] = mem[a]
    BY <1>1, <1>2, <1>l, <1>4, WrittenWords
  <1>6. TypeInv'
    BY <1>1, <1>5 DEF TypeInv, AskedFor
  <1>7. InOrder' /\ ListKept' /\ Loaded'
    BY <1>1, <1>3, <1>5 DEF InOrder, ListKept, Executing, Loaded
  <1>8. KeyKept'
    <2>1. CASE step = Poll
      <3>1. \h51E >= Base + 2 * Len(list)
        BY <1>l, <2>1
      <3>2. mem'[\h51E] = mem[\h51E]
        BY <1>5, <3>1, KeyPlace
      <3> QED BY <2>1, <3>2 DEF ListsInv, KeyKept, KeyWords
    <2>2. CASE step = 10
      <3>1. HasShape(list, 10) /\ 10 \in Requests
        BY <1>2, <2>2, ListShape DEF Poll
      <3>2. Packets[10] = 8 /\ Len(list) = 64
        BY <3>1 DEF HasShape, Packets
      <3>3. list[16] = \h520
        <4>1. UsbGetReportDesc[16] = \h520
          BY DEF UsbGetReportDesc, Request, Td, Retry
        <4>2. list = UsbGetReportDesc
          BY <1>2, <2>2 DEF Enumeration, Poll
        <4> QED BY <4>1, <4>2
      <3>4. mem'[Base + 2 * (16 - 1)] = FromHost(list[16])
        <4>1. 16 \in 1 .. Len(list)
          BY <3>2
        <4> QED BY <1>5, <4>1
      <3> QED BY <3>3, <3>4, KeyPlace DEF KeyKept, KeyWords
    <2>3. CASE step # Poll /\ step # 10
      BY <2>3 DEF KeyKept
    <2> QED BY <2>1, <2>2, <2>3
  <1>9. ~Going'
    <2>1. mem'[Base + 2 * (5 - 1)] = FromHost(Retry)
      BY <1>2, <1>l, <1>5
    <2>2. mem'[\h508] = FromHost(\h13)
      BY <2>1, ControlPlace DEF Retry
    <2> QED BY <2>2 DEF Going, FirstDone, FromHost
  <1> QED BY <1>6, <1>7, <1>8, <1>9 DEF ListsInv, InTurn

LEMMA LoadStep ==
    ASSUME ListsInv, LoadList \/ PollAgain
    PROVE  ListsInv'
  <1>1. CASE LoadList
    <2>1. mem' = Written(ListFor(step, dataSize, odd), Base) /\ odd' = odd
      BY <1>1 DEF LoadList, ListOf, ListFor
    <2> QED BY <1>1, <2>1, NewList DEF LoadList
  <1>2. CASE PollAgain
    <2>1. mem' = Written(ListFor(step, dataSize, ~odd), Base) /\ odd' = ~odd /\ step # Info
      BY <1>2 DEF PollAgain, ListFor, Poll, Info
    <2> QED BY <1>2, <2>1, NewList DEF PollAgain
  <1> QED BY <1>1, <1>2

\* The controller is told of a list: it is whole, or the controller has been at
\* work in between and goes astray.
LEMMA StartStep ==
    ASSUME ListsInv, StartList
    PROVE  ListsInv'
  <1>1. /\ TypeInv /\ InOrder /\ Loaded /\ KeyKept
        /\ written /\ written' = FALSE /\ current' = step
        /\ next' = (IF lost THEN Astray ELSE Base)
        /\ UNCHANGED <<step, odd, dataSize, mem, kbd, lost>>
    BY DEF ListsInv, StartList
  <1>2. step \in (1 .. Poll) \ {Info} /\ ~written'
    BY <1>1 DEF TypeInv, InOrder
  <1>3. TypeInv'
    <2>1. step \in 1 .. Poll /\ current' \in 0 .. Poll
      BY <1>1 DEF TypeInv, Poll
    <2>2. UNCHANGED <<step, dataSize, mem, kbd>> /\ written' \in BOOLEAN
      BY <1>1
    <2> QED BY <1>1, <2>1, <2>2 DEF TypeInv, AskedFor
  <1>4. InOrder'
    <2>1. next' = Astray \/ next' = Base
      BY <1>1
    <2>2. next' = Astray => lost'
      BY <1>1 DEF Astray, Base
    <2> QED BY <1>1, <1>2, <2>1, <2>2 DEF InOrder, Base, Astray, InfoAt
  <1>5. ListKept'
    <2> SUFFICES ASSUME Executing' PROVE ListKept'
      BY DEF ListKept
    <2>1. ~lost /\ next' = Base
      BY <1>1 DEF Executing
    <2>2. \A k \in 1 .. Len(ListOf(step)) : mem[Base + 2 * (k - 1)] = FromHost(ListOf(step)[k])
      BY <1>1, <2>1 DEF Loaded
    <2>3. ListOf(current)' = ListOf(step)
      BY <1>1 DEF ListOf
    <2>4. Base \in PlacesOf(step)
      <3>1. CASE step = Poll
        BY <3>1 DEF PlacesOf
      <3>2. CASE step # Poll
        <4>1. Packets[step] \in 0 .. 8
          BY <1>2, <3>2, Tables DEF Requests, Poll
        <4>2. 0 \in 0 .. Packets[step] + 1 /\ At(0) = Base
          BY <4>1 DEF At
        <4> QED BY <3>2, <4>2 DEF PlacesOf
      <3> QED BY <3>1, <3>2
    <2>5. PlacesOf(current)' = PlacesOf(step)
      BY <1>1 DEF PlacesOf
    <2> QED BY <1>1, <2>1, <2>2, <2>3, <2>4, <2>5 DEF ListKept
  <1>6. Loaded' /\ KeyKept'
    BY <1>1, <1>2 DEF Loaded, KeyKept, KeyWords
  <1>7. ~Going'
    <2>1. CASE lost
      BY <1>1, <2>1 DEF Going
    <2>2. CASE ~lost
      <3>1. mem[\h508] # FromHost(\h03)
        <4> DEFINE list == ListOf(step)
                   l == Len(list)
        <4>1. l \in 6 .. 64 /\ list[5] = Retry
          BY <1>1, <1>2, CurrentList
        <4>2. \A k \in 1 .. l : mem[Base + 2 * (k - 1)] = FromHost(list[k])
          BY <1>1, <2>2 DEF Loaded
        <4> HIDE DEF list, l
        <4>3. 5 \in 1 .. l
          BY <4>1
        <4>4. mem[\h508] = FromHost(\h13)
          BY <4>1, <4>2, <4>3, ControlPlace DEF Retry
        <4> QED BY <4>4 DEF FromHost
      <3> QED BY <1>1, <3>1 DEF Going, FirstDone
    <2> QED BY <2>1, <2>2
  <1> QED BY <1>3, <1>4, <1>5, <1>6, <1>7 DEF ListsInv, InTurn

\* The five words are written over no list that the controller has still to execute.
LEMMA DeviceInfoStep ==
    ASSUME ListsInv, DeviceInfo
    PROVE  ListsInv'
  <1>1. /\ TypeInv /\ InOrder /\ step = Info /\ step \in 1 .. 10 /\ step # 10 /\ ~written
        /\ mem' = Written(InfoList, InfoAt) /\ current' = Info /\ next' = InfoAt
        /\ UNCHANGED <<step, written, odd, dataSize, kbd, lost>>
    BY DEF ListsInv, DeviceInfo, InOrder, Info
  <1>2. mem' \in [Words -> Cell]
    <2>1. /\ Len(InfoList) = 5
          /\ \A j \in 1 .. 5 : InfoList[j] \in Nat
      BY DEF InfoList
    <2>2. ASSUME NEW a \in Words, a >= InfoAt, a < InfoAt + 2 * Len(InfoList)
          PROVE  InfoList[(a - InfoAt) \div 2 + 1] \in Nat
      <3>1. PICK k \in 1 .. 96 : a = Base + 2 * (k - 1)
        BY WordPlaces
      <3>2. k - 59 \in 1 .. 5 /\ (a - InfoAt) \div 2 + 1 = k - 59
        BY <2>1, <2>2, <3>1 DEF Base, InfoAt
      <3>3. InfoList[k - 59] \in Nat
        BY <2>1, <3>2
      <3> QED BY <3>2, <3>3
    <2>3. \A w \in Nat : FromHost(w) \in Cell
      BY DEF FromHost, Cell
    <2>4. mem \in [Words -> Cell]
      BY <1>1 DEF TypeInv
    <2>5. ASSUME NEW a \in Words
          PROVE  (IF a >= InfoAt /\ a < InfoAt + 2 * Len(InfoList)
                  THEN FromHost(InfoList[(a - InfoAt) \div 2 + 1]) ELSE mem[a]) \in Cell
      BY <2>2, <2>3, <2>4
    <2> QED BY <1>1, <2>5 DEF Written
  <1>3. TypeInv'
    BY <1>1, <1>2 DEF TypeInv, AskedFor, Poll, Info
  <1>4. InOrder'
    BY <1>1 DEF InOrder, Poll, Info, InfoAt, Astray
  <1> QED BY <1>1, <1>3, <1>4
          DEF ListsInv, ListKept, Executing, Loaded, KeyKept, InTurn, Going, FirstDone, Info, Poll

LEMMA ProgramStep ==
    ASSUME ListsInv, Program
    PROVE  ListsInv'
  <1>t. TypeInv /\ InOrder
    BY DEF ListsInv
  <1>1. CASE NextStep
    <2>1. /\ ~written /\ ~written' /\ step' = step + 1 /\ step \in 1 .. 10 /\ current = step
          /\ UNCHANGED <<written, odd, dataSize, mem, current, next, kbd, lost>>
      BY <1>t, <1>1 DEF NextStep, TypeInv, Poll
    <2>2. TypeInv'
      BY <1>t, <2>1 DEF TypeInv, AskedFor, Poll
    <2>3. InOrder'
      BY <1>t, <2>1 DEF InOrder, Poll
    <2>4. KeyKept' /\ Loaded'
      BY <2>1 DEF ListsInv, KeyKept, KeyWords, Loaded, Poll
    <2>5. ListKept'
      BY <2>1 DEF ListsInv, ListKept, Executing, ListOf, PlacesOf
    <2>6. InTurn'
      BY <2>1, SameTurn DEF ListsInv
    <2> QED BY <2>2, <2>3, <2>4, <2>5, <2>6 DEF ListsInv
  <1>2. CASE ReadSize
    <2>1. /\ step = 6 /\ step' = 7 /\ current = Info /\ dataSize' = mem[\h57C] /\ ~written /\ ~written'
          /\ UNCHANGED <<written, odd, mem, current, next, kbd, lost>>
      BY <1>t, <1>2 DEF ReadSize, InOrder, Info
    <2>2. dataSize' \in Cell
      <3>1. \h57C = Base + 2 * (63 - 1) /\ 63 \in 1 .. 96
        BY DEF Base
      <3>2. \h57C \in Words
        BY <3>1, WordPlaces
      <3> QED BY <1>t, <2>1, <3>2 DEF TypeInv
    <2>3. TypeInv'
      BY <1>t, <2>1, <2>2 DEF TypeInv, AskedFor, Poll
    <2>4. InOrder'
      BY <1>t, <2>1 DEF InOrder, Poll, Info
    <2>5. ~Executing'
      BY <1>t, <2>1 DEF InOrder, Executing, Info, Poll
    <2> QED BY <2>1, <2>3, <2>4, <2>5
            DEF ListsInv, ListKept, Loaded, KeyKept, InTurn, Going, FirstDone, Poll
  <1>3. CASE HotPlug
    <2>1. /\ step' = 1 /\ ~written' /\ written' = written /\ kbd' \in NewKeyboard
          /\ next' = 0 /\ current' = 0
          /\ UNCHANGED <<dataSize, mem>>
      BY <1>3 DEF HotPlug
    <2>2. kbd' \in [address : {0}, asked : {<<0, 0, 0, 0>>}, sent : {0}, stage : {"idle"},
                    config : 9 .. 255, report : 8 .. 255]
      BY <2>1, ListsAssumption DEF NewKeyboard
    <2>3. <<0, 0, 0, 0>> \in [1 .. 4 -> Nat]
      OBVIOUS
    <2>4. TypeInv'
      BY <1>t, <2>1, <2>2, <2>3 DEF TypeInv, Poll, Info
    <2>5. InOrder'
      BY <2>1 DEF InOrder, InfoAt, Astray, Poll, Info
    <2> QED BY <2>1, <2>4, <2>5
            DEF ListsInv, ListKept, Executing, Loaded, KeyKept, InTurn, Going, FirstDone, Poll
  <1> QED BY <1>1, <1>2, <1>3, LoadStep, StartStep, DeviceInfoStep DEF Program
-----------------------------------------------------------------------------
(* The controller stores nothing over the list that it executes. *)

\* Where a descriptor of the current list leads, and where its packet goes.
LEMMA WherePlace ==
    ASSUME TypeInv, InOrder, ListKept, Executing
    PROVE  /\ Field(5) # Base /\ (Field(5) # 0 => Field(5) \in PlacesOf(current))
           /\ Pid \in {\hD0, \h90, \h10, \h91} /\ Buffer \in Nat
           /\ Pid = \hD0 => current \in Requests /\ SetupHere
           /\ Pid = \h91 => current = Poll /\ ReportHere
           /\ Pid = \h10 => current \in Requests /\ StatusHere /\ next # Base
           /\ Pid = \h90 => current \in Requests /\ next # Base
  <1>1. ASSUME current \in Requests, NEW d \in 0 .. Packets[current] + 1
        PROVE  At(d) \in PlacesOf(current) /\ (d > 0 => At(d) # Base) /\ At(d) # 0
    <2>1. Packets[current] \in 0 .. 8 /\ current # Poll
      BY <1>1, Tables DEF Requests, Poll
    <2> QED BY <1>1, <2>1 DEF PlacesOf, At, Base
  <1>2. CASE current \in Requests /\ SetupHere
    <2>1. Packets[current] \in 0 .. 8
      BY <1>2, Tables
    <2>2. 1 \in 0 .. Packets[current] + 1
      BY <2>1
    <2>3. Field(5) = At(1) /\ Pid = \hD0 /\ Buffer = \h50C
      BY <1>2 DEF SetupHere
    <2> QED BY <1>1, <1>2, <2>2, <2>3
  <1>3. CASE current \in Requests /\ \E d \in 1 .. Packets[current] : DataHere(d)
    <2>1. PICK d \in 1 .. Packets[current] : DataHere(d)
      BY <1>3
    <2>2. /\ Field(5) = At(d + 1) /\ Pid = \h90 /\ next = At(d) /\ Buffer = Buffers[current] + 8 * (d - 1)
      BY <2>1 DEF DataHere
    <2>3. Packets[current] \in 0 .. 8 /\ Buffers[current] \in Nat
      BY <1>3, Tables
    <2>4. d + 1 \in 0 .. Packets[current] + 1 /\ d \in 0 .. Packets[current] + 1 /\ d > 0 /\ d + 1 > 0
          /\ Buffers[current] + 8 * (d - 1) \in Nat
      BY <2>3
    <2>5. At(d + 1) \in PlacesOf(current) /\ At(d + 1) # Base /\ At(d) # Base
      BY <1>1, <1>3, <2>4
    <2> QED BY <1>3, <2>2, <2>4, <2>5
  <1>4. CASE current \in Requests /\ StatusHere
    <2>1. Field(5) = 0 /\ Pid \in {\h10, \h90} /\ Buffer = 0 /\ next = At(Packets[current] + 1)
      BY <1>4 DEF StatusHere, StatusIn
    <2>2. Packets[current] \in 0 .. 8
      BY <1>4, Tables
    <2>3. Packets[current] + 1 \in 0 .. Packets[current] + 1 /\ Packets[current] + 1 > 0
      BY <2>2
    <2>4. next # Base
      BY <1>1, <1>4, <2>1, <2>3
    <2> QED BY <1>4, <2>1, <2>4 DEF Base
  <1>5. CASE current = Poll /\ ReportHere
    BY <1>5 DEF ReportHere, Base
  <1> QED BY <1>2, <1>3, <1>4, <1>5, Here

LEMMA WhereNext ==
    ASSUME TypeInv, InOrder, ListKept, Executing
    PROVE  /\ Field(5) # Base /\ (Field(5) # 0 => Field(5) \in PlacesOf(current))
           /\ Field(5) \notin {InfoAt, Astray}
           /\ Pid \in {\hD0, \h90, \h10, \h91} /\ Buffer \in Nat
           /\ Pid = \hD0 => current \in Requests /\ SetupHere
           /\ Pid = \h91 => current = Poll /\ ReportHere
           /\ Pid = \h10 => current \in Requests /\ StatusHere /\ next # Base
           /\ Pid = \h90 => current \in Requests /\ next # Base
  <1>1. Field(5) # 0 => Field(5) \in PlacesOf(current)
    BY WherePlace
  <1>2. current \in (1 .. Poll) \ {Info}
    BY DEF InOrder, Executing
  <1>3. Field(5) \notin {InfoAt, Astray}
    <2>1. CASE Field(5) = 0
      BY <2>1 DEF InfoAt, Astray
    <2>2. CASE Field(5) # 0
      BY <1>1, <1>2, <2>2, Places
    <2> QED BY <2>1, <2>2
  <1> QED BY <1>3, WherePlace

\* A step that changes memory only behind the list, and the control byte.
LEMMA BehindList ==
    ASSUME ListsInv, Executing, NEW memory \in [Words -> Cell], NEW control \in Nat,
           mem' = Marked(memory, control),
           \A a \in Words : a < Base + 2 * Len(ListOf(current)) => memory[a] = mem[a],
           next' \in {0, Field(5)}, UNCHANGED <<step, written, odd, dataSize, current>>
    PROVE  /\ InOrder' /\ ListKept' /\ Loaded' /\ mem' \in [Words -> Cell]
           /\ current # Poll => KeyKept'
           /\ next # Base => mem' = memory /\ mem'[\h508] = mem[\h508]
  <1> DEFINE list == ListOf(current)
  <1>0. TypeInv /\ InOrder /\ ListKept /\ ~written /\ current \in (1 .. Poll) \ {Info}
    BY DEF ListsInv, InOrder, Executing
  <1>1. /\ Len(list) \in 6 .. 64
        /\ ListOf(current)' = list /\ PlacesOf(current)' = PlacesOf(current)
    BY <1>0, CurrentList DEF ListOf, PlacesOf
  <1>2. /\ mem' \in [Words -> Cell]
        /\ \A a \in Words : (a # \h508 \/ next # Base) => mem'[a] = memory[a]
    BY MarkedWords
  <1>3. /\ next' # Base /\ (next' # 0 => next' \in PlacesOf(current))
        /\ next' \notin {InfoAt, Astray}
    BY <1>0, WhereNext DEF Base, InfoAt, Astray
  <1>4. \A a \in Words : a < Base + 2 * Len(list) => memory[a] = mem[a]
    OBVIOUS
  <1>5. \A k \in 1 .. Len(list) :
           (k # 5 \/ next = Base) => mem[Base + 2 * (k - 1)] = FromHost(list[k])
    BY <1>0 DEF ListKept
  <1> HIDE DEF list
  <1>6. ASSUME NEW k \in 1 .. Len(list), k # 5
        PROVE  mem'[Base + 2 * (k - 1)] = FromHost(list[k])
    <2> DEFINE l == Len(list)
    <2>1. l \in 6 .. 64 /\ k \in 1 .. l
      BY <1>1
    <2> HIDE DEF l
    <2>2. /\ k \in 1 .. 96 /\ Base + 2 * (k - 1) # \h508 /\ Base + 2 * (k - 1) < Base + 2 * l
      BY <1>6, <2>1 DEF Base
    <2>3. Base + 2 * (k - 1) \in Words
      <3>1. k - 1 \in 0 .. 95
        BY <2>2
      <3> QED BY <3>1 DEF Words
    <2>4. mem'[Base + 2 * (k - 1)] = mem[Base + 2 * (k - 1)]
      BY <1>2, <1>4, <2>2, <2>3 DEF l
    <2> QED BY <1>5, <1>6, <2>4
  <1>7. InOrder' /\ ListKept' /\ Loaded'
    <2>1. ListKept'
      BY <1>1, <1>3, <1>6 DEF ListKept, Executing
    <2>2. InOrder' /\ Loaded'
      BY <1>0, <1>3 DEF InOrder, Loaded
    <2> QED BY <2>1, <2>2
  <1>8. ASSUME current # Poll PROVE KeyKept'
    <2>1. CASE current = 10 /\ step \in {10, Poll}
      <3>1. 10 \in Requests /\ Packets[10] = 8
        BY DEF Requests, Info, Packets
      <3>2. Len(list) = 64
        <4>1. current \in Requests
          BY <2>1, <3>1
        <4>2. Len(ListOf(current)) = 16 + 6 * Packets[current]
          BY <1>0, <4>1, CurrentList
        <4>3. Packets[current] = 8
          BY <2>1, <3>1
        <4> QED BY <4>2, <4>3 DEF list
      <3>3. \h51E = Base + 2 * (16 - 1) /\ 16 \in 1 .. 96 /\ \h51E < Base + 2 * Len(list)
        BY <3>2 DEF Base
      <3>4. \h51E \in Words
        BY <3>3, WordPlaces
      <3>5. memory[\h51E] = mem[\h51E]
        BY <1>4, <3>3, <3>4
      <3>6. mem'[\h51E] = mem[\h51E]
        BY <1>2, <3>4, <3>5
      <3> QED BY <2>1, <3>6 DEF ListsInv, KeyKept
    <2>2. CASE ~(current = 10 /\ step \in {10, Poll})
      BY <1>0, <1>8, <2>2 DEF KeyKept, InOrder
    <2> QED BY <2>1, <2>2
  <1>9. ASSUME next # Base PROVE mem' = memory /\ mem'[\h508] = mem[\h508]
    <2>1. \h508 = Base + 2 * (5 - 1) /\ 5 \in 1 .. 96 /\ 5 < 6
      BY DEF Base
    <2>2. \h508 \in Words
      BY <2>1, WordPlaces
    <2>3. \h508 < Base + 2 * Len(list)
      <3> DEFINE l == Len(list)
      <3>1. l \in 6 .. 64
        BY <1>1
      <3> HIDE DEF l
      <3>2. \h508 < Base + 2 * l
        BY <3>1 DEF Base
      <3> QED BY <3>2 DEF l
    <2>4. memory[\h508] = mem[\h508]
      BY <1>4, <2>2, <2>3
    <2> QED BY <1>9, <2>4 DEF Marked
  <1> QED BY <1>0, <1>2, <1>7, <1>8, <1>9

\* A step of the controller that fails, or loses a packet.
LEMMA Unstored ==
    ASSUME ListsInv, Executing, NEW control \in Nat, mem' = Marked(mem, control),
           next' \in {0, Field(5)}, UNCHANGED <<step, written, odd, dataSize, current>>
    PROVE  /\ InOrder' /\ ListKept' /\ Loaded' /\ mem' \in [Words -> Cell]
           /\ KeyKept'
           /\ next # Base => mem' = mem
  <1>1. mem \in [Words -> Cell]
    BY DEF ListsInv, TypeInv
  <1>2. /\ InOrder' /\ ListKept' /\ Loaded' /\ mem' \in [Words -> Cell]
        /\ current # Poll => KeyKept'
        /\ next # Base => mem' = mem
    BY <1>1, BehindList
  <1>3. CASE current = Poll
    <2>1. \h51E = Base + 2 * (16 - 1) /\ 16 \in 1 .. 96
      BY DEF Base
    <2>2. \h51E \in Words
      BY <2>1, WordPlaces
    <2>3. mem'[\h51E] = mem[\h51E]
      BY <1>1, <2>2, MarkedWords
    <2>4. KeyKept /\ step = Poll
      BY <1>3 DEF ListsInv, InOrder
    <2>5. mem[\h51E] \in KeyWords
      BY <2>4 DEF KeyKept
    <2>6. mem'[\h51E] \in KeyWords
      BY <2>3, <2>5
    <2>7. KeyKept'
      BY <2>6 DEF KeyKept, KeyWords
    <2> QED BY <1>2, <2>7
  <1> QED BY <1>2, <1>3

LEMMA LoseStep ==
    ASSUME ListsInv, Lose
    PROVE  ListsInv'
  <1>1. /\ Executing /\ mem' = Marked(mem, 0) /\ next' \in {0, Field(5)}
        /\ UNCHANGED <<step, written, odd, dataSize, current>> /\ kbd' = kbd /\ lost' = TRUE
    BY DEF Lose, Failed
  <1>2. InOrder' /\ ListKept' /\ Loaded' /\ mem' \in [Words -> Cell] /\ KeyKept'
    BY <1>1, Unstored
  <1>3. TypeInv'
    BY <1>1, <1>2 DEF ListsInv, TypeInv, AskedFor
  <1> QED BY <1>1, <1>2, <1>3 DEF ListsInv, InTurn, Going

LEMMA SetupStep ==
    ASSUME ListsInv, Setup
    PROVE  ListsInv'
  <1>1. /\ Executing /\ Pid = \hD0 /\ Device = kbd.address /\ mem' = Marked(mem, 3) /\ next' = Field(5)
        /\ UNCHANGED <<step, written, odd, dataSize, current, lost>>
        /\ kbd' = [kbd EXCEPT !.asked = [i \in 1 .. 4 |-> mem[Buffer + 2 * (i - 1)].v],
                              !.sent = 0, !.stage = "asked"]
    BY DEF Setup, Done
  <1>2. TypeInv /\ InOrder /\ ListKept
    BY DEF ListsInv
  <1>3. /\ current \in Requests /\ next = Base /\ Device = AddressIn(current) /\ Buffer = \h50C
        /\ Field(5) = At(1)
    BY <1>1, <1>2, WhereNext DEF SetupHere
  <1>4. InOrder' /\ ListKept' /\ Loaded' /\ mem' \in [Words -> Cell] /\ KeyKept'
    BY <1>1, Unstored
  <1>5. /\ kbd' \in [address : {0, 2}, asked : [1 .. 4 -> Nat], sent : Nat,
                     stage : {"idle", "asked", "refused"}, config : 9 .. 255, report : 8 .. 255]
        /\ kbd'.asked = [i \in 1 .. 4 |-> mem[Buffer + 2 * (i - 1)].v]
        /\ kbd'.sent = 0 /\ kbd'.stage = "asked" /\ kbd'.address = kbd.address
    <2>1. ASSUME NEW i \in 1 .. 4 PROVE mem[Buffer + 2 * (i - 1)].v \in Nat
      <3>1. Buffer + 2 * (i - 1) = Base + 2 * ((i + 6) - 1) /\ i + 6 \in 1 .. 96
        BY <1>3 DEF Base
      <3>2. Buffer + 2 * (i - 1) \in Words
        BY <3>1, WordPlaces
      <3> QED BY <1>2, <3>2 DEF TypeInv, Cell
    <2> DEFINE g == [i \in 1 .. 4 |-> mem[Buffer + 2 * (i - 1)].v]
    <2>2. g \in [1 .. 4 -> Nat]
      BY <2>1
    <2>3. kbd' = [kbd EXCEPT !.asked = g, !.sent = 0, !.stage = "asked"]
      BY <1>1
    <2> HIDE DEF g
    <2>4. /\ kbd' \in [address : {0, 2}, asked : [1 .. 4 -> Nat], sent : Nat,
                       stage : {"idle", "asked", "refused"}, config : 9 .. 255, report : 8 .. 255]
          /\ kbd'.asked = g /\ kbd'.sent = 0 /\ kbd'.stage = "asked" /\ kbd'.address = kbd.address
      BY <1>2, <2>2, <2>3 DEF TypeInv
    <2> QED BY <2>4 DEF g
  <1>6. AskedFor(current)'
    <2> DEFINE list == Enumeration[current]
    <2>1. /\ list[7] = First[current] /\ list[8] = Which[current] /\ list[10] = Count[current]
          /\ Len(list) = 16 + 6 * Packets[current] /\ Packets[current] \in 0 .. 8
      BY <1>3, ListShape, Tables DEF HasShape
    <2>2. current \in (1 .. Poll) \ {Info} /\ current # Poll
      BY <1>3 DEF Requests, Info, Poll
    <2>3. ListOf(current) = list
      BY <1>2, <2>2, CurrentList
    <2> HIDE DEF list
    <2>4. 7 \in 1 .. Len(list) /\ 8 \in 1 .. Len(list) /\ 10 \in 1 .. Len(list)
      BY <2>1
    <2>5. \A k \in 1 .. Len(list) : mem[Base + 2 * (k - 1)] = FromHost(list[k])
      BY <1>1, <1>2, <1>3, <2>3 DEF ListKept
    <2>6. /\ mem[Base + 2 * (7 - 1)] = FromHost(list[7]) /\ mem[Base + 2 * (8 - 1)] = FromHost(list[8])
          /\ mem[Base + 2 * (10 - 1)] = FromHost(list[10])
      BY <2>4, <2>5
    <2>7. /\ kbd'.asked[1] = mem[Buffer + 2 * (1 - 1)].v /\ kbd'.asked[2] = mem[Buffer + 2 * (2 - 1)].v
          /\ kbd'.asked[4] = mem[Buffer + 2 * (4 - 1)].v
      BY <1>5
    <2>8. kbd'.asked[1] = list[7] /\ kbd'.asked[2] = list[8] /\ kbd'.asked[4] = list[10]
      BY <1>3, <2>6, <2>7 DEF FromHost, Base
    <2> QED BY <1>1, <2>1, <2>8 DEF AskedFor
  <1>7. TypeInv'
    <2>1. \E s \in Requests : AskedFor(s)'
      BY <1>1, <1>3, <1>6 DEF AskedFor
    <2>2. dataSize \in Cell /\ UNCHANGED <<step, written, current>>
      BY <1>1, <1>2 DEF TypeInv
    <2> QED BY <1>1, <1>2, <1>4, <1>5, <2>1, <2>2 DEF TypeInv
  <1>8. InTurn'
    <2>1. next' = At(1) /\ next' # 0
      BY <1>1, <1>3 DEF At
    <2>2. ASSUME NEW d \in 1 .. Packets[current] + 1, next' = At(d)
          PROVE  d = 1
      <3>1. Packets[current] \in 0 .. 8
        BY <1>3, Tables
      <3> QED BY <2>1, <2>2, <3>1 DEF At
    <2>3. Given(1 - 1)' = 0
      BY DEF Given
    <2>4. AddressIn(current)' = kbd'.address
      BY <1>1, <1>3, <1>5 DEF AddressIn
    <2>5. ASSUME NEW d \in 1 .. Packets[current'] + 1, next' = At(d)
          PROVE  /\ kbd'.stage = "asked" /\ kbd'.address = AddressIn(current') /\ kbd'.sent = Given(d - 1)'
      <3>1. d = 1
        BY <1>1, <2>2, <2>5
      <3> QED BY <1>5, <2>3, <2>4, <3>1
    <2>6. \A i \in Nat : ~(2 * i < kbd'.sent)
      BY <1>5
    <2> QED BY <1>6, <2>1, <2>5, <2>6 DEF InTurn
  <1> QED BY <1>4, <1>7, <1>8 DEF ListsInv

\* A data packet goes to its buffer, behind the ones before it.
LEMMA DataStep ==
    ASSUME ListsInv, Data
    PROVE  ListsInv'
  <1> DEFINE p == Packets[current]
             b == Buffers[current]
             r == Packet
             memory == Stored(kbd.asked[2], kbd.sent, Packet)
  <1>1. /\ Executing /\ Pid = \h90 /\ kbd.stage = "asked" /\ AsksForData /\ kbd.sent < Answer
        /\ r <= Length /\ mem' = Marked(memory, 3) /\ next' = Field(5)
        /\ UNCHANGED <<step, written, odd, dataSize, current, lost>>
        /\ kbd' = [kbd EXCEPT !.sent = @ + r]
    BY DEF Data, DataExpected, Done
  <1>2. TypeInv /\ InOrder /\ ListKept /\ mem \in [Words -> Cell] /\ kbd.sent \in Nat /\ kbd.asked[2] \in Nat
    BY DEF ListsInv, TypeInv
  <1>3. Answer \in Nat
    <2>1. PICK s \in Requests : AskedFor(s)
      BY <1>1, <1>2 DEF TypeInv
    <2> QED BY <1>1, <1>2, <2>1, AnswerKnown
  <1>4. r = AtMost(8, Answer - kbd.sent) /\ r \in Nat /\ r >= 1
    BY <1>1, <1>2, <1>3 DEF Packet, AtMost
  <1>5. /\ current \in Requests /\ next # Base /\ \E d \in 1 .. p : DataHere(d)
    <2>1. ~StatusHere
      BY <1>1, <1>4 DEF StatusHere
    <2>2. ~SetupHere /\ ~ReportHere
      BY <1>1 DEF SetupHere, ReportHere
    <2> QED BY <1>1, <1>2, <2>1, <2>2, Here, WhereNext
  <1>6. PICK d \in 1 .. p : DataHere(d)
    BY <1>5
  <1>7. /\ next = At(d) /\ Buffer = b + 8 * (d - 1) /\ next' = At(d + 1)
    BY <1>1, <1>6 DEF DataHere
  <1>8. /\ p \in 1 .. 8 /\ b \in Nat /\ b >= \h520 + 12 * p /\ b + 8 * p <= \h5C0 /\ b % 2 = 0
        /\ d \in 1 .. p
    BY <1>5, <1>6, Tables
  <1>9. Buffer \in Nat
    <2>1. b + 8 * (d - 1) \in Nat
      BY <1>8
    <2> QED BY <1>7, <2>1
  <1>p. Packet \in Int
    BY <1>4
  <1>10. /\ memory \in [Words -> Cell]
         /\ \A a \in Words : (a < Buffer \/ a >= Buffer + r) => memory[a] = mem[a]
         /\ \A a \in Words : a >= Buffer /\ a < Buffer + r
               => memory[a] = FromKeyboard(kbd.asked[2], kbd.sent + a - Buffer)
    <2> HIDE DEF p, b
    <2> QED BY <1>2, <1>9, <1>p, StoredWords
  <1> HIDE DEF p, b, r, memory
  <1>11. /\ InOrder' /\ ListKept' /\ Loaded' /\ mem' = memory /\ mem'[\h508] = mem[\h508] /\ KeyKept'
    <2>1. Len(ListOf(current)) = 16 + 6 * p
      <3>1. current \in (1 .. Poll) \ {Info}
        BY <1>5 DEF Requests, Poll
      <3> QED BY <1>2, <1>5, <3>1, CurrentList DEF p
    <2>2. Base + 2 * (16 + 6 * p) <= Buffer
      BY <1>7, <1>8 DEF Base
    <2>3. ASSUME NEW a \in Words, a < Base + 2 * Len(ListOf(current)) PROVE memory[a] = mem[a]
      <3>1. a \in Nat /\ a < Base + 2 * (16 + 6 * p)
        BY <2>1, <2>3, WordPlaces
      <3>2. a < Buffer
        BY <1>8, <1>9, <2>2, <3>1 DEF Base
      <3> QED BY <1>10, <3>2
    <2>4. current # Poll
      BY <1>5 DEF Requests, Poll
    <2> QED BY <1>1, <1>5, <1>10, <2>3, <2>4, BehindList
  <1>12. /\ kbd' \in [address : {0, 2}, asked : [1 .. 4 -> Nat], sent : Nat,
                      stage : {"idle", "asked", "refused"}, config : 9 .. 255, report : 8 .. 255]
         /\ kbd'.sent = kbd.sent + r /\ kbd'.asked = kbd.asked /\ kbd'.stage = kbd.stage
         /\ kbd'.address = kbd.address /\ kbd'.config = kbd.config /\ kbd'.report = kbd.report
    <2>1. kbd.sent + r \in Nat
      BY <1>2, <1>4
    <2> QED BY <1>1, <1>2, <2>1 DEF TypeInv
  <1>13. TypeInv'
    <2>1. \E s \in Requests : AskedFor(s)'
      BY <1>1, <1>2, <1>12 DEF TypeInv, AskedFor
    <2>2. dataSize \in Cell /\ UNCHANGED <<step, written, current>>
      BY <1>1, <1>2 DEF TypeInv
    <2> QED BY <1>1, <1>2, <1>10, <1>11, <1>12, <2>1, <2>2 DEF TypeInv
  <1>14. InTurn'
    <2> SUFFICES ASSUME Going' PROVE InTurn'
      BY DEF InTurn
    <2>1. Going
      BY <1>1, <1>11, <1>12 DEF Going, FirstDone, Fits
    <2>2. /\ AskedFor(current) /\ kbd.address = AddressIn(current) /\ kbd.sent = Given(d - 1)
          /\ \A i \in Nat : 2 * i < kbd.sent => mem[b + 2 * i] = FromKeyboard(Which[current], 2 * i)
      <3>1. d \in 1 .. Packets[current] + 1
        BY <1>8 DEF p
      <3> QED BY <1>7, <2>1, <3>1 DEF ListsInv, InTurn, b
    <2>3. kbd.sent = 8 * (d - 1)
      <3>1. d - 1 = 0 \/ (d - 1 \in Nat /\ d - 1 # 0)
        BY <1>8
      <3>2. CASE d - 1 = 0
        BY <2>2, <3>2 DEF Given
      <3>3. CASE d - 1 \in Nat /\ d - 1 # 0
        <4>1. Packets[current] # 0
          BY <1>8 DEF p
        <4>2. kbd.sent = AtMost(8 * (d - 1), Answer)
          BY <2>2, <3>3, <4>1 DEF Given
        <4>3. 8 * (d - 1) \in Nat
          BY <3>3
        <4> QED BY <1>1, <1>2, <1>3, <4>2, <4>3 DEF AtMost
      <3> QED BY <3>1, <3>2, <3>3
    <2>4. kbd'.sent = AtMost(8 * d, Answer)
      BY <1>3, <1>4, <1>8, <1>12, <2>3 DEF AtMost
    <2>5. Given(d)' = kbd'.sent
      <3>1. Answer' = Answer
        BY <1>12, SameAnswer
      <3>2. d # 0 /\ Packets[current]' # 0
        BY <1>1, <1>8 DEF p
      <3> QED BY <2>4, <3>1, <3>2 DEF Given, AtMost
    <2>6. ASSUME NEW e \in 1 .. Packets[current'] + 1, next' = At(e)
          PROVE  /\ kbd'.stage = "asked" /\ kbd'.address = AddressIn(current') /\ kbd'.sent = Given(e - 1)'
      <3>1. e = d + 1
        <4>1. e \in 1 .. p + 1 /\ At(e) = At(d + 1)
          BY <1>1, <1>7, <2>6 DEF p
        <4>2. e # 0 /\ d + 1 # 0 /\ e \in Int /\ d \in Int
          BY <1>8, <4>1
        <4>3. \h514 + 12 * (e - 1) = \h514 + 12 * ((d + 1) - 1)
          BY <4>1, <4>2 DEF At
        <4> QED BY <4>2, <4>3
      <3>2. e - 1 = d
        BY <1>8, <3>1
      <3>3. AddressIn(current') = AddressIn(current)
        BY <1>1
      <3> QED BY <1>1, <1>12, <2>2, <2>5, <3>2, <3>3
    <2>7. next' # 0
      BY <1>7, <1>8 DEF At
    <2>8. ASSUME NEW i \in Nat, 2 * i < kbd'.sent
          PROVE  mem'[b + 2 * i] = FromKeyboard(Which[current], 2 * i)
      <3> DEFINE a == b + 2 * i
      <3>1. a \in Words
        <4>1. 2 * i < 8 * p
          BY <1>3, <1>8, <2>4, <2>8 DEF AtMost
        <4>2. PICK c \in Nat : b = 2 * c
          <5>1. b \div 2 \in Nat /\ b = 2 * (b \div 2)
            BY <1>8
          <5> QED BY <5>1
        <4>3. c + i - 640 \in 0 .. 95 /\ a = Base + 2 * (c + i - 640)
          BY <1>8, <4>1, <4>2 DEF Base
        <4> QED BY <4>3 DEF Words
      <3>2. CASE 2 * i < kbd.sent
        <4>1. a < Buffer
          BY <1>7, <1>8, <2>3, <3>2
        <4>2. memory[a] = mem[a]
          BY <1>10, <3>1, <4>1
        <4>3. mem[b + 2 * i] = FromKeyboard(Which[current], 2 * i)
          BY <2>2, <3>2
        <4> QED BY <1>11, <4>2, <4>3
      <3>3. CASE 2 * i >= kbd.sent
        <4>1. /\ a >= Buffer /\ a < Buffer + r /\ kbd.sent + a - Buffer = 2 * i
          BY <1>4, <1>7, <1>8, <1>12, <2>3, <2>8, <3>3
        <4> HIDE DEF a
        <4>2. memory[a] = FromKeyboard(kbd.asked[2], 2 * i)
          BY <1>10, <3>1, <4>1
        <4>3. kbd.asked[2] = Which[current]
          BY <2>2 DEF AskedFor
        <4>4. mem'[a] = FromKeyboard(Which[current], 2 * i)
          BY <1>11, <4>2, <4>3
        <4> QED BY <4>4 DEF a
      <3>4. 2 * i < kbd.sent \/ 2 * i >= kbd.sent
        BY <1>2
      <3> QED BY <3>2, <3>3, <3>4
    <2>9. AskedFor(current)'
      BY <1>1, <1>12, <2>2 DEF AskedFor
    <2> QED BY <1>1, <2>6, <2>7, <2>8, <2>9 DEF InTurn, b
  <1> QED BY <1>11, <1>13, <1>14 DEF ListsInv

LEMMA StatusStep ==
    ASSUME ListsInv, Status
    PROVE  ListsInv'
  <1>1. /\ Executing /\ Device = kbd.address /\ kbd.stage = "asked" /\ Field(3) = \h41
        /\ Pid = (IF AsksForData THEN \h10 ELSE \h90) /\ mem' = Marked(mem, 3) /\ next' = Field(5)
        /\ UNCHANGED <<step, written, odd, dataSize, current, lost>>
        /\ kbd' = [kbd EXCEPT !.stage = "idle",
                              !.address = IF kbd.asked[1] = \h500 THEN kbd.asked[2] ELSE @]
    BY DEF Status, StatusExpected, Data1, Done
  <1>2. TypeInv /\ InOrder /\ ListKept
    BY DEF ListsInv
  <1>3. current \in Requests /\ next # Base
    BY <1>1, <1>2, WhereNext
  <1>4. InOrder' /\ ListKept' /\ Loaded' /\ mem' \in [Words -> Cell] /\ KeyKept' /\ mem' = mem
    BY <1>1, <1>3, Unstored
  <1>5. /\ kbd' \in [address : {0, 2}, asked : [1 .. 4 -> Nat], sent : Nat,
                     stage : {"idle", "asked", "refused"}, config : 9 .. 255, report : 8 .. 255]
        /\ kbd'.stage = "idle" /\ kbd'.sent = kbd.sent /\ kbd'.asked = kbd.asked
        /\ kbd'.config = kbd.config /\ kbd'.report = kbd.report
    <2>1. PICK s \in Requests : AskedFor(s)
      BY <1>1, <1>2 DEF TypeInv
    <2>2. kbd.asked[1] = \h500 => kbd.asked[2] = 2
      <3>0. (s = 1) <=> (First[s] = \h500)
        BY <2>1, Tables
      <3>1. kbd.asked[1] = \h500 => s = 1
        BY <2>1, <3>0 DEF AskedFor
      <3>2. Which[1] = 2
        BY DEF Which
      <3> QED BY <2>1, <3>1, <3>2 DEF AskedFor
    <2> DEFINE a == IF kbd.asked[1] = \h500 THEN kbd.asked[2] ELSE kbd.address
    <2>3. a \in {0, 2}
      BY <1>2, <2>2 DEF TypeInv
    <2>4. kbd' = [kbd EXCEPT !.stage = "idle", !.address = a]
      BY <1>1
    <2> HIDE DEF a
    <2> QED BY <1>2, <2>3, <2>4 DEF TypeInv
  <1>6. TypeInv'
    <2>1. dataSize \in Cell /\ UNCHANGED <<step, written, current>>
      BY <1>1, <1>2 DEF TypeInv
    <2> QED BY <1>1, <1>2, <1>4, <1>5, <2>1 DEF TypeInv
  <1>7. InTurn'
    <2> SUFFICES ASSUME Going' PROVE InTurn'
      BY DEF InTurn
    <2> DEFINE p == Packets[current]
    <2>1. Going
      BY <1>1, <1>4, <1>5 DEF Going, FirstDone, Fits
    <2>2. /\ AskedFor(current)
          /\ \A d \in 1 .. p + 1 : next = At(d) => kbd.sent = Given(d - 1)
          /\ \A i \in Nat : 2 * i < kbd.sent
                => mem[Buffers[current] + 2 * i] = FromKeyboard(Which[current], 2 * i)
      BY <2>1 DEF ListsInv, InTurn
    <2>3. p \in 0 .. 8 /\ (AsksForData <=> p > 0)
      BY <1>2, <1>3, <2>2, Tables, AnswerKnown
    <2>4. StatusHere
      <3>1. CASE p > 0
        <4>1. Pid = \h10
          BY <1>1, <2>3, <3>1
        <4> QED BY <1>1, <1>2, <4>1, WhereNext
      <3>2. CASE p = 0
        <4>1. ~SetupHere
          BY <1>3 DEF SetupHere
        <4>2. ~ReportHere
          BY <1>3 DEF ReportHere
        <4>3. ~(\E d \in 1 .. p : DataHere(d))
          BY <3>2
        <4> QED BY <1>1, <1>2, <4>1, <4>2, <4>3, Here
      <3> QED BY <2>3, <3>1, <3>2
    <2>5. kbd.sent = Given(p)
      <3>1. next = At(p + 1) /\ p + 1 \in 1 .. p + 1 /\ (p + 1) - 1 = p
        BY <2>3, <2>4 DEF StatusHere
      <3> QED BY <2>2, <3>1
    <2>6. Given(p)' = Given(p)
      <3>1. Answer' = Answer
        BY <1>5, SameAnswer
      <3> QED BY <1>1, <3>1 DEF Given, AtMost
    <2>7. next' = 0
      BY <1>1, <2>4 DEF StatusHere
    <2>8. ASSUME NEW d \in 1 .. Packets[current'] + 1 PROVE next' # At(d)
      BY <1>1, <2>3, <2>7 DEF At
    <2>9. AskedFor(current)'
      BY <1>1, <1>5, <2>2 DEF AskedFor
    <2> QED BY <1>1, <1>4, <1>5, <2>2, <2>5, <2>6, <2>7, <2>8, <2>9 DEF InTurn
  <1> QED BY <1>4, <1>6, <1>7 DEF ListsInv

LEMMA ReportStep ==
    ASSUME ListsInv, SendReport
    PROVE  ListsInv'
  <1> DEFINE memory == Stored(Report, 0, 8)
  <1>1. /\ Executing /\ Pid = \h91 /\ mem' = Marked(memory, 3) /\ next' = Field(5)
        /\ UNCHANGED <<step, written, odd, dataSize, current, lost>> /\ kbd' = kbd
    BY DEF SendReport, Done
  <1>2. TypeInv /\ InOrder /\ ListKept /\ mem \in [Words -> Cell]
    BY DEF ListsInv, TypeInv
  <1>3. current = Poll /\ ReportHere
    BY <1>1, <1>2, WhereNext
  <1>4. Buffer = \h51C /\ Buffer \in Nat /\ Report \in Nat
    BY <1>3 DEF ReportHere, Report
  <1>5. /\ memory \in [Words -> Cell]
        /\ \A a \in Words : (a < Buffer \/ a >= Buffer + 8) => memory[a] = mem[a]
        /\ \A a \in Words : a >= Buffer /\ a < Buffer + 8
              => memory[a] = FromKeyboard(Report, 0 + a - Buffer)
    BY <1>2, <1>4, StoredWords
  <1> HIDE DEF memory
  <1>6. /\ InOrder' /\ ListKept' /\ Loaded' /\ mem' \in [Words -> Cell]
    <2>1. Len(ListOf(current)) = 6
      <3>1. current \in (1 .. Poll) \ {Info}
        BY <1>3 DEF Poll, Info
      <3> QED BY <1>2, <1>3, <3>1, CurrentList
    <2>2. ASSUME NEW a \in Words, a < Base + 2 * Len(ListOf(current)) PROVE memory[a] = mem[a]
      <3>1. a < Buffer
        BY <1>4, <2>1, <2>2, WordPlaces DEF Base
      <3> QED BY <1>5, <3>1
    <2> QED BY <1>1, <1>5, <2>2, BehindList
  <1>7. KeyKept'
    <2>1. \h51E = Base + 2 * (16 - 1) /\ 16 \in 1 .. 96
      BY DEF Base
    <2>2. \h51E \in Words
      BY <2>1, WordPlaces
    <2>3. \h51E >= Buffer /\ \h51E < Buffer + 8 /\ 0 + \h51E - Buffer = 2
      BY <1>4
    <2>4. memory[\h51E] = FromKeyboard(Report, 2)
      BY <1>5, <2>2, <2>3
    <2>5. mem'[\h51E] = memory[\h51E]
      BY <1>1, <1>5, <2>2, MarkedWords
    <2> QED BY <2>4, <2>5 DEF KeyKept, KeyWords
  <1>8. TypeInv'
    BY <1>1, <1>2, <1>3, <1>6 DEF TypeInv, AskedFor, Poll, Info
  <1>9. ~Going'
    BY <1>1, <1>3 DEF Going, Poll
  <1>10. InTurn'
    BY <1>9 DEF InTurn
  <1> QED BY <1>6, <1>7, <1>8, <1>10 DEF ListsInv

\* While nothing went wrong the keyboard has no packet to refuse.
LEMMA RefuseStep ==
    ASSUME ListsInv, Refuse
    PROVE  ListsInv'
  <1>1. /\ Executing /\ Pid \in {\h90, \h10} /\ ~DataExpected /\ ~StatusExpected
        /\ mem' = Marked(mem, 0) /\ next' \in {0, Field(5)}
        /\ UNCHANGED <<step, written, odd, dataSize, current, lost>>
        /\ kbd' = [kbd EXCEPT !.stage = "refused"]
    BY DEF Refuse, Failed
  <1>2. TypeInv /\ InOrder /\ ListKept
    BY DEF ListsInv
  <1>3. current \in Requests /\ next # Base
    BY <1>1, <1>2, WhereNext
  <1>4. InOrder' /\ ListKept' /\ Loaded' /\ mem' \in [Words -> Cell] /\ KeyKept' /\ mem' = mem
    BY <1>1, <1>3, Unstored
  <1>5. /\ kbd' \in [address : {0, 2}, asked : [1 .. 4 -> Nat], sent : Nat,
                     stage : {"idle", "asked", "refused"}, config : 9 .. 255, report : 8 .. 255]
        /\ kbd'.stage = "refused" /\ kbd'.config = kbd.config /\ kbd'.report = kbd.report
    BY <1>1, <1>2 DEF TypeInv
  <1>6. TypeInv'
    <2>1. dataSize \in Cell /\ UNCHANGED <<step, written, current>>
      BY <1>1, <1>2 DEF TypeInv
    <2> QED BY <1>1, <1>2, <1>4, <1>5, <2>1 DEF TypeInv
  <1>7. ASSUME Going PROVE FALSE
    <2> DEFINE p == Packets[current]
    <2>1. /\ AskedFor(current)
          /\ \A d \in 1 .. p + 1 : next = At(d) =>
                kbd.stage = "asked" /\ kbd.address = AddressIn(current) /\ kbd.sent = Given(d - 1)
      BY <1>7 DEF ListsInv, InTurn
    <2>2. p \in 0 .. 8 /\ (AsksForData <=> p > 0) /\ (p > 0 => Answer \in Nat)
      BY <1>2, <1>3, <2>1, Tables, AnswerKnown
    <2>3. CASE \E d \in 1 .. p : DataHere(d)
      <3>1. PICK d \in 1 .. p : DataHere(d)
        BY <2>3
      <3>2. d \in 1 .. p + 1 /\ next = At(d) /\ p > 0 /\ d \in 1 .. 8
        BY <2>2, <3>1 DEF DataHere
      <3>3. kbd.stage = "asked" /\ kbd.address = AddressIn(current) /\ kbd.sent = Given(d - 1)
        BY <2>1, <3>2
      <3>4. /\ 8 * (p - 1) < Answer /\ AtMost(8, Answer - 8 * (p - 1)) <= Last[current]
        BY <1>2, <1>3, <1>7, <2>1, <3>2, AnswerFits DEF Going
      <3>5. kbd.sent = 8 * (d - 1)
        <4>1. CASE d = 1
          BY <3>3, <4>1 DEF Given
        <4>2. CASE d > 1
          <5>1. d - 1 # 0 /\ 8 * (d - 1) < Answer /\ 8 * (d - 1) \in Nat
            BY <2>2, <3>1, <3>4, <4>2
          <5>2. Given(d - 1) = AtMost(8 * (d - 1), Answer)
            BY <3>2, <5>1 DEF Given
          <5> QED BY <3>3, <5>1, <5>2 DEF AtMost
        <4> QED BY <3>2, <4>1, <4>2
      <3>6. kbd.sent < Answer /\ Packet <= Length
        <4>1. CASE d = p
          BY <3>1, <3>4, <3>5, <4>1 DEF DataHere, Packet
        <4>2. CASE d < p
          <5>1. Length = 8
            BY <3>1, <4>2 DEF DataHere
          <5>2. 8 * (d - 1) < Answer
            BY <2>2, <3>1, <3>4, <4>2
          <5> QED BY <2>2, <3>2, <3>5, <5>1, <5>2 DEF Packet, AtMost
        <4> QED BY <2>2, <3>1, <4>1, <4>2
      <3>7. (kbd.sent % 16 = 0) <=> (d % 2 = 1)
        BY <3>2, <3>5
      <3>8. Data1 <=> (d % 2 = 1)
        BY <3>1, <3>2 DEF DataHere, Data1
      <3>9. AddressIn(current) = 2
        <4>1. current # 1
          BY <3>2 DEF Packets
        <4> QED BY <4>1 DEF AddressIn
      <3>10. DataExpected
        <4>1. Data1 = (kbd.sent % 16 = 0)
          BY <3>7, <3>8 DEF Data1
        <4>2. Pid = \h90 /\ Device = 2
          BY <3>1 DEF DataHere
        <4> QED BY <2>2, <3>2, <3>3, <3>6, <3>9, <4>1, <4>2 DEF DataExpected
      <3> QED BY <1>1, <3>10
    <2>4. CASE StatusHere
      <3>1. next = At(p + 1) /\ p + 1 \in 1 .. p + 1
        BY <2>2, <2>4 DEF StatusHere
      <3>2. kbd.stage = "asked" /\ kbd.address = AddressIn(current)
        BY <2>1, <3>1
      <3>3. Pid = StatusIn(current) /\ Device = AddressIn(current) /\ Data1
        BY <2>4 DEF StatusHere, Data1
      <3>4. StatusIn(current) = IF AsksForData THEN \h10 ELSE \h90
        BY <2>2 DEF StatusIn
      <3> QED BY <1>1, <3>2, <3>3, <3>4 DEF StatusExpected
    <2>5. ~SetupHere /\ ~ReportHere
      BY <1>3 DEF SetupHere, ReportHere
    <2> QED BY <1>1, <1>2, <2>3, <2>4, <2>5, Here
  <1>8. ~Going'
    BY <1>1, <1>4, <1>5, <1>7 DEF Going, FirstDone, Fits
  <1>9. InTurn'
    BY <1>8 DEF InTurn
  <1> QED BY <1>4, <1>6, <1>9 DEF ListsInv

\* A controller that finds no list, or one that is just being written.
LEMMA StrayStep ==
    ASSUME ListsInv, PassOver \/ Stray
    PROVE  ListsInv'
  <1>1. /\ TypeInv /\ InOrder /\ KeyKept /\ lost' = TRUE /\ next' \in {0, Astray}
        /\ UNCHANGED <<step, written, odd, dataSize, current>>
    BY DEF ListsInv, PassOver, Stray
  <1>2. mem' \in [Words -> Cell] /\ (mem'[\h51E] = mem[\h51E] \/ mem'[\h51E] = Strayed)
    <2>0. /\ mem \in [Words -> Cell] /\ Strayed \in Cell /\ FromHost(\h00) \in Cell
          /\ FromHost(\h03) \in Cell /\ StrayStores \subseteq Words
      BY <1>1, ListsAssumption DEF TypeInv, Strayed, FromHost, Cell
    <2>1. CASE UNCHANGED mem
      BY <2>0, <2>1
    <2>2. CASE \E a \in StrayStores : mem' = [mem EXCEPT ![a] = Strayed]
      <3>1. PICK a \in StrayStores : mem' = [mem EXCEPT ![a] = Strayed]
        BY <2>2
      <3> QED BY <2>0, <3>1, KeyPlace
    <2>3. CASE \E control \in {\h00, \h03} : mem' = [mem EXCEPT ![\h508] = FromHost(control)]
      <3>1. PICK control \in {\h00, \h03} : mem' = [mem EXCEPT ![\h508] = FromHost(control)]
        BY <2>3
      <3>2. FromHost(control) \in Cell
        BY <2>0, <3>1
      <3>3. \h51E # \h508
        OBVIOUS
      <3> QED BY <2>0, <3>1, <3>2, <3>3, KeyPlace, ControlPlace
    <2> QED BY <2>1, <2>2, <2>3 DEF PassOver, Stray
  <1>3. /\ kbd' \in [address : {0, 2}, asked : [1 .. 4 -> Nat], sent : Nat,
                     stage : {"idle", "asked", "refused"}, config : 9 .. 255, report : 8 .. 255]
        /\ kbd'.stage = "asked" => kbd.stage = "asked" /\ kbd'.asked = kbd.asked
    <2>1. kbd' \in {kbd, [kbd EXCEPT !.stage = "refused"], [kbd EXCEPT !.address = 2]}
      BY DEF PassOver, Stray
    <2> QED BY <1>1, <2>1 DEF TypeInv
  <1>4. TypeInv'
    <2>1. kbd'.stage = "asked" => \E s \in Requests : AskedFor(s)'
      BY <1>1, <1>3 DEF TypeInv, AskedFor
    <2> QED BY <1>1, <1>2, <1>3, <2>1 DEF TypeInv
  <1>5. InOrder'
    BY <1>1 DEF InOrder, InfoAt, Astray
  <1>6. ListKept' /\ Loaded' /\ InTurn'
    BY <1>1 DEF ListKept, Executing, Loaded, InTurn, Going
  <1>7. KeyKept'
    BY <1>1, <1>2 DEF KeyKept, KeyWords
  <1> QED BY <1>4, <1>5, <1>6, <1>7 DEF ListsInv

LEMMA ListsStep == ListsInv /\ [Next]_vars => ListsInv'
  <1> SUFFICES ASSUME ListsInv, [Next]_vars PROVE ListsInv'
    OBVIOUS
  <1>1. CASE Program
    BY <1>1, ProgramStep
  <1>2. CASE Setup
    BY <1>2, SetupStep
  <1>3. CASE Data
    BY <1>3, DataStep
  <1>4. CASE Status
    BY <1>4, StatusStep
  <1>5. CASE SendReport
    BY <1>5, ReportStep
  <1>6. CASE Lose
    BY <1>6, LoseStep
  <1>7. CASE Refuse
    BY <1>7, RefuseStep
  <1>8. CASE PassOver \/ Stray
    BY <1>8, StrayStep
  <1>9. CASE UNCHANGED vars
    <2>1. UNCHANGED <<step, written, odd, dataSize, mem, current, next, kbd, lost, losses>>
      BY <1>9 DEF vars
    <2>2. TypeInv' /\ InOrder' /\ KeyKept'
      BY <2>1 DEF ListsInv, TypeInv, InOrder, AskedFor, KeyKept, KeyWords
    <2>3. ListKept' /\ Loaded'
      BY <2>1 DEF ListsInv, ListKept, Executing, Loaded, ListOf, PlacesOf
    <2>4. InTurn'
      BY <2>1, SameTurn DEF ListsInv
    <2> QED BY <2>2, <2>3, <2>4 DEF ListsInv
  <1> QED BY <1>1, <1>2, <1>3, <1>4, <1>5, <1>6, <1>7, <1>8, <1>9 DEF Next, Controller

LEMMA ListsInvariant == Spec => []ListsInv
  <1> QED BY ListsInit, ListsStep, PTL DEF Spec

-----------------------------------------------------------------------------
(* The properties. *)

\* The descriptor that the controller is at is whole if the controller was at rest
\* while the list was written: what it stored before is in the buffers, and the
\* buffers of every list of usb.c begin behind the list.  The words at 0x0576, which
\* main.c:354 has executed as a list, are the exception, and so is what the
\* controller finds by way of the link after them.
THEOREM ListsIntact == Spec => []ListIntact
  <1>1. ListsInv => ListIntact
    <2> SUFFICES ASSUME ListsInv, Executing
                 PROVE  LET list == ListOf(current)
                            i == (next - Base) \div 2
                        IN  /\ i \in 0 .. Len(list) - 6
                            /\ \A k \in 1 .. 6 : mem[next + 2 * (k - 1)] = FromHost(list[i + k])
      BY DEF ListIntact
    <2> DEFINE list == ListOf(current)
               l == Len(list)
    <2>1. current \in (1 .. Poll) \ {Info} /\ TypeInv
      BY DEF ListsInv, InOrder, Executing
    <2>2. /\ l \in 6 .. 64 /\ (current \in Requests => l = 16 + 6 * Packets[current])
          /\ current # Poll => current \in Requests
      BY <2>1, CurrentList
    <2>3. /\ next \in PlacesOf(current)
          /\ \A k \in 1 .. l :
                (k # 5 \/ next = Base) => mem[Base + 2 * (k - 1)] = FromHost(list[k])
      BY DEF ListsInv, ListKept
    <2> HIDE DEF list, l
    <2>4. PICK j \in 0 .. l - 6 : next = Base + 2 * j /\ (j = 0 \/ j >= 5)
      <3>1. CASE next = Base
        <4>1. 0 \in 0 .. l - 6 /\ next = Base + 2 * 0
          BY <2>2, <3>1 DEF Base
        <4> QED BY <4>1
      <3>2. CASE next # Base
        <4>1. current \in Requests
          BY <2>2, <2>3, <3>2 DEF PlacesOf
        <4>2. current # Poll /\ Packets[current] \in 0 .. 8
          BY <4>1, Tables DEF Requests, Poll
        <4>3. PICK d \in 0 .. Packets[current] + 1 : next = At(d)
          BY <2>3, <4>2 DEF PlacesOf
        <4>4. d # 0
          BY <3>2, <4>3 DEF At
        <4>5. next = \h514 + 12 * (d - 1)
          BY <4>3, <4>4 DEF At
        <4>6. 10 + 6 * (d - 1) \in 0 .. l - 6 /\ 10 + 6 * (d - 1) >= 5
          BY <2>2, <4>1, <4>2, <4>4
        <4>7. next = Base + 2 * (10 + 6 * (d - 1))
          BY <4>2, <4>5 DEF Base
        <4> QED BY <4>6, <4>7
      <3> QED BY <3>1, <3>2
    <2>5. (next - Base) \div 2 = j
      BY <2>4 DEF Base
    <2>6. ASSUME NEW k \in 1 .. 6 PROVE mem[next + 2 * (k - 1)] = FromHost(list[j + k])
      <3>1. j + k \in 1 .. l /\ (j + k # 5 \/ next = Base)
        BY <2>2, <2>4 DEF Base
      <3>2. Base + 2 * ((j + k) - 1) = next + 2 * (k - 1)
        BY <2>4 DEF Base
      <3> QED BY <2>3, <3>1, <3>2
    <2> QED BY <2>4, <2>5, <2>6 DEF list, l
  <1> QED BY <1>1, ListsInvariant, PTL

\* The low byte of the word that main.c:526 takes for the key is that of a
\* report's third byte or of a link: the list for a report ends before 0x051e, and
\* the last list of the enumeration has a link there.  Only a controller astray
\* puts anything else there.
THEOREM KeyWordKnown == Spec => []KeyWord
  <1>1. ListsInv => KeyWord
    BY DEF ListsInv, KeyKept, KeyWord, KeyWords
  <1> QED BY <1>1, ListsInvariant, PTL

\* Once the keyboard has the setup packet, every packet of the list comes when
\* it is expected, unless one before it was lost, whatever the program does in the
\* meantime; this is so for the ten lists of usb.c and the keyboards whose
\* descriptors end in the last data packet.
THEOREM KeyboardNeverRefuses == Spec => []ProtocolKept
  <1>1. ListsInv => ProtocolKept
    <2> SUFFICES ASSUME ListsInv, Going PROVE kbd.stage # "refused"
      BY DEF ProtocolKept, Going
    <2>1. TypeInv /\ current \in (1 .. Poll) \ {Info} /\ current # Poll
      BY DEF ListsInv, TypeInv, Going, FirstDone, Poll
    <2>2. current \in Requests /\ Packets[current] \in 0 .. 8
      BY <2>1, CurrentList, Tables
    <2>3. CASE next = 0
      BY <2>3 DEF ListsInv, InTurn
    <2>4. CASE next # 0
      <3>0. Executing
        <4>1. ~written
          BY LoadedUndone DEF ListsInv, Going
        <4>2. next # InfoAt /\ next # Astray
          BY <2>1, <4>1 DEF ListsInv, InOrder, Going
        <4> QED BY <2>4, <4>1, <4>2 DEF Executing
      <3>1. PICK d \in 0 .. Packets[current] + 1 : next = At(d)
        BY <2>1, <3>0 DEF ListsInv, ListKept, PlacesOf
      <3>2. CASE d = 0
        <4>1. next = Base
          BY <3>1, <3>2 DEF At
        <4>2. 5 \in 1 .. Len(ListOf(current)) /\ ListOf(current)[5] = Retry
          <5> DEFINE l == Len(ListOf(current))
          <5>1. l \in 6 .. 64 /\ ListOf(current)[5] = Retry
            BY <2>1, CurrentList
          <5> HIDE DEF l
          <5>2. 5 \in 1 .. l
            BY <5>1
          <5> QED BY <5>1, <5>2 DEF l
        <4>3. mem[Base + 2 * (5 - 1)] = FromHost(Retry)
          BY <3>0, <4>1, <4>2 DEF ListsInv, ListKept
        <4>4. mem[\h508] = FromHost(\h13)
          BY <4>3 DEF Base, Retry
        <4> QED BY <4>4 DEF Going, FirstDone, FromHost
      <3>3. CASE d # 0
        <4>1. d \in 1 .. Packets[current] + 1
          BY <2>2, <3>3
        <4> QED BY <3>1, <4>1 DEF ListsInv, InTurn
      <3> QED BY <3>2, <3>3
    <2> QED BY <2>3, <2>4
  <1> QED BY <1>1, ListsInvariant, PTL

\* When a list worked, the buffers hold the answer from its first byte on, as
\* much of it as the program looks at, and where it looks.
THEOREM AnswersInPlace == Spec => []AnswerInPlace
  <1>1. ASSUME ListsInv, Going, next = 0, NEW f \in Fetched, current = f[1]
        PROVE  \A i \in 0 .. f[4] \div 2 :
                  2 * i < f[4] => mem[f[3] + 2 * i] = FromKeyboard(f[2], 2 * i)
    <2>1. /\ AskedFor(current) /\ kbd.sent = Given(Packets[current])
          /\ \A i \in Nat : 2 * i < kbd.sent
                => mem[Buffers[current] + 2 * i] = FromKeyboard(Which[current], 2 * i)
      BY <1>1 DEF ListsInv, InTurn
    <2>2. /\ current \in {2, 3, 4, 5, 9, 10} /\ f[2] = Which[current] /\ f[3] = Buffers[current]
          /\ f[4] = IF current \in {2, 9} THEN 8 ELSE IF current = 3 THEN 18 ELSE
                    IF current = 4 THEN 9 ELSE IF current = 5 THEN 33 ELSE 57
          /\ Packets[current] = IF current \in {2, 9} THEN 1 ELSE IF current = 3 THEN 3 ELSE
                             IF current = 4 THEN 2 ELSE IF current = 5 THEN 5 ELSE 8
      BY <1>1 DEF Fetched, Which, Buffers, Packets, OfDevice, OfConfig, OfHid, OfReport
    <2>3. current \in Requests /\ Packets[current] > 0
      BY <2>2 DEF Requests, Info
    <2>4. TypeInv /\ Fits
      BY <1>1 DEF ListsInv, Going
    <2>5. /\ current \in {2, 9} => AtMost(8, Answer) = 8
          /\ current = 3 => Answer = 18
          /\ current = 4 => Answer = 9
          /\ current = 5 => Answer >= 33 /\ Answer <= 34
          /\ current = 10 => Answer >= 57 /\ Answer <= 59
      BY <2>1, <2>3, <2>4, AnswerFits
    <2>6. Answer \in Nat
      BY <2>1, <2>3, <2>4, AnswerKnown
    <2>7. kbd.sent = AtMost(8 * Packets[current], Answer)
      BY <2>1, <2>3 DEF Given
    <2>8. f[4] <= kbd.sent
      BY <2>2, <2>5, <2>6, <2>7 DEF AtMost
    <2>9. f[4] \in Nat /\ kbd.sent \in Nat
      BY <2>2, <2>4 DEF TypeInv
    <2> DEFINE n == f[4]
    <2>10. ASSUME NEW i \in 0 .. n \div 2, 2 * i < n
           PROVE  mem[f[3] + 2 * i] = FromKeyboard(f[2], 2 * i)
      <3>1. i \in Nat
        BY <2>9
      <3>2. 2 * i < kbd.sent
        BY <2>8, <2>9, <2>10, <3>1
      <3> QED BY <2>1, <2>2, <3>1, <3>2
    <2> QED BY <2>10
  <1>2. ListsInv => AnswerInPlace
    <2> SUFFICES ASSUME ListsInv, NEW f \in Fetched, current = f[1], FirstDone, next = 0, ~lost, Fits
                 PROVE  \A i \in 0 .. f[4] \div 2 :
                           2 * i < f[4] => mem[f[3] + 2 * i] = FromKeyboard(f[2], 2 * i)
      BY Zenon DEF AnswerInPlace
    <2>1. current < Poll
      BY DEF Fetched, Poll
    <2>2. Going
      BY <2>1 DEF Going
    <2> QED BY <1>1, <2>2
  <1> QED BY <1>2, ListsInvariant, PTL

\* The size that main.c:361 prints, and that the polling loop asks for, is 8 for
\* every keyboard: the program reads the fourth of the five words it has just
\* written itself, unless the controller, astray after those words, stores there.
THEOREM PacketSizeIsEight == Spec => [](step > Info => dataSize \in {FromHost(8), Strayed})
  <1> DEFINE Eight == step > Info => dataSize \in {FromHost(8), Strayed}
             InfoKept == step = Info /\ current = Info => mem[\h57C] \in {FromHost(8), Strayed}
  <1>1. Init => Eight /\ InfoKept
    BY DEF Init, Info
  <1>2. ListsInv /\ Eight /\ InfoKept /\ [Next]_vars => Eight' /\ InfoKept'
    <2> SUFFICES ASSUME TypeInv, InOrder, Eight, InfoKept, [Next]_vars PROVE Eight' /\ InfoKept'
      BY DEF ListsInv
    <2>1. CASE DeviceInfo
      <3>1. mem' = Written(InfoList, InfoAt) /\ UNCHANGED <<step, dataSize>>
        BY <2>1 DEF DeviceInfo
      <3>2. \h57C \in Words
        <4>1. \h57C = Base + 2 * (63 - 1) /\ 63 \in 1 .. 96
          BY DEF Base
        <4> QED BY <4>1, WordPlaces
      <3>3. Len(InfoList) = 5 /\ InfoList[4] = 8
        BY DEF InfoList
      <3>4. (\h57C - InfoAt) \div 2 + 1 = 4 /\ \h57C >= InfoAt /\ \h57C < InfoAt + 2 * 5
        BY DEF InfoAt
      <3>5. Written(InfoList, InfoAt)[\h57C] = FromHost(InfoList[(\h57C - InfoAt) \div 2 + 1])
        BY <3>2, <3>3, <3>4 DEF Written
      <3> QED BY <3>1, <3>3, <3>4, <3>5
    <2>2. CASE ReadSize
      BY <2>2 DEF ReadSize, Info
    <2>3. CASE NextStep
      <3>1. current = step /\ current' = step /\ step' = step + 1 /\ dataSize' = dataSize /\ step \in Int
            /\ step # Info
        BY <2>3 DEF NextStep, FirstDone, TypeInv
      <3> QED BY <3>1 DEF Info
    <2>4. CASE HotPlug
      BY <2>4 DEF HotPlug, Info
    <2>5. CASE LoadList \/ PollAgain
      BY <2>5 DEF LoadList, PollAgain, Poll, Info
    <2>6. CASE StartList
      BY <2>6 DEF StartList, InOrder
    <2>7. CASE Controller
      <3>1. UNCHANGED <<step, dataSize, current>>
        BY <2>7 DEF Controller, Setup, Data, Status, SendReport, Lose, Refuse, Done, Failed,
                    PassOver, Stray
      <3>2. ASSUME step = Info, current = Info
            PROVE  mem'[\h57C] \in {mem[\h57C], Strayed}
        <4>1. ~Executing
          BY <3>2 DEF InOrder, Executing
        <4>2. PassOver \/ Stray
          BY <2>7, <4>1 DEF Controller, Setup, Data, Status, SendReport, Lose, Refuse
        <4>3. \/ UNCHANGED mem
              \/ \E a \in StrayStores : mem' = [mem EXCEPT ![a] = Strayed]
              \/ \E control \in {\h00, \h03} : mem' = [mem EXCEPT ![\h508] = FromHost(control)]
          BY <4>2 DEF PassOver, Stray
        <4>4. \h57C # \h508 /\ \h57C \in Words
          <5>1. \h57C = Base + 2 * (63 - 1) /\ 63 \in 1 .. 96
            BY DEF Base
          <5> QED BY <5>1, WordPlaces
        <4>5. mem \in [Words -> Cell]
          BY DEF TypeInv
        <4> QED BY <4>3, <4>4, <4>5
      <3> QED BY <3>1, <3>2
    <2>8. CASE UNCHANGED vars
      BY <2>8 DEF vars
    <2> QED BY <2>1, <2>2, <2>3, <2>4, <2>5, <2>6, <2>7, <2>8 DEF Next, Program
  <1> QED BY <1>1, <1>2, ListsInvariant, PTL DEF Spec
=============================================================================
