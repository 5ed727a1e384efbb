--------------------------- MODULE TransferLists ---------------------------
(***************************************************************************)
(* The transfer lists of usb.c in the memory of the USB controller.  Each   *)
(* function writes a list of descriptors from 0x0500 on, word by word, with *)
(* the addresses of the buffers and of the next descriptors as literals;    *)
(* the controller follows the links, exchanges packets with the keyboard    *)
(* and stores what it receives in the same memory, where the next list is   *)
(* written, and where the program looks for single words of the answers.    *)
(*                                                                         *)
(* A list is written, and the controller told to start with it, at any time  *)
(* while it is executing that list or the one before; UsbHost is about when  *)
(* that happens.  A controller that finds itself in words that are no list,  *)
(* or in a list that is being written, may go astray.  The controller and   *)
(* the keyboard are external: as long as they are given a list, they follow *)
(* the USB protocol for control transfers.                                 *)
(***************************************************************************)
EXTENDS Integers, Sequences

CONSTANTS
    ConfigLengths,   \* lengths of the configuration descriptors keyboards have
    ReportLengths,   \* lengths of their report descriptors
    StrayStores,     \* words that a controller astray may overwrite
    MaxLosses        \* bound: packets lost, and steps of a controller astray

Base == \h500
InfoAt == \h576
Words == {Base + 2 * i : i \in 0 .. 95}

ASSUME ListsAssumption ==
    /\ ConfigLengths \subseteq 9 .. 255 /\ ReportLengths \subseteq 8 .. 255
    /\ StrayStores \subseteq Words /\ MaxLosses \in Nat

-----------------------------------------------------------------------------
(* The lists (usb.c:118-536, main.c:349-353 and 478-494). *)

Retry == \h13       \* active, three attempts; \h03 once it worked
Td(buffer, length, pid, toggle, next) == <<buffer, length, pid, toggle, Retry, next>>
Request(device, a, b, c, d) == Td(\h50C, 8, 256 * device + \hD0, \h01, \h514) \o <<a, b, c, d>>

UsbSetAddress == Request(0, \h500, 2, 0, 0) \o Td(0, 0, \h090, \h41, 0)

UsbGetDeviceDesc1 ==
    Request(2, \h680, \h100, 0, 8)
      \o Td(\h52C, 8, \h290, \h41, \h520)
      \o Td(0, 0, \h210, \h41, 0)

UsbGetDeviceDesc2 ==
    Request(2, \h680, \h100, 0, \h12)
      \o Td(\h544, 8, \h290, \h41, \h520) \o Td(\h54C, 8, \h290, \h01, \h52C)
      \o Td(\h554, 2, \h290, \h41, \h538)
      \o Td(0, 0, \h210, \h41, 0)

UsbGetConfigDesc1 ==
    Request(2, \h680, \h200, 0, 9)
      \o Td(\h544, 8, \h290, \h41, \h520) \o Td(\h54C, 1, \h290, \h01, \h52C)
      \o Td(0, 0, \h210, \h41, 0)

\* Mutant: the first buffer starts on the last descriptor.
ConfigOverList ==
    Request(2, \h680, \h200, 0, \hFF)
      \o Td(\h554, 8, \h290, \h41, \h520) \o Td(\h55C, 8, \h290, \h01, \h52C)
      \o Td(\h564, 8, \h290, \h41, \h538) \o Td(\h56C, 8, \h290, \h01, \h544)
      \o Td(\h574, 2, \h290, \h41, \h550)
      \o Td(0, 0, \h210, \h41, 0)

UsbGetConfigDesc2 ==
    Request(2, \h680, \h200, 0, \hFF)
      \o Td(\h55C, 8, \h290, \h41, \h520) \o Td(\h564, 8, \h290, \h01, \h52C)
      \o Td(\h56C, 8, \h290, \h41, \h538) \o Td(\h574, 8, \h290, \h01, \h544)
      \o Td(\h57C, 2, \h290, \h41, \h550)
      \o Td(0, 0, \h210, \h41, 0)

UsbSetConfig == Request(2, \h900, 1, 0, 0) \o Td(0, 0, \h290, \h41, 0)

UsbClassRequest == Request(2, \hA21, 0, 0, 0) \o Td(0, 0, \h290, \h41, 0)

UsbGetHidDesc ==
    Request(2, \h681, \h2100, 0, \h7B)
      \o Td(\h544, 8, \h290, \h41, \h520)
      \o Td(0, 0, \h210, \h41, 0)

\* Mutant: two data packets in a row with the same toggle.
ReportSameToggle ==
    Request(2, \h681, \h2200, 0, \h7B)
      \o Td(\h580, 8, \h290, \h41, \h520) \o Td(\h588, 8, \h290, \h01, \h52C)
      \o Td(\h590, 8, \h290, \h41, \h538) \o Td(\h598, 8, \h290, \h41, \h544)
      \o Td(\h5A0, 8, \h290, \h01, \h550) \o Td(\h5A8, 8, \h290, \h41, \h55C)
      \o Td(\h5B0, 8, \h290, \h01, \h568) \o Td(\h5B8, 3, \h290, \h41, \h574)
      \o Td(0, 0, \h210, \h41, 0)

\* Mutant: two data packets go to the same buffer.
ReportSameBuffer ==
    Request(2, \h681, \h2200, 0, \h7B)
      \o Td(\h580, 8, \h290, \h41, \h520) \o Td(\h588, 8, \h290, \h01, \h52C)
      \o Td(\h590, 8, \h290, \h41, \h538) \o Td(\h590, 8, \h290, \h01, \h544)
      \o Td(\h5A0, 8, \h290, \h41, \h550) \o Td(\h5A8, 8, \h290, \h01, \h55C)
      \o Td(\h5B0, 8, \h290, \h41, \h568) \o Td(\h5B8, 3, \h290, \h01, \h574)
      \o Td(0, 0, \h210, \h41, 0)

UsbGetReportDesc ==
    Request(2, \h681, \h2200, 0, \h7B)
      \o Td(\h580, 8, \h290, \h41, \h520) \o Td(\h588, 8, \h290, \h01, \h52C)
      \o Td(\h590, 8, \h290, \h41, \h538) \o Td(\h598, 8, \h290, \h01, \h544)
      \o Td(\h5A0, 8, \h290, \h41, \h550) \o Td(\h5A8, 8, \h290, \h01, \h55C)
      \o Td(\h5B0, 8, \h290, \h41, \h568) \o Td(\h5B8, 3, \h290, \h01, \h574)
      \o Td(0, 0, \h210, \h41, 0)

\* Mutant: the report goes where the list ends.
PollListTight(length, odd) == Td(\h51A, length, \h291, IF odd THEN \h01 ELSE \h41, 0)

\* The list of the polling loop; odd is toggle % 2.
PollList(length, odd) == Td(\h51C, length, \h291, IF odd THEN \h01 ELSE \h41, 0)

\* Five words that are no descriptor: it is not active, \hAC0A has no bit 4.
InfoList == <<\h73F, \h8105, \h0003, \h0008, \hAC0A>>

Enumeration ==
    <<UsbSetAddress, UsbGetDeviceDesc1, UsbGetDeviceDesc2, UsbGetConfigDesc1,
      UsbGetConfigDesc2, InfoList, UsbSetConfig, UsbClassRequest, UsbGetHidDesc,
      UsbGetReportDesc>>

Info == 6
Poll == 11
-----------------------------------------------------------------------------
VARIABLES
    step,       \* the transfer of the enumeration main is at
    written,    \* its list is written, but the controller not yet told so
    odd,        \* toggle % 2
    dataSize,   \* the word read as the size of the keyboard's packets
    mem,        \* the controller's memory
    current,    \* the transfer whose list it was last told to execute, or 0
    next,       \* the descriptor it is at, 0 when it is at rest, or Astray
    kbd,        \* the keyboard: its address, the request it answers and how far it is
    lost,       \* for the properties: a packet of the list was lost, or the list itself
    losses      \* the packets lost and the steps gone astray so far

vars == <<step, written, odd, dataSize, mem, current, next, kbd, lost, losses>>

Astray == 1

\* A word of memory is one the program wrote, or a place in a descriptor or in
\* a report of the keyboard: of says which, v is the number of the byte.  Or it
\* was never written, or by a controller astray.
FromHost(w) == [of |-> 0, v |-> w]
Report == 1
FromKeyboard(which, byte) == [of |-> which, v |-> byte]
Unwritten == [of |-> 2, v |-> 0]
Strayed == [of |-> 3, v |-> 0]

NewKeyboard ==
    [address : {0}, asked : {<<0, 0, 0, 0>>}, sent : {0}, stage : {"idle"},
     config : ConfigLengths, report : ReportLengths]

Init ==
    /\ step = 1 /\ written = FALSE /\ odd = FALSE /\ dataSize = Unwritten
    /\ mem = [a \in Words |-> Unwritten] /\ current = 0 /\ next = 0
    /\ kbd \in NewKeyboard /\ lost = FALSE /\ losses = 0

-----------------------------------------------------------------------------
(* The program. *)

Written(list, from) ==
    [a \in Words |-> IF a >= from /\ a < from + 2 * Len(list)
                     THEN FromHost(list[(a - from) \div 2 + 1]) ELSE mem[a]]

ListOf(s) == IF s = Poll THEN PollList(dataSize.v % 16, odd) ELSE Enumeration[s]

\* A UsbGet... function, the first time or again: the words of the list ...
LoadList ==
    /\ ~written /\ step # Info /\ (step = Poll => current = Poll)
    /\ mem' = Written(ListOf(step), Base) /\ written' = TRUE /\ lost' = FALSE
    /\ UNCHANGED <<step, odd, dataSize, current, next, kbd, losses>>

\* ... and its address.  A controller that was at work in between has executed
\* a part of it, or stored over it.
StartList ==
    /\ written /\ written' = FALSE
    /\ current' = step /\ next' = (IF lost THEN Astray ELSE Base)
    /\ UNCHANGED <<step, odd, dataSize, mem, kbd, lost, losses>>

\* The control byte of the first descriptor says that it worked.
FirstDone == current \notin {0, Info} /\ mem[\h508] = FromHost(\h03)

NextStep ==
    /\ ~written /\ step < Poll /\ current = step /\ FirstDone
    /\ step' = step + 1
    /\ UNCHANGED <<written, odd, dataSize, mem, current, next, kbd, lost, losses>>

\* Get device info: five words are written and the controller is told to
\* execute them ...
DeviceInfo ==
    /\ step = Info /\ current # Info
    /\ mem' = Written(InfoList, InfoAt)
    /\ current' = Info /\ next' = InfoAt
    /\ UNCHANGED <<step, written, odd, dataSize, kbd, lost, losses>>

\* ... and the word at 0x057c, one of the five, is read.
ReadSize ==
    /\ step = Info /\ current = Info
    /\ dataSize' = mem[\h57C] /\ step' = step + 1
    /\ UNCHANGED <<written, odd, mem, current, next, kbd, lost, losses>>

PollAgain ==
    /\ ~written /\ step = Poll
    /\ odd' = ~odd
    /\ mem' = Written(PollList(dataSize.v % 16, ~odd), Base) /\ written' = TRUE
    /\ lost' = FALSE
    /\ UNCHANGED <<step, dataSize, current, next, kbd, losses>>

\* Back to USB_HOT_PLUG, with what is in memory, and perhaps another keyboard:
\* the controller is reset.
HotPlug ==
    /\ ~written /\ step \in {1, Poll}
    /\ step' = 1 /\ current' = 0 /\ next' = 0 /\ kbd' \in NewKeyboard
    /\ UNCHANGED <<written, odd, dataSize, mem, lost, losses>>

-----------------------------------------------------------------------------
(* The controller and the keyboard (external). *)

\* It is at a descriptor of the list it was last told to execute.
Executing == ~written /\ next \notin {0, InfoAt, Astray}

Field(i) == mem[next + 2 * i].v
Buffer == Field(0)
Length == Field(1)
Pid == Field(2) % 256
Device == Field(2) \div 256
Data1 == Field(3) = \h41

AtMost(a, b) == IF a < b THEN a ELSE b

\* The descriptors that the lists ask for, by the word of the request.
OfDevice == \h100
OfConfig == \h200
OfHid == \h2100
OfReport == \h2200

\* The packets of an answer have 8 bytes, but for the last.
Descriptor(which) ==
    CASE which = OfDevice -> 18 [] which = OfConfig -> kbd.config
      [] which = OfHid -> 9 [] which = OfReport -> kbd.report
AsksForData == kbd.asked[1] % 256 >= 128
Answer == AtMost(kbd.asked[4], Descriptor(kbd.asked[2]))
Packet == AtMost(8, Answer - kbd.sent)

\* The control byte that the controller writes when it is done with a
\* descriptor; the program looks only at that of the first one.
Marked(memory, control) ==
    IF next = Base THEN [memory EXCEPT ![\h508] = FromHost(control)] ELSE memory

\* The descriptor worked and the controller goes to the next.
Done(memory) ==
    /\ mem' = Marked(memory, \h03)
    /\ next' = Field(5)
    /\ UNCHANGED <<step, written, odd, dataSize, current, lost, losses>>

\* A keyboard takes a setup packet at any time, and forgets the transfer before.
Setup ==
    /\ Executing /\ Pid = \hD0 /\ Device = kbd.address
    /\ kbd' = [kbd EXCEPT !.asked = [i \in 1 .. 4 |-> mem[Buffer + 2 * (i - 1)].v],
                          !.sent = 0, !.stage = "asked"]
    /\ Done(mem)

\* The data packets of an answer start with DATA1 and alternate.
DataExpected ==
    /\ Pid = \h90 /\ Device = kbd.address /\ kbd.stage = "asked" /\ AsksForData
    /\ kbd.sent < Answer /\ Data1 = (kbd.sent % 16 = 0) /\ Packet <= Length

Stored(which, byte, length) ==
    [a \in Words |-> IF a >= Buffer /\ a < Buffer + length
                     THEN FromKeyboard(which, byte + a - Buffer) ELSE mem[a]]

Data ==
    /\ Executing /\ DataExpected
    /\ kbd' = [kbd EXCEPT !.sent = @ + Packet]
    /\ Done(Stored(kbd.asked[2], kbd.sent, Packet))

\* The status packet goes against the data, with DATA1.
StatusExpected ==
    /\ Device = kbd.address /\ kbd.stage = "asked" /\ Data1
    /\ Pid = (IF AsksForData THEN \h10 ELSE \h90)

Status ==
    /\ Executing /\ StatusExpected
    /\ kbd' = [kbd EXCEPT !.stage = "idle",
                          !.address = IF kbd.asked[1] = \h500 THEN kbd.asked[2] ELSE @]
    /\ Done(mem)

\* A report, from the other endpoint.
SendReport ==
    /\ Executing /\ Pid = \h91 /\ Device = kbd.address /\ Length >= 8
    /\ UNCHANGED kbd
    /\ Done(Stored(Report, 0, 8))

\* The descriptor is marked as failed, and the list goes on or ends.
Failed ==
    /\ mem' = Marked(mem, \h00)
    /\ next' \in {0, Field(5)}
    /\ UNCHANGED <<step, written, odd, dataSize, current>>

Lose ==
    /\ Executing /\ losses < MaxLosses
    /\ lost' = TRUE /\ losses' = losses + 1
    /\ Failed /\ UNCHANGED kbd

\* A packet that the keyboard does not expect, or one too long for the buffer.
Refuse ==
    /\ Executing /\ Pid \in {\h90, \h10} /\ ~DataExpected /\ ~StatusExpected
    /\ kbd' = [kbd EXCEPT !.stage = "refused"]
    /\ Failed /\ UNCHANGED <<lost, losses>>

\* The words at 0x0576 are not active, and the link after them, the word at
\* 0x0580, is one that no list of the program writes.
PassOver ==
    /\ ~written /\ next = InfoAt /\ next' \in {0, Astray} /\ lost' = TRUE
    /\ UNCHANGED <<step, written, odd, dataSize, mem, current, kbd, losses>>

\* What is executed by way of such a link, or from a list that is just being written,
\* is not known: words may be stored anywhere, and the keyboard may get packets
\* that it does not expect.
Stray ==
    /\ next = Astray \/ (written /\ next # 0)
    /\ losses < MaxLosses /\ losses' = losses + 1
    /\ next' \in {0, Astray} /\ lost' = TRUE
    /\ \/ UNCHANGED mem
       \/ \E a \in StrayStores : mem' = [mem EXCEPT ![a] = Strayed]
       \/ \E control \in {\h00, \h03} : mem' = [mem EXCEPT ![\h508] = FromHost(control)]
    /\ kbd' \in {kbd, [kbd EXCEPT !.stage = "refused"], [kbd EXCEPT !.address = 2]}
    /\ UNCHANGED <<step, written, odd, dataSize, current>>

Program == LoadList \/ StartList \/ NextStep \/ DeviceInfo \/ ReadSize \/ PollAgain \/ HotPlug
Controller == Setup \/ Data \/ Status \/ SendReport \/ Lose \/ Refuse \/ PassOver \/ Stray

Next == Program \/ Controller

Spec == Init /\ [][Next]_vars
-----------------------------------------------------------------------------
(* Properties *)

\* As long as the controller was at rest while the list was written, it executes only
\* words that the program wrote for this list, even when the program goes on or writes
\* the list again in the meantime: every link leads to a descriptor, and no
\* packet is stored over one that is still to come (the literals of
\* usb.c:118-536).  Only the words at 0x0576 lead elsewhere (main.c:354).
ListIntact ==
    Executing =>
      LET list == ListOf(current)
          i == (next - Base) \div 2
      IN  /\ i \in 0 .. Len(list) - 6
          /\ \A k \in 1 .. 6 : mem[next + 2 * (k - 1)] = FromHost(list[i + k])

\* The keyboards the lists fit: the fifth packet of the configuration has one or
\* two bytes, the eighth of the report descriptor up to three.
Fits == kbd.config \in 33 .. 34 /\ kbd.report \in 57 .. 59

\* Such a keyboard refuses no packet after it has taken the first: the lists ask in the
\* order of a control transfer, with the right toggles and lengths, even when
\* the program starts a list again in the middle.
ProtocolKept ==
    FirstDone /\ current < Poll /\ ~lost /\ Fits => kbd.stage # "refused"

\* Where the answers are, and how much of them the lists fetch.
Fetched ==
    {<<2, OfDevice, \h52C, 8>>, <<3, OfDevice, \h544, 18>>, <<4, OfConfig, \h544, 9>>,
     <<5, OfConfig, \h55C, 33>>, <<9, OfHid, \h544, 8>>, <<10, OfReport, \h580, 57>>}

\* After a list that worked, its answer is in memory without a gap: the word
\* at 0x056c (main.c:332) is the one with byte 7 of the interface descriptor.
AnswerInPlace ==
    \A f \in Fetched :
        LET s == f[1]  which == f[2]  from == f[3]  length == f[4]
        IN  (current = s /\ FirstDone /\ next = 0 /\ ~lost /\ Fits)
              => \A i \in 0 .. length \div 2 :
                    2 * i < length => mem[from + 2 * i] = FromKeyboard(which, 2 * i)

\* The word the program takes for the key (main.c:526) is the one with byte 2
\* of a report, or the link that enumeration left there, 0x0520, whose low byte
\* is no key of the game, unless a controller astray has stored there.
KeyWord == step = Poll => mem[\h51E] \in {FromHost(\h520), FromKeyboard(Report, 2), Strayed}

\* main.c:361 prints the word read at 0x057c as the size of the keyboard's data
\* packets: it is a word the keyboard sent.
PacketSizeRead == step > Info => dataSize.of = \h200
=============================================================================
