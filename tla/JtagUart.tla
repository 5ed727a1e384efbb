------------------------------ MODULE JtagUart ------------------------------
(***************************************************************************)
(* Where printf goes: the interrupt-driven driver of the JTAG UART.  The    *)
(* main loop of the keyboard driver prints in every turn (main.c:527), so   *)
(* it goes on only as long as altera_avalon_jtag_uart_write returns.  The   *)
(* writer copies into a ring buffer and waits while it is full; the         *)
(* interrupt handler moves characters between the rings and the two FIFOs   *)
(* of the device.                                                          *)
(*                                                                         *)
(* There is no system clock (system.h:214), so alt_alarm_start fails: the   *)
(* timeout is INT_MAX, host_inactive stays 0, and the driver never finds    *)
(* out that nobody reads.  Nothing in the program reads stdin.             *)
(***************************************************************************)
EXTENDS Integers, Sequences

CONSTANTS
    BufLen,        \* ALTERA_AVALON_JTAG_UART_BUF_LEN (2048 in the code)
    Depth,         \* of each FIFO of the device (64)
    Threshold,     \* characters left in the FIFO when it asks for more (8)
    MaxCount,      \* bound: characters of one call of write
    Marks          \* bound: characters are numbered modulo Marks

ASSUME UartAssumption ==
    /\ BufLen \in Nat /\ BufLen >= 2 /\ Depth \in Nat \ {0}
    /\ Threshold \in 0 .. Depth - 1 /\ MaxCount \in Nat \ {0}
    /\ Marks \in Nat /\ Marks >= BufLen + Depth

VARIABLES
    \* write: the step it is at, its arguments and its variables n and out; here
    \* and in the handler a variable is 0 when its value is no longer needed
    pc, count, n, out,
    \* the driver's state: rings, and the interrupts it has enabled
    tx_in, tx_out, tx_buf, rx_in, rx_buf, re, we,
    \* the interrupt handler: its step, the bits and the space it read
    handler, wi, space, avail,
    \* the device, and whether somebody reads the console
    txFifo, rxFifo, host,
    \* for the properties: the characters printed, shown and typed
    printed, shown, typed

writer == <<pc, count, n, out, printed>>
rings == <<tx_in, tx_out, tx_buf, rx_in, rx_buf>>
irq == <<handler, wi, space, avail>>
device == <<txFifo, rxFifo, host, shown, typed>>
vars == <<writer, rings, re, we, irq, device>>

Slots == 0 .. BufLen - 1
After(slot) == (slot + 1) % BufLen
rx_out == 0

Init ==
    /\ pc = "idle" /\ count = 0 /\ n = 0 /\ out = 0
    /\ tx_in = 0 /\ tx_out = 0 /\ rx_in = 0
    /\ tx_buf = [s \in Slots |-> 0] /\ rx_buf = [s \in Slots |-> 0]
    /\ re = TRUE /\ we = FALSE
    /\ handler = "none" /\ wi = FALSE /\ space = 0 /\ avail = FALSE
    /\ txFifo = <<>> /\ rxFifo = <<>> /\ host \in BOOLEAN
    /\ printed = 0 /\ shown = 0 /\ typed = 0
-----------------------------------------------------------------------------
(* write.  An interrupt may come between any two of its steps. *)

Runs(step) == handler = "none" /\ pc = step

Call ==
    /\ Runs("idle") /\ pc' = "room" /\ count' \in 1 .. MaxCount
    /\ UNCHANGED <<n, out, printed, rings, re, we, irq, device>>

\* Mutant: the slot that keeps a full ring from looking empty is used.
RoomToEnd(in, o) == IF in < o THEN o - 1 - in ELSE BufLen - in

\* The slots that can be filled without going around the end.
Room(in, o) ==
    IF in < o THEN o - 1 - in
    ELSE IF o > 0 THEN BufLen - in ELSE BufLen - 1 - in

LookForRoom ==
    /\ Runs("room")
    /\ \/ count = 0 /\ pc' = "kick" /\ UNCHANGED <<n, out>>
       \/ count > 0 /\ Room(tx_in, tx_out) = 0 /\ pc' = "kick" /\ out' = tx_out /\ UNCHANGED n
       \/ /\ count > 0 /\ Room(tx_in, tx_out) > 0 /\ pc' = "copy"
          /\ n' = IF Room(tx_in, tx_out) > count THEN count ELSE Room(tx_in, tx_out)
          /\ UNCHANGED out
    /\ UNCHANGED <<count, printed, rings, re, we, irq, device>>

Copy ==
    /\ Runs("copy") /\ pc' = "advance"
    /\ tx_buf' = [s \in Slots |-> IF s >= tx_in /\ s < tx_in + n
                                  THEN (printed + s - tx_in) % Marks ELSE tx_buf[s]]
    /\ count' = count - n
    /\ UNCHANGED <<n, out, printed, tx_in, tx_out, rx_in, rx_buf, re, we, irq, device>>

Advance ==
    /\ Runs("advance") /\ pc' = "room"
    /\ tx_in' = (tx_in + n) % BufLen
    /\ printed' = (printed + n) % Marks
    /\ n' = 0
    /\ UNCHANGED <<count, out, tx_out, tx_buf, rx_in, rx_buf, re, we, irq, device>>

\* Mutant: the interrupt is enabled when all the characters are in the ring.
KickAtEnd ==
    /\ Runs("kick") /\ pc' = (IF count > 0 THEN "wait" ELSE "idle")
    /\ we' = (we \/ count = 0)
    /\ UNCHANGED <<count, n, out, printed, rings, re, irq, device>>

\* With interrupts disabled.
Kick ==
    /\ Runs("kick") /\ pc' = (IF count > 0 THEN "wait" ELSE "idle")
    /\ we' = TRUE
    /\ UNCHANGED <<count, n, out, printed, rings, re, irq, device>>

\* out == tx_out && host_inactive < timeout: the second is always true.
Wait ==
    /\ Runs("wait") /\ out # tx_out /\ pc' = "room" /\ out' = 0
    /\ UNCHANGED <<count, n, printed, rings, re, we, irq, device>>
-----------------------------------------------------------------------------
(* The device (external): it asks for an interrupt while one is enabled and *)
(* there is a reason for it, and drops what does not fit.                  *)

ReadPending == re /\ rxFifo # <<>>
WritePending == we /\ Len(txFifo) <= Threshold

HostReads ==
    /\ host /\ txFifo # <<>>
    /\ txFifo' = Tail(txFifo) /\ shown' = (shown + 1) % Marks
    /\ UNCHANGED <<rxFifo, host, typed, writer, rings, re, we, irq>>

HostTypes ==
    /\ host /\ Len(rxFifo) < Depth
    /\ rxFifo' = Append(rxFifo, typed) /\ typed' = typed + 1
    /\ UNCHANGED <<txFifo, host, shown, writer, rings, re, we, irq>>

HostComesOrGoes ==
    /\ host' = ~host
    /\ UNCHANGED <<txFifo, rxFifo, shown, typed, writer, rings, re, we, irq>>
-----------------------------------------------------------------------------
(* altera_avalon_jtag_uart_irq.  It runs to its end before the program goes *)
(* on; the device goes on beside it.                                       *)

Interrupt ==
    /\ handler = "none"
    /\ ReadPending \/ WritePending
    /\ handler' = "control"
    /\ UNCHANGED <<wi, space, avail, writer, rings, re, we, device>>

ReadControl ==
    /\ handler = "control"
    /\ \/ /\ ~ReadPending /\ ~WritePending /\ handler' = "none"
          /\ wi' = FALSE /\ space' = 0 /\ avail' = FALSE
       \/ /\ ReadPending \/ WritePending
          /\ handler' = (IF ReadPending THEN "read" ELSE "write")
          /\ wi' = WritePending /\ space' = (IF WritePending THEN Depth - Len(txFifo) ELSE 0)
          /\ avail' = ReadPending
    /\ UNCHANGED <<writer, rings, re, we, device>>

RxFull == After(rx_in) = rx_out
AfterRead == handler' = (IF wi THEN "write" ELSE "control")

TakeTyped ==
    /\ handler = "read" /\ ~RxFull /\ rxFifo # <<>>
    /\ rx_buf' = [rx_buf EXCEPT ![rx_in] = Head(rxFifo)] /\ rx_in' = After(rx_in)
    /\ rxFifo' = Tail(rxFifo) /\ avail' = (rxFifo' # <<>>)
    /\ UNCHANGED <<handler, wi, space, writer, tx_in, tx_out, tx_buf, re, we, txFifo, host,
                   shown, typed>>

NothingTyped ==
    /\ handler = "read" /\ ~RxFull /\ rxFifo = <<>>
    /\ AfterRead /\ avail' = FALSE
    /\ UNCHANGED <<wi, space, writer, rings, re, we, device>>

\* Mutant: the interrupt stays enabled.
NoRoomToRead ==
    /\ handler = "read" /\ RxFull
    /\ AfterRead
    /\ UNCHANGED <<wi, space, avail, writer, rings, re, we, device>>

\* With characters left and no room the interrupt is turned off.
StopReading ==
    /\ handler = "read" /\ RxFull
    /\ AfterRead /\ re' = (re /\ ~avail)
    /\ UNCHANGED <<wi, space, avail, writer, rings, we, device>>

MoreToSend == space > 0 /\ tx_out # tx_in

Send ==
    /\ handler = "write" /\ MoreToSend
    /\ txFifo' = (IF Len(txFifo) < Depth THEN Append(txFifo, tx_buf[tx_out]) ELSE txFifo)
    /\ tx_out' = After(tx_out) /\ space' = space - 1
    /\ UNCHANGED <<handler, wi, avail, writer, tx_in, tx_buf, rx_in, rx_buf, re, we, rxFifo,
                   host, shown, typed>>

StopSending ==
    /\ handler = "write" /\ ~MoreToSend
    /\ handler' = "control" /\ we' = (we /\ space = 0)
    /\ UNCHANGED <<wi, space, avail, writer, rings, re, device>>

Writer == LookForRoom \/ Copy \/ Advance \/ Kick \/ Wait
Handler ==
    \/ Interrupt \/ ReadControl \/ TakeTyped \/ NothingTyped \/ StopReading
    \/ Send \/ StopSending

Next == Call \/ Writer \/ Handler \/ HostReads \/ HostTypes \/ HostComesOrGoes

Spec == Init /\ [][Next]_vars

\* The processor runs, and whoever reads the console reads on.
Fairness == WF_vars(Writer) /\ WF_vars(Handler) /\ WF_vars(HostReads)

FairSpec == Spec /\ Fairness
-----------------------------------------------------------------------------
(* Properties *)

InRing == [i \in 1 .. (tx_in - tx_out) % BufLen |-> tx_buf[(tx_out + i - 1) % BufLen]]
Received == [i \in 1 .. rx_in |-> rx_buf[i - 1]]

Outstanding == txFifo \o InRing

\* What was printed and not yet shown is in the FIFO and the ring, each
\* character once and in order, whenever the interrupts come
\* (altera_avalon_jtag_uart_write.c:103-127, _init.c:174-184); what was typed is
\* kept as far as there is room (_init.c:132-166).
InOrder ==
    /\ Outstanding = [i \in 1 .. (printed - shown) % Marks |-> (shown + i - 1) % Marks]
    /\ Received \o rxFifo = [i \in 1 .. typed |-> i - 1]

\* While somebody reads the console every printf returns, and everything it has
\* printed is shown: the handler never turns off an interrupt that is needed
\* (altera_avalon_jtag_uart_write.c:136-183, _init.c:186-194).  The condition is necessary: when
\* nobody reads, the writer waits as soon as ring and FIFO are full.
ConsoleServed ==
    <>[]host => /\ (pc # "idle") ~> (pc = "idle")
                /\ (Outstanding # <<>>) ~> (Outstanding = <<>> \/ pc # "idle")

\* The for (;;) of the handler ends, however fast the host reads and types
\* (altera_avalon_jtag_uart_init.c:117-196).
HandlerEnds == (handler # "none") ~> (handler = "none")
=============================================================================
