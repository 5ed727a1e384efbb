------------------------------ MODULE HpiBus -------------------------------
(***************************************************************************)
(* IO_write and IO_read of io_handler.c, store by store, through the        *)
(* registers of hpi_io_intf that pass everything on one clock later, in     *)
(* both directions.  Nothing is acknowledged: a read takes whatever the     *)
(* input register holds, and works because the processor needs more clocks *)
(* for an instruction than the way there and back.  Shown to implement the  *)
(* ports of HpiPorts.                                                       *)
(***************************************************************************)
EXTENDS Integers, Sequences

CONSTANTS
    MaxValue,  \* of addresses and data
    Gap,       \* clocks from one store of the processor to the next, at least
    Latency    \* clocks the controller needs from a read strobe to its data

ASSUME BusAssumption ==
    /\ MaxValue \in Nat
    /\ Gap \in Nat /\ Latency \in Nat \ {0} /\ Gap >= Latency + 2

VARIABLES
    \* the program: the access under way, the next store, the variable temp
    access, store, result,
    \* the ports the processor writes, and the clocks since the last store
    out, since,
    \* the registers of hpi_io_intf: towards the controller, and back
    wire, dataIn,
    \* the controller: its registers, clocks of the strobe, what it drives
    memory, pointer, mailbox, status, strobe, driven,
    done         \* for the refinement: the controller has served the access

chip == <<memory, pointer, mailbox, status>>
vars == <<access, store, result, out, since, wire, dataIn, chip, strobe, driven, done>>

Values == 0 .. MaxValue
Junk == -1          \* a bus that nobody drives, or not yet

NoAccess == [op |-> "none"]
Writes == [op : {"write"}, port : {"data", "mailbox", "address"}, value : Values]
Reads == [op : {"read"}, port : {"data", "mailbox", "status"}]
Lines == [address : {"data", "mailbox", "address", "status"}, cs : {0, 1}, r : {0, 1},
          w : {0, 1}, data : Values]

TypeOK ==
    /\ access \in Writes \cup Reads \cup {NoAccess}
    /\ store \in 1 .. 7 /\ result \in Values /\ since \in 0 .. Gap
    /\ out \in Lines /\ wire \in Lines
    /\ dataIn \in Values \cup {Junk} /\ driven \in Values \cup {Junk}
    /\ memory \in [Values -> Values] /\ pointer \in Values
    /\ mailbox \in Values /\ status \in Values
    /\ strobe \in 0 .. Latency /\ done \in BOOLEAN

\* After IO_init.
Resting == [address |-> "data", cs |-> 1, r |-> 1, w |-> 1, data |-> 0]

Init ==
    /\ access = NoAccess /\ store = 1 /\ result = 0
    /\ out = Resting /\ since = Gap
    /\ wire = Resting /\ dataIn = Junk
    /\ memory = [a \in Values |-> 0] /\ pointer = 0
    /\ mailbox = 0 /\ status = 0 /\ strobe = 0 /\ driven = Junk /\ done = TRUE

-----------------------------------------------------------------------------
(* The program. *)

\* Mutant: the data are written when the strobe is over.
IO_writeLate == <<"address", "select", "write", "writeEnd", "data", "deselect">>

IO_write == <<"address", "select", "data", "write", "writeEnd", "deselect">>

\* Mutant: the data are read when the strobe is over.
IO_readLate == <<"address", "select", "read", "readEnd", "sample", "deselect">>

IO_read == <<"address", "select", "read", "sample", "readEnd", "deselect">>

Call ==
    /\ access = NoAccess
    /\ access' \in Writes \cup Reads /\ store' = 1 /\ done' = FALSE
    /\ UNCHANGED <<result, out, since, wire, dataIn, chip, strobe, driven>>

\* The access to a port that comes next; the processor takes Gap clocks for it.
Does(what) ==
    /\ access # NoAccess /\ store <= 6 /\ since = Gap
    /\ what = (IF access.op = "write" THEN IO_write ELSE IO_read)[store]
    /\ store' = store + 1 /\ since' = 0
    /\ UNCHANGED <<access, wire, dataIn, chip, strobe, driven, done>>

Drive(what, lines) == Does(what) /\ out' = lines /\ UNCHANGED result

SetAddress == Drive("address", [out EXCEPT !.address = access.port])
Select == Drive("select", [out EXCEPT !.cs = 0])
SetData == Drive("data", [out EXCEPT !.data = access.value])
WriteStrobe == Drive("write", [out EXCEPT !.w = 0])
WriteEnd == Drive("writeEnd", [out EXCEPT !.w = 1])
ReadStrobe == Drive("read", [out EXCEPT !.r = 0])
ReadEnd == Drive("readEnd", [out EXCEPT !.r = 1])
Deselect == Drive("deselect", [out EXCEPT !.cs = 1])

Sample == Does("sample") /\ result' = dataIn /\ UNCHANGED out

\* The function returns; what it did last is still on its way to the controller.
Return ==
    /\ access # NoAccess /\ store = 7 /\ since = Gap
    /\ access' = NoAccess /\ store' = 1
    /\ UNCHANGED <<result, out, since, wire, dataIn, chip, strobe, driven, done>>

-----------------------------------------------------------------------------
(* A clock: the interface passes on what was written, the controller sees   *)
(* the lines that were there before.                                       *)

Writing == wire.cs = 0 /\ wire.w = 0
Reading == wire.cs = 0 /\ wire.r = 0
After(p) == IF p < MaxValue THEN p + 1 ELSE 0

\* OTG_DATA is driven by the interface while OTG_WR_N is low.
Bus == IF wire.w = 0 THEN wire.data ELSE driven

Interface == wire' = out /\ dataIn' = Bus

Content(port) ==
    CASE port = "data" -> memory[pointer] [] port = "mailbox" -> mailbox
      [] port = "status" -> status [] port = "address" -> pointer

\* The controller (external) takes a word at the end of a write strobe.
TakeWord ==
    /\ Writing /\ ~(out.cs = 0 /\ out.w = 0)
    /\ done' = TRUE
    /\ memory' = (IF wire.address = "data" THEN [memory EXCEPT ![pointer] = Bus] ELSE memory)
    /\ pointer' = (CASE wire.address = "data" -> After(pointer)
                     [] wire.address = "address" -> Bus
                     [] OTHER -> pointer)
    /\ mailbox' = (IF wire.address = "mailbox" THEN Bus ELSE mailbox)
    /\ UNCHANGED <<status, strobe, driven>>

\* It drives a word some clocks after a read strobe began, and keeps it until
\* the strobe ends; the pointer moves then.
GiveWord ==
    /\ Reading /\ strobe < Latency
    /\ strobe' = strobe + 1
    /\ IF strobe' = Latency THEN driven' = Content(wire.address) /\ done' = TRUE
                           ELSE UNCHANGED <<driven, done>>
    /\ UNCHANGED chip

EndOfRead ==
    /\ ~Reading /\ strobe > 0
    /\ strobe' = 0 /\ driven' = Junk
    /\ pointer' = (IF wire.address = "data" /\ strobe = Latency THEN After(pointer) ELSE pointer)
    /\ UNCHANGED <<memory, mailbox, status, done>>

NoStrobe ==
    /\ ~(Writing /\ ~(out.cs = 0 /\ out.w = 0))
    /\ ~(Reading /\ strobe < Latency) /\ ~(~Reading /\ strobe > 0)
    /\ UNCHANGED <<chip, strobe, driven, done>>

Clock ==
    /\ Interface
    /\ TakeWord \/ GiveWord \/ EndOfRead \/ NoStrobe
    /\ since' = IF since < Gap THEN since + 1 ELSE Gap
    /\ UNCHANGED <<access, store, result, out>>

\* What the controller does by itself to the words the program reads.
Itself ==
    /\ \/ \E a, v \in Values : memory' = [memory EXCEPT ![a] = v] /\ UNCHANGED <<mailbox, status>>
       \/ mailbox' \in Values /\ UNCHANGED <<memory, status>>
       \/ status' \in Values /\ UNCHANGED <<memory, mailbox>>
    /\ UNCHANGED <<pointer, access, store, result, out, since, wire, dataIn, strobe, driven, done>>

Program ==
    \/ Call \/ Return
    \/ SetAddress \/ Select \/ SetData \/ WriteStrobe \/ WriteEnd
    \/ ReadStrobe \/ Sample \/ ReadEnd \/ Deselect

Next == Program \/ Clock \/ Itself

Spec == Init /\ [][Next]_vars
-----------------------------------------------------------------------------
(***************************************************************************)
(* Refinement.  A write happens when its strobe ends at the controller; a   *)
(* read happens when the controller drives the word, although the program   *)
(* has it, and the pointer moves, only later.                              *)
(***************************************************************************)
Driving == strobe = Latency

Ports == INSTANCE HpiPorts
           WITH pointer <- IF Driving /\ wire.address = "data" THEN After(pointer) ELSE pointer,
                result <- IF Driving /\ store <= 4 THEN driven ELSE result

\* Each access to a port happens exactly once, at the port it names, with the
\* value it names, and before it returns: io_handler.c:23-54 through
\* hpi_io_intf.sv:18-41, as usb.c relies on it.
ImplementsPorts == Ports!Spec
=============================================================================
