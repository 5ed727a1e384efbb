----------------------------- MODULE HpiPorts ------------------------------
(***************************************************************************)
(* What io_handler.c promises to usb.c and main.c: four ports of the USB    *)
(* controller, each access of which happens once and at one moment.         *)
(* HPI_ADDR holds the pointer, HPI_DATA is the word of memory it points to  *)
(* and moves it on, HPI_MAILBOX takes commands, and HPI_STATUS is read.     *)
(***************************************************************************)
EXTENDS Integers

CONSTANTS MaxValue      \* of addresses and data, a natural number

Values == 0 .. MaxValue

\* Accesses: IO_write(port, value) and IO_read(port).
Writes == [op : {"write"}, port : {"data", "mailbox", "address"}, value : Values]
Reads == [op : {"read"}, port : {"data", "mailbox", "status"}]
Accesses == Writes \cup Reads
NoAccess == [op |-> "none"]

VARIABLES
    memory, pointer, mailbox, status,    \* the controller
    access,      \* the access under way
    done,        \* it has happened
    result       \* what the last read returned

ports == <<memory, pointer, mailbox, status>>
vars == <<ports, access, done, result>>

After(p) == IF p < MaxValue THEN p + 1 ELSE 0

Init ==
    /\ memory \in [Values -> Values] /\ pointer \in Values
    /\ mailbox \in Values /\ status \in Values
    /\ access = NoAccess /\ done = TRUE /\ result \in Values

Begin ==
    /\ access = NoAccess
    /\ access' \in Accesses /\ done' = FALSE
    /\ UNCHANGED <<ports, result>>

\* The effects of the accesses on the controller.
Put(value) ==
    /\ memory' = [memory EXCEPT ![pointer] = value] /\ pointer' = After(pointer)
    /\ UNCHANGED <<mailbox, status>>
Point(value) == pointer' = value /\ UNCHANGED <<memory, mailbox, status>>
Command(value) == mailbox' = value /\ UNCHANGED <<memory, pointer, status>>
Get == pointer' = After(pointer) /\ UNCHANGED <<memory, mailbox, status>>

Write(port, value) ==
    \/ port = "data" /\ Put(value)
    \/ port = "address" /\ Point(value)
    \/ port = "mailbox" /\ Command(value)

Content(port) ==
    CASE port = "data" -> memory[pointer] [] port = "mailbox" -> mailbox
      [] port = "status" -> status [] port = "address" -> pointer

HappenWrite ==
    /\ access.op = "write" /\ ~done /\ done' = TRUE
    /\ Write(access.port, access.value)
    /\ UNCHANGED <<access, result>>

HappenRead ==
    /\ access.op = "read" /\ ~done /\ done' = TRUE
    /\ result' = Content(access.port)
    /\ IF access.port = "data" THEN Get ELSE UNCHANGED ports
    /\ UNCHANGED access

Return ==
    /\ access # NoAccess /\ done
    /\ access' = NoAccess
    /\ UNCHANGED <<ports, done, result>>

\* The controller works beside the program.
Itself ==
    /\ \/ \E a, v \in Values : memory' = [memory EXCEPT ![a] = v] /\ UNCHANGED <<mailbox, status>>
       \/ mailbox' \in Values /\ UNCHANGED <<memory, status>>
       \/ status' \in Values /\ UNCHANGED <<memory, mailbox>>
    /\ UNCHANGED <<pointer, access, done, result>>

Next == Begin \/ HappenWrite \/ HappenRead \/ Return \/ Itself

Spec == Init /\ [][Next]_vars
=============================================================================
