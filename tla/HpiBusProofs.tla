--------------------------- MODULE HpiBusProofs ----------------------------
(***************************************************************************)
(* HpiBus implements HpiPorts, for every latency of the controller and any  *)
(* processor that needs two clocks more for an instruction.  The invariant  *)
(* says, for each place in IO_write and IO_read and each clock since the    *)
(* last store, what is on the lines on both sides of hpi_io_intf, how far   *)
(* the controller is and whether it has served the access.                 *)
(***************************************************************************)
EXTENDS HpiBus, TLAPS

InWrite(s) == access.op = "write" /\ store = s
InRead(s) == access.op = "read" /\ store = s

Lag == since # 0 => wire = out

\* The lines at the processor, and one clock later at the controller.
OutWhere ==
    /\ access = NoAccess => store = 1
    /\ out.cs = 0 <=> store \in 3 .. 6
    /\ out.r = 0 <=> InRead(4) \/ InRead(5)
    /\ out.w = 0 <=> InWrite(5)
    /\ store >= 2 => out.address = access.port
    /\ access.op = "write" /\ store >= 4 => out.data = access.value

WireWhere ==
    since = 0 =>
      /\ store >= 2
      /\ wire.cs = 0 <=> store \in 4 .. 7
      /\ wire.r = 0 <=> InRead(5) \/ InRead(6)
      /\ wire.w = 0 <=> InWrite(6)
      /\ store >= 3 => wire.address = access.port
      /\ access.op = "write" /\ store >= 5 => wire.data = access.value

StrobeWhere ==
    /\ InRead(4) => strobe = (IF since = 0 THEN 0
                              ELSE IF since - 1 < Latency THEN since - 1 ELSE Latency)
    /\ InRead(5) => strobe = Latency
    /\ InRead(6) => strobe = (IF since <= 1 THEN Latency ELSE 0)
    /\ ~(InRead(4) \/ InRead(5) \/ InRead(6)) => strobe = 0

DataWhere ==
    /\ strobe = Latency => driven \in Values
    /\ InRead(4) /\ since >= Latency + 2 => dataIn = driven

DoneWhere ==
    /\ access.op = "none" => done
    /\ access.op = "write" => (done <=> store = 7 \/ (store = 6 /\ since # 0))
    /\ access.op = "read" => (done <=> store >= 5 \/ (store = 4 /\ strobe = Latency))

BusInv == TypeOK /\ Lag /\ OutWhere /\ WireWhere /\ StrobeWhere /\ DataWhere /\ DoneWhere
-----------------------------------------------------------------------------
LEMMA AccessKinds ==
    ASSUME TypeOK
    PROVE  /\ access.op \in {"none", "write", "read"}
           /\ access = NoAccess <=> access.op = "none"
           /\ access.op = "write" => /\ access.port \in {"data", "mailbox", "address"}
                                     /\ access.value \in Values
           /\ access.op = "read" => access.port \in {"data", "mailbox", "status"}
BY DEF TypeOK, Writes, Reads, NoAccess

\* Where in IO_write and IO_read each access to a port is made.
LEMMA StorePlaces ==
    ASSUME TypeOK
    PROVE  /\ Does("address") => store = 1
           /\ Does("select") => store = 2
           /\ Does("data") => InWrite(3)
           /\ Does("write") => InWrite(4)
           /\ Does("writeEnd") => InWrite(5)
           /\ Does("read") => InRead(3)
           /\ Does("sample") => InRead(4)
           /\ Does("readEnd") => InRead(5)
           /\ Does("deselect") => store = 6
<1> SUFFICES ASSUME NEW what, Does(what)
             PROVE  /\ what = "address" => store = 1
                    /\ what = "select" => store = 2
                    /\ what = "data" => InWrite(3)
                    /\ what = "write" => InWrite(4)
                    /\ what = "writeEnd" => InWrite(5)
                    /\ what = "read" => InRead(3)
                    /\ what = "sample" => InRead(4)
                    /\ what = "readEnd" => InRead(5)
                    /\ what = "deselect" => store = 6
    OBVIOUS
<1>1. store \in 1 .. 6
      BY DEF TypeOK, Does
<1>2. CASE access.op = "write"
  <2>1. what = IO_write[store]
        BY <1>2 DEF Does
  <2> QED BY <1>1, <1>2, <2>1 DEF IO_write, InWrite
<1>3. CASE access.op = "read"
  <2>1. what = IO_read[store]
        BY <1>3 DEF Does
  <2> QED BY <1>1, <1>3, <2>1 DEF IO_read, InRead
<1>4. access.op # "none"
      BY AccessKinds DEF Does
<1> QED BY <1>2, <1>3, <1>4, AccessKinds

LEMMA InitBus == Init => BusInv
BY BusAssumption
   DEF Init, BusInv, TypeOK, Lag, OutWhere, WireWhere, StrobeWhere, DataWhere, DoneWhere,
       InWrite, InRead, Resting, NoAccess, Lines, Values, Junk

-----------------------------------------------------------------------------
LEMMA SinceGap == BusInv /\ since = Gap => wire = out
BY BusAssumption DEF BusInv, Lag

\* An access to a port keeps the invariant, whatever it writes to the lines,
\* as long as they are what OutWhere says.
LEMMA StoreKeeps ==
    ASSUME BusInv, NEW what, Does(what), out' \in Lines, result' \in Values, OutWhere',
           InRead(3) => strobe = 0
    PROVE  BusInv'
<1> USE BusAssumption DEF BusInv
<1>1. /\ store' = store + 1 /\ store \in 1 .. 6 /\ since = Gap /\ since' = 0
      /\ access.op # "none" /\ access # NoAccess
      /\ UNCHANGED <<access, wire, dataIn, chip, strobe, driven, done>>
      BY AccessKinds DEF Does, TypeOK
<1>2. wire = out
      BY SinceGap, <1>1
<1>3. TypeOK' /\ Lag'
      BY <1>1 DEF TypeOK, Lag, chip
<1>4. WireWhere'
      BY <1>1, <1>2, AccessKinds DEF OutWhere, WireWhere, InRead, InWrite
<1>5. StrobeWhere' /\ DataWhere'
      BY <1>1, AccessKinds DEF StrobeWhere, DataWhere, InRead, TypeOK
<1>6. DoneWhere'
      BY <1>1, AccessKinds DEF DoneWhere, StrobeWhere, InRead, TypeOK
<1> QED BY <1>3, <1>4, <1>5, <1>6

LEMMA LinesKeep ==
    ASSUME out \in Lines
    PROVE  /\ \A b \in {0, 1} : /\ [out EXCEPT !.cs = b] \in Lines
                               /\ [out EXCEPT !.r = b] \in Lines
                               /\ [out EXCEPT !.w = b] \in Lines
           /\ \A a \in {"data", "mailbox", "address", "status"} :
                  [out EXCEPT !.address = a] \in Lines
           /\ \A v \in Values : [out EXCEPT !.data = v] \in Lines
BY DEF Lines

LEMMA ProgramKeeps ==
    ASSUME BusInv, Program
    PROVE  BusInv'
<1> USE DEF BusInv
<1>1. CASE Call
  <2>1. /\ access = NoAccess /\ access' \in Writes \cup Reads /\ store' = 1 /\ done' = FALSE
        /\ UNCHANGED <<result, out, since, wire, dataIn, chip, strobe, driven>>
        BY <1>1 DEF Call
  <2>2. access'.op \in {"write", "read"} /\ access' # NoAccess
        BY <2>1 DEF Writes, Reads, NoAccess
  <2>3. TypeOK' /\ Lag'
    <3>1. done' \in BOOLEAN
          BY <2>1
    <3>2. access' \in Writes \cup Reads \cup {NoAccess} /\ store' \in 1 .. 7
          BY <2>1
    <3> QED BY <2>1, <3>1, <3>2 DEF TypeOK, Lag, chip
  <2>4. store = 1 /\ access.op = "none" /\ strobe = 0
        BY <2>1, AccessKinds DEF OutWhere, StrobeWhere, InRead
  <2>5. since # 0
        BY <2>4 DEF WireWhere
  <2>6. OutWhere' /\ WireWhere'
        BY <2>1, <2>2, <2>4, <2>5 DEF OutWhere, WireWhere, InRead, InWrite
  <2>7. StrobeWhere' /\ DataWhere'
        BY <2>1, <2>2, <2>4 DEF StrobeWhere, DataWhere, InRead
  <2>8. DoneWhere'
        BY <2>1, <2>2 DEF DoneWhere
  <2> QED BY <2>3, <2>6, <2>7, <2>8
<1>2. CASE Return
  <2>1. /\ access # NoAccess /\ store = 7 /\ since = Gap /\ access' = NoAccess /\ store' = 1
        /\ UNCHANGED <<result, out, since, wire, dataIn, chip, strobe, driven, done>>
        BY <1>2 DEF Return
  <2>2. since # 0
        BY <2>1, BusAssumption
  <2>3. access'.op = "none"
        BY <2>1 DEF NoAccess
  <2>4. TypeOK' /\ Lag'
        BY <2>1 DEF TypeOK, Lag, chip
  <2>5. OutWhere' /\ WireWhere'
        BY <2>1, <2>2, <2>3 DEF OutWhere, WireWhere, InRead, InWrite
  <2>6. StrobeWhere' /\ DataWhere'
        BY <2>1, <2>3 DEF StrobeWhere, DataWhere, InRead
  <2>7. DoneWhere'
        BY <2>1, <2>2, <2>3, AccessKinds DEF DoneWhere
  <2> QED BY <2>4, <2>5, <2>6, <2>7
<1>3. out \in Lines /\ result \in Values /\ store \in 1 .. 7
      BY DEF TypeOK
<1>4. InRead(3) => strobe = 0
      BY DEF StrobeWhere, InRead
<1>5. CASE SetAddress
  <2>1. /\ Does("address") /\ store = 1 /\ store' = 2 /\ access' = access
        /\ out' = [out EXCEPT !.address = access.port] /\ result' = result
        BY <1>5, StorePlaces DEF SetAddress, Drive, Does
  <2>2. access # NoAccess /\ access.port \in {"data", "mailbox", "address", "status"}
        BY <2>1, AccessKinds DEF Does
  <2>3. out' \in Lines
        BY <2>1, <2>2, <1>3, LinesKeep
  <2>4. OutWhere'
        BY <2>1, <2>2, <1>3 DEF OutWhere, InRead, InWrite, Lines
  <2> QED BY <2>1, <2>3, <2>4, <1>3, <1>4, StoreKeeps
<1>6. CASE Select
  <2>1. /\ Does("select") /\ store = 2 /\ store' = 3 /\ access' = access /\ access # NoAccess
        /\ out' = [out EXCEPT !.cs = 0] /\ result' = result
        BY <1>6, StorePlaces DEF Select, Drive, Does
  <2>2. out' \in Lines
        BY <2>1, <1>3, LinesKeep
  <2>3. OutWhere'
        BY <2>1, <1>3 DEF OutWhere, InRead, InWrite, Lines
  <2> QED BY <2>1, <2>2, <2>3, <1>3, <1>4, StoreKeeps
<1>7. CASE SetData
  <2>1. /\ Does("data") /\ InWrite(3) /\ store' = 4 /\ access' = access /\ access # NoAccess
        /\ out' = [out EXCEPT !.data = access.value] /\ result' = result
        BY <1>7, StorePlaces DEF SetData, Drive, Does, InWrite
  <2>2. out' \in Lines
        BY <2>1, <1>3, LinesKeep, AccessKinds DEF InWrite
  <2>3. OutWhere'
        BY <2>1, <1>3 DEF OutWhere, InRead, InWrite, Lines
  <2> QED BY <2>1, <2>2, <2>3, <1>3, <1>4, StoreKeeps
<1>8. CASE WriteStrobe
  <2>1. /\ Does("write") /\ InWrite(4) /\ store' = 5 /\ access' = access /\ access # NoAccess
        /\ out' = [out EXCEPT !.w = 0] /\ result' = result
        BY <1>8, StorePlaces DEF WriteStrobe, Drive, Does, InWrite
  <2>2. out' \in Lines
        BY <2>1, <1>3, LinesKeep
  <2>3. OutWhere'
        BY <2>1, <1>3 DEF OutWhere, InRead, InWrite, Lines
  <2> QED BY <2>1, <2>2, <2>3, <1>3, <1>4, StoreKeeps
<1>9. CASE WriteEnd
  <2>1. /\ Does("writeEnd") /\ InWrite(5) /\ store' = 6 /\ access' = access /\ access # NoAccess
        /\ out' = [out EXCEPT !.w = 1] /\ result' = result
        BY <1>9, StorePlaces DEF WriteEnd, Drive, Does, InWrite
  <2>2. out' \in Lines
        BY <2>1, <1>3, LinesKeep
  <2>3. OutWhere'
        BY <2>1, <1>3 DEF OutWhere, InRead, InWrite, Lines
  <2> QED BY <2>1, <2>2, <2>3, <1>3, <1>4, StoreKeeps
<1>10. CASE ReadStrobe
  <2>1. /\ Does("read") /\ InRead(3) /\ store' = 4 /\ access' = access /\ access # NoAccess
        /\ out' = [out EXCEPT !.r = 0] /\ result' = result
        BY <1>10, StorePlaces DEF ReadStrobe, Drive, Does, InRead
  <2>2. out' \in Lines
        BY <2>1, <1>3, LinesKeep
  <2>3. OutWhere'
        BY <2>1, <1>3 DEF OutWhere, InRead, InWrite, Lines
  <2> QED BY <2>1, <2>2, <2>3, <1>3, <1>4, StoreKeeps
<1>11. CASE Sample
  <2>1. /\ Does("sample") /\ InRead(4) /\ store' = 5 /\ access' = access /\ access # NoAccess
        /\ out' = out /\ result' = dataIn /\ since = Gap
        BY <1>11, StorePlaces DEF Sample, Does, InRead
  <2>2. result' \in Values
    <3>1. strobe = Latency
          BY <2>1, BusAssumption DEF StrobeWhere
    <3> QED BY <2>1, <3>1, BusAssumption DEF DataWhere
  <2>3. OutWhere'
        BY <2>1, <1>3 DEF OutWhere, InRead, InWrite
  <2> QED BY <2>1, <2>2, <2>3, <1>3, <1>4, StoreKeeps
<1>12. CASE ReadEnd
  <2>1. /\ Does("readEnd") /\ InRead(5) /\ store' = 6 /\ access' = access /\ access # NoAccess
        /\ out' = [out EXCEPT !.r = 1] /\ result' = result
        BY <1>12, StorePlaces DEF ReadEnd, Drive, Does, InRead
  <2>2. out' \in Lines
        BY <2>1, <1>3, LinesKeep
  <2>3. OutWhere'
        BY <2>1, <1>3 DEF OutWhere, InRead, InWrite, Lines
  <2> QED BY <2>1, <2>2, <2>3, <1>3, <1>4, StoreKeeps
<1>13. CASE Deselect
  <2>1. /\ Does("deselect") /\ store = 6 /\ store' = 7 /\ access' = access /\ access # NoAccess
        /\ out' = [out EXCEPT !.cs = 1] /\ result' = result
        BY <1>13, StorePlaces DEF Deselect, Drive, Does
  <2>2. out' \in Lines
        BY <2>1, <1>3, LinesKeep
  <2>3. OutWhere'
        BY <2>1, <1>3 DEF OutWhere, InRead, InWrite, Lines
  <2> QED BY <2>1, <2>2, <2>3, <1>3, <1>4, StoreKeeps
<1> QED BY <1>1, <1>2, <1>5, <1>6, <1>7, <1>8, <1>9, <1>10, <1>11, <1>12, <1>13 DEF Program

-----------------------------------------------------------------------------
\* What the controller does at a clock, at each place of the program.
LEMMA ClockPlaces ==
    ASSUME BusInv, TakeWord \/ GiveWord \/ EndOfRead \/ NoStrobe
    PROVE  /\ InWrite(6) /\ since = 0 => TakeWord
           /\ InRead(4) /\ since \in 1 .. Latency => GiveWord
           /\ InRead(6) /\ since = 1 => EndOfRead
           /\ TakeWord => InWrite(6) /\ since = 0
           /\ GiveWord => InRead(4) /\ since \in 1 .. Latency
           /\ EndOfRead => InRead(6) /\ since = 1
<1> USE BusAssumption DEF BusInv
<1>1. /\ store \in 1 .. 7 /\ since \in 0 .. Gap /\ strobe \in 0 .. Latency
      /\ access = NoAccess <=> access.op = "none"
      BY AccessKinds DEF TypeOK
<1>2. Writing <=> \/ InWrite(5) /\ since # 0
                  \/ InWrite(6) /\ since = 0
      BY <1>1 DEF Writing, Lag, OutWhere, WireWhere, InWrite
<1>3. Reading <=> \/ InRead(4) /\ since # 0
                  \/ InRead(5)
                  \/ InRead(6) /\ since = 0
      BY <1>1 DEF Reading, Lag, OutWhere, WireWhere, InRead
<1>4. out.cs = 0 /\ out.w = 0 <=> InWrite(5)
      BY <1>1 DEF OutWhere, InWrite
<1>5. Reading /\ strobe < Latency <=> InRead(4) /\ since \in 1 .. Latency
      BY <1>1, <1>3 DEF StrobeWhere, InRead
<1>6. ~Reading /\ strobe > 0 <=> InRead(6) /\ since = 1
      BY <1>1, <1>3 DEF StrobeWhere, InRead
<1>7. Writing /\ ~InWrite(5) <=> InWrite(6) /\ since = 0
      BY <1>2 DEF InWrite
<1>8. TakeWord => Writing /\ ~InWrite(5)
      BY <1>4 DEF TakeWord
<1>9. GiveWord => Reading /\ strobe < Latency
      BY DEF GiveWord
<1>10. EndOfRead => ~Reading /\ strobe > 0
      BY DEF EndOfRead
<1>11. NoStrobe => /\ ~(Writing /\ ~InWrite(5))
                   /\ ~(Reading /\ strobe < Latency)
                   /\ ~(~Reading /\ strobe > 0)
      BY <1>4 DEF NoStrobe
<1> QED BY <1>5, <1>6, <1>7, <1>8, <1>9, <1>10, <1>11 DEF InRead, InWrite

LEMMA ClockKeeps ==
    ASSUME BusInv, Clock
    PROVE  BusInv'
<1> USE BusAssumption DEF BusInv
<1>1. /\ wire' = out /\ dataIn' = Bus /\ UNCHANGED <<access, store, result, out>>
      /\ since' = (IF since < Gap THEN since + 1 ELSE Gap)
      /\ TakeWord \/ GiveWord \/ EndOfRead \/ NoStrobe
      BY DEF Clock, Interface
<1>2. /\ store \in 1 .. 7 /\ since \in 0 .. Gap /\ strobe \in 0 .. Latency
      /\ access = NoAccess <=> access.op = "none"
      BY AccessKinds DEF TypeOK
<1>3. since' \in 1 .. Gap /\ Lag' /\ OutWhere' /\ WireWhere'
      BY <1>1, <1>2 DEF Lag, OutWhere, WireWhere, InRead, InWrite
<1>4. out \in Lines /\ wire \in Lines /\ wire' \in Lines
      BY <1>1 DEF TypeOK
<1>5. wire.data \in Values /\ Bus \in Values \cup {Junk}
      BY <1>4 DEF Lines, Bus, TypeOK
<1>6. /\ access' \in Writes \cup Reads \cup {NoAccess} /\ store' \in 1 .. 7
      /\ result' \in Values /\ out' \in Lines /\ dataIn' \in Values \cup {Junk}
      BY <1>1, <1>4, <1>5 DEF TypeOK
<1>7. CASE TakeWord
  <2>1. /\ InWrite(6) /\ since = 0 /\ done' = TRUE
        /\ UNCHANGED <<status, strobe, driven>> /\ strobe = 0
        BY <1>1, <1>7, ClockPlaces DEF TakeWord, StrobeWhere, InWrite, InRead
  <2>2. wire.w = 0 /\ Bus = wire.data
        BY <2>1 DEF WireWhere, Bus
  <2>3. memory' \in [Values -> Values] /\ pointer' \in Values /\ mailbox' \in Values
    <3>1. Bus \in Values /\ After(pointer) \in Values
          BY <1>5, <2>2 DEF TypeOK, After, Values
    <3>2. memory' \in [Values -> Values]
          BY <1>7, <3>1 DEF TakeWord, TypeOK
    <3>3. mailbox' \in Values
          BY <1>7, <3>1 DEF TakeWord, TypeOK
    <3>4. pointer' \in Values
          BY <1>7, <3>1 DEF TakeWord, TypeOK
    <3> QED BY <3>2, <3>3, <3>4
  <2>4. TypeOK'
        BY <1>3, <1>4, <1>6, <2>1, <2>3 DEF TypeOK
  <2>5. StrobeWhere' /\ DataWhere'
        BY <1>1, <2>1 DEF StrobeWhere, DataWhere, InRead, InWrite
  <2>6. DoneWhere'
        BY <1>1, <1>3, <2>1 DEF DoneWhere, InWrite
  <2> QED BY <1>3, <2>4, <2>5, <2>6
<1>8. CASE GiveWord
  <2>1. /\ InRead(4) /\ since \in 1 .. Latency /\ strobe = since - 1
        BY <1>1, <1>2, <1>8, ClockPlaces DEF StrobeWhere, InRead
  <2>2. strobe' = since /\ since' = since + 1
        BY <1>1, <1>8, <2>1 DEF GiveWord
  <2>3. /\ UNCHANGED chip
        /\ strobe' = Latency => driven' = Content(wire.address) /\ done' = TRUE
        /\ strobe' # Latency => UNCHANGED <<driven, done>>
        BY <1>8 DEF GiveWord
  <2>4. done' \in BOOLEAN
        BY <2>3 DEF TypeOK
  <2>5. Content(wire.address) \in Values
        BY <1>4 DEF Content, TypeOK, Lines
  <2>6. driven' \in Values \cup {Junk} /\ (strobe' = Latency => driven' \in Values)
        BY <2>3, <2>5 DEF TypeOK
  <2>7. TypeOK'
        BY <1>2, <1>3, <1>4, <1>6, <2>3, <2>6, <2>1, <2>2, <2>4 DEF TypeOK, chip
  <2>8. StrobeWhere' /\ DataWhere'
        BY <1>1, <2>3, <2>6, <2>1, <2>2 DEF StrobeWhere, DataWhere, InRead
  <2>9. DoneWhere'
        BY <1>1, <2>3, <2>1, <2>2 DEF DoneWhere, InRead
  <2> QED BY <1>3, <2>7, <2>8, <2>9
<1>9. CASE EndOfRead
  <2>1. /\ InRead(6) /\ since = 1 /\ strobe' = 0 /\ driven' = Junk
        /\ UNCHANGED <<memory, mailbox, status, done>>
        BY <1>1, <1>9, ClockPlaces DEF EndOfRead
  <2>2. pointer' \in Values
        BY <1>9 DEF EndOfRead, After, Values, TypeOK
  <2>3. TypeOK'
        BY <1>3, <1>4, <1>6, <2>1, <2>2 DEF TypeOK
  <2>4. StrobeWhere' /\ DataWhere'
        BY <1>1, <2>1 DEF StrobeWhere, DataWhere, InRead
  <2>5. DoneWhere'
        BY <1>1, <2>1 DEF DoneWhere, InRead
  <2> QED BY <1>3, <2>3, <2>4, <2>5
<1>10. CASE NoStrobe
  <2>1. /\ UNCHANGED <<memory, pointer, mailbox, status, strobe, driven, done>>
        BY <1>10 DEF NoStrobe, chip
  <2>2. /\ ~(InWrite(6) /\ since = 0) /\ ~(InRead(4) /\ since \in 1 .. Latency)
        /\ ~(InRead(6) /\ since = 1)
    <3>1. ~TakeWord /\ ~GiveWord /\ ~EndOfRead
          BY <1>10 DEF NoStrobe, TakeWord, GiveWord, EndOfRead
    <3> QED BY <1>1, <3>1, ClockPlaces
  <2>3. TypeOK'
        BY <1>3, <1>4, <1>6, <2>1 DEF TypeOK
  <2>4. StrobeWhere'
        BY <1>1, <1>2, <2>1, <2>2 DEF StrobeWhere, InRead
  <2>5. InRead(4) /\ since # 0 => Bus = driven
        BY <1>2 DEF Bus, Lag, OutWhere, InRead, InWrite
  <2>6. DataWhere'
        BY <1>1, <1>2, <2>1, <2>2, <2>5 DEF DataWhere, InRead
  <2>7. DoneWhere'
        BY <1>1, <1>2, <2>1, <2>2 DEF DoneWhere, InWrite
  <2> QED BY <1>3, <2>3, <2>4, <2>6, <2>7
<1> QED BY <1>1, <1>7, <1>8, <1>9, <1>10

LEMMA ItselfKeeps ==
    ASSUME BusInv, Itself
    PROVE  BusInv'
<1>1. /\ UNCHANGED <<pointer, access, store, result, out, since, wire, dataIn, strobe, driven, done>>
      /\ memory' \in [Values -> Values] /\ mailbox' \in Values /\ status' \in Values
      BY DEF Itself, BusInv, TypeOK
<1> QED BY <1>1 DEF BusInv, TypeOK, Lag, OutWhere, WireWhere, StrobeWhere, DataWhere,
                    DoneWhere, InRead, InWrite

LEMMA StepBus == BusInv /\ [Next]_vars => BusInv'
<1>1. ASSUME BusInv, UNCHANGED vars PROVE BusInv'
      BY <1>1 DEF vars, chip, BusInv, TypeOK, Lag, OutWhere, WireWhere, StrobeWhere,
                  DataWhere, DoneWhere, InRead, InWrite
<1> QED BY <1>1, ProgramKeeps, ClockKeeps, ItselfKeeps DEF Next

THEOREM BusInvariant == Spec => []BusInv
BY InitBus, StepBus, PTL DEF Spec

\* Every register keeps a value of its kind: no read of io_handler.c:49 returns
\* what was on the bus while nobody drove it.
THEOREM ReadsAreDriven == Spec => []TypeOK
BY BusInvariant, PTL DEF BusInv

-----------------------------------------------------------------------------
(* The refinement: every step is a step of HpiPorts or a stutter. *)

LEMMA InitPorts == Init => Ports!Init
BY BusAssumption
   DEF Init, Ports!Init, Ports!Values, Ports!NoAccess, Values, NoAccess, Driving

\* While the controller drives a word its address is on the lines.
LEMMA DrivingWhere ==
    ASSUME BusInv
    PROVE  Driving => /\ InRead(4) \/ InRead(5) \/ InRead(6)
                      /\ wire.address = access.port /\ out.address = access.port
                      /\ InRead(6) => since <= 1
<1> USE BusAssumption DEF BusInv
<1>1. Driving => InRead(4) \/ InRead(5) \/ InRead(6)
      BY DEF StrobeWhere, Driving
<1>2. InRead(4) \/ InRead(5) \/ InRead(6)
         => wire.address = access.port /\ out.address = access.port
      BY DEF InRead, OutWhere, WireWhere, Lag
<1> QED BY <1>1, <1>2 DEF StrobeWhere, Driving, InRead

LEMMA ProgramPorts ==
    ASSUME BusInv, Program
    PROVE  Ports!Next \/ UNCHANGED Ports!vars
<1> USE BusAssumption DEF BusInv
<1>1. CASE Call
  <2>1. ~Driving /\ ~Driving'
        BY <1>1, AccessKinds, DrivingWhere DEF Call, Driving, InRead
  <2>2. Ports!Begin
        BY <1>1, <2>1
        DEF Call, Ports!Begin, Ports!NoAccess, NoAccess, Ports!Accesses, Ports!Writes,
            Ports!Reads, Writes, Reads, Ports!Values, Values, Ports!ports, chip, Driving
  <2> QED BY <2>2 DEF Ports!Next
<1>2. CASE Return
  <2>1. ~Driving /\ ~Driving' /\ done
        BY <1>2, AccessKinds, DrivingWhere DEF Return, Driving, InRead, DoneWhere, TypeOK
  <2>2. Ports!Return
        BY <1>2, <2>1
        DEF Return, Ports!Return, Ports!NoAccess, NoAccess, Ports!ports, chip, Driving
  <2> QED BY <2>2 DEF Ports!Next
<1>3. CASE Sample
  <2>1. InRead(4) /\ Driving /\ dataIn = driven
        BY <1>3, StorePlaces DEF Sample, Does, DataWhere, StrobeWhere, Driving
  <2>2. UNCHANGED <<chip, access, done, strobe, wire>> /\ store' = 5 /\ result' = dataIn
        BY <1>3, <2>1 DEF Sample, Does, InRead
  <2> QED BY <2>1, <2>2 DEF Ports!vars, Ports!ports, chip, Driving, InRead
<1>4. ASSUME NEW what, NEW lines, Drive(what, lines), what # "sample"
      PROVE  UNCHANGED Ports!vars
  <2>1. /\ UNCHANGED <<chip, access, done, strobe, wire, driven, result>> /\ store' = store + 1
        /\ access # NoAccess
        BY <1>4 DEF Drive, Does
  <2>2. Driving => ~InRead(4)
    <3>1. ASSUME InRead(4) PROVE FALSE
      <4>1. what = IO_read[4]
            BY <1>4, <3>1 DEF Drive, Does, InRead
      <4> QED BY <1>4, <4>1 DEF IO_read
    <3> QED BY <3>1
  <2> QED BY <2>1, <2>2, DrivingWhere DEF Ports!vars, Ports!ports, chip, Driving, InRead, TypeOK
<1> QED BY <1>1, <1>2, <1>3, <1>4
        DEF Program, SetAddress, Select, SetData, WriteStrobe, WriteEnd, ReadStrobe, ReadEnd,
            Deselect

LEMMA ClockPorts ==
    ASSUME BusInv, Clock
    PROVE  Ports!Next \/ UNCHANGED Ports!vars
<1> USE BusAssumption DEF BusInv
<1>1. /\ wire' = out /\ UNCHANGED <<access, store, result, out>>
      /\ TakeWord \/ GiveWord \/ EndOfRead \/ NoStrobe
      BY DEF Clock, Interface
<1>2. CASE TakeWord
  <2>1. InWrite(6) /\ since = 0 /\ ~Driving /\ ~Driving' /\ ~done
        BY <1>1, <1>2, ClockPlaces, DrivingWhere
        DEF TakeWord, InWrite, InRead, Driving, DoneWhere
  <2>2. /\ Bus = access.value /\ wire.address = access.port
        /\ access.port \in {"data", "mailbox", "address"}
        BY <2>1, AccessKinds DEF WireWhere, Bus, InWrite
  <2>3. Ports!Write(access.port, access.value)
        BY <1>2, <2>1, <2>2
        DEF TakeWord, Ports!Write, Ports!Put, Ports!Point, Ports!Command, Ports!After, After,
            Driving
  <2>4. Ports!HappenWrite
        BY <1>1, <1>2, <2>1, <2>3 DEF Ports!HappenWrite, TakeWord, InWrite
  <2> QED BY <2>4 DEF Ports!Next
<1>3. CASE GiveWord
  <2>1. /\ InRead(4) /\ since \in 1 .. Latency /\ strobe = since - 1 /\ ~Driving
        /\ wire = out /\ wire.address = access.port
        BY <1>1, <1>3, ClockPlaces DEF StrobeWhere, InRead, Driving, Lag, OutWhere
  <2>2. UNCHANGED chip /\ strobe' = strobe + 1
        BY <1>3 DEF GiveWord
  <2>3. CASE strobe' = Latency
    <3>1. /\ Driving' /\ driven' = Content(access.port) /\ done' = TRUE /\ ~done
          BY <1>3, <2>1, <2>3 DEF GiveWord, Driving, DoneWhere, InRead
    <3>2. access.port \in {"data", "mailbox", "status"}
          BY <2>1, AccessKinds DEF InRead
    <3>3. Ports!HappenRead
          BY <1>1, <2>1, <2>2, <3>1, <3>2
          DEF Ports!HappenRead, Ports!Content, Content, Ports!Get, Ports!After, After, InRead,
              Ports!ports, chip
    <3> QED BY <3>3 DEF Ports!Next
  <2>4. CASE strobe' # Latency
        BY <1>1, <1>3, <2>1, <2>2, <2>4 DEF GiveWord, Driving, Ports!vars, Ports!ports, chip
  <2> QED BY <2>3, <2>4
<1>4. CASE EndOfRead
  <2>1. /\ InRead(6) /\ since = 1 /\ strobe = Latency /\ strobe' = 0
        /\ wire.address = access.port
        BY <1>4, ClockPlaces, DrivingWhere DEF EndOfRead, StrobeWhere, Driving, InRead
  <2> QED BY <1>1, <1>4, <2>1
          DEF EndOfRead, Driving, Ports!vars, Ports!ports, chip, InRead
<1>5. CASE NoStrobe
      BY <1>1, <1>5, DrivingWhere DEF NoStrobe, Driving, Ports!vars, Ports!ports, chip
<1> QED BY <1>1, <1>2, <1>3, <1>4, <1>5

LEMMA ItselfPorts ==
    ASSUME BusInv, Itself
    PROVE  Ports!Next
BY DEF Itself, Ports!Itself, Ports!Next, Ports!Values, Values, Driving

\* Each access to a port of the controller happens once, at the port and with
\* the value it names, before io_handler.c returns from it, although nothing
\* on the way is acknowledged.
THEOREM PortsImplemented == Spec => ImplementsPorts
<1>1. BusInv /\ [Next]_vars => [Ports!Next]_(Ports!vars)
  <2>1. ASSUME UNCHANGED vars PROVE UNCHANGED Ports!vars
        BY <2>1 DEF vars, Ports!vars, Ports!ports, chip, Driving
  <2> QED BY <2>1, ProgramPorts, ClockPorts, ItselfPorts DEF Next
<1>2. Spec => Ports!Spec
      BY <1>1, BusInvariant, InitPorts, PTL DEF Spec, Ports!Spec
<1> QED BY <1>2 DEF ImplementsPorts
=============================================================================
