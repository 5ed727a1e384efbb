# A verification of the FPGA Tetris

The repository is a Tetris for the DE2-115 board.  SystemVerilog modules hold
the game and draw it; a program on a Nios II soft processor drives the USB
keyboard and supplies the random pieces.  This directory specifies its core in
TLA+, checks the specifications with TLC on small boards, and proves the most
important properties for boards of every size with TLAPS.

## The system

| Part | Source | State | Operations |
|---|---|---|---|
| Game logic | `logic.sv` | one state register, the piece (`x1..x4`, `y1..y4`, `rotate_counter`, `current_shape`), gravity `counter`, the board (`coord_static`, `color_static`), scores, preview | one transition per video frame (`frameClk` = `VGA_VS`) |
| Piece supply | `main.c:532-576`, three PIO ports, `logic.sv` | `random_number`, `random_ready`, `prev` | the software polls `random_needed`, writes a number, flags it |
| USB driver | `main.c`, `usb.c` | transfer lists, message register and mailbox of the CY7C67200, data toggle, keycode port | enumeration, polling, hot plug |
| HPI bus | `io_handler.c`, `hpi_io_intf.sv` | five PIO ports and the registers behind them | `IO_write`, `IO_read` |
| Console output | `altera_avalon_jtag_uart_write.c`, `_init.c` | two rings, two interrupt enables | `write` behind `printf`, the interrupt handler |
| Key decoder | `keycode_reader.sv` | none | a keycode to at most one of seven keys |
| VGA timing | `VGA_controller.sv` | two counters, sync registers | one step per pixel |
| Picture | `Color_Mapper.sv`, fonts, `ram.sv` | none | a pixel to a colour |
| Score digits | `binary_to_bcd.sv`, `HexDriver.sv` | none | a byte to three digits |
| Wiring, resets | `lab8.sv` | none | KEY[0] resets processor, USB and VGA; KEY[3] the game only |

How they interact:

- The keycode port, written by the software once per USB transfer, reaches the
  game through the decoder; the game samples it at each frame.
- The game raises `to_sw_sig` in START and BEFORENEW, the software reads it as
  `random_needed` and answers through `random_number` and `random_ready`.  The
  game samples `random_number` when a piece spawns (NEW_BLOCK) and when the
  preview is drawn (NEWNEXT), and `random_ready` in BEFORENEW only.  There is no
  lock and no acknowledgement: frames and software steps interleave freely.
- The game's outputs are drawn combinationally by the colour mapper.

- The driver reaches the USB controller through the HPI bus only.  It polls the
  controller's flag, message register and memory; the controller works beside it,
  and no interrupt reaches the processor from there.
- The main loop prints in every turn, so the driver and the piece supply go on only
  as long as the console driver returns.
- The game machine is clocked by `VGA_VS`, and the picture is drawn from its state
  while it is shown.

What is hard: the piece's bounds rest on what the board reads at its walls;
rotations read cells outside the array; a row removal takes five frames and
works with coordinates that are stale after the first removal; the game and the
software race on three ports; the driver takes one byte of memory for the success of a
transfer, repeats transfers that may be under way, and waits without limits; the bus
has no acknowledgement; the console's ring is shared with an interrupt handler; two
buttons reset different halves of the system.  `PROJECT.json` lists these hazards
at their lines.

What makes each part correct: the game - the piece stays in the board and off
the stack, walls stand, full rows go, the score is right, the game neither stops
nor skips its own end; the supply - the preview is honest and every request is
answered; the driver - it takes no transfer for done that was not, looks at no
answer too early, loses the data toggle for known reasons only, the key gets to the port,
and it does not wait for nothing; the lists - the
keyboard is asked correctly and the answers are where the program looks; the bus -
every access happens once, at its port, with its value; the console - characters stay
in order and the writer returns while somebody reads; VGA - one step of the game in each
frame, outside the picture; digits - they are the decimal digits of the score.

## The modules

| Module | What it is |
|---|---|
| `Blocklogic` | the game machine, one action per state: output logic and transition together |
| `Well` | what a player may rely on: a set of cells, a falling piece, one-step row removal |
| `PieceRequest` | the game as the software sees it: when it asks, when it takes a number |
| `GameRefinement` | the mappings under which `Blocklogic` implements `Well` and `PieceRequest` |
| `PieceSupply` | `PieceRequest` composed with the main loop of the software, both resets |
| `UsbHost` | `main()` as the driver: enumeration, resends, polling, hot plug, against a controller and a keyboard |
| `TransferLists` | the lists of `usb.c` word by word in the controller's memory, against the packets of a keyboard |
| `HpiPorts` | what `io_handler.c` promises: four ports, accesses that happen at one moment |
| `HpiBus` | `IO_write`, `IO_read` and `hpi_io_intf`, clock by clock, shown to implement `HpiPorts` |
| `JtagUart` | the console driver: `write`, its interrupt handler, both rings, the host |
| `VgaTiming` | `VGA_controller` with the step of the game machine that its sync pulse causes |
| `BinaryToBcd` | the loop of the score's digits |
| `BlocklogicProofs` | safety of `Blocklogic` (bounds, walls, overlap, undefined reads, full rows, best score), and that it implements `PieceRequest` and `Well` |
| `PieceSupplyProofs` | the preview is honest |
| `UsbHostProofs` | no request is taken for done that no keyboard has heard, no answer is read too early, what makes a report a repetition, where no wait is in vain |
| `TransferListsProofs` | the lists stay whole, the keyboard is asked correctly, the answers are in place |
| `JtagUartProofs` | the console's characters stay in order |
| `HpiBusProofs` | `HpiBus` implements `HpiPorts` |
| `VgaTimingProofs` | one step per frame, outside the picture, for all picture sizes |
| `BinaryToBcdProofs` | the digits are right for every byte |

### Blocklogic and the code

The registers keep their names; the arrays `x`, `y` stand for `x1..x4`, `y1..y4`.
`coord_static[r]` is the set of columns whose bit is 1 in row `r`, `color_static[r]`
the set of columns whose colour is not 0 (which colour is left out), and
`next_static` the number whose shape is in the preview box.  The states `CLEARk_s`
are the state `"CLEAR"` with `block = k`, `stage = s`, and the six `ROTATE_x` are
`"ROTATE"`, selected by `current_shape`.  The board is `Width` columns by
`5 * Stripe` rows plus walls; the code's is 10 by 20, `Stripe = 4`, so the five
stages of a removal keep their structure on small boards.

Keys are bound variables: `keycode_reader` turns on at most one of them, in any
frame.  A read outside the array is undefined, so such a read may return either
bit (`MayBeSet`, `MayBeClear`).  Arithmetic keeps its width: coordinates modulo
64, the counter modulo `CounterMod`, the scores modulo `ScoreMod`.  KEY[3] may be
pressed at any moment (`Reset`).

In `Well` a player's move is one step down, left or right into free cells (`Shift`), or
a quarter turn about one of the piece's cells into free cells (`Turn`).  Only an L
turns without regard to the stack and the left wall (`TurnEll`), as the code does.

### PieceSupply and the code

One action per access to a port: `ReadNeeded`, `WriteNumber`, `WriteReady`,
`ClearReady`.  The rest of the main loop does not touch these ports and may take
any time, which is the time between `pc = "poll"` and `ReadNeeded`.  Frames come
at any time with one exception: between reading `random_needed` and writing
`random_number` at most `Slack` frames begin.  The code between the two is a call
of `rand` and a switch, some microseconds against 16.7 ms for a frame, so
`Slack = 1` (one frame edge may fall into the gap).  With `Slack = 2` the preview
can lie: the software would draw a number for a request that is already over.
`promise` and `edges` are history variables.

### UsbHost and the code

`pc` names the next access to the controller; two accesses are two actions wherever
the controller can come between them.  The nine request steps of `main.c:182-468`
are one cycle - `Load`, `Start`, `Test` (with `Sleep` before it when the request was
sent again), `WaitRead`, `WaitClear`, `Check` - with `step` as the number of the
request, since the nine passages differ only in the list they send, in the address
step restarting instead of asking again (`RetryCheck`), and in one sleep (`Slow`).
The polling loop uses the same cycle with `step = Poll`.

The controller and the keyboard are external.  They do what the driver relies on, and
otherwise anything: a request may fail at its first descriptor or later, a report
may be missing, a report with the wrong toggle may be thrown away, a command may be
answered with something else than the acknowledgement, and the plug may be pulled or put
in at every step, with or without a message.  A bus reset, which the program does not
wait for, takes effect at any later step, also while lists are executed.  A list is
executed until its end unless another is started.  One thing is assumed, as `Prompt`: a
list is over by the end of a `usleep` of 10 ms.  With `Prompt = FALSE` `RequestsHeard` fails:
a list that is started a second time and outlasts the sleep writes its good control
byte into the list of the next request, which is then taken for done.

`heard`, `clean`, `carried`, `got` and `missed` are history variables: the requests a
keyboard has taken, whether all has worked since `USB_HOT_PLUG`, the toggle that was
carried over it, the reports of this turn, and the parity of the turns with none or
two of them.  `ReportKept` counts with the last three what may put the toggle of the loop
out of step, and says that nothing else does.

### TransferLists and the code

A list is the sequence of words that a function writes to `HPI_DATA` from 0x0500 on.
`mem` is the controller's memory from there; each word is one the program wrote or a
place in an answer of the keyboard, so that a buffer laid over a descriptor is
noticed.  The controller takes buffer, length, PID, toggle and link from memory, not
from the list, and the keyboard is a control endpoint that expects setup, data and
status with their toggles.

A list is written (`LoadList`) and its address given to the controller (`StartList`) at
any time, also while the controller is at that list or an earlier one: the program goes
by a message and a control byte, and after 0x0576 it is one message ahead.  `step` is
the program's transfer, `current` the one the controller was last told to execute.
`DeviceInfo` writes the five words at 0x0576 and has the controller execute them
(`main.c:354`); it passes over them (`PassOver`) and may follow the link word at 0x0580,
which is no part of them, into words that are no list (`Astray`).  A controller astray,
or one at work while a list is written, may store into a word, write the control byte, end, or
confuse the keyboard (`Stray`).

Two things are coarser than the code.  The words of a list are written at one moment;
instead every step of the controller between that moment and the start of the list
counts as one that may have met a half-written list.  And `MaxLosses` bounds the lost packets and
the stray steps together.  That the controller really is at rest before the program
reads an answer of the first five requests is `UsbHost!AnswerComplete`.

### HpiBus and the code

Each store and load of `io_handler.c:23-54` is an action.  `hpi_io_intf` passes the
ports on one clock later, in both directions.  Between two accesses of the processor at
least `Gap` clocks pass; nothing in the code makes them (there is no acknowledgement),
they are the time of a Nios II I/O access with its interconnect.  `Gap >= Latency + 2` is
what the program depends on, and it is the assumption of the proof.

### JtagUart and the code

`LookForRoom` .. `Wait` are the steps of `altera_avalon_jtag_uart_write` between which an
interrupt matters; the handler runs to its end in steps of its own, since the device's
FIFOs and the host go on beside it.  `system.h` has no system clock, so
`alt_alarm_start` fails, the timeout is `INT_MAX` and `host_inactive` stays 0: the
branches for an absent host (`write.c:187`, `204-211`) are dead.  Characters are numbers.

### VgaTiming and the code

One action per pixel clock.  The game machine is only its number of steps (`game`),
counted when `VGA_VS` rises; `top`, `ticks` and `disturbed` are history variables.

## What is checked

All runs but `binary_to_bcd`, whose loop ends, check for deadlock too.

| Run | Board, constants | States | Shows |
|---|---|---|---|
| `game_l` (`GameL.cfg`) | 3 x 5, only L | 445 000 | `TypeOK`, `InBounds`, `WallsIntact`, `ShapeKnown`, `TopFree`, and that the machine implements `Well`, for the piece whose rotation is wrong |
| `game_io` (`GameIO.cfg`) | 4 x 5, I and O, scores modulo 4 | 492 000 | `BestRecorded`, `Determined`, `Well` and `PieceRequest` implemented; two rows removed at once, shape number 0, an I that reads two rows below the floor |
| `game_jsz` (`GameJSZ.cfg`) | 3 x 5, J, S, Z mixed | 6 000 000 | `NoFullRow`, `LastBlockNeverShifts`, `FlightClear` |
| `game_live` (`GameLive.cfg`) | 3 x 5, T, counter modulo 6 | 74 000 | `ClearingEnds`, `PieceLands`, `NextPieceComes` |
| `piece_supply` (`PieceSupply.cfg`) | all shapes, `Slack = 1` | 5 200 | `NumberHeld`, `PreviewHonest`, `ChoiceChanges`, `RequestAnswered` |
| `usb_host` (`UsbHost.cfg`) | 9 requests, the code's tries, one key, `Prompt` | 308 000 | `RequestsHeard`, `CleanNeverHangs`, `AnswerComplete`, `ReportKept`, `KeyReachesPort`, `PolledOrHung` |
| `transfer_lists` (`TransferLists.cfg`) | 1 configuration x 2 report descriptors, 1 loss or stray step | 1 400 000 | `ListIntact`, `ProtocolKept`, `AnswerInPlace`, `KeyWord` |
| `packet_size` (`PacketSize.cfg`) | the same | - | `PacketSizeRead` is violated (the finding) |
| `hpi_bus` (`HpiBus.cfg`) | words of one bit, `Gap = 6`, `Latency = 4` | 45 000 | `TypeOK`, `ImplementsPorts` |
| `vga_timing` (`VgaTiming.cfg`) | the code's 525 lines, of 4 pixels | 37 000 | `NoTearing`, `OneStepPerFrame`, `StepsInTurn`, `FrameClockRuns` |
| `binary_to_bcd` (`BinaryToBcd.cfg`) | all bytes | 2 300 | `Decimal` |
| `jtag_uart` (`JtagUart.cfg`) | ring of 3, FIFO of 2, calls of up to 4 | 584 000 | `InOrder`, `ConsoleServed`, `HandlerEnds` |

Bounds.  Three columns are the fewest in which a three-block shape spawns, turns
and completes rows with the pieces before it; four are needed for an I.  Five rows
give each of the five removal stages a row of its own, and leave three rows below
the two in which pieces spawn, so that stacks build up, several rows fill and the
game ends.  Shapes are spread over the runs because mixing all seven is out of
reach; the properties whose proof covers all boards do not depend on this.  With
`DropAt = 0` the piece may fall at every second frame in INTER and the keys act
in between; `game_live` has `DropAt = 1`, `SoftDrop = 3`, `CounterMod = 6`, so that
the down key can jump over several values and a player who pauses can wrap the
counter, like 60, 30 and 256 in the code.

`usb_host` has the code's own numbers of requests and tries; one key is enough, since
the driver copies it.  In `transfer_lists` the lengths are those for which the
literals were written (34 and 59 bytes) and a longer one (63, the report descriptor of the
HID specification's boot keyboard).  A controller astray may store into two words, the ones
the program reads: the key's (0x051e) and the packet size's (0x057c).  One loss or
stray step is enough for a list that fails at any place and is written again, or that
meets the next one; the proofs are for any number, any words and any lengths.
`hpi_bus` has two values, so that a value of the wrong access differs, and an
address as wide as a word.  In `vga_timing` the lines are the code's, where all the
conditions on the frame are; a pixel of a line matters only as first, shown, hidden or
last.  In `jtag_uart` a call is longer than the ring, the ring wraps in the middle of a
call, and the FIFO asks for more before it is empty, like 2048, 64 and 8; characters
modulo `Marks` are distinct as long as no more are outstanding.

Fairness.  The frame clock is free-running hardware: states that need no key are
left (`WF(Clock)`); `VgaTiming!FrameClockRuns` shows that it does run once KEY[0] is left alone.
The software answers while asked; `PieceSupply` shows why.
Of the player it is assumed that steering keys are released, that a paused game
is resumed, and that pause is not pressed in every single frame in which the
piece is due to fall or rows are due to be removed (strong fairness, since pause
comes before both in INTER).  In `PieceSupply` frames and the main loop go on (the
keyboard stays plugged in: the loop waits for it for ever otherwise) and KEY[0] is
not pressed again and again.  In `UsbHost` the program runs and the controller finishes
commands and lists, well or badly.  That the program runs, in both, needs a console
that somebody reads: `JtagUart!ConsoleServed` has `<>[]host` as its condition,
and the conclusion fails without it.  In `JtagUart` the processor runs and a host that reads goes on.

## What is proved

The only assumptions are those on the constants, named in the module that declares
them; they hold of the code's values, and TLC evaluates them in the runs.

- `RegistersFit`: `TypeOK`, with the strengthening `TurnsOnly` (only shapes that
  turn reach ROTATE).
- `GameSafe` and its corollaries `PieceInBounds`, `WallsStand`, `ShapeAlwaysKnown`,
  `TopStaysFree`, `FlightStaysClear`, `MovesDetermined`.  The properties are not
  inductive one by one: a piece stays in bounds because the walls stand, and these
  because landing cells and removed rows are in bounds.  The invariant `GameInv`
  adds that the piece is rigid - its blocks are at the offsets `Form(shape,
  rotate_counter)` from its second block, about which it turns (`TurnForm`) - and
  that coordinates stay above the floor also between pieces.  From a clear pivot
  and rigid offsets it follows that a block whose checked cell is clear cannot
  have jumped a wall: the wall cell next to the pivot would have been checked by
  another block or lies outside what the form can reach (`TranslationClear`,
  `TurnClear`).  For an L with `rotate_counter = 3` the transposed checks give
  less; `TurnClearL` shows what is left, which is `InBounds` with the left wall.
- `RowsAreCleared`, `LastBlockTestsOnly`: no full row is left for the next piece, and
  CLEAR4_2 .. CLEAR4_5 are dead, on every board.  The invariant `RowsInv` looks at the
  board as the stages to come will leave it (`Swept`) and says that its full rows are
  still to be tested: rows of the current block or a later one, of none before
  (`ToTest`).  Removing a row moves full rows one down; that they remain rows to be
  tested is a fact about the 19 forms of the pieces (`FormOrdered`), and may fail
  for a piece of another form.
- `BestIsRecorded`: the best score includes the game that is over.
- `RequestsImplemented`: `Blocklogic` implements `PieceRequest`.  It needs
  `GameInv` and `EndsLanded`: a game ends only after a landing, so that the next
  game asks from a state without a piece.
- `WellImplemented`: `Blocklogic` implements `Well`, on boards of every size.  The
  player's stack is the board as the stages still to come will leave it (`Finished`,
  a row at a time by `Sweep`), so that a landing is one step of the well and the
  frames of the removal stutter; `PieceInWell` maps the blocks of the piece.  Each
  action is a step of the well or a stutter, a key is one step or one quarter turn, from
  `GameInv` and `RowsInv`: a move or a turn that the machine allows is one the well allows, since the cells it checks and the
  rigid form leave no other block in the way.
- `NumberStaysHeld`, `PreviewIsHonest`, `ChoicesChange`, for `Slack <= 1`.
  `NumberHeld` is strengthened by `Fresh`: a request being answered is at most one
  frame old, so the game is still at it or one state further.

- `TypeCorrect` and `RequestsAreHeard` (of `UsbHost`, for any number of requests,
  tries and keys, with `Prompt`).  `RequestsHeard` rests on what may be pending when a
  list is written: nothing but the current request (`PendingCurrent`), nothing at all
  before its first start (`PendingLater`), and nothing when the control byte is good,
  except during a sleep that outlasts it (`PendingNotGood`).  Then a good byte in
  memory is the current request's (`ByteTrue`).
- `RepetitionsHaveCause`: a report counts as a repetition exactly after an odd number of
  causes - an odd toggle carried over `USB_HOT_PLUG`, turns without a report, a second
  report in the turn.  The invariant says when the toggles of driver and keyboard agree:
  before the polling loop the driver's is the one it carried over (`FirstTurn`) and the
  keyboard's is set back by its configuration (`DataReset`); in the loop they differ by
  the parity of the causes (`InPhase`).  Resends, lost messages, failed lists and a late bus
  reset change nothing.  It does not need `Prompt`.
- `AnswersAreComplete`: until the word at 0x056c is read, the controller is at rest
  whenever the program judges a request or reads its answer.  It needs `Prompt`:
  a list is started only when the one before is over, or is followed by a sleep, so that
  a message is never that of an older list (`OneList`).
- `CleanHangsNowhere`: with a keyboard that answers, no wait is for a message or a flag
  that cannot come.  Each wait of the driver has its reason in the invariant: what it
  waits for is there, or a command or list is under way that will bring it, and nothing
  else can have taken it (`Quiet`, `Silent`, `Sending`, `Answered`).  It needs `Prompt`
  and holds until the words at 0x0576 are executed.
- `ListsIntact`, `KeyboardNeverRefuses`, `AnswersInPlace`, `KeyWordKnown` (of
  `TransferLists`, for descriptors of every length and any number of losses and stray
  steps).  The literals of `usb.c` enter through `HasShape`, which says what the ten lists have in
  common - setup packet, data packets for buffers of eight bytes one after the other,
  status packet - and `Tables`, by which every buffer lies behind its list.  A list
  that was written while the controller was at rest is whole when it is started (`Loaded`) and survives its own
  answers (`ListKept`), and the descriptor the controller is at says how much the keyboard
  has given and what the buffers hold (`InTurn`): the three properties are read off
  there.  They are about `current`, the controller's list, so they hold wherever the
  program is by then; they except what a controller does that went astray or met a list
  half written (`lost`).  `PacketSizeIsEight` proves what the run `packet_size` shows in an
  instance: `main.c:361` prints the program's own word for every keyboard, unless a
  controller astray has stored there.
- `CharactersInOrder` (of `JtagUart`, for rings and FIFOs of every size): `UartInv`
  numbers the characters.  What the handler has read of the FIFO's space, and what
  `write` has computed of the ring's, can only grow until it is used, whichever of the
  other sides runs (`SpaceInv`, `RoomInv`); so a copy fits before the end of the ring and
  behind the reader, and is whole when the index moves (`CopiedInv`).  The FIFO, the ring
  and what was printed hold consecutive characters (`FifoInv`, `RingInv`, `PrintedInv`),
  and likewise what was typed (`TypedInv`).
- `ReadsAreDriven`, `PortsImplemented` (of `HpiBus`).  The invariant `BusInv` ties the
  ports, the registers of the interface and the controller's strobe to `store` and
  `since`: the wire is the port of a clock ago (`Lag`, `WireWhere`), a strobe is as long
  as the clocks since its store (`StrobeWhere`), the word sampled is the one driven
  (`DataWhere`), and an access is done by its last store (`DoneWhere`).
- `FramesAreWhole`, `FramesAreSteps`, `EdgesAreExpected` (of `VgaTiming`): where in the
  frame `VGA_VS` and `VGA_BLANK_N` have which value, as an invariant.
- `DigitsAreDecimal` (of `BinaryToBcd`): a round of the loop doubles the number that the
  digits stand for, as long as no more bits were read than fit.

Every invariant, action property and refinement that a passing run checks is proved.
Only model-checked are the liveness properties - `ClearingEnds`, `PieceLands`,
`NextPieceComes`, `RequestAnswered`, `KeyReachesPort`, `PolledOrHung`,
`FrameClockRuns`, `ConsoleServed`, `HandlerEnds` - which rest on fairness and ENABLED,
beyond the prover, and the absence of deadlock, for the same reason.

## What the models show about the code

- An L can get two blocks into the left wall: with `rotate_counter = 3` the checks
  at `logic.sv:737` use the column as the row.  It then hangs where it is, since
  below a wall cell there is a wall cell, and lands in mid-air (`Well!Land`).  It can
  also turn into the stack (line 726 looks up instead of down).  It never leaves
  the array, and no wall is lost.
- CLEAR4_1 takes its next state from the row of the first block (line 1060).  The
  states CLEAR4_2 .. CLEAR4_5 are never reached.  A row that is full at the fourth
  block only - a vertical I, for example - is emptied without a score, only the rows
  of the lowest stripe come down, and its colours stay (`Well!SmearRow`).
- A piece may spawn onto the second visible row of the stack; it lands at once.
- Holding left, right or up stops gravity, because the machine waits for the
  release outside INTER.
- The score wraps at 256 and a wrapped score is what the best score is compared to.
- A left-over `random_ready` may end BEFORENEW before the new number is written; the
  preview then shows the old number, and the same piece comes twice in spite of
  `prev`.  The preview is still honest.
- KEY[0] in the middle of a game clears `random_number`: the next piece is an I,
  whatever the preview shows.  `promise` is dropped there.

- `main.c:131` reads the mailbox right after writing the command, so that it sees the
  acknowledgement of step 1.  Nothing waits for the bus reset, which may come while the
  keyboard gets its address, or later: the keyboard is then without one, its requests
  fail, and the program starts over or waits for ever.
- The address step restarts everything when its control byte is not 3
  (`main.c:198-203`).  When the list was sent twice, because the first look at the flag
  came too early, the keyboard has its address by the second time and does not answer
  at 0: the program starts over, and gets on when the race goes the other way.
- A message that arrives between the read and the clearing of the message register
  (`usb.c:543-544`) is lost, and so is one that `UsbGetRetryCnt` clears (`usb.c:569`): the
  program then waits for ever, and pulling the plug does not help `UsbWaitTDListDone`,
  which wants that message and no other.  `CleanNeverHangs` shows that without failures this does not
  happen before the list at 0x0576, and `PolledOrHung` that hanging is the only
  alternative to polling.
- The five words written at 0x0576 are executed as a list (`main.c:354`).  Its message may
  be taken for that of UsbSetConfig; from then on the program is one message ahead: it
  looks at each transfer before it is over, writes the next list while the controller is
  still at the last one, and in the polling loop a key gets to the port one turn late.
  What follows the five words is the word at 0x0580, which no list writes as a link: if it
  is not 0, the controller follows it into words that are no list.
- Only the control byte of the first descriptor is looked at: a descriptor whose data
  were lost counts as read.
- `toggle` is kept over `USB_HOT_PLUG`, while a newly configured keyboard starts with
  DATA0.  When it was odd, every report of turns with one report counts as a
  repetition and may be thrown away, until a turn brings none or two.  A turn without a
  report changes the toggle too, so that an even number of them is needed to stay in
  step (`ReportKept`).
- A keyboard that is pulled and plugged within one turn of the loop is not noticed: it
  has no address and is polled in vain.
- The port keeps its key while the keyboard is unplugged.
- Before the first report the driver writes 0x20, the low byte of a link of the last
  list, to the port (`KeyWord`); it is no key of the game.
- A keyboard with longer descriptors than the lists were written for (a second interface, a
  report descriptor of 63 bytes) sends more than fits into the last buffer; the list
  fails after its first descriptor, which the program does not see.  No property excludes
  this: `Fits` says for which keyboards `ProtocolKept` and `AnswerInPlace` hold.
- Each release of KEY[0] gives the game machine one step that is no frame.
- Without a console the first 2048 + 64 characters are taken, then `printf` waits for
  ever, and with it the keyboard and the supply of pieces.
- `data_size` is 8 for every keyboard.  This is the one finding: `main.c:346` and `361`
  say the word comes from the endpoint descriptor, while the code has just
  written it (`PacketSizeRead`, run `packet_size`).

The rest contradicts no comment, document or test of the repository (its test bench
asserts nothing).

## What is not modelled

- The picture (`Color_Mapper`, fonts, `ram.sv`): stateless, mostly data.  One thing seen
  while reading: the boxes are tested with `>` and `<=` while columns are computed as
  `(DrawX - start) / 20`, so that the last pixel of a box reads the next cell.
- `HexDriver` (a table), `ball.sv` and `grid_reg.sv` (not instantiated).
- The key codes of `keycode_reader`, beyond turning on at most one key.
- The horizontal sync pulse, metastability between the clock domains, the time between
  power-up and the first reset, and a KEY[0] in the middle of an access to the bus.
- The generated Nios system and the board support package: register headers
  (`cy7c67200.h`, `system.h`, `nios2.h`), start-up code, logging and the parts of the HAL the program
  never calls.  They are most of the C lines of the repository and have no
  behaviour of this program; of the vendor's code only the console driver's `write` and
  interrupt handler are modelled, because the main loop depends on them.  Its `read`,
  `ioctl` and `close` are never called, its timeout never runs.

## Plan

1. done: `Blocklogic`, `Well`, `PieceRequest`, `PieceSupply`, the refinements, safety.
2. done: `UsbHost`, `TransferLists`, `HpiBus`, `VgaTiming`, `BinaryToBcd`, `JtagUart`.
3. done: proofs of the invariants and refinements of all of them, for every value of the
   constants.
4. `ScreenMap`: the pixels of the boxes against the cells of the board.
