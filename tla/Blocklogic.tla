----------------------------- MODULE Blocklogic -----------------------------
(***************************************************************************)
(* The game machine of src/logic.sv: a synchronous state machine that makes *)
(* one transition per video frame (frameClk is VGA_VS).  Each action below  *)
(* is one state of the machine: its output logic (the new values of the     *)
(* registers) together with its transition.  The seven keys, the random     *)
(* shape and the ready signal of the software are inputs sampled by the     *)
(* frame, so they are bound variables and not VARIABLES.                    *)
(*                                                                         *)
(* The board of the code has 12 columns and 22 rows, the outer columns and  *)
(* the last row being walls; here it has Width + 2 columns and Height + 2   *)
(* rows.  The states CLEARk_s are the single state "CLEAR" with the         *)
(* registers block = k and stage = s, and ROTATE_I .. ROTATE_Z the single   *)
(* state "ROTATE": current_shape, which selected one of them, cannot have   *)
(* changed since.                                                          *)
(***************************************************************************)
EXTENDS Integers, FiniteSets

CONSTANTS
    Width,       \* columns between the walls                    (code: 10)
    Stripe,      \* rows shifted by one stage of a line removal    (code: 4)
    SpawnX,      \* leftmost column of a new block                 (code: 4)
    DropAt,      \* the block falls when counter exceeds this     (code: 60)
    SoftDrop,    \* what the down key adds to counter             (code: 30)
    CounterMod,  \* 2^width of counter                           (code: 256)
    ScoreMod,    \* 2^width of score, best score and accu        (code: 256)
    Shapes       \* the values next_shape takes             (code: 0 .. 7)

(***************************************************************************)
(* The five stages of a line removal shift the whole board, a board fits    *)
(* the six bits of a coordinate, and a new block lies between the walls.    *)
(* next_shape = 0, the reset value of the random number, spawns an I.       *)
(***************************************************************************)
ASSUME BoardAssumption ==
    /\ Width \in Nat /\ Stripe \in Nat \ {0} /\ SpawnX \in Nat \ {0}
    /\ Width + 3 < 64 /\ 5 * Stripe + 3 < 64
    /\ SpawnX + 2 <= Width
    /\ Shapes \subseteq 0 .. 7 /\ Shapes # {}
    /\ (Shapes \cap {0, 1} # {}) => SpawnX + 3 <= Width

ASSUME CounterAssumption ==
    /\ DropAt \in Nat /\ SoftDrop \in Nat /\ CounterMod \in Nat
    /\ ScoreMod \in Nat
    /\ DropAt + SoftDrop < CounterMod /\ DropAt + 1 < CounterMod
    /\ 1 < ScoreMod

Height == 5 * Stripe
Rows   == 0 .. Height + 1       \* row 0 is above the screen, the last row is the floor
Cols   == 0 .. Width + 1        \* the first and the last column are the walls
Blocks == 1 .. 4                \* the four blocks of a piece
Stages == 1 .. 5
Coords == 0 .. 63               \* what a six-bit coordinate can hold

\* The shape codes of logic.sv.
I == 1
J == 2
L == 3
O == 4
S == 5
T == 6
Z == 7

Keys == {"none", "up", "down", "left", "right", "pause", "resume", "enter"}

States == {"START", "RESET", "NEW_BLOCK", "BEFORENEW", "NEWNEXT", "INTER",
           "MOVELEFT", "MOVERIGHT", "MOVEDOWN", "ROTATE_CHOOSE", "ROTATE",
           "AFTERLEFT", "AFTERRIGHT", "AFTERROTATE", "CLEAR", "PAUSE", "GAMEOVER"}

EmptyRow == {0, Width + 1}      \* 12'b100000000001
FullRow  == Cols                \* 12'b111111111111

VARIABLES
    state,           \* the state register, with
    block, stage,    \* k and s of the states CLEARk_s (1 elsewhere)
    x, y,            \* x1 .. x4 and y1 .. y4
    rotate_counter, current_shape, counter,
    current_score, current_best, accu,
    coord_static,    \* the columns occupied, by row
    color_static,    \* the columns with a colour other than 0, by row
    next_static      \* the shape drawn in the preview box

piece  == <<x, y, rotate_counter>>
scores == <<current_score, current_best, accu>>
board  == <<coord_static, color_static>>
vars   == <<state, block, stage, piece, current_shape, counter, scores, board,
            next_static>>

-----------------------------------------------------------------------------
(* Geometry of the pieces: pairs <<dx, dy>>, one per block. *)

\* Where NEW_BLOCK puts the blocks of shape s, relative to <<SpawnX, 1>>.
Spawn(s) ==
    CASE s = J -> <<<<0, 0>>, <<1, 0>>, <<2, 0>>, <<2, 1>>>>
      [] s = L -> <<<<0, 0>>, <<1, 0>>, <<2, 0>>, <<0, 1>>>>
      [] s = O -> <<<<1, 0>>, <<1, 1>>, <<2, 0>>, <<2, 1>>>>
      [] s = S -> <<<<0, 1>>, <<1, 1>>, <<1, 0>>, <<2, 0>>>>
      [] s = T -> <<<<0, 0>>, <<1, 0>>, <<2, 0>>, <<1, 1>>>>
      [] s = Z -> <<<<0, 0>>, <<1, 0>>, <<1, 1>>, <<2, 1>>>>
      [] OTHER -> <<<<0, 0>>, <<1, 0>>, <<2, 0>>, <<3, 0>>>>

\* How a rotation of shape s with rotate_counter = r moves the blocks.
Turn(s, r) ==
    CASE s = I /\ r \in {0, 2} -> <<<<1, -1>>, <<0, 0>>, <<-1, 1>>, <<-2, 2>>>>
      [] s = I /\ r \in {1, 3} -> <<<<-1, 1>>, <<0, 0>>, <<1, -1>>, <<2, -2>>>>
      [] s = J /\ r = 0 -> <<<<1, -1>>, <<0, 0>>, <<-1, 1>>, <<-2, 0>>>>
      [] s = J /\ r = 1 -> <<<<1, 1>>, <<0, 0>>, <<-1, -1>>, <<0, -2>>>>
      [] s = J /\ r = 2 -> <<<<-1, 1>>, <<0, 0>>, <<1, -1>>, <<2, 0>>>>
      [] s = J /\ r = 3 -> <<<<-1, -1>>, <<0, 0>>, <<1, 1>>, <<0, 2>>>>
      [] s = L /\ r = 0 -> <<<<1, -1>>, <<0, 0>>, <<-1, 1>>, <<0, -2>>>>
      [] s = L /\ r = 1 -> <<<<1, 1>>, <<0, 0>>, <<-1, -1>>, <<2, 0>>>>
      [] s = L /\ r = 2 -> <<<<-1, 1>>, <<0, 0>>, <<1, -1>>, <<0, 2>>>>
      [] s = L /\ r = 3 -> <<<<-1, -1>>, <<0, 0>>, <<1, 1>>, <<-2, 0>>>>
      [] s = S /\ r \in {0, 2} -> <<<<1, -1>>, <<0, 0>>, <<1, 1>>, <<0, 2>>>>
      [] s = S /\ r \in {1, 3} -> <<<<-1, 1>>, <<0, 0>>, <<-1, -1>>, <<0, -2>>>>
      [] s = T /\ r = 0 -> <<<<1, -1>>, <<0, 0>>, <<-1, 1>>, <<-1, -1>>>>
      [] s = T /\ r = 1 -> <<<<1, 1>>, <<0, 0>>, <<-1, -1>>, <<1, -1>>>>
      [] s = T /\ r = 2 -> <<<<-1, 1>>, <<0, 0>>, <<1, -1>>, <<1, 1>>>>
      [] s = T /\ r = 3 -> <<<<-1, -1>>, <<0, 0>>, <<1, 1>>, <<-1, 1>>>>
      [] s = Z /\ r \in {0, 2} -> <<<<1, -1>>, <<0, 0>>, <<-1, -1>>, <<-2, 0>>>>
      [] s = Z /\ r \in {1, 3} -> <<<<-1, 1>>, <<0, 0>>, <<1, 1>>, <<2, 0>>>>

-----------------------------------------------------------------------------
(* Reading the board. *)

(***************************************************************************)
(* A cell is <<row, column>>.  Reading outside the array is undefined: X in *)
(* simulation, whatever the multiplexer makes of the spare addresses in     *)
(* hardware.  Such a read may return either bit.                            *)
(***************************************************************************)
InArray(cell) == cell[1] \in Rows /\ cell[2] \in Cols

MayBeSet(cell)   == InArray(cell) => cell[2] \in coord_static[cell[1]]
MayBeClear(cell) == InArray(cell) => cell[2] \notin coord_static[cell[1]]

\* The cell of block b moved by <<dx, dy>>, and the coordinates stored for it.
Target(b, move) == <<y[b] + move[2], x[b] + move[1]>>

MoveBy(moves) == /\ x' = [b \in Blocks |-> (x[b] + moves[b][1]) % 64]
                 /\ y' = [b \in Blocks |-> (y[b] + moves[b][2]) % 64]

Together(dx, dy) == [b \in Blocks |-> <<dx, dy>>]

ProbeOwnCell(s, r, b) ==        \* mutant: a forgotten "+ 1" in ROTATE_L
    LET target == Target(b, Turn(s, r)[b])
    IN  CASE s = L /\ r = 2 /\ b = 1 -> <<y[1], x[1]>>
          [] s = L /\ r = 2 /\ b = 4 -> <<y[4] - 2, x[4]>>
          [] s = L /\ r = 3 -> <<target[2], target[1]>>
          [] OTHER -> target

ProbeTooFar(s, r, b) ==         \* mutant: a 2 for a 1 in ROTATE_I
    LET target == Target(b, Turn(s, r)[b])
    IN  CASE s = L /\ r = 2 /\ b = 4 -> <<y[4] - 2, x[4]>>
          [] s = L /\ r = 3 -> <<target[2], target[1]>>
          [] s = I /\ r = 0 /\ b = 3 -> <<y[3] + 2, x[3] - 1>>
          [] OTHER -> target

(***************************************************************************)
(* The cell that a rotation reads before it moves block b.  It is the cell  *)
(* the block moves to, except in two branches of ROTATE_L: with             *)
(* rotate_counter = 2 the fourth check looks two rows up where the block    *)
(* goes two rows down, and with rotate_counter = 3 all four checks use the  *)
(* column as the row and the row as the column.                             *)
(***************************************************************************)
Probe(s, r, b) ==
    LET target == Target(b, Turn(s, r)[b])
    IN  CASE s = L /\ r = 2 /\ b = 4 -> <<y[4] - 2, x[4]>>
          [] s = L /\ r = 3 -> <<target[2], target[1]>>
          [] OTHER -> target

Full(row) == row \in Rows /\ coord_static[row] = FullRow

\* The rows above the screen and the first visible row hold nothing but walls.
TopRowsEmpty == coord_static[0] = EmptyRow /\ coord_static[1] = EmptyRow

-----------------------------------------------------------------------------
(* The states before, between and after the games. *)

NoBlocks == [b \in Blocks |-> 0]
NoRows   == [r \in Rows |-> {}]

Init == /\ state = "START" /\ block = 1 /\ stage = 1
        /\ x = NoBlocks /\ y = NoBlocks /\ rotate_counter = 0
        /\ current_shape = 0 /\ counter = 0
        /\ current_score = 0 /\ current_best = 0 /\ accu = 1
        /\ coord_static = NoRows /\ color_static = NoRows /\ next_static = 0

\* The asynchronous reset (KEY[3]), pressed at any moment.
Reset == /\ state' = "START" /\ block' = 1 /\ stage' = 1
         /\ x' = NoBlocks /\ y' = NoBlocks /\ rotate_counter' = 0
         /\ current_shape' = 0 /\ counter' = 0
         /\ current_score' = 0 /\ current_best' = 0 /\ accu' = 1
         /\ coord_static' = NoRows /\ color_static' = NoRows /\ next_static' = 0

\* The machine goes from one state to another without leaving CLEAR1_1.
Goto(from, to) == /\ state = from
                  /\ state' = to
                  /\ UNCHANGED <<block, stage>>

Start(key) ==
    /\ Goto("START", IF key = "enter" THEN "RESET" ELSE "START")
    /\ UNCHANGED <<piece, current_shape, counter, scores, board, next_static>>

\* RESET builds the walls and the floor; counter and the best score are kept.
ResetBoard ==
    /\ Goto("RESET", "NEW_BLOCK")
    /\ coord_static' = [r \in Rows |-> IF r = Height + 1 THEN FullRow ELSE EmptyRow]
    /\ color_static' = [r \in Rows |-> {}]
    /\ current_score' = 0 /\ current_shape' = 0 /\ accu' = 1 /\ rotate_counter' = 0
    /\ UNCHANGED <<x, y, counter, current_best, next_static>>

BestOfSwapped == IF current_best > current_score THEN current_score ELSE current_best  \* mutant

BestOf == IF current_best < current_score THEN current_score ELSE current_best

GameOver(key) ==
    /\ Goto("GAMEOVER", IF key = "enter" THEN "RESET" ELSE "GAMEOVER")
    /\ current_best' = BestOf
    /\ UNCHANGED <<piece, current_shape, counter, current_score, accu, board, next_static>>

Pause(key) ==
    /\ Goto("PAUSE", IF key = "resume" THEN "INTER" ELSE "PAUSE")
    /\ UNCHANGED <<piece, current_shape, counter, scores, board, next_static>>

-----------------------------------------------------------------------------
(* A new block: its shape is drawn from next_shape, and once the software    *)
(* has answered, the shape after it is drawn in the preview box.             *)

NewBlockNoShape(next_shape) ==  \* mutant: the new shape is not stored
    /\ Goto("NEW_BLOCK", "BEFORENEW")
    /\ x' = [b \in Blocks |-> SpawnX + Spawn(next_shape)[b][1]]
    /\ y' = [b \in Blocks |-> 1 + Spawn(next_shape)[b][2]]
    /\ rotate_counter' = 0
    /\ UNCHANGED <<current_shape, counter, scores, board, next_static>>

NewBlock(next_shape) ==
    /\ Goto("NEW_BLOCK", "BEFORENEW")
    /\ current_shape' = IF next_shape = 0 THEN I ELSE next_shape
    /\ x' = [b \in Blocks |-> SpawnX + Spawn(next_shape)[b][1]]
    /\ y' = [b \in Blocks |-> 1 + Spawn(next_shape)[b][2]]
    /\ rotate_counter' = 0
    /\ UNCHANGED <<counter, scores, board, next_static>>

BeforeNewAgain(from_sw_sig) ==  \* mutant: goes back to NEW_BLOCK
    /\ Goto("BEFORENEW", IF from_sw_sig THEN "NEW_BLOCK" ELSE "BEFORENEW")
    /\ UNCHANGED <<piece, current_shape, counter, scores, board, next_static>>

BeforeNew(from_sw_sig) ==
    /\ Goto("BEFORENEW", IF from_sw_sig THEN "NEWNEXT" ELSE "BEFORENEW")
    /\ UNCHANGED <<piece, current_shape, counter, scores, board, next_static>>

NewNext(next_shape) ==
    /\ Goto("NEWNEXT", "INTER")
    /\ next_static' = next_shape
    /\ UNCHANGED <<piece, current_shape, counter, scores, board>>

-----------------------------------------------------------------------------
(* The block falls and is steered. *)

InterKeysFirst(key) ==          \* mutant: the missing shape is noticed last
    IF ~TopRowsEmpty THEN "GAMEOVER"
    ELSE IF key = "pause" THEN "PAUSE"
    ELSE IF counter > DropAt THEN "MOVEDOWN"
    ELSE CASE key = "left"  -> "MOVELEFT"
           [] key = "right" -> "MOVERIGHT"
           [] key = "up"    -> "ROTATE_CHOOSE"
           [] OTHER -> IF current_shape = 0 THEN "CLEAR" ELSE "INTER"

InterPauseFirst(key) ==         \* mutant: pause is tested before the end of the game
    IF key = "pause" THEN "PAUSE"
    ELSE IF ~TopRowsEmpty THEN "GAMEOVER"
    ELSE IF current_shape = 0 THEN "CLEAR"
    ELSE IF counter > DropAt THEN "MOVEDOWN"
    ELSE CASE key = "left"  -> "MOVELEFT"
           [] key = "right" -> "MOVERIGHT"
           [] key = "up"    -> "ROTATE_CHOOSE"
           [] OTHER         -> "INTER"

InterDropExactly(key) ==        \* mutant: the piece falls at one value of counter
    IF ~TopRowsEmpty THEN "GAMEOVER"
    ELSE IF key = "pause" THEN "PAUSE"
    ELSE IF current_shape = 0 THEN "CLEAR"
    ELSE IF counter = DropAt + 1 THEN "MOVEDOWN"
    ELSE CASE key = "left"  -> "MOVELEFT"
           [] key = "right" -> "MOVERIGHT"
           [] key = "up"    -> "ROTATE_CHOOSE"
           [] OTHER         -> "INTER"

\* Where INTER goes, in the order of its tests.
InterNext(key) ==
    IF ~TopRowsEmpty THEN "GAMEOVER"
    ELSE IF key = "pause" THEN "PAUSE"
    ELSE IF current_shape = 0 THEN "CLEAR"
    ELSE IF counter > DropAt THEN "MOVEDOWN"
    ELSE CASE key = "left"  -> "MOVELEFT"
           [] key = "right" -> "MOVERIGHT"
           [] key = "up"    -> "ROTATE_CHOOSE"
           [] OTHER         -> "INTER"

CountedWide(key) == counter + (IF key = "down" THEN SoftDrop ELSE 1)  \* mutant

Counted(key) == (counter + (IF key = "down" THEN SoftDrop ELSE 1)) % CounterMod

Inter(key) ==
    /\ Goto("INTER", InterNext(key))
    /\ accu' = 1
    /\ counter' = Counted(key)
    /\ UNCHANGED <<piece, current_shape, current_score, current_best, board, next_static>>

MoveIfThreeClear(moves) ==      \* mutant: the fourth block is not checked
    \/ /\ \E b \in 1 .. 3 : MayBeSet(Target(b, moves[b]))
       /\ UNCHANGED <<x, y>>
    \/ /\ \A b \in 1 .. 3 : MayBeClear(Target(b, moves[b]))
       /\ MoveBy(moves)

\* The piece moves by the given steps when every cell it reads is clear.
MoveIfClear(moves) ==
    \/ /\ \E b \in Blocks : MayBeSet(Target(b, moves[b]))
       /\ UNCHANGED <<x, y>>
    \/ /\ \A b \in Blocks : MayBeClear(Target(b, moves[b]))
       /\ MoveBy(moves)

MoveLeft ==
    /\ Goto("MOVELEFT", "AFTERLEFT")
    /\ MoveIfClear(Together(-1, 0))
    /\ UNCHANGED <<rotate_counter, current_shape, counter, scores, board, next_static>>

MoveRight ==
    /\ Goto("MOVERIGHT", "AFTERRIGHT")
    /\ MoveIfClear(Together(1, 0))
    /\ UNCHANGED <<rotate_counter, current_shape, counter, scores, board, next_static>>

\* The columns that the piece covers in a row.
Covered(row) == {x[b] : b \in {c \in Blocks : y[c] = row}} \cap Cols

\* The block rests on something: it becomes part of the board.
Land ==
    /\ \E b \in Blocks : MayBeSet(Target(b, <<0, 1>>))
    /\ coord_static' = [r \in Rows |-> coord_static[r] \cup Covered(r)]
    /\ color_static' = [r \in Rows |-> IF current_shape = 0
                                         THEN color_static[r] \ Covered(r)
                                         ELSE color_static[r] \cup Covered(r)]
    /\ current_shape' = 0
    /\ UNCHANGED <<x, y>>

Fall ==
    /\ \A b \in Blocks : MayBeClear(Target(b, <<0, 1>>))
    /\ MoveBy(Together(0, 1))
    /\ UNCHANGED <<current_shape, board>>

MoveDown ==
    /\ Goto("MOVEDOWN", "INTER")
    /\ counter' = 0
    /\ Land \/ Fall
    /\ UNCHANGED <<rotate_counter, scores, next_static>>

\* No case for shape 0: the machine would stay here.  The O does not turn.
RotateChoose ==
    /\ Goto("ROTATE_CHOOSE", CASE current_shape = 0 -> "ROTATE_CHOOSE"
                               [] current_shape = O -> "INTER"
                               [] OTHER -> "ROTATE")
    /\ UNCHANGED <<piece, current_shape, counter, scores, board, next_static>>

Rotate ==
    /\ Goto("ROTATE", "AFTERROTATE")
    /\ LET r == rotate_counter
           s == current_shape
       IN  \/ /\ \E b \in Blocks : MayBeSet(Probe(s, r, b))
              /\ UNCHANGED piece
           \/ /\ \A b \in Blocks : MayBeClear(Probe(s, r, b))
              /\ MoveBy(Turn(s, r))
              /\ rotate_counter' = (r + 1) % 4
    /\ UNCHANGED <<current_shape, counter, scores, board, next_static>>

\* AFTERLEFT, AFTERRIGHT and AFTERROTATE wait until the key is released.
Release(from, held, key) ==
    /\ Goto(from, IF key = held THEN from ELSE "INTER")
    /\ UNCHANGED <<piece, current_shape, counter, scores, board, next_static>>

-----------------------------------------------------------------------------
(* Removing full rows: for each block k in turn, CLEARk_1 tests the row of   *)
(* the block and empties it, CLEARk_2 .. CLEARk_5 go on shifting the rows     *)
(* above it down, one Stripe per frame from the bottom, and CLEARk_1 tests   *)
(* the row again.                                                          *)

StageRows(s) == (5 - s) * Stripe + 1 .. (6 - s) * Stripe

ShiftedShort(f, s, row) ==      \* mutant: the row itself is not overwritten
    [r \in Rows |-> IF r \in StageRows(s) /\ row > r THEN f[r - 1] ELSE f[r]]

\* The rows f after stage s of the removal of row.
Shifted(f, s, row) ==
    [r \in Rows |-> IF r \in StageRows(s) /\ row > r - 1 THEN f[r - 1] ELSE f[r]]

\* The block whose row decides the next state: CLEAR4_1 tests y1, not y4.
DecidingBlock(k) == IF k = 4 THEN 1 ELSE k

EmptiedWhole(row) == [coord_static EXCEPT ![row] = {}]  \* mutant: 12'b000000000000

Emptied(row) == [coord_static EXCEPT ![row] = EmptyRow]

ClearTest ==
    /\ state = "CLEAR" /\ stage = 1
    /\ IF Full(y[block])
       THEN /\ coord_static' = Shifted(Emptied(y[block]), 1, y[block])
            /\ color_static' = Shifted(color_static, 1, y[block])
       ELSE UNCHANGED board
    /\ CASE Full(y[DecidingBlock(block)]) ->
              stage' = 2 /\ UNCHANGED <<state, block>>
         [] ~Full(y[DecidingBlock(block)]) /\ block < 4 ->
              block' = block + 1 /\ UNCHANGED <<state, stage>>
         [] OTHER ->
              state' = "NEW_BLOCK" /\ block' = 1 /\ stage' = 1
    /\ UNCHANGED <<piece, current_shape, counter, scores, next_static>>

ClearShift ==
    /\ state = "CLEAR" /\ stage \in 2 .. 4
    /\ coord_static' = Shifted(coord_static, stage, y[block])
    /\ color_static' = Shifted(color_static, stage, y[block])
    /\ stage' = stage + 1
    /\ UNCHANGED <<state, block, piece, current_shape, counter, scores, next_static>>

RowScoreFlat == (current_score + 1) % ScoreMod          \* mutant: every row scores 1

RowScore == (current_score + accu) % ScoreMod

RetestShift == stage' = 2 /\ block' = block             \* mutant: back to CLEARk_2

RetestNext == stage' = 1 /\ block' = (block % 4) + 1    \* mutant: on to the next block

RetestLast == stage' = 1 /\ block' = 4                  \* mutant: on to the last block

\* CLEARk_5 goes back to CLEARk_1.
Retest == stage' = 1 /\ block' = block

\* The last stage also empties row 0 and scores the row.
ClearLast ==
    /\ state = "CLEAR" /\ stage = 5
    /\ coord_static' = [Shifted(coord_static, 5, y[block]) EXCEPT ![0] = EmptyRow]
    /\ color_static' = [Shifted(color_static, 5, y[block]) EXCEPT ![0] = {}]
    /\ current_score' = RowScore
    /\ accu' = (accu + 1) % ScoreMod
    /\ Retest
    /\ UNCHANGED <<state, piece, current_shape, counter, current_best, next_static>>

-----------------------------------------------------------------------------
\* One frame: the machine samples its inputs.
Frame ==
    \/ ResetBoard \/ MoveLeft \/ MoveRight \/ MoveDown \/ RotateChoose \/ Rotate
    \/ ClearTest \/ ClearShift \/ ClearLast
    \/ \E key \in Keys :
         \/ Start(key) \/ GameOver(key) \/ Pause(key) \/ Inter(key)
         \/ Release("AFTERLEFT", "left", key)
         \/ Release("AFTERRIGHT", "right", key)
         \/ Release("AFTERROTATE", "up", key)
    \/ \E next_shape \in Shapes : NewBlock(next_shape) \/ NewNext(next_shape)
    \/ \E from_sw_sig \in BOOLEAN : BeforeNew(from_sw_sig)

Next == Frame \/ Reset

Spec == Init /\ [][Next]_vars

-----------------------------------------------------------------------------
(***************************************************************************)
(* Fairness.  The frame clock never stops, so a state that needs no input   *)
(* is left; the software answers while it is asked; and the player does not *)
(* hold a steering key for ever, resumes a paused game, and does not press  *)
(* pause in every single frame in which the piece is due to fall.           *)
(***************************************************************************)
Clock == \/ ResetBoard \/ MoveLeft \/ MoveRight \/ MoveDown \/ RotateChoose \/ Rotate
         \/ ClearTest \/ ClearShift \/ ClearLast
         \/ \E key \in Keys : Inter(key)
         \/ \E next_shape \in Shapes : NewBlock(next_shape) \/ NewNext(next_shape)

Player == /\ WF_vars(Release("AFTERLEFT", "left", "none"))
          /\ WF_vars(Release("AFTERRIGHT", "right", "none"))
          /\ WF_vars(Release("AFTERROTATE", "up", "none"))
          /\ WF_vars(Pause("resume"))
          /\ SF_vars((\E key \in Keys : Inter(key)) /\ state' = "MOVEDOWN")
          /\ SF_vars((\E key \in Keys : Inter(key)) /\ state' = "CLEAR")

Fairness == WF_vars(Clock) /\ WF_vars(BeforeNew(TRUE)) /\ Player

FairSpec == Spec /\ Fairness

-----------------------------------------------------------------------------
(* Properties. *)

\* The states in which a piece is being moved, or a steering key is held.
Steering == {"MOVELEFT", "MOVERIGHT", "MOVEDOWN", "ROTATE_CHOOSE", "ROTATE",
             "AFTERLEFT", "AFTERRIGHT", "AFTERROTATE"}

\* Every register holds a value of its width (logic.sv:21-47).
TypeOK ==
    /\ state \in States /\ block \in Blocks /\ stage \in Stages
    /\ x \in [Blocks -> Coords] /\ y \in [Blocks -> Coords]
    /\ rotate_counter \in 0 .. 3 /\ current_shape \in 0 .. 7
    /\ counter \in 0 .. CounterMod - 1
    /\ current_score \in 0 .. ScoreMod - 1 /\ current_best \in 0 .. ScoreMod - 1
    /\ accu \in 0 .. ScoreMod - 1
    /\ coord_static \in [Rows -> SUBSET Cols] /\ color_static \in [Rows -> SUBSET Cols]
    /\ next_static \in 0 .. 7

(***************************************************************************)
(* No sequence of moves and rotations takes a block of the piece in play    *)
(* beyond the right wall or into the floor, the block it turns about is     *)
(* always between the walls, and only an L gets a block into the left wall  *)
(* (the moves and rotations of logic.sv:359-443 and 625-850, whose checks   *)
(* for an L do not all look at the cells it moves to).                      *)
(***************************************************************************)
InBounds ==
    current_shape # 0 =>
        /\ x[2] # 0 /\ y[2] # 0
        /\ \A b \in Blocks : /\ x[b] \in 0 .. Width /\ y[b] \in 0 .. Height
                             /\ current_shape # L => x[b] # 0

(***************************************************************************)
(* The walls and the floor, on which every bound check of the code relies,  *)
(* survive every landing and every removal of rows (logic.sv:142-159 builds *)
(* them, 445-619 rewrites the rows).                                        *)
(***************************************************************************)
WallsIntact ==
    state \notin {"START", "RESET"} =>
        /\ coord_static[Height + 1] = FullRow
        /\ \A r \in Rows : EmptyRow \subseteq coord_static[r]

(***************************************************************************)
(* A piece is moved only while there is one: otherwise ROTATE_CHOOSE, which *)
(* has no branch for shape 0, would never be left (logic.sv:890-901).       *)
(***************************************************************************)
ShapeKnown ==
    /\ state \in Steering \cup {"BEFORENEW", "NEWNEXT"} => current_shape # 0
    /\ state \in {"CLEAR", "NEW_BLOCK"} => current_shape = 0

(***************************************************************************)
(* Only INTER looks for the end of the game (logic.sv:953).  In every other *)
(* state of a game the first visible row and the row above it are empty, so *)
(* nothing is removed, paused or spawned on a stack that reached the top.   *)
(***************************************************************************)
TopFree ==
    state \notin {"START", "RESET", "INTER", "GAMEOVER"} => TopRowsEmpty

(***************************************************************************)
(* When the next piece spawns no full row is left, in whatever order the    *)
(* rows of the four blocks were full (logic.sv:445-619, 986-1079).          *)
(***************************************************************************)
NoFullRow ==
    (state = "NEW_BLOCK" \/ current_shape # 0) =>
        \A r \in Rows \ {Height + 1} : ~Full(r)

(***************************************************************************)
(* The states CLEAR4_2 .. CLEAR4_5 are never reached: CLEAR4_1 tests the    *)
(* row of the first block (logic.sv:1060), which CLEAR1_1 .. CLEAR3_1 have  *)
(* not left full.  A row full at the fourth block only is not removed.      *)
(***************************************************************************)
LastBlockNeverShifts == (state = "CLEAR" /\ block = 4) => stage = 1

(***************************************************************************)
(* The score of a game that is over is in the best score before a new game  *)
(* clears it, even when enter is pressed in its first frame                 *)
(* (logic.sv:861-865, 1081-1084).                                           *)
(***************************************************************************)
BestRecorded == state = "RESET" => current_best >= current_score

(***************************************************************************)
(* A piece other than an L shares no cell with the stack, unless it still   *)
(* stands exactly where NEW_BLOCK put it: the end of the game is decided by *)
(* rows 0 and 1 only, so a piece may spawn into row 2 (logic.sv:161-262).   *)
(***************************************************************************)
FlightClear ==
    current_shape \notin {0, L} =>
        \/ \A b \in Blocks : x[b] \notin coord_static[y[b]]
        \/ /\ y = [b \in Blocks |-> 1 + Spawn(current_shape)[b][2]]
           /\ x = [b \in Blocks |-> SpawnX + Spawn(current_shape)[b][1]]

\* Undefined reads decide whether the piece moves.
Undecided(cells) == (\E c \in cells : MayBeSet(c)) /\ (\A c \in cells : MayBeClear(c))

(***************************************************************************)
(* Some moves read outside the arrays (the fourth block of a turning I      *)
(* looks two rows below the floor), but for every piece other than an L     *)
(* the other reads decide (logic.sv:359-443, 625-850).                      *)
(***************************************************************************)
Determined ==
    /\ state = "MOVELEFT" => ~Undecided({Target(b, <<-1, 0>>) : b \in Blocks})
    /\ state = "MOVERIGHT" => ~Undecided({Target(b, <<1, 0>>) : b \in Blocks})
    /\ state = "MOVEDOWN" => ~Undecided({Target(b, <<0, 1>>) : b \in Blocks})
    /\ (state = "ROTATE" /\ current_shape # L) =>
          ~Undecided({Probe(current_shape, rotate_counter, b) : b \in Blocks})

(***************************************************************************)
(* The removal of rows ends, although CLEARk_5 goes back to CLEARk_1        *)
(* (logic.sv:986-1079).                                                     *)
(***************************************************************************)
ClearingEnds == state = "CLEAR" ~> state \in {"NEW_BLOCK", "START"}

(***************************************************************************)
(* A piece in play comes to rest: no use of the keys that releases them     *)
(* holds it up for ever, although counter wraps around (logic.sv:340-357,   *)
(* 951-969).                                                               *)
(***************************************************************************)
PieceLands == (state = "INTER" /\ current_shape # 0) ~> current_shape = 0

(***************************************************************************)
(* After a landing the next piece comes into play, or the game is over      *)
(* (logic.sv:857-859, 903-948, 951-956).                                    *)
(***************************************************************************)
NextPieceComes ==
    (state = "INTER" /\ current_shape = 0) ~>
        \/ state = "INTER" /\ current_shape # 0
        \/ state \in {"GAMEOVER", "START"}

=============================================================================
