-------------------------------- MODULE Well --------------------------------
(***************************************************************************)
(* What the game machine of src/logic.sv promises about the well: a set of  *)
(* cells, a falling piece that joins it where it rests, full rows removed   *)
(* one at a time in a single step and scored 1, 2, 3, ... within one        *)
(* landing, and the end of the game when the stack reaches the top.  How    *)
(* many frames each of these takes, the keys and the gravity are left out.  *)
(*                                                                         *)
(* SmearRow is the one step no player would ask for; the machine has it     *)
(* because CLEAR4_1 takes its next state from the row of the first block.   *)
(***************************************************************************)
EXTENDS Integers, FiniteSets

CONSTANTS
    Width,     \* columns of the well
    Height,    \* rows on the screen, below row 0
    Kept,      \* rows at and above this one do not move when a row is smeared
    ScoreMod   \* the score is kept modulo this

Cells == (0 .. Height) \X (1 .. Width)      \* <<row, column>>
Row(r) == {r} \X (1 .. Width)
Below(cell) == <<cell[1] + 1, cell[2]>>

VARIABLES
    phase,      \* "idle", "play", "landed" or "clearing"
    well,       \* the cells that stop a piece
    painted,    \* the cells that are drawn
    falling,    \* the cells of the piece in play
    score,
    combo       \* what the next row is worth

vars == <<phase, well, painted, falling, score, combo>>

Init == /\ phase = "idle"
        /\ well = {} /\ painted = {} /\ falling = {}
        /\ score = 0 /\ combo = 1

\* A new game, in an empty well.
NewGame == /\ phase = "idle" /\ phase' = "play"
           /\ well' = {} /\ painted' = {} /\ falling' = {}
           /\ score' = 0 /\ combo' = 1

\* A new piece appears in the first two rows.
Appear == /\ phase = "play" /\ falling = {}
          /\ falling' \subseteq Row(1) \cup Row(2)
          /\ Cardinality(falling') = 4
          /\ UNCHANGED <<phase, well, painted, score, combo>>

Plus(cell, d) == <<cell[1] + d[1], cell[2] + d[2]>>
Minus(cell, d) == <<cell[1] - d[1], cell[2] - d[2]>>

\* A quarter of a turn; an L is three blocks in a row and one beside the first.
Quarter(d) == <<d[2], -d[1]>>
Directions == {<<0, 1>>, <<1, 0>>, <<0, -1>>, <<-1, 0>>}
Ell(pivot, d) == {pivot, Plus(pivot, d), Minus(pivot, d), Plus(Minus(pivot, d), Quarter(d))}

\* One step to the left, to the right or down, into free cells.  Blocks of an L
\* that come out of the left wall come into the first column.
Shift(before, after, free) ==
    \E d \in Directions \ {<<-1, 0>>} :
        LET moved == {Plus(cell, d) : cell \in before}
        IN  /\ moved \subseteq after /\ after \subseteq moved \cup ((0 .. Height) \X {1})
            /\ after \subseteq free

\* A quarter of a turn about one of its blocks, forwards or back, into free cells.
Turn(before, after, free) ==
    \E pivot \in before :
        /\ \/ after = {Plus(pivot, Quarter(Minus(cell, pivot))) : cell \in before}
           \/ after = {Minus(pivot, Quarter(Minus(cell, pivot))) : cell \in before}
        /\ after \subseteq free

\* An L turns without regard to the stack, and may turn two blocks into the left wall.
TurnEll(before, after) ==
    \E pivot \in before, d \in Directions :
        before = Ell(pivot, d) \cap Cells /\ after = Ell(pivot, Quarter(d)) \cap Cells

\* The piece moves inside the well.
Steer == /\ phase = "play" /\ phase' = "play" /\ falling # falling'
         /\ falling' \subseteq Cells /\ Cardinality(falling') \in 2 .. 4
         /\ LET before == falling  after == falling'  free == Cells \ well
            IN  \/ Shift(before, after, free)
                \/ Turn(before, after, free)
                \/ TurnEll(before, after)
         /\ UNCHANGED <<well, painted, score, combo>>

(***************************************************************************)
(* The piece rests on the floor or on the stack and becomes part of it.  An  *)
(* L with blocks in the left wall stays wherever it hangs.                  *)
(***************************************************************************)
Land == /\ phase = "play" /\ phase' = "landed"
        /\ \/ \E cell \in falling : cell[1] = Height \/ Below(cell) \in well
           \/ Cardinality(falling) < 4
        /\ well' = well \cup falling /\ painted' = painted \cup falling
        /\ falling' = {}
        /\ UNCHANGED <<score, combo>>

TopDirty == well \cap (Row(0) \cup Row(1)) # {}

\* The stack has reached the first row: the game is over.
TopOut == /\ phase = "landed" /\ TopDirty /\ phase' = "idle"
          /\ UNCHANGED <<well, painted, falling, score, combo>>

StartClearing == /\ phase = "landed" /\ ~TopDirty /\ phase' = "clearing"
                 /\ UNCHANGED <<well, painted, falling, score, combo>>

FullRows == {r \in 0 .. Height : Row(r) \subseteq well}

\* The cells left when row r is taken out and what is above it comes down.
Without(cells, r) == {c \in cells : c[1] > r}
                       \cup {Below(c) : c \in {d \in cells : d[1] < r}}

RemoveRow == /\ phase = "clearing"
             /\ \E r \in FullRows : /\ well' = Without(well, r)
                                    /\ painted' = Without(painted, r)
             /\ score' = (score + combo) % ScoreMod
             /\ combo' = (combo + 1) % ScoreMod
             /\ UNCHANGED <<phase, falling>>

EndClearing == /\ phase = "clearing" /\ FullRows = {} /\ phase' = "play"
               /\ combo' = 1
               /\ UNCHANGED <<well, painted, falling, score>>

\* Only the rows below Kept come down, the row at Kept being copied.
Smeared(cells, r) == {c \in cells : c[1] <= Kept \/ c[1] > r}
                       \cup {Below(c) : c \in {d \in cells : Kept <= d[1] /\ d[1] < r}}

(***************************************************************************)
(* The only full row is emptied but not removed, and not scored.  Above     *)
(* Kept nothing moves, and the emptied row is still drawn.                  *)
(***************************************************************************)
SmearRow == /\ phase = "clearing"
            /\ \E r \in FullRows : /\ FullRows = {r}
                                   /\ well' = Smeared(well \ Row(r), r)
                                   /\ painted' = Smeared(painted, r)
            /\ phase' = "play" /\ combo' = 1
            /\ UNCHANGED <<falling, score>>

Reset == /\ phase' = "idle" /\ well' = {} /\ painted' = {} /\ falling' = {}
         /\ score' = 0 /\ combo' = 1

Next == \/ NewGame \/ Appear \/ Steer \/ Land \/ TopOut
        \/ StartClearing \/ RemoveRow \/ EndClearing \/ SmearRow \/ Reset

Spec == Init /\ [][Next]_vars
=============================================================================
