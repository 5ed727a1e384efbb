-------------------------- MODULE BlocklogicProofs --------------------------
(***************************************************************************)
(* Proofs about the game machine, for boards of every size: its registers   *)
(* fit, no sequence of keys leads it outside its arrays, no landing leaves  *)
(* a full row behind, it keeps to the protocol by which it asks the software*)
(* for shapes, and it implements the well.                                  *)
(***************************************************************************)
EXTENDS GameRefinement, FiniteSetTheorems, TLAPS

-----------------------------------------------------------------------------
(* The registers keep values of their widths. *)

\* Only the shapes that turn reach ROTATE (logic.sv:891-901).
TurnsOnly == state = "ROTATE" => current_shape \in {I, J, L, S, T, Z}

LEMMA BoardFacts ==
    /\ Width \in Nat /\ Height \in Nat /\ Stripe \in Nat /\ SpawnX \in Nat
    /\ Width >= 1 /\ Height >= 5 /\ Stripe >= 1 /\ SpawnX >= 1
    /\ Width < 61 /\ Height < 61 /\ SpawnX + 2 <= Width
    /\ \A s \in Shapes : s \in 0 .. 7 /\ (s \in {0, 1} => SpawnX + 3 <= Width)
  BY BoardAssumption DEF Height

LEMMA RowTypes == EmptyRow \in SUBSET Cols /\ FullRow \in SUBSET Cols
  BY BoardFacts DEF EmptyRow, FullRow, Cols

\* What Spawn and Turn hold.
LEMMA SpawnRange ==
    ASSUME NEW s \in 0 .. 7, NEW b \in Blocks
    PROVE  /\ Spawn(s)[b][1] \in 0 .. 3 /\ Spawn(s)[b][2] \in 0 .. 1
           /\ s \notin {0, 1} => Spawn(s)[b][1] \in 0 .. 2
  BY DEF Spawn, Blocks, I, J, L, O, S, T, Z

LEMMA TurnRange ==
    ASSUME NEW s \in {I, J, L, S, T, Z}, NEW r \in 0 .. 3, NEW b \in Blocks
    PROVE  Turn(s, r)[b][1] \in -2 .. 2 /\ Turn(s, r)[b][2] \in -2 .. 2
  <1>1. CASE s = I BY <1>1 DEF Turn, Blocks, I, J, L, S, T, Z
  <1>2. CASE s = J BY <1>2 DEF Turn, Blocks, I, J, L, S, T, Z
  <1>3. CASE s = L BY <1>3 DEF Turn, Blocks, I, J, L, S, T, Z
  <1>4. CASE s = S BY <1>4 DEF Turn, Blocks, I, J, L, S, T, Z
  <1>5. CASE s = T BY <1>5 DEF Turn, Blocks, I, J, L, S, T, Z
  <1>6. CASE s = Z BY <1>6 DEF Turn, Blocks, I, J, L, S, T, Z
  <1> QED BY <1>1, <1>2, <1>3, <1>4, <1>5, <1>6

\* The form of a piece: the offsets of its blocks from its second block,
\* about which it turns.
Form(s, r) ==
    CASE s = I /\ r \in {0, 2} -> <<<<-1, 0>>, <<0, 0>>, <<1, 0>>, <<2, 0>>>>
      [] s = I /\ r \in {1, 3} -> <<<<0, -1>>, <<0, 0>>, <<0, 1>>, <<0, 2>>>>
      [] s = J /\ r = 0 -> <<<<-1, 0>>, <<0, 0>>, <<1, 0>>, <<1, 1>>>>
      [] s = J /\ r = 1 -> <<<<0, -1>>, <<0, 0>>, <<0, 1>>, <<-1, 1>>>>
      [] s = J /\ r = 2 -> <<<<1, 0>>, <<0, 0>>, <<-1, 0>>, <<-1, -1>>>>
      [] s = J /\ r = 3 -> <<<<0, 1>>, <<0, 0>>, <<0, -1>>, <<1, -1>>>>
      [] s = L /\ r = 0 -> <<<<-1, 0>>, <<0, 0>>, <<1, 0>>, <<-1, 1>>>>
      [] s = L /\ r = 1 -> <<<<0, -1>>, <<0, 0>>, <<0, 1>>, <<-1, -1>>>>
      [] s = L /\ r = 2 -> <<<<1, 0>>, <<0, 0>>, <<-1, 0>>, <<1, -1>>>>
      [] s = L /\ r = 3 -> <<<<0, 1>>, <<0, 0>>, <<0, -1>>, <<1, 1>>>>
      [] s = O -> <<<<0, -1>>, <<0, 0>>, <<1, -1>>, <<1, 0>>>>
      [] s = S /\ r \in {0, 2} -> <<<<-1, 0>>, <<0, 0>>, <<0, -1>>, <<1, -1>>>>
      [] s = S /\ r \in {1, 3} -> <<<<0, -1>>, <<0, 0>>, <<1, 0>>, <<1, 1>>>>
      [] s = T /\ r = 0 -> <<<<-1, 0>>, <<0, 0>>, <<1, 0>>, <<0, 1>>>>
      [] s = T /\ r = 1 -> <<<<0, -1>>, <<0, 0>>, <<0, 1>>, <<-1, 0>>>>
      [] s = T /\ r = 2 -> <<<<1, 0>>, <<0, 0>>, <<-1, 0>>, <<0, -1>>>>
      [] s = T /\ r = 3 -> <<<<0, 1>>, <<0, 0>>, <<0, -1>>, <<1, 0>>>>
      [] s = Z /\ r \in {0, 2} -> <<<<-1, 0>>, <<0, 0>>, <<0, 1>>, <<1, 1>>>>
      [] s = Z /\ r \in {1, 3} -> <<<<0, -1>>, <<0, 0>>, <<-1, 0>>, <<-1, 1>>>>

\* Turning changes one form into the next.
LEMMA TurnForm ==
    ASSUME NEW s \in {I, J, L, S, T, Z}, NEW r \in 0 .. 3, NEW b \in Blocks, NEW i \in {1, 2}
    PROVE  Form(s, (r + 1) % 4)[b][i] = Form(s, r)[b][i] + Turn(s, r)[b][i]
  <1>1. CASE s = I BY <1>1 DEF Turn, Form, Blocks, I, J, L, O, S, T, Z
  <1>2. CASE s = J BY <1>2 DEF Turn, Form, Blocks, I, J, L, O, S, T, Z
  <1>3. CASE s = L BY <1>3 DEF Turn, Form, Blocks, I, J, L, O, S, T, Z
  <1>4. CASE s = S BY <1>4 DEF Turn, Form, Blocks, I, J, L, O, S, T, Z
  <1>5. CASE s = T
    <2>1. CASE r = 0 BY <1>5, <2>1 DEF Turn, Form, Blocks, I, J, L, O, S, T, Z
    <2>2. CASE r = 1 BY <1>5, <2>2 DEF Turn, Form, Blocks, I, J, L, O, S, T, Z
    <2>3. CASE r = 2 BY <1>5, <2>3 DEF Turn, Form, Blocks, I, J, L, O, S, T, Z
    <2>4. CASE r = 3 BY <1>5, <2>4 DEF Turn, Form, Blocks, I, J, L, O, S, T, Z
    <2> QED BY <2>1, <2>2, <2>3, <2>4
  <1>6. CASE s = Z BY <1>6 DEF Turn, Form, Blocks, I, J, L, O, S, T, Z
  <1> QED BY <1>1, <1>2, <1>3, <1>4, <1>5, <1>6
-----------------------------------------------------------------------------
\* What a helper returns.
LEMMA ShiftedType ==
    ASSUME NEW f \in [Rows -> SUBSET Cols], NEW k \in Stages, NEW row \in Coords
    PROVE  Shifted(f, k, row) \in [Rows -> SUBSET Cols]
  <1>1. StageRows(k) \subseteq 1 .. Height
    BY BoardAssumption DEF StageRows, Stages, Height
  <1>2. \A r \in StageRows(k) : r - 1 \in Rows
    BY <1>1, BoardFacts DEF Rows
  <1> QED BY <1>2 DEF Shifted

LEMMA MoveByType ==
    ASSUME TypeOK, NEW moves,
           \A b \in Blocks : moves[b][1] \in Int /\ moves[b][2] \in Int,
           MoveBy(moves)
    PROVE  x' \in [Blocks -> Coords] /\ y' \in [Blocks -> Coords]
  <1>1. \A n \in Int : n % 64 \in Coords
    BY DEF Coords
  <1>2. \A b \in Blocks : x[b] + moves[b][1] \in Int /\ y[b] + moves[b][2] \in Int
    BY DEF TypeOK, Coords
  <1> QED BY <1>1, <1>2 DEF MoveBy

LEMMA TurnType ==
    ASSUME TypeOK, current_shape \in {I, J, L, S, T, Z},
           MoveBy(Turn(current_shape, rotate_counter))
    PROVE  x' \in [Blocks -> Coords] /\ y' \in [Blocks -> Coords]
  <1> DEFINE moves == Turn(current_shape, rotate_counter)
  <1>1. rotate_counter \in 0 .. 3
    BY DEF TypeOK
  <1>2. \A b \in Blocks : moves[b][1] \in -2 .. 2 /\ moves[b][2] \in -2 .. 2
    BY <1>1, TurnRange
  <1> HIDE DEF moves
  <1>3. \A b \in Blocks : moves[b][1] \in Int /\ moves[b][2] \in Int
    BY <1>2
  <1>4. MoveBy(moves)
    BY DEF moves
  <1> QED BY <1>3, <1>4, MoveByType

\* A new piece has its blocks at coordinates of the board.
LEMMA SpawnFits ==
    ASSUME NEW s \in Shapes, NEW b \in Blocks
    PROVE  SpawnX + Spawn(s)[b][1] \in Coords /\ 1 + Spawn(s)[b][2] \in Coords
  <1> DEFINE dx == Spawn(s)[b][1]
             dy == Spawn(s)[b][2]
  <1>1. s \in 0 .. 7
    BY BoardFacts
  <1>2. dx \in 0 .. 3 /\ dy \in 0 .. 1
    BY <1>1, SpawnRange
  <1>3. SpawnX \in Nat /\ SpawnX < 61
    BY BoardFacts
  <1> HIDE DEF dx, dy
  <1>4. SpawnX + dx \in 0 .. 63 /\ 1 + dy \in 0 .. 63
    BY <1>2, <1>3
  <1> QED BY <1>4 DEF Coords, dx, dy

LEMMA SpawnType ==
    ASSUME NEW next_shape \in Shapes, NewBlock(next_shape)
    PROVE  x' \in [Blocks -> Coords] /\ y' \in [Blocks -> Coords]
  <1> DEFINE X(b) == SpawnX + Spawn(next_shape)[b][1]
             Y(b) == 1 + Spawn(next_shape)[b][2]
  <1>1. \A b \in Blocks : X(b) \in Coords /\ Y(b) \in Coords
    BY SpawnFits
  <1>2. x' = [b \in Blocks |-> X(b)] /\ y' = [b \in Blocks |-> Y(b)]
    BY DEF NewBlock
  <1> HIDE DEF X, Y
  <1> QED BY <1>1, <1>2

-----------------------------------------------------------------------------
(* Type correctness *)

TypeInv == TypeOK /\ TurnsOnly

LEMMA TypeInit == Init => TypeInv
  BY BoardFacts, CounterAssumption
  DEF Init, TypeInv, TypeOK, TurnsOnly, NoBlocks, NoRows, States, Blocks, Stages, Coords

LEMMA TypeStep == TypeInv /\ [Next]_vars => TypeInv'
  <1> SUFFICES ASSUME TypeInv, [Next]_vars PROVE TypeInv'
    OBVIOUS
  <1> USE DEF TypeInv, TypeOK, TurnsOnly, Goto, States, Blocks, Stages
  <1>1. CASE Reset
    BY <1>1, CounterAssumption DEF Reset, NoBlocks, NoRows, Coords
  <1>2. ASSUME NEW key \in Keys, Start(key) PROVE TypeInv'
    BY <1>2 DEF Start, piece, scores, board
  <1>3. CASE ResetBoard
    BY <1>3, CounterAssumption, RowTypes DEF ResetBoard
  <1>4. ASSUME NEW key \in Keys, GameOver(key) PROVE TypeInv'
    BY <1>4 DEF GameOver, BestOf, piece, board
  <1>5. ASSUME NEW key \in Keys, Pause(key) PROVE TypeInv'
    BY <1>5 DEF Pause, piece, scores, board
  <1>6. ASSUME NEW next_shape \in Shapes, NewBlock(next_shape) PROVE TypeInv'
    <2>2. x' \in [Blocks -> Coords] /\ y' \in [Blocks -> Coords]
      BY <1>6, SpawnType
    <2> QED BY <1>6, <2>2, BoardFacts DEF NewBlock, scores, board, I
  <1>7. ASSUME NEW sig \in BOOLEAN, BeforeNew(sig) PROVE TypeInv'
    BY <1>7 DEF BeforeNew, piece, scores, board
  <1>8. ASSUME NEW next_shape \in Shapes, NewNext(next_shape) PROVE TypeInv'
    BY <1>8, BoardFacts DEF NewNext, piece, scores, board
  <1>9. ASSUME NEW key \in Keys, Inter(key) PROVE TypeInv'
    <2>1. InterNext(key) \in States \ {"ROTATE"}
      BY DEF InterNext
    <2>2. counter' \in 0 .. CounterMod - 1
      BY <1>9, CounterAssumption DEF Inter, Counted
    <2> QED BY <1>9, <2>1, <2>2, CounterAssumption DEF Inter, piece, board
  <1>10. ASSUME NEW dx \in {-1, 1}, MoveIfClear(Together(dx, 0))
         PROVE  x' \in [Blocks -> Coords] /\ y' \in [Blocks -> Coords]
    BY <1>10, MoveByType DEF MoveIfClear, Together
  <1>11. CASE MoveLeft
    BY <1>10, <1>11 DEF MoveLeft, scores, board
  <1>12. CASE MoveRight
    BY <1>10, <1>12 DEF MoveRight, scores, board
  <1>13. CASE MoveDown
    <2>1. \A r \in Rows : Covered(r) \subseteq Cols
      BY DEF Covered
    <2>2. CASE Land
      BY <1>13, <2>1, <2>2, CounterAssumption DEF MoveDown, Land, scores
    <2>3. CASE Fall
      <3>1. x' \in [Blocks -> Coords] /\ y' \in [Blocks -> Coords]
        BY <2>3, MoveByType DEF Fall, Together
      <3> QED BY <1>13, <2>3, <3>1, CounterAssumption DEF MoveDown, Fall, scores, board
    <2> QED BY <1>13, <2>2, <2>3 DEF MoveDown
  <1>14. CASE RotateChoose
    BY <1>14 DEF RotateChoose, piece, scores, board, I, J, L, O, S, T, Z
  <1>15. CASE Rotate
    <2>1. current_shape \in {I, J, L, S, T, Z}
      BY <1>15 DEF Rotate
    <2>2. CASE UNCHANGED piece
      BY <1>15, <2>2 DEF Rotate, piece, scores, board
    <2>3. CASE MoveBy(Turn(current_shape, rotate_counter))
               /\ rotate_counter' = (rotate_counter + 1) % 4
      <3>1. x' \in [Blocks -> Coords] /\ y' \in [Blocks -> Coords]
        BY <2>1, <2>3, TurnType
      <3>2. rotate_counter' \in 0 .. 3
        BY <2>3
      <3> QED BY <1>15, <3>1, <3>2 DEF Rotate, scores, board
    <2> QED BY <1>15, <2>2, <2>3 DEF Rotate
  <1>16. ASSUME NEW key \in Keys,
                \/ Release("AFTERLEFT", "left", key)
                \/ Release("AFTERRIGHT", "right", key)
                \/ Release("AFTERROTATE", "up", key)
         PROVE  TypeInv'
    BY <1>16 DEF Release, piece, scores, board
  <1>17. CASE ClearTest
    <2>1. /\ coord_static' \in [Rows -> SUBSET Cols]
          /\ color_static' \in [Rows -> SUBSET Cols]
      <3>1. CASE Full(y[block])
        <4>1. Emptied(y[block]) \in [Rows -> SUBSET Cols]
          BY RowTypes DEF Emptied
        <4>2. y[block] \in Coords
          OBVIOUS
        <4>3. Shifted(color_static, 1, y[block]) \in [Rows -> SUBSET Cols]
          BY <4>2, ShiftedType
        <4> DEFINE wiped == Emptied(y[block])
        <4>a. wiped \in [Rows -> SUBSET Cols]
          BY <4>1
        <4> HIDE DEF wiped
        <4>4. Shifted(wiped, 1, y[block]) \in [Rows -> SUBSET Cols]
          BY <4>a, <4>2, ShiftedType
        <4> QED BY <1>17, <3>1, <4>3, <4>4 DEF ClearTest, wiped
      <3>2. CASE ~Full(y[block])
        BY <1>17, <3>2 DEF ClearTest, board
      <3> QED BY <3>1, <3>2
    <2>2. state' \in {"CLEAR", "NEW_BLOCK"} /\ block' \in Blocks /\ stage' \in Stages
      BY <1>17 DEF ClearTest
    <2> QED BY <1>17, <2>1, <2>2 DEF ClearTest, piece, scores
  <1>18. CASE ClearShift
    BY <1>18, ShiftedType DEF ClearShift, piece, scores
  <1>19. CASE ClearLast
    <2>a. /\ Shifted(coord_static, 5, y[block]) \in [Rows -> SUBSET Cols]
          /\ Shifted(color_static, 5, y[block]) \in [Rows -> SUBSET Cols]
      BY ShiftedType
    <2>1. /\ coord_static' \in [Rows -> SUBSET Cols]
          /\ color_static' \in [Rows -> SUBSET Cols]
      BY <1>19, <2>a, RowTypes DEF ClearLast
    <2>2. current_score' \in 0 .. ScoreMod - 1 /\ accu' \in 0 .. ScoreMod - 1
      BY <1>19, CounterAssumption DEF ClearLast, RowScore
    <2> QED BY <1>19, <2>1, <2>2 DEF ClearLast, Retest, piece
  <1>20. CASE UNCHANGED vars
    BY <1>20 DEF vars, piece, scores, board
  <1> QED BY <1>1, <1>2, <1>3, <1>4, <1>5, <1>6, <1>7, <1>8, <1>9, <1>11, <1>12, <1>13,
             <1>14, <1>15, <1>16, <1>17, <1>18, <1>19, <1>20
          DEF Next, Frame

\* Every register keeps a value of its width, and a piece that cannot turn
\* never reaches a ROTATE state (logic.sv:49-107 and both always_comb blocks).
THEOREM TypeCorrect == Spec => []TypeInv
  <1>1. Init => TypeInv BY TypeInit
  <1>2. TypeInv /\ [Next]_vars => TypeInv' BY TypeStep
  <1> QED BY <1>1, <1>2, PTL DEF Spec

\* So no register ever holds what its width cannot (logic.sv:21-47).
THEOREM RegistersFit == Spec => []TypeOK
  <1>1. TypeInv => TypeOK BY DEF TypeInv
  <1> QED BY <1>1, TypeCorrect, PTL

-----------------------------------------------------------------------------
(* The piece, the walls and the stack. *)

\* The piece in play is rigid: its blocks keep the form of its shape.
FormKept ==
    current_shape # 0 =>
        \A b \in Blocks :
            /\ x[b] = x[2] + Form(current_shape, rotate_counter)[b][1]
            /\ y[b] = y[2] + Form(current_shape, rotate_counter)[b][2]

\* The rows that CLEARk_1 may empty never include the floor.
AboveFloor == \A b \in Blocks : y[b] \in 0 .. Height

Geometry == FormKept /\ InBounds /\ AboveFloor /\ FlightClear

GameInv == /\ TypeInv /\ Geometry
           /\ WallsIntact /\ ShapeKnown /\ TopFree

-----------------------------------------------------------------------------
LEMMA FormRange ==
    ASSUME NEW s \in 1 .. 7, NEW r \in 0 .. 3, NEW b \in Blocks, NEW i \in {1, 2}
    PROVE  /\ Form(s, r)[b][i] \in -1 .. 2
           /\ (s # I \/ b # 4) => Form(s, r)[b][i] \in -1 .. 1
           /\ Form(s, r)[2][i] = 0
  <1>1. CASE s = I BY <1>1 DEF Form, Blocks, I, J, L, O, S, T, Z
  <1>2. CASE s = J BY <1>2 DEF Form, Blocks, I, J, L, O, S, T, Z
  <1>3. CASE s = L BY <1>3 DEF Form, Blocks, I, J, L, O, S, T, Z
  <1>4. CASE s = O BY <1>4 DEF Form, Blocks, I, J, L, O, S, T, Z
  <1>5. CASE s = S BY <1>5 DEF Form, Blocks, I, J, L, O, S, T, Z
  <1>6. CASE s = T BY <1>6 DEF Form, Blocks, I, J, L, O, S, T, Z
  <1>7. CASE s = Z BY <1>7 DEF Form, Blocks, I, J, L, O, S, T, Z
  <1> QED BY <1>1, <1>2, <1>3, <1>4, <1>5, <1>6, <1>7 DEF I, J, L, O, S, T, Z

Walled == /\ coord_static[Height + 1] = FullRow
          /\ \A r \in Rows : EmptyRow \subseteq coord_static[r]

LEMMA FormOffsets ==
    ASSUME NEW s \in 1 .. 7, NEW r \in 0 .. 3, NEW b \in Blocks
    PROVE  Form(s, r)[b][1] \in -1 .. 2 /\ Form(s, r)[b][2] \in -1 .. 2
  <1>1. 1 \in {1, 2} /\ 2 \in {1, 2}
    OBVIOUS
  <1> QED BY <1>1, FormRange, Zenon

LEMMA IntRange == \A n \in -2 .. 2 : n \in Int
  OBVIOUS

\* A cell inside the array that reads as clear is between the walls, above
\* the floor, and not occupied.
LEMMA ClearCell ==
    ASSUME Walled, NEW r \in 0 .. Height + 1, NEW c \in 0 .. Width + 1,
           MayBeClear(<<r, c>>)
    PROVE  r \in 0 .. Height /\ c \in 1 .. Width /\ c \notin coord_static[r]
  <1>1. c \notin coord_static[r]
    BY DEF MayBeClear, InArray, Rows, Cols
  <1>2. c # 0 /\ c # Width + 1
    BY <1>1 DEF Walled, EmptyRow, Rows
  <1>3. r # Height + 1
    BY <1>1 DEF Walled, FullRow, Cols
  <1> QED BY <1>1, <1>2, <1>3, BoardFacts

\* What the spawn position and the form have in common.
LEMMA SpawnForm ==
    ASSUME NEW s \in 0 .. 7, NEW b \in Blocks, NEW i \in {1, 2}
    PROVE  Spawn(s)[b][i] = Spawn(s)[2][i] + Form(IF s = 0 THEN I ELSE s, 0)[b][i]
  BY DEF Spawn, Form, Blocks, I, J, L, O, S, T, Z

LEMMA SpawnPivot ==
    ASSUME NEW s \in 0 .. 7 PROVE Spawn(s)[2][1] = 1 /\ Spawn(s)[2][2] \in 0 .. 1
  BY DEF Spawn, I, J, L, O, S, T, Z

-----------------------------------------------------------------------------
\* The stored coordinates are not cut off by their six bits.
LEMMA MoveByExact ==
    ASSUME TypeOK, NEW moves, MoveBy(moves), NEW b \in Blocks,
           moves[b][1] \in Int, moves[b][2] \in Int,
           x[b] + moves[b][1] \in 0 .. 63, y[b] + moves[b][2] \in 0 .. 63
    PROVE  x'[b] = x[b] + moves[b][1] /\ y'[b] = y[b] + moves[b][2]
  <1>1. \A n \in 0 .. 63 : n % 64 = n
    OBVIOUS
  <1> QED BY <1>1 DEF MoveBy

\* Where a step of MOVELEFT, MOVERIGHT or MOVEDOWN that reads nothing set ends.
LEMMA TranslationClear ==
    ASSUME GameInv, Walled, current_shape # 0,
           NEW dx \in -1 .. 1, NEW dy \in 0 .. 1, dx = 0 \/ dy = 0,
           \A b \in Blocks : MayBeClear(Target(b, <<dx, dy>>)),
           NEW b \in Blocks
    PROVE  /\ y[b] + dy \in 0 .. Height /\ x[b] + dx \in 1 .. Width
           /\ x[b] + dx \notin coord_static[y[b] + dy]
  <1> DEFINE F == Form(current_shape, rotate_counter)
  <1>1. /\ \A c \in Blocks : x[c] \in 0 .. Width /\ y[c] \in 0 .. Height
        /\ x[2] \in 1 .. Width /\ y[2] \in 1 .. Height
        /\ \A c \in Blocks : x[c] = x[2] + F[c][1] /\ y[c] = y[2] + F[c][2]
    BY DEF GameInv, Geometry, InBounds, FormKept, Blocks
  <1>a. current_shape \in 1 .. 7 /\ rotate_counter \in 0 .. 3
    BY DEF GameInv, TypeInv, TypeOK
  <1>2. ASSUME NEW c \in Blocks PROVE F[c][1] \in -1 .. 2 /\ F[c][2] \in -1 .. 2
    BY <1>a, FormOffsets, Zenon
  <1> HIDE DEF F
  <1>3. \A c \in Blocks : MayBeClear(<<y[c] + dy, x[c] + dx>>)
    BY DEF Target
  <1>4. x[2] + dx \in 1 .. Width
    <2>1. x[2] + dx \in 0 .. Width + 1 /\ y[2] + dy \in 0 .. Height + 1
      BY <1>1, BoardFacts
    <2> QED BY <2>1, <1>3, ClearCell DEF Blocks
  <1>5. x[b] + dx \in 0 .. Width + 1 /\ y[b] + dy \in 0 .. Height + 1
    BY <1>1, <1>2, <1>4, BoardFacts
  <1> QED BY <1>5, <1>3, ClearCell

LEMMA TranslationEnds ==
    ASSUME GameInv, Walled, current_shape # 0,
           NEW dx \in -1 .. 1, NEW dy \in 0 .. 1, dx = 0 \/ dy = 0,
           \A b \in Blocks : MayBeClear(Target(b, <<dx, dy>>)),
           MoveBy(Together(dx, dy)), NEW b \in Blocks
    PROVE  /\ y[b] + dy \in 0 .. Height /\ x[b] + dx \in 1 .. Width
           /\ x[b] + dx \notin coord_static[y[b] + dy]
           /\ x'[b] = x[b] + dx /\ y'[b] = y[b] + dy
  <1>1. /\ y[b] + dy \in 0 .. Height /\ x[b] + dx \in 1 .. Width
        /\ x[b] + dx \notin coord_static[y[b] + dy]
    BY TranslationClear
  <1>2. Together(dx, dy)[b][1] = dx /\ Together(dx, dy)[b][2] = dy
    BY DEF Together
  <1>3. x[b] + dx \in 0 .. 63 /\ y[b] + dy \in 0 .. 63
    BY <1>1, BoardFacts
  <1>4. x'[b] = x[b] + dx /\ y'[b] = y[b] + dy
    BY <1>2, <1>3, MoveByExact DEF GameInv, TypeInv
  <1> QED BY <1>1, <1>4

\* MOVELEFT, MOVERIGHT and the falling half of MOVEDOWN.
LEMMA TranslationKeeps ==
    ASSUME GameInv, Walled, current_shape # 0,
           NEW dx \in -1 .. 1, NEW dy \in 0 .. 1, dx = 0 \/ dy = 0,
           \A b \in Blocks : MayBeClear(Target(b, <<dx, dy>>)),
           MoveBy(Together(dx, dy)),
           UNCHANGED <<rotate_counter, current_shape, coord_static>>
    PROVE  Geometry'
  <1> DEFINE F == Form(current_shape, rotate_counter)
  <1>1. /\ \A b \in Blocks : x[b] \in 0 .. Width /\ y[b] \in 0 .. Height
        /\ x[2] \in 1 .. Width /\ y[2] \in 1 .. Height
        /\ \A b \in Blocks : x[b] = x[2] + F[b][1] /\ y[b] = y[2] + F[b][2]
    BY DEF GameInv, Geometry, InBounds, FormKept, Blocks
  <1>a. current_shape \in 1 .. 7 /\ rotate_counter \in 0 .. 3
    BY DEF GameInv, TypeInv, TypeOK
  <1>2. ASSUME NEW b \in Blocks PROVE F[b][1] \in -1 .. 2 /\ F[b][2] \in -1 .. 2
    BY <1>a, FormOffsets, Zenon
  <1> HIDE DEF F
  <1>3. ASSUME NEW b \in Blocks
        PROVE  /\ y[b] + dy \in 0 .. Height /\ x[b] + dx \in 1 .. Width
               /\ x[b] + dx \notin coord_static[y[b] + dy]
               /\ x'[b] = x[b] + dx /\ y'[b] = y[b] + dy
    BY TranslationEnds
  <1>4. x'[2] = x[2] + dx /\ y'[2] = y[2] + dy
    BY <1>3 DEF Blocks
  <1>5. FormKept'
    BY <1>1, <1>2, <1>3, <1>4 DEF FormKept, F
  <1>6. InBounds' /\ AboveFloor'
    <2>1. x'[2] # 0 /\ y'[2] # 0
      BY <1>3, <1>4, <1>1, BoardFacts DEF Blocks
    <2> QED BY <1>3, <2>1 DEF InBounds, AboveFloor
  <1>7. FlightClear'
    BY <1>3 DEF FlightClear
  <1> QED BY <1>5, <1>6, <1>7 DEF Geometry

-----------------------------------------------------------------------------
(***************************************************************************)
(* A rotation that succeeds.  A piece that is not an L reads the very cells *)
(* it moves to.  An L with rotate_counter = 2 or 3 does not; it stays in    *)
(* the array because of the cells it leaves, and may enter the left wall.   *)
(***************************************************************************)
Turned == [b \in Blocks |->
              <<x[2] + Form(current_shape, (rotate_counter + 1) % 4)[b][1],
                y[2] + Form(current_shape, (rotate_counter + 1) % 4)[b][2]>>]

LEMMA TurnedTarget ==
    ASSUME GameInv, current_shape \in {I, J, L, S, T, Z}, NEW b \in Blocks
    PROVE  /\ Target(b, Turn(current_shape, rotate_counter)[b])
                = <<Turned[b][2], Turned[b][1]>>
           /\ x[b] + Turn(current_shape, rotate_counter)[b][1] = Turned[b][1]
           /\ y[b] + Turn(current_shape, rotate_counter)[b][2] = Turned[b][2]
  <1> DEFINE s == current_shape
             r == rotate_counter
  <1>1. s \in 1 .. 7 /\ r \in 0 .. 3 /\ s # 0
    BY DEF GameInv, TypeInv, TypeOK, I, J, L, S, T, Z
  <1>2. /\ x[b] = x[2] + Form(s, r)[b][1] /\ y[b] = y[2] + Form(s, r)[b][2]
        /\ x[2] \in 0 .. Width /\ y[2] \in 0 .. Height
    BY <1>1 DEF GameInv, Geometry, FormKept, InBounds, Blocks
  <1>3. /\ Form(s, (r + 1) % 4)[b][1] = Form(s, r)[b][1] + Turn(s, r)[b][1]
        /\ Form(s, (r + 1) % 4)[b][2] = Form(s, r)[b][2] + Turn(s, r)[b][2]
    BY <1>1, TurnForm
  <1>4. /\ Form(s, r)[b][1] \in -1 .. 2 /\ Form(s, r)[b][2] \in -1 .. 2
        /\ Turn(s, r)[b][1] \in -2 .. 2 /\ Turn(s, r)[b][2] \in -2 .. 2
    BY <1>1, FormRange, TurnRange
  <1>5. /\ Turned[b][1] = x[2] + Form(s, (r + 1) % 4)[b][1]
        /\ Turned[b][2] = y[2] + Form(s, (r + 1) % 4)[b][2]
    BY DEF Turned
  <1> HIDE DEF s, r
  <1>6. /\ x[b] + Turn(s, r)[b][1] = Turned[b][1]
        /\ y[b] + Turn(s, r)[b][2] = Turned[b][2]
    BY <1>2, <1>3, <1>4, <1>5, BoardFacts
  <1> QED BY <1>6 DEF Target, s, r

LEMMA TurnedRange ==
    ASSUME GameInv, current_shape \in {I, J, L, S, T, Z}, NEW b \in Blocks
    PROVE  /\ Turned[b][1] \in x[2] - 1 .. x[2] + 2 /\ Turned[b][2] \in y[2] - 1 .. y[2] + 2
           /\ (current_shape # I \/ b # 4) =>
                 Turned[b][1] \in x[2] - 1 .. x[2] + 1 /\ Turned[b][2] \in y[2] - 1 .. y[2] + 1
           /\ x[2] \in 1 .. Width /\ y[2] \in 1 .. Height
  <1> DEFINE F == Form(current_shape, (rotate_counter + 1) % 4)
  <1>1. current_shape \in 1 .. 7 /\ (rotate_counter + 1) % 4 \in 0 .. 3 /\ current_shape # 0
    BY DEF GameInv, TypeInv, TypeOK, I, J, L, S, T, Z
  <1>2. x[2] \in 1 .. Width /\ y[2] \in 1 .. Height
    BY <1>1 DEF GameInv, Geometry, InBounds, Blocks
  <1>3. /\ F[b][1] \in -1 .. 2 /\ F[b][2] \in -1 .. 2
        /\ (current_shape # I \/ b # 4) => F[b][1] \in -1 .. 1 /\ F[b][2] \in -1 .. 1
    BY <1>1, FormRange
  <1>4. Turned[b][1] = x[2] + F[b][1] /\ Turned[b][2] = y[2] + F[b][2]
    BY DEF Turned
  <1> HIDE DEF F
  <1> QED BY <1>2, <1>3, <1>4, BoardFacts

\* Where a rotation of a piece other than an L ends.
LEMMA TurnClear ==
    ASSUME GameInv, Walled, current_shape \in {I, J, S, T, Z},
           \A b \in Blocks : MayBeClear(Probe(current_shape, rotate_counter, b)),
           NEW b \in Blocks
    PROVE  /\ Turned[b][2] \in 0 .. Height /\ Turned[b][1] \in 1 .. Width
           /\ Turned[b][1] \notin coord_static[Turned[b][2]]
  <1>1. current_shape # L /\ current_shape \in {I, J, L, S, T, Z}
    BY DEF I, J, L, S, T, Z
  <1>2. \A c \in Blocks : MayBeClear(<<Turned[c][2], Turned[c][1]>>)
    BY <1>1, TurnedTarget DEF Probe
  <1>3. ASSUME NEW c \in Blocks, current_shape # I \/ c # 4
        PROVE  /\ Turned[c][2] \in 0 .. Height /\ Turned[c][1] \in 1 .. Width
               /\ Turned[c][1] \notin coord_static[Turned[c][2]]
    <2>1. Turned[c][2] \in 0 .. Height + 1 /\ Turned[c][1] \in 0 .. Width + 1
      BY <1>1, <1>3, TurnedRange, BoardFacts
    <2> QED BY <1>2, <2>1, ClearCell
  <1>4. CASE current_shape = I /\ b = 4
    <2>1. /\ Turned[4][1] \in {Turned[3][1], Turned[3][1] + 1}
          /\ Turned[4][2] \in {Turned[3][2], Turned[3][2] + 1}
      <3>1. (rotate_counter + 1) % 4 \in 0 .. 3
        BY DEF GameInv, TypeInv, TypeOK
      <3>2. \A i \in {1, 2} : Form(I, (rotate_counter + 1) % 4)[4][i]
                \in {Form(I, (rotate_counter + 1) % 4)[3][i],
                      Form(I, (rotate_counter + 1) % 4)[3][i] + 1}
        BY <3>1 DEF Form, I, J, L, O, S, T, Z
      <3>3. \A i \in {1, 2} : Form(I, (rotate_counter + 1) % 4)[3][i] \in -1 .. 2
        <4>1. I \in 1 .. 7 /\ 3 \in Blocks
          BY DEF I, Blocks
        <4> QED BY <3>1, <4>1, FormRange, SMTT(30)
      <3>4. x[2] \in 1 .. Width /\ y[2] \in 1 .. Height
        BY <1>1, TurnedRange
      <3> QED BY <1>4, <3>2, <3>3, <3>4, BoardFacts DEF Turned, Blocks
    <2>2. Turned[3][2] \in 0 .. Height /\ Turned[3][1] \in 1 .. Width
      BY <1>3 DEF Blocks
    <2>3. Turned[4][2] \in 0 .. Height + 1 /\ Turned[4][1] \in 0 .. Width + 1
      BY <2>1, <2>2, BoardFacts
    <2> QED BY <1>2, <1>4, <2>3, ClearCell DEF Blocks
  <1> QED BY <1>3, <1>4

LEMMA TurnClearL ==
    ASSUME GameInv, Walled, current_shape = L,
           \A b \in Blocks : MayBeClear(Probe(current_shape, rotate_counter, b)),
           NEW b \in Blocks
    PROVE  Turned[b][2] \in 0 .. Height /\ Turned[b][1] \in 0 .. Width
  <1> DEFINE r == rotate_counter
  <1>1. current_shape \in {I, J, L, S, T, Z} /\ L # I /\ L # 0 /\ r \in 0 .. 3
    BY DEF GameInv, TypeInv, TypeOK, I, J, L, S, T, Z
  <1>2. /\ \A c \in Blocks : x[c] \in 0 .. Width /\ y[c] \in 0 .. Height
        /\ x[2] \in 1 .. Width /\ y[2] \in 1 .. Height
        /\ \A c \in Blocks : /\ x[c] = x[2] + Form(L, r)[c][1]
                             /\ y[c] = y[2] + Form(L, r)[c][2]
    BY <1>1 DEF GameInv, Geometry, InBounds, FormKept, Blocks
  <1>3. /\ Turned[b][1] = x[2] + Form(L, (r + 1) % 4)[b][1]
        /\ Turned[b][2] = y[2] + Form(L, (r + 1) % 4)[b][2]
    BY DEF Turned
  <1>4. Turned[b][1] \in 0 .. Width + 1 /\ Turned[b][2] \in 0 .. Height + 1
    BY <1>1, TurnedRange, BoardFacts
  <1>5. ASSUME NEW c \in Blocks, r \in {0, 1} \/ (r = 2 /\ c # 4)
        PROVE  Turned[c][2] \in 0 .. Height /\ Turned[c][1] \in 1 .. Width
    <2>1. MayBeClear(<<Turned[c][2], Turned[c][1]>>)
      <3>1. Probe(current_shape, rotate_counter, c)
              = Target(c, Turn(current_shape, rotate_counter)[c])
        BY <1>5 DEF Probe
      <3>2. Target(c, Turn(current_shape, rotate_counter)[c])
              = <<Turned[c][2], Turned[c][1]>>
        BY <1>1, TurnedTarget
      <3> QED BY <3>1, <3>2
    <2>2. Turned[c][2] \in 0 .. Height + 1 /\ Turned[c][1] \in 0 .. Width + 1
      BY <1>1, TurnedRange, BoardFacts
    <2> QED BY <2>1, <2>2, ClearCell
  <1>6. CASE r \in {0, 1}
    BY <1>5, <1>6
  <1>7. CASE r = 2
    <2>1. CASE b # 4
      BY <1>5, <1>7, <2>1
    <2>2. CASE b = 4
      <3>1. Form(L, 2)[1] = <<1, 0>> /\ Form(L, 3)[1] = <<0, 1>> /\ Form(L, 3)[4] = <<1, 1>>
        BY DEF Form, I, J, L, O, S, T, Z
      <3>2. x[2] + 1 \in 0 .. Width
        BY <1>2, <1>7, <3>1 DEF Blocks
      <3>3. Turned[1] = <<x[2] + 0, y[2] + 1>> /\ Turned[4] = <<x[2] + 1, y[2] + 1>>
        BY <1>7, <3>1 DEF Turned, Blocks, L
      <3>4. Turned[1][2] \in 0 .. Height
        BY <1>5, <1>7 DEF Blocks
      <3> QED BY <2>2, <3>2, <3>3, <3>4
    <2> QED BY <2>1, <2>2
  <1>8. CASE r = 3
    <2>1. /\ Form(L, 3)[4] = <<1, 1>>
          /\ Form(L, 0)[b][1] \in -1 .. 1 /\ Form(L, 0)[b][2] \in 0 .. 1
      BY DEF Form, Blocks, I, J, L, O, S, T, Z
    <2>2. x[2] + 1 \in 0 .. Width /\ y[2] + 1 \in 0 .. Height
      BY <1>2, <1>8, <2>1 DEF Blocks
    <2>3. /\ Turned[b][1] = x[2] + Form(L, 0)[b][1]
          /\ Turned[b][2] = y[2] + Form(L, 0)[b][2]
      BY <1>3, <1>8
    <2> QED BY <1>2, <2>1, <2>2, <2>3, BoardFacts
  <1> QED BY <1>1, <1>6, <1>7, <1>8

LEMMA TurnEnds ==
    ASSUME GameInv, Walled, current_shape \in {I, J, L, S, T, Z},
           \A b \in Blocks : MayBeClear(Probe(current_shape, rotate_counter, b)),
           MoveBy(Turn(current_shape, rotate_counter)), NEW b \in Blocks
    PROVE  /\ Turned[b][2] \in 0 .. Height /\ Turned[b][1] \in 0 .. Width
           /\ current_shape # L =>
                 Turned[b][1] # 0 /\ Turned[b][1] \notin coord_static[Turned[b][2]]
           /\ x'[b] = Turned[b][1] /\ y'[b] = Turned[b][2]
  <1>1. /\ Turned[b][2] \in 0 .. Height /\ Turned[b][1] \in 0 .. Width
        /\ current_shape # L =>
              Turned[b][1] # 0 /\ Turned[b][1] \notin coord_static[Turned[b][2]]
    <2>1. CASE current_shape = L
      BY <2>1, TurnClearL
    <2>2. CASE current_shape # L
      <3>1. current_shape \in {I, J, S, T, Z}
        BY <2>2
      <3> QED BY <3>1, TurnClear
    <2> QED BY <2>1, <2>2
  <1>2. x'[b] = Turned[b][1] /\ y'[b] = Turned[b][2]
    <2>1. /\ Turn(current_shape, rotate_counter)[b][1] \in Int
          /\ Turn(current_shape, rotate_counter)[b][2] \in Int
      <3>1. rotate_counter \in 0 .. 3
        BY DEF GameInv, TypeInv, TypeOK
      <3>2. /\ Turn(current_shape, rotate_counter)[b][1] \in -2 .. 2
            /\ Turn(current_shape, rotate_counter)[b][2] \in -2 .. 2
        BY <3>1, TurnRange, SMTT(30)
      <3> QED BY <3>2, Zenon, IntRange
    <2>2. Turned[b][1] \in 0 .. 63 /\ Turned[b][2] \in 0 .. 63
      BY <1>1, BoardFacts
    <2> QED BY <2>1, <2>2, TurnedTarget, MoveByExact DEF GameInv, TypeInv
  <1> QED BY <1>1, <1>2

LEMMA RotationKeeps ==
    ASSUME GameInv, Walled, current_shape \in {I, J, L, S, T, Z},
           \A b \in Blocks : MayBeClear(Probe(current_shape, rotate_counter, b)),
           MoveBy(Turn(current_shape, rotate_counter)),
           rotate_counter' = (rotate_counter + 1) % 4,
           UNCHANGED <<current_shape, coord_static>>
    PROVE  Geometry'
  <1>1. /\ current_shape \in 1 .. 7 /\ current_shape # 0 /\ rotate_counter \in 0 .. 3
        /\ rotate_counter' \in 0 .. 3 /\ 2 \in Blocks
    BY DEF GameInv, TypeInv, TypeOK, I, J, L, S, T, Z, Blocks
  <1>2. ASSUME NEW b \in Blocks
        PROVE  /\ Turned[b][2] \in 0 .. Height /\ Turned[b][1] \in 0 .. Width
               /\ current_shape # L =>
                     Turned[b][1] # 0 /\ Turned[b][1] \notin coord_static[Turned[b][2]]
    BY TurnEnds
  <1>3. ASSUME NEW b \in Blocks
        PROVE  x'[b] = Turned[b][1] /\ y'[b] = Turned[b][2]
    BY TurnEnds
  <1>4. x'[2] = x[2] /\ y'[2] = y[2] /\ x[2] \in 1 .. Width /\ y[2] \in 1 .. Height
    <2>1. \A i \in {1, 2} : Form(current_shape, (rotate_counter + 1) % 4)[2][i] = 0
      BY <1>1, FormRange
    <2>2. x[2] \in 1 .. Width /\ y[2] \in 1 .. Height
      BY <1>1, TurnedRange
    <2> QED BY <1>1, <1>3, <2>1, <2>2, BoardFacts DEF Turned
  <1>5. FormKept'
    BY <1>3, <1>4 DEF FormKept, Turned
  <1>6. InBounds' /\ AboveFloor'
    BY <1>2, <1>3, <1>4, BoardFacts DEF InBounds, AboveFloor
  <1>7. FlightClear'
    BY <1>2, <1>3 DEF FlightClear
  <1> QED BY <1>5, <1>6, <1>7 DEF Geometry

-----------------------------------------------------------------------------
(* The other ways a step changes the piece. *)

LEMMA GeometryFrame ==
    ASSUME Geometry, UNCHANGED <<x, y, rotate_counter, current_shape, coord_static>>
    PROVE  Geometry'
  BY DEF Geometry, FormKept, InBounds, AboveFloor, FlightClear

LEMMA NoPieceKeeps ==
    ASSUME Geometry, current_shape' = 0, UNCHANGED <<x, y>>
    PROVE  Geometry'
  BY DEF Geometry, FormKept, InBounds, AboveFloor, FlightClear

LEMMA SpawnKeeps ==
    ASSUME NEW next_shape \in Shapes, NewBlock(next_shape)
    PROVE  Geometry' /\ current_shape' # 0
  <1> DEFINE s == IF next_shape = 0 THEN I ELSE next_shape
  <1>1. /\ next_shape \in 0 .. 7 /\ s \in 1 .. 7 /\ s # 0 /\ current_shape' = s
        /\ rotate_counter' = 0 /\ Spawn(s) = Spawn(next_shape)
    BY BoardFacts DEF NewBlock, Spawn, I, J, L, O, S, T, Z
  <1>2. /\ x' = [b \in Blocks |-> SpawnX + Spawn(s)[b][1]]
        /\ y' = [b \in Blocks |-> 1 + Spawn(s)[b][2]]
    BY <1>1 DEF NewBlock
  <1>3. ASSUME NEW b \in Blocks
        PROVE  x'[b] \in 1 .. Width /\ y'[b] \in 1 .. Height
    <2>1. /\ Spawn(s)[b][1] \in 0 .. 3 /\ Spawn(s)[b][2] \in 0 .. 1
          /\ next_shape \notin {0, 1} => Spawn(s)[b][1] \in 0 .. 2
      BY <1>1, SpawnRange
    <2> QED BY <1>2, <2>1, BoardFacts
  <1>4. FormKept'
    <2>1. ASSUME NEW b \in Blocks
          PROVE  /\ x'[b] = x'[2] + Form(s, 0)[b][1]
                 /\ y'[b] = y'[2] + Form(s, 0)[b][2]
      <3>1. \A i \in {1, 2} : Spawn(s)[b][i] = Spawn(s)[2][i] + Form(s, 0)[b][i]
        BY <1>1, SpawnForm
      <3>2. Spawn(s)[2][1] \in Int /\ Spawn(s)[2][2] \in Int
        BY <1>1, SpawnPivot
      <3>3. \A i \in {1, 2} : Form(s, 0)[b][i] \in -1 .. 2
        BY <1>1, FormRange
      <3> HIDE DEF s
      <3> QED BY <1>2, <3>1, <3>2, <3>3, BoardFacts DEF Blocks
    <2> QED BY <1>1, <2>1 DEF FormKept
  <1>5. InBounds' /\ AboveFloor'
    BY <1>3, BoardFacts DEF InBounds, AboveFloor, Blocks
  <1>6. FlightClear'
    BY <1>1, <1>2 DEF FlightClear
  <1> QED BY <1>1, <1>4, <1>5, <1>6 DEF Geometry

\* Shifting rows leaves the floor, the walls and an empty top as they are.
LEMMA ShiftedWalls ==
    ASSUME NEW f \in [Rows -> SUBSET Cols], NEW k \in Stages, NEW row \in Coords,
           f[Height + 1] = FullRow, \A r \in Rows : EmptyRow \subseteq f[r],
           f[0] = EmptyRow, f[1] = EmptyRow
    PROVE  /\ Shifted(f, k, row)[Height + 1] = FullRow
           /\ \A r \in Rows : EmptyRow \subseteq Shifted(f, k, row)[r]
           /\ Shifted(f, k, row)[0] = EmptyRow /\ Shifted(f, k, row)[1] = EmptyRow
  <1>1. StageRows(k) \subseteq 1 .. Height
    BY BoardAssumption DEF StageRows, Stages, Height
  <1>2. Height + 1 \in Rows \ StageRows(k) /\ 0 \in Rows \ StageRows(k) /\ 1 \in Rows
    BY <1>1, BoardFacts DEF Rows
  <1>3. \A r \in StageRows(k) : r - 1 \in Rows /\ (r = 1 => r - 1 = 0)
    BY <1>1, BoardFacts DEF Rows
  <1> QED BY <1>2, <1>3 DEF Shifted

\* What the three kinds of CLEAR states do to the board.
LEMMA ClearKeeps ==
    ASSUME GameInv, ClearTest \/ ClearShift \/ ClearLast
    PROVE  Walled' /\ TopRowsEmpty' /\ Geometry'
  <1>1. /\ state = "CLEAR" /\ Walled /\ TopRowsEmpty /\ current_shape = 0
        /\ current_shape' = current_shape /\ UNCHANGED <<x, y>>
    BY DEF GameInv, WallsIntact, Walled, TopFree, ShapeKnown, ClearTest, ClearShift,
           ClearLast, piece
  <1>2. /\ coord_static \in [Rows -> SUBSET Cols] /\ y[block] \in Coords
        /\ stage \in Stages /\ block \in Blocks /\ y[block] \in 0 .. Height
    BY DEF GameInv, TypeInv, TypeOK, Geometry, AboveFloor
  <1>3. /\ 0 \in Rows /\ 1 \in Rows /\ Height + 1 \in Rows
        /\ Height + 1 # 0 /\ 1 # 0 /\ Height + 1 # 1
    BY BoardFacts DEF Rows
  <1>4. Geometry'
    BY <1>1, NoPieceKeeps DEF GameInv
  <1>5. CASE ClearTest
    <2>1. CASE Full(y[block])
      <3> DEFINE wiped == [coord_static EXCEPT ![y[block]] = EmptyRow]
      <3>1. /\ wiped \in [Rows -> SUBSET Cols] /\ wiped[Height + 1] = FullRow
            /\ \A r \in Rows : EmptyRow \subseteq wiped[r]
            /\ wiped[0] = EmptyRow /\ wiped[1] = EmptyRow
        <4>1. y[block] \in Rows /\ y[block] # Height + 1
          BY <1>2, BoardFacts DEF Rows
        <4>2. \A r \in Rows :
                wiped[r] = IF r = y[block] THEN EmptyRow ELSE coord_static[r]
          BY <1>2
        <4>3. wiped \in [Rows -> SUBSET Cols]
          BY <1>2, RowTypes
        <4> HIDE DEF wiped
        <4> QED BY <1>1, <1>3, <4>1, <4>2, <4>3 DEF Walled, TopRowsEmpty
      <3>2. coord_static' = Shifted(wiped, 1, y[block])
        BY <1>5, <2>1 DEF ClearTest, Emptied
      <3> HIDE DEF wiped
      <3>3. Walled' /\ TopRowsEmpty'
        BY <1>2, <3>1, <3>2, ShiftedWalls DEF Walled, TopRowsEmpty, Stages
      <3> QED BY <1>4, <3>3
    <2>2. CASE ~Full(y[block])
      BY <1>1, <1>4, <1>5, <2>2 DEF ClearTest, board, Walled, TopRowsEmpty
    <2> QED BY <2>1, <2>2
  <1>6. CASE ClearShift
    <2>1. coord_static' = Shifted(coord_static, stage, y[block])
      BY <1>6 DEF ClearShift
    <2>2. Walled' /\ TopRowsEmpty'
      BY <1>1, <1>2, <2>1, ShiftedWalls DEF Walled, TopRowsEmpty
    <2> QED BY <1>4, <2>2
  <1>7. CASE ClearLast
    <2> DEFINE shifted == Shifted(coord_static, 5, y[block])
    <2>1. /\ shifted[Height + 1] = FullRow
          /\ \A r \in Rows : EmptyRow \subseteq shifted[r]
          /\ shifted[1] = EmptyRow /\ shifted \in [Rows -> SUBSET Cols]
      BY <1>1, <1>2, ShiftedWalls, ShiftedType DEF Walled, TopRowsEmpty, Stages
    <2>2. coord_static' = [shifted EXCEPT ![0] = EmptyRow]
      BY <1>7 DEF ClearLast
    <2> HIDE DEF shifted
    <2>3. Walled' /\ TopRowsEmpty'
      BY <1>3, <2>1, <2>2 DEF Walled, TopRowsEmpty
    <2> QED BY <1>4, <2>3
  <1> QED BY <1>5, <1>6, <1>7

-----------------------------------------------------------------------------
(* The invariant *)

LEMMA GameInit == Init => GameInv
  <1> SUFFICES ASSUME Init PROVE GameInv
    OBVIOUS
  <1>1. TypeInv
    BY TypeInit
  <1>2. Geometry
    BY BoardFacts
    DEF Init, Geometry, FormKept, InBounds, AboveFloor, FlightClear, NoBlocks
  <1>3. WallsIntact /\ ShapeKnown /\ TopFree
    BY DEF Init, WallsIntact, ShapeKnown, TopFree, Steering
  <1> QED BY <1>1, <1>2, <1>3 DEF GameInv

\* The states in which the board has its walls.
Playing == state \notin {"START", "RESET"}

LEMMA GameStep == GameInv /\ [Next]_vars => GameInv'
  <1> SUFFICES ASSUME GameInv, [Next]_vars PROVE GameInv'
    OBVIOUS
  <1>t. TypeInv'
    BY TypeStep DEF GameInv
  <1>w. Playing => Walled
    BY DEF Playing, GameInv, WallsIntact, Walled
  <1> DEFINE Rest == Geometry' /\ WallsIntact' /\ ShapeKnown' /\ TopFree'
  <1> SUFFICES Rest
    BY <1>t DEF GameInv
  <1>f. ASSUME UNCHANGED <<x, y, rotate_counter, current_shape, coord_static>>
        PROVE  Geometry' /\ (Walled => Walled') /\ (TopRowsEmpty => TopRowsEmpty')
    BY <1>f, GeometryFrame DEF GameInv, Walled, TopRowsEmpty
  <1> USE DEF Goto
  <1>1. CASE Reset
    <2>1. Geometry'
      BY <1>1, BoardFacts
      DEF Reset, Geometry, FormKept, InBounds, AboveFloor, FlightClear, NoBlocks
    <2> QED BY <1>1, <2>1 DEF Reset, WallsIntact, ShapeKnown, TopFree, Steering
  <1>2. ASSUME NEW key \in Keys, Start(key) PROVE Rest
    <2>1. Geometry'
      BY <1>2, <1>f DEF Start, piece, board
    <2> QED BY <1>2, <2>1 DEF Start, WallsIntact, ShapeKnown, TopFree, Steering
  <1>3. CASE ResetBoard
    <2>1. Geometry'
      BY <1>3, NoPieceKeeps DEF ResetBoard, GameInv
    <2>2. Walled' /\ TopRowsEmpty'
      BY <1>3, BoardFacts DEF ResetBoard, Walled, TopRowsEmpty, Rows, FullRow, EmptyRow, Cols
    <2> QED BY <1>3, <2>1, <2>2
            DEF ResetBoard, Walled, WallsIntact, ShapeKnown, TopFree, Steering
  <1>4. ASSUME NEW key \in Keys, GameOver(key) PROVE Rest
    <2>1. Geometry' /\ Walled'
      BY <1>4, <1>f, <1>w DEF GameOver, piece, board, Playing
    <2> QED BY <1>4, <2>1 DEF GameOver, Walled, WallsIntact, ShapeKnown, TopFree, Steering
  <1>5. ASSUME NEW key \in Keys, Pause(key) PROVE Rest
    <2>1. Geometry' /\ Walled' /\ TopRowsEmpty'
      BY <1>5, <1>f, <1>w DEF Pause, piece, board, Playing, GameInv, TopFree
    <2> QED BY <1>5, <2>1 DEF Pause, Walled, WallsIntact, ShapeKnown, TopFree, Steering
  <1>6. ASSUME NEW next_shape \in Shapes, NewBlock(next_shape) PROVE Rest
    <2>1. Walled' /\ TopRowsEmpty'
      BY <1>6, <1>w
      DEF NewBlock, board, Playing, GameInv, TopFree, Walled, TopRowsEmpty
    <2> QED BY <1>6, <2>1, SpawnKeeps
            DEF NewBlock, Walled, WallsIntact, ShapeKnown, TopFree, Steering
  <1>7. ASSUME NEW sig \in BOOLEAN, BeforeNew(sig) PROVE Rest
    <2>1. Geometry' /\ Walled' /\ TopRowsEmpty' /\ current_shape' # 0
      BY <1>7, <1>f, <1>w DEF BeforeNew, piece, board, Playing, GameInv, TopFree, ShapeKnown
    <2> QED BY <1>7, <2>1 DEF BeforeNew, Walled, WallsIntact, ShapeKnown, TopFree, Steering
  <1>8. ASSUME NEW next_shape \in Shapes, NewNext(next_shape) PROVE Rest
    <2>1. Geometry' /\ Walled' /\ TopRowsEmpty'
      BY <1>8, <1>f, <1>w DEF NewNext, piece, board, Playing, GameInv, TopFree
    <2> QED BY <1>8, <2>1 DEF NewNext, Walled, WallsIntact, ShapeKnown, TopFree, Steering
  <1>9. ASSUME NEW key \in Keys, Inter(key) PROVE Rest
    <2>1. Geometry' /\ Walled' /\ (TopRowsEmpty => TopRowsEmpty')
      BY <1>9, <1>f, <1>w DEF Inter, piece, board, Playing
    <2>2. /\ state' \in {"GAMEOVER", "PAUSE", "CLEAR", "INTER"} \cup Steering
          /\ state' # "GAMEOVER" => TopRowsEmpty
          /\ state' \in Steering => current_shape # 0
          /\ state' = "CLEAR" => current_shape = 0
      BY <1>9 DEF Inter, InterNext, Steering
    <2>3. current_shape' = current_shape
      BY <1>9 DEF Inter
    <2> QED BY <2>1, <2>2, <2>3 DEF Walled, WallsIntact, ShapeKnown, TopFree, Steering
  <1>10. ASSUME NEW dx \in {-1, 1}, MoveIfClear(Together(dx, 0)), state \in Steering,
                UNCHANGED <<rotate_counter, current_shape, coord_static>>
         PROVE  Geometry'
    <2>1. current_shape # 0 /\ Walled
      BY <1>10, <1>w DEF Steering, Playing, GameInv, ShapeKnown
    <2>2. CASE UNCHANGED <<x, y>>
      BY <1>10, <1>f, <2>2
    <2>3. CASE /\ \A b \in Blocks : MayBeClear(Target(b, Together(dx, 0)[b]))
               /\ MoveBy(Together(dx, 0))
      <3>1. \A b \in Blocks : Together(dx, 0)[b] = <<dx, 0>>
        BY DEF Together
      <3> QED BY <1>10, <2>1, <2>3, <3>1, TranslationKeeps
    <2> QED BY <1>10, <2>2, <2>3 DEF MoveIfClear
  <1>11. ASSUME MoveLeft \/ MoveRight PROVE Rest
    <2>1. /\ state \in Steering \cap {"MOVELEFT", "MOVERIGHT"}
          /\ state' \in {"AFTERLEFT", "AFTERRIGHT"}
          /\ UNCHANGED <<rotate_counter, current_shape, coord_static>>
      BY <1>11 DEF MoveLeft, MoveRight, board, Steering
    <2>2. Geometry'
      BY <1>10, <1>11, <2>1 DEF MoveLeft, MoveRight
    <2>3. Walled' /\ TopRowsEmpty' /\ current_shape' # 0
      BY <1>w, <2>1 DEF Playing, GameInv, TopFree, ShapeKnown, Walled, TopRowsEmpty
    <2> QED BY <2>1, <2>2, <2>3 DEF Walled, WallsIntact, ShapeKnown, TopFree, Steering
  <1>12. CASE MoveDown
    <2>1. state = "MOVEDOWN" /\ state' = "INTER" /\ Walled /\ current_shape # 0
      BY <1>12, <1>w DEF MoveDown, Playing, GameInv, ShapeKnown, Steering
    <2>2. CASE Land
      <3>1. Geometry'
        BY <2>2, NoPieceKeeps DEF Land, GameInv
      <3>2. Walled'
        BY <2>1, <2>2, BoardFacts DEF Land, Walled, Covered, FullRow, Rows
      <3> QED BY <2>1, <3>1, <3>2 DEF Walled, WallsIntact, ShapeKnown, TopFree, Steering
    <2>3. CASE Fall
      <3>1. Geometry'
        BY <1>12, <2>1, <2>3, TranslationKeeps DEF MoveDown, Fall, board
      <3>2. Walled'
        BY <2>1, <2>3 DEF Fall, board, Walled
      <3> QED BY <2>1, <3>1, <3>2 DEF Walled, WallsIntact, ShapeKnown, TopFree, Steering
    <2> QED BY <1>12, <2>2, <2>3 DEF MoveDown
  <1>13. CASE RotateChoose
    <2>1. Geometry' /\ Walled' /\ TopRowsEmpty' /\ current_shape' # 0
      BY <1>13, <1>f, <1>w
      DEF RotateChoose, piece, board, Playing, GameInv, TopFree, ShapeKnown, Steering
    <2> QED BY <1>13, <2>1
            DEF RotateChoose, Walled, WallsIntact, ShapeKnown, TopFree, Steering
  <1>14. CASE Rotate
    <2>1. /\ state = "ROTATE" /\ state' = "AFTERROTATE" /\ Walled /\ TopRowsEmpty
          /\ current_shape # 0 /\ current_shape \in {I, J, L, S, T, Z}
          /\ UNCHANGED <<current_shape, coord_static>>
      BY <1>14, <1>w
      DEF Rotate, board, Playing, GameInv, TypeInv, TurnsOnly, TopFree, ShapeKnown, Steering
    <2>2. CASE UNCHANGED piece
      BY <1>f, <2>1, <2>2 DEF piece, WallsIntact, Walled, ShapeKnown, TopFree, Steering
    <2>3. CASE /\ \A b \in Blocks : MayBeClear(Probe(current_shape, rotate_counter, b))
               /\ MoveBy(Turn(current_shape, rotate_counter))
               /\ rotate_counter' = (rotate_counter + 1) % 4
      <3>1. Geometry'
        BY <2>1, <2>3, RotationKeeps
      <3>2. Walled' /\ TopRowsEmpty'
        BY <2>1 DEF Walled, TopRowsEmpty
      <3> QED BY <2>1, <3>1, <3>2 DEF Walled, WallsIntact, ShapeKnown, TopFree, Steering
    <2> QED BY <1>14, <2>2, <2>3 DEF Rotate
  <1>15. ASSUME NEW key \in Keys, NEW from \in {"AFTERLEFT", "AFTERRIGHT", "AFTERROTATE"},
                NEW held, Release(from, held, key)
         PROVE  Rest
    <2>1. Geometry' /\ Walled' /\ TopRowsEmpty' /\ current_shape' # 0
      BY <1>15, <1>f, <1>w
      DEF Release, piece, board, Playing, GameInv, TopFree, ShapeKnown, Steering
    <2> QED BY <1>15, <2>1 DEF Release, Walled, WallsIntact, ShapeKnown, TopFree, Steering
  <1>16. ASSUME ClearTest \/ ClearShift \/ ClearLast PROVE Rest
    <2>1. Walled' /\ TopRowsEmpty' /\ Geometry'
      BY <1>16, ClearKeeps
    <2>2. state' \in {"CLEAR", "NEW_BLOCK"} /\ current_shape' = 0
      BY <1>16 DEF GameInv, ShapeKnown, ClearTest, ClearShift, ClearLast
    <2> QED BY <2>1, <2>2 DEF Walled, WallsIntact, ShapeKnown, TopFree, Steering
  <1>17. CASE UNCHANGED vars
    <2>1. Geometry'
      BY <1>17, <1>f DEF vars, piece, board
    <2> QED BY <1>17, <2>1 DEF vars, piece, board, GameInv, WallsIntact, ShapeKnown, TopFree,
                               TopRowsEmpty
  <1> QED BY <1>1, <1>2, <1>3, <1>4, <1>5, <1>6, <1>7, <1>8, <1>9, <1>11, <1>12, <1>13,
             <1>14, <1>15, <1>16, <1>17
          DEF Next, Frame

\* The whole invariant.
THEOREM GameSafe == Spec => []GameInv
  <1>1. Init => GameInv BY GameInit
  <1>2. GameInv /\ [Next]_vars => GameInv' BY GameStep
  <1> QED BY <1>1, <1>2, PTL DEF Spec


\* No key sequence takes the piece out of the board; only an L enters the left
\* wall (logic.sv:359-443, 625-850).
THEOREM PieceInBounds == Spec => []InBounds
  <1>1. GameInv => InBounds BY DEF GameInv, Geometry
  <1> QED BY <1>1, GameSafe, PTL

\* The walls and the floor survive landings and line removals (logic.sv:414-619).
THEOREM WallsStand == Spec => []WallsIntact
  <1>1. GameInv => WallsIntact BY DEF GameInv
  <1> QED BY <1>1, GameSafe, PTL

\* ROTATE_CHOOSE never meets shape 0, rows are removed only when no piece is in
\* play (logic.sv:890-901, 957).
THEOREM ShapeAlwaysKnown == Spec => []ShapeKnown
  <1>1. GameInv => ShapeKnown BY DEF GameInv
  <1> QED BY <1>1, GameSafe, PTL

\* Outside INTER the top of the board is empty, so testing for the end of the
\* game there is enough (logic.sv:951-954).
THEOREM TopStaysFree == Spec => []TopFree
  <1>1. GameInv => TopFree BY DEF GameInv
  <1> QED BY <1>1, GameSafe, PTL

\* A piece other than an L never overlaps the stack once it has moved from where
\* it spawned (logic.sv:161-262, 359-443, 625-850).
THEOREM FlightStaysClear == Spec => []FlightClear
  <1>1. GameInv => FlightClear BY DEF GameInv, Geometry
  <1> QED BY <1>1, GameSafe, PTL

\* The out-of-array reads of the move and rotation checks never decide whether
\* a piece moves, the rotations of an L excepted (logic.sv:359-443, 625-850).
THEOREM MovesDetermined == Spec => []Determined
  <1>1. ASSUME GameInv PROVE Determined
    <2>1. state \in Steering => Walled /\ current_shape # 0
      BY <1>1 DEF GameInv, WallsIntact, Walled, ShapeKnown, Steering
    <2>2. ASSUME NEW dx \in -1 .. 1, NEW dy \in 0 .. 1, dx = 0 \/ dy = 0, state \in Steering
          PROVE  ~Undecided({Target(b, <<dx, dy>>) : b \in Blocks})
      <3> SUFFICES ASSUME \A b \in Blocks : MayBeClear(Target(b, <<dx, dy>>)), NEW b \in Blocks
                   PROVE  ~MayBeSet(Target(b, <<dx, dy>>))
        BY DEF Undecided
      <3>1. /\ y[b] + dy \in 0 .. Height /\ x[b] + dx \in 1 .. Width
            /\ x[b] + dx \notin coord_static[y[b] + dy]
        BY <1>1, <2>1, <2>2, TranslationClear
      <3> QED BY <3>1, BoardFacts DEF Target, MayBeSet, InArray, Rows, Cols
    <2>3. ASSUME state = "ROTATE", current_shape # L
          PROVE  ~Undecided({Probe(current_shape, rotate_counter, b) : b \in Blocks})
      <3> SUFFICES ASSUME \A b \in Blocks :
                            MayBeClear(Probe(current_shape, rotate_counter, b)),
                          NEW b \in Blocks
                   PROVE  ~MayBeSet(Probe(current_shape, rotate_counter, b))
        BY DEF Undecided
      <3>1. current_shape \in {I, J, S, T, Z} /\ current_shape \in {I, J, L, S, T, Z}
        BY <1>1, <2>3 DEF GameInv, TypeInv, TurnsOnly
      <3>2. /\ Turned[b][2] \in 0 .. Height /\ Turned[b][1] \in 1 .. Width
            /\ Turned[b][1] \notin coord_static[Turned[b][2]]
        BY <1>1, <2>1, <2>3, <3>1, TurnClear DEF Steering
      <3>3. Probe(current_shape, rotate_counter, b) = <<Turned[b][2], Turned[b][1]>>
        BY <1>1, <2>3, <3>1, TurnedTarget DEF Probe
      <3> QED BY <3>2, <3>3, BoardFacts DEF MayBeSet, InArray, Rows, Cols
    <2> QED BY <2>2, <2>3 DEF Determined, Steering
  <1> QED BY <1>1, GameSafe, PTL

\* The best score includes the finished game before the next one starts
\* (logic.sv:861-865).
THEOREM BestIsRecorded == Spec => []BestRecorded
  <1> DEFINE Inv == TypeInv /\ BestRecorded /\ (state = "START" => current_score = 0)
  <1>1. Init => Inv
    BY TypeInit DEF Init, BestRecorded
  <1>2. Inv /\ [Next]_vars => Inv'
    <2> SUFFICES ASSUME Inv, [Next]_vars PROVE Inv'
      OBVIOUS
    <2>1. TypeInv'
      BY TypeStep
    <2>2. CASE Reset
      BY <2>1, <2>2 DEF Reset, BestRecorded
    <2>3. ASSUME NEW key \in Keys, Start(key) PROVE Inv'
      BY <2>1, <2>3 DEF Start, Goto, scores, BestRecorded, TypeInv, TypeOK
    <2>4. ASSUME NEW key \in Keys, GameOver(key) PROVE Inv'
      BY <2>1, <2>4, CounterAssumption
      DEF GameOver, BestOf, Goto, BestRecorded, TypeInv, TypeOK
    <2>5. ASSUME [Next]_vars, ~Reset, \A key \in Keys : ~Start(key) /\ ~GameOver(key)
          PROVE  (state' = "RESET" => UNCHANGED vars) /\ (state' = "START" => UNCHANGED vars)
      BY <2>5
      DEF Next, Frame, ResetBoard, Pause, NewBlock, BeforeNew, NewNext, Inter, InterNext,
          MoveLeft, MoveRight, MoveDown, RotateChoose, Rotate, Release, ClearTest,
          ClearShift, ClearLast, Goto
    <2>6. CASE UNCHANGED vars
      BY <2>1, <2>6 DEF vars, scores, BestRecorded
    <2> QED BY <2>1, <2>2, <2>3, <2>4, <2>5, <2>6 DEF BestRecorded
  <1>3. Inv => BestRecorded
    OBVIOUS
  <1> QED BY <1>1, <1>2, <1>3, PTL DEF Spec

-----------------------------------------------------------------------------
(***************************************************************************)
(* No full row is left.  While a row is removed the board is looked at as   *)
(* it will be once the stages to come have shifted the rest; its full rows  *)
(* are then rows still to be tested: rows of this block or of a later one,  *)
(* and of none before.  A removal moves full rows one down, and the forms   *)
(* of the pieces are such that they stay in that set.                       *)
(***************************************************************************)
Swept(r) ==
    IF stage > 1 /\ r # 0 /\ r <= (6 - stage) * Stripe /\ r <= y[block]
    THEN coord_static[r - 1] ELSE coord_static[r]

ToTest(k, r) == /\ \E b \in Blocks : b >= k /\ y[b] = r
                /\ \A b \in Blocks : b < k => y[b] # r

Ordered == \A k \in Blocks, r \in 0 .. Height :
               ToTest(k, y[k]) /\ ToTest(k, r) /\ r < y[k] => ToTest(k, r + 1)

Landed == state \in {"INTER", "PAUSE", "CLEAR"} /\ current_shape = 0

FullToTest == \A r \in 0 .. Height : Swept(r) = FullRow => ToTest(block, r)

RowsInv ==
    /\ state # "CLEAR" => block = 1 /\ stage = 1
    /\ stage > 1 => block < 4
    /\ NoFullRow
    /\ Landed => Ordered /\ FullToTest

\* ToTest, block by block.
LEMMA ToTestCases ==
    ASSUME NEW r
    PROVE  /\ ToTest(1, r) <=> r \in {y[1], y[2], y[3], y[4]}
           /\ ToTest(2, r) <=> r \in {y[2], y[3], y[4]} /\ r # y[1]
           /\ ToTest(3, r) <=> r \in {y[3], y[4]} /\ r \notin {y[1], y[2]}
           /\ ToTest(4, r) <=> r = y[4] /\ r \notin {y[1], y[2], y[3]}
  BY DEF ToTest, Blocks

LEMMA FormOrdered ==
    ASSUME NEW s \in 1 .. 7, NEW t \in 0 .. 3, y \in [Blocks -> 0 .. Height],
           \A b \in Blocks : y[b] = y[2] + Form(s, t)[b][2]
    PROVE  Ordered
  <1> DEFINE d(b) == Form(s, t)[b][2]
  <1>1. /\ y[1] = y[2] + d(1) /\ y[3] = y[2] + d(3) /\ y[4] = y[2] + d(4)
        /\ y[1] \in Int /\ y[2] \in Int /\ y[3] \in Int /\ y[4] \in Int
    BY BoardFacts DEF Blocks
  <1>2. \/ d(1) = 0 /\ d(3) = 0 /\ d(4) \in -1 .. 1
        \/ d(1) = -1 /\ d(3) = 1 /\ d(4) \in -1 .. 2
        \/ d(1) = 1 /\ d(3) = -1 /\ d(4) \in -1 .. 1
        \/ d(1) = -1 /\ d(3) = -1 /\ d(4) = 0
        \/ d(1) = 0 /\ d(3) = -1 /\ d(4) = -1
        \/ d(1) = -1 /\ d(3) = 0 /\ d(4) = 1
        \/ d(1) = 0 /\ d(3) = 1 /\ d(4) = 1
    <2>1. CASE s = I BY <2>1 DEF Form, I, J, L, O, S, T, Z
    <2>2. CASE s = J BY <2>2 DEF Form, I, J, L, O, S, T, Z
    <2>3. CASE s = L BY <2>3 DEF Form, I, J, L, O, S, T, Z
    <2>4. CASE s = O BY <2>4 DEF Form, I, J, L, O, S, T, Z
    <2>5. CASE s = S BY <2>5 DEF Form, I, J, L, O, S, T, Z
    <2>6. CASE s = T BY <2>6 DEF Form, I, J, L, O, S, T, Z
    <2>7. CASE s = Z BY <2>7 DEF Form, I, J, L, O, S, T, Z
    <2> QED BY <2>1, <2>2, <2>3, <2>4, <2>5, <2>6, <2>7 DEF I, J, L, O, S, T, Z
  <1> HIDE DEF d
  <1>3. \/ y[1] = y[2] /\ y[3] = y[2] /\ y[4] \in {y[2] - 1, y[2], y[2] + 1}
        \/ y[1] = y[2] - 1 /\ y[3] = y[2] + 1
             /\ y[4] \in {y[2] - 1, y[2], y[2] + 1, y[2] + 2}
        \/ y[1] = y[2] + 1 /\ y[3] = y[2] - 1 /\ y[4] \in {y[2] - 1, y[2], y[2] + 1}
        \/ y[1] = y[2] - 1 /\ y[3] = y[2] - 1 /\ y[4] = y[2]
        \/ y[1] = y[2] /\ y[3] = y[2] - 1 /\ y[4] = y[2] - 1
        \/ y[1] = y[2] - 1 /\ y[3] = y[2] /\ y[4] = y[2] + 1
        \/ y[1] = y[2] /\ y[3] = y[2] + 1 /\ y[4] = y[2] + 1
    BY <1>1, <1>2
  <1> SUFFICES ASSUME NEW k \in Blocks, NEW r \in 0 .. Height,
                      ToTest(k, y[k]), ToTest(k, r), r < y[k]
               PROVE  ToTest(k, r + 1)
    BY DEF Ordered
  <1>4. CASE k = 1
    <2>1. r \in {y[1], y[2], y[3], y[4]} /\ r < y[1]
      BY <1>4, ToTestCases
    <2>2. r + 1 \in {y[1], y[2], y[3], y[4]}
      BY <1>1, <1>3, <2>1
    <2> QED BY <1>4, <2>2, ToTestCases
  <1>5. CASE k = 2
    <2>1. r \in {y[2], y[3], y[4]} /\ r # y[1] /\ y[2] # y[1] /\ r < y[2]
      BY <1>5, ToTestCases
    <2>2. r + 1 \in {y[2], y[3], y[4]} /\ r + 1 # y[1]
      BY <1>1, <1>3, <2>1
    <2> QED BY <1>5, <2>2, ToTestCases
  <1>6. CASE k = 3
    <2>1. r \in {y[3], y[4]} /\ r \notin {y[1], y[2]} /\ y[3] \notin {y[1], y[2]} /\ r < y[3]
      BY <1>6, ToTestCases
    <2>2. FALSE
      BY <1>1, <1>3, <2>1
    <2> QED BY <2>2
  <1>7. CASE k = 4
    BY <1>1, <1>7, ToTestCases
  <1> QED BY <1>4, <1>5, <1>6, <1>7 DEF Blocks

\* A landing fills rows of the piece only.
LEMMA LandRows ==
    ASSUME GameInv, RowsInv, MoveDown, Land
    PROVE  RowsInv'
  <1>1. /\ current_shape \in 1 .. 7 /\ rotate_counter \in 0 .. 3
        /\ block = 1 /\ stage = 1 /\ block' = 1 /\ stage' = 1 /\ state' = "INTER"
        /\ current_shape' = 0 /\ y' = y
    BY DEF GameInv, TypeInv, TypeOK, ShapeKnown, Steering, RowsInv, MoveDown, Goto, Land
  <1>2. Ordered
    <2>1. \A b \in Blocks : y[b] = y[2] + Form(current_shape, rotate_counter)[b][2]
      BY <1>1 DEF GameInv, Geometry, FormKept
    <2>2. y \in [Blocks -> 0 .. Height]
      BY DEF GameInv, Geometry, AboveFloor, TypeInv, TypeOK
    <2> QED BY <1>1, <2>1, <2>2, FormOrdered
  <1>3. Ordered'
    BY <1>1, <1>2 DEF Ordered, ToTest
  <1>4. FullToTest'
    <2> SUFFICES ASSUME NEW r \in 0 .. Height, Swept(r)' = FullRow
                 PROVE  ToTest(1, r)'
      BY <1>1 DEF FullToTest
    <2>1. coord_static'[r] = FullRow
      BY <1>1 DEF Swept
    <2>2. r \in Rows /\ r # Height + 1
      BY BoardFacts DEF Rows
    <2>3. coord_static'[r] = coord_static[r] \cup Covered(r)
      BY <2>2 DEF Land
    <2>4. coord_static[r] # FullRow
      BY <1>1, <2>2 DEF RowsInv, NoFullRow, Full
    <2>5. PICK b \in Blocks : y[b] = r
      BY <2>1, <2>3, <2>4 DEF Covered
    <2> QED BY <1>1, <2>5 DEF ToTest, Blocks
  <1>5. NoFullRow'
    BY <1>1 DEF NoFullRow
  <1> QED BY <1>1, <1>3, <1>4, <1>5 DEF RowsInv

LEMMA EmptyNotFull == EmptyRow # FullRow
  <1>1. 1 \in FullRow /\ 1 \notin EmptyRow
    BY BoardFacts DEF EmptyRow, FullRow, Cols
  <1> QED BY <1>1

\* The rows that the removal of row leaves behind, as CLEARk_1 sets out.
LEMMA RemovalStarts ==
    ASSUME GameInv, state = "CLEAR", block < 4, Full(y[block]),
           coord_static' = Shifted(Emptied(y[block]), 1, y[block]),
           stage' = 2, block' = block, y' = y,
           NEW r \in 0 .. Height, Swept(r)' = FullRow
    PROVE  /\ r # 0
           /\ r <= y[block] => coord_static[r - 1] = FullRow
           /\ r > y[block] => coord_static[r] = FullRow
  <1> DEFINE row == y[block]
             f == Emptied(row)
  <1>1. /\ row \in 0 .. Height /\ coord_static \in [Rows -> SUBSET Cols]
        /\ coord_static[0] = EmptyRow
    BY DEF GameInv, TypeInv, TypeOK, Geometry, AboveFloor, TopFree, TopRowsEmpty
  <1>2. EmptyRow # FullRow
    BY EmptyNotFull
  <1>3. \A q \in Rows : f[q] = IF q = row THEN EmptyRow ELSE coord_static[q]
    BY <1>1 DEF Emptied
  <1>4. \A q \in Rows : coord_static'[q] = IF q \in 4 * Stripe + 1 .. 5 * Stripe /\ row > q - 1
                                           THEN f[q - 1] ELSE f[q]
    BY DEF Shifted, StageRows
  <1>5. Swept(r)' = IF r # 0 /\ r <= 4 * Stripe /\ r <= row
                    THEN coord_static'[r - 1] ELSE coord_static'[r]
    BY DEF Swept
  <1> HIDE DEF row, f
  <1>6. r \in Rows /\ (r # 0 => r - 1 \in Rows) /\ 0 \in Rows
    BY BoardFacts DEF Rows
  <1>7. r # 0
    <2>1. ASSUME r = 0 PROVE coord_static'[0] = f[0]
      BY <1>4, <1>6, BoardFacts
    <2> QED BY <1>1, <1>2, <1>3, <1>5, <1>6, <2>1
  <1>8. CASE r <= row
    <2>1. Swept(r)' = f[r - 1]
      <3>1. CASE r <= 4 * Stripe
        <4>1. coord_static'[r - 1] = f[r - 1]
          BY <1>4, <1>6, <1>7, <3>1, BoardFacts
        <4> QED BY <1>5, <1>7, <1>8, <3>1, <4>1
      <3>2. CASE ~(r <= 4 * Stripe)
        <4>1. r \in 4 * Stripe + 1 .. 5 * Stripe /\ row > r - 1
          BY <1>1, <1>8, <3>2, BoardFacts DEF Height
        <4>2. coord_static'[r] = f[r - 1]
          BY <1>4, <1>6, <4>1
        <4> QED BY <1>5, <3>2, <4>2
      <3> QED BY <3>1, <3>2
    <2>2. r - 1 # row
      BY <1>1, <1>8
    <2>3. f[r - 1] = coord_static[r - 1]
      BY <1>3, <1>6, <1>7, <2>2
    <2> QED BY <1>7, <1>8, <2>1, <2>3, <1>1 DEF row
  <1>9. CASE r > row
    <2>1. ~(row > r - 1) /\ ~(r <= row) /\ r # row
      BY <1>1, <1>9
    <2>2. Swept(r)' = f[r] /\ f[r] = coord_static[r]
      BY <1>3, <1>4, <1>5, <1>6, <2>1
    <2> QED BY <1>1, <1>7, <1>9, <2>1, <2>2 DEF row
  <1> QED BY <1>1, <1>8, <1>9

LEMMA ClearTestRows ==
    ASSUME GameInv, RowsInv, ClearTest
    PROVE  RowsInv'
  <1>1. /\ state = "CLEAR" /\ stage = 1 /\ current_shape = 0 /\ current_shape' = 0
        /\ y' = y /\ block \in Blocks /\ y \in [Blocks -> 0 .. Height]
        /\ coord_static \in [Rows -> SUBSET Cols]
    BY DEF GameInv, TypeInv, TypeOK, Geometry, AboveFloor, ShapeKnown, ClearTest, piece
  <1>2. Ordered /\ Ordered'
    BY <1>1 DEF RowsInv, Landed, Ordered, ToTest
  <1>3. \A r \in 0 .. Height : coord_static[r] = FullRow => ToTest(block, r)
    BY <1>1 DEF RowsInv, Landed, FullToTest, Swept
  <1>4. \A r : r \in Rows \ {Height + 1} <=> r \in 0 .. Height
    BY BoardFacts DEF Rows
  <1>5. CASE block < 4 /\ Full(y[block])
    <2>1. /\ coord_static' = Shifted(Emptied(y[block]), 1, y[block])
          /\ stage' = 2 /\ block' = block /\ state' = "CLEAR"
      BY <1>1, <1>5 DEF ClearTest, DecidingBlock, Blocks
    <2>2. ASSUME NEW r \in 0 .. Height, Swept(r)' = FullRow
          PROVE  ToTest(block, r)
      <3>1. /\ r # 0
            /\ r <= y[block] => coord_static[r - 1] = FullRow
            /\ r > y[block] => coord_static[r] = FullRow
        BY <1>1, <1>5, <2>1, <2>2, RemovalStarts
      <3>2. y[block] \in 0 .. Height /\ coord_static[y[block]] = FullRow
        BY <1>1, <1>5 DEF Full
      <3>3. CASE r <= y[block]
        <4>1. r - 1 \in 0 .. Height /\ r - 1 < y[block] /\ (r - 1) + 1 = r
          BY <3>1, <3>2, <3>3, BoardFacts
        <4>2. ToTest(block, y[block]) /\ ToTest(block, r - 1)
          BY <1>3, <3>1, <3>2, <3>3, <4>1
        <4> QED BY <1>1, <1>2, <4>1, <4>2 DEF Ordered
      <3>4. CASE r > y[block]
        BY <1>3, <3>1, <3>4
      <3> QED BY <3>2, <3>3, <3>4
    <2>3. FullToTest'
      BY <1>1, <2>1, <2>2 DEF FullToTest, ToTest
    <2>4. NoFullRow'
      BY <1>1, <2>1 DEF NoFullRow
    <2> QED BY <1>2, <1>5, <2>1, <2>3, <2>4 DEF RowsInv
  <1>6. CASE block < 4 /\ ~Full(y[block])
    <2>1. /\ coord_static' = coord_static
          /\ stage' = 1 /\ block' = block + 1 /\ state' = "CLEAR"
      BY <1>1, <1>6 DEF ClearTest, DecidingBlock, Blocks, board
    <2>2. ASSUME NEW r \in 0 .. Height, Swept(r)' = FullRow
          PROVE  ToTest(block + 1, r)
      <3>1. coord_static[r] = FullRow
        BY <2>1, <2>2 DEF Swept
      <3>2. r # y[block]
        BY <1>4, <1>6, <3>1 DEF Full
      <3> QED BY <1>1, <1>3, <3>1, <3>2 DEF ToTest, Blocks
    <2>3. FullToTest'
      BY <1>1, <2>1, <2>2 DEF FullToTest, ToTest
    <2>4. NoFullRow'
      BY <1>1, <2>1 DEF NoFullRow
    <2> QED BY <1>2, <2>1, <2>3, <2>4 DEF RowsInv
  <1>7. CASE block = 4
    <2>1. ~Full(y[1])
      <3>1. y[1] \in 0 .. Height
        BY <1>1 DEF Blocks
      <3>2. ~ToTest(4, y[1])
        BY ToTestCases
      <3> QED BY <1>3, <1>7, <3>1, <3>2 DEF Full
    <2>2. stage' = 1 /\ block' = 1 /\ state' = "NEW_BLOCK"
      BY <1>1, <1>7, <2>1 DEF ClearTest, DecidingBlock
    <2>3. ASSUME NEW r \in 0 .. Height PROVE coord_static'[r] # FullRow
      <3>1. y[4] \in 0 .. Height
        BY <1>1 DEF Blocks
      <3>2. \A q \in 0 .. Height : coord_static[q] = FullRow => q = y[4]
        BY <1>3, <1>7, ToTestCases
      <3>3. CASE ~Full(y[4])
        BY <1>1, <1>4, <1>7, <3>1, <3>2, <3>3 DEF ClearTest, board, Full
      <3>4. CASE Full(y[4])
        <4> DEFINE f == Emptied(y[4])
        <4>1. \A q \in 0 .. Height : f[q] # FullRow
          BY <1>1, <1>4, <3>2, EmptyNotFull DEF Emptied
        <4>2. coord_static' = Shifted(f, 1, y[4])
          BY <1>7, <3>4 DEF ClearTest
        <4>3. r \in StageRows(1) => r - 1 \in 0 .. Height
          BY BoardFacts DEF StageRows
        <4> HIDE DEF f
        <4>4. coord_static'[r] = f[r] \/ (r - 1 \in 0 .. Height /\ coord_static'[r] = f[r - 1])
          BY <1>4, <4>2, <4>3 DEF Shifted
        <4> QED BY <4>1, <4>4
      <3> QED BY <3>3, <3>4
    <2>4. NoFullRow'
      BY <1>4, <2>3 DEF NoFullRow, Full
    <2> QED BY <2>2, <2>4 DEF RowsInv, Landed
  <1> QED BY <1>1, <1>5, <1>6, <1>7 DEF Blocks

\* Stages 2 .. 4 carry out what the rows swept say.
LEMMA ClearShiftRows ==
    ASSUME GameInv, RowsInv, ClearShift
    PROVE  RowsInv'
  <1>1. /\ state = "CLEAR" /\ stage \in 2 .. 4 /\ current_shape = 0 /\ current_shape' = 0
        /\ state' = "CLEAR" /\ stage' = stage + 1 /\ block' = block /\ block \in Blocks
        /\ y' = y /\ y \in [Blocks -> 0 .. Height]
        /\ coord_static \in [Rows -> SUBSET Cols]
        /\ coord_static' = Shifted(coord_static, stage, y[block])
    BY DEF GameInv, TypeInv, TypeOK, Geometry, AboveFloor, ShapeKnown, ClearShift, piece
  <1>2. Ordered /\ Ordered' /\ FullToTest /\ block < 4
    BY <1>1 DEF RowsInv, Landed, Ordered, ToTest
  <1>3. ASSUME NEW r \in 0 .. Height PROVE Swept(r)' = Swept(r)
    <2> DEFINE row == y[block]
    <2>1. row \in 0 .. Height
      BY <1>1
    <2>2. /\ Swept(r) = IF r # 0 /\ r <= (6 - stage) * Stripe /\ r <= row
                        THEN coord_static[r - 1] ELSE coord_static[r]
          /\ Swept(r)' = IF r # 0 /\ r <= (6 - (stage + 1)) * Stripe /\ r <= row
                         THEN coord_static'[r - 1] ELSE coord_static'[r]
      BY <1>1 DEF Swept
    <2>3. \A q \in Rows : coord_static'[q] =
             IF q \in (5 - stage) * Stripe + 1 .. (6 - stage) * Stripe /\ row > q - 1
             THEN coord_static[q - 1] ELSE coord_static[q]
      BY <1>1 DEF Shifted, StageRows
    <2>4. r \in Rows /\ (r # 0 => r - 1 \in Rows)
      BY BoardFacts DEF Rows
    <2> HIDE DEF row
    <2>5. CASE stage = 2 BY <2>1, <2>2, <2>3, <2>4, <2>5, BoardFacts
    <2>6. CASE stage = 3 BY <2>1, <2>2, <2>3, <2>4, <2>6, BoardFacts
    <2>7. CASE stage = 4 BY <2>1, <2>2, <2>3, <2>4, <2>7, BoardFacts
    <2> QED BY <1>1, <2>5, <2>6, <2>7
  <1>4. FullToTest'
    BY <1>1, <1>2, <1>3 DEF FullToTest, ToTest
  <1>5. NoFullRow'
    BY <1>1 DEF NoFullRow
  <1> QED BY <1>1, <1>2, <1>4, <1>5 DEF RowsInv

LEMMA ClearLastRows ==
    ASSUME GameInv, RowsInv, ClearLast
    PROVE  RowsInv'
  <1>1. /\ state = "CLEAR" /\ stage = 5 /\ current_shape = 0 /\ current_shape' = 0
        /\ state' = "CLEAR" /\ stage' = 1 /\ block' = block /\ block \in Blocks
        /\ y' = y /\ y \in [Blocks -> 0 .. Height]
        /\ coord_static \in [Rows -> SUBSET Cols]
        /\ coord_static' = [Shifted(coord_static, 5, y[block]) EXCEPT ![0] = EmptyRow]
    BY DEF GameInv, TypeInv, TypeOK, Geometry, AboveFloor, ShapeKnown, ClearLast, Retest,
           piece
  <1>2. Ordered /\ Ordered' /\ FullToTest /\ block < 4
    BY <1>1 DEF RowsInv, Landed, Ordered, ToTest
  <1>3. ASSUME NEW r \in 0 .. Height, Swept(r)' = FullRow PROVE Swept(r) = FullRow
    <2> DEFINE row == y[block]
    <2>1. row \in 0 .. Height
      BY <1>1
    <2>2. /\ Swept(r) = IF r # 0 /\ r <= Stripe /\ r <= row
                        THEN coord_static[r - 1] ELSE coord_static[r]
          /\ Swept(r)' = coord_static'[r]
      BY <1>1, BoardFacts DEF Swept
    <2>3. \A q \in Rows : coord_static'[q] =
             IF q = 0 THEN EmptyRow
             ELSE IF q \in 0 * Stripe + 1 .. 1 * Stripe /\ row > q - 1
             THEN coord_static[q - 1] ELSE coord_static[q]
      BY <1>1 DEF Shifted, StageRows
    <2>4. r \in Rows
      BY BoardFacts DEF Rows
    <2> HIDE DEF row
    <2> QED BY <1>3, <2>1, <2>2, <2>3, <2>4, BoardFacts, EmptyNotFull
  <1>4. FullToTest'
    BY <1>1, <1>2, <1>3 DEF FullToTest, ToTest
  <1>5. NoFullRow'
    BY <1>1 DEF NoFullRow
  <1> QED BY <1>1, <1>2, <1>4, <1>5 DEF RowsInv

\* The steps that leave the board alone and test no row.
LEMMA RowsFrame ==
    ASSUME RowsInv, state # "CLEAR", UNCHANGED <<block, stage, coord_static>>,
           state' # "NEW_BLOCK",
           current_shape' # 0 => current_shape # 0 \/ state = "NEW_BLOCK",
           Landed' => Landed /\ y' = y
    PROVE  RowsInv'
  <1>1. NoFullRow'
    BY DEF RowsInv, NoFullRow, Full
  <1>2. Landed' => Ordered' /\ FullToTest'
    BY DEF RowsInv, Ordered, FullToTest, Swept, ToTest
  <1> QED BY <1>1, <1>2 DEF RowsInv

LEMMA RowsInit == Init => RowsInv
  BY DEF Init, RowsInv, NoFullRow, Landed

LEMMA RowsStep == GameInv /\ RowsInv /\ [Next]_vars => RowsInv'
  <1> SUFFICES ASSUME GameInv, RowsInv, [Next]_vars PROVE RowsInv'
    OBVIOUS
  <1> USE DEF Goto
  <1>1. CASE Reset
    BY <1>1 DEF Reset, RowsInv, NoFullRow, Landed
  <1>2. CASE ResetBoard
    <2>1. \A r \in Rows \ {Height + 1} : coord_static'[r] # FullRow
      BY <1>2, EmptyNotFull DEF ResetBoard
    <2> QED BY <1>2, <2>1 DEF ResetBoard, RowsInv, NoFullRow, Full, Landed
  <1>3. ASSUME NEW key \in Keys, Start(key) \/ GameOver(key) PROVE RowsInv'
    BY <1>3, RowsFrame DEF Start, GameOver, board, Landed
  <1>4. ASSUME NEW key \in Keys, Pause(key) \/ Inter(key) PROVE RowsInv'
    <2>1. /\ state \in {"PAUSE", "INTER"} /\ state' # "NEW_BLOCK"
          /\ UNCHANGED <<block, stage, coord_static, current_shape, y>>
      BY <1>4 DEF Pause, Inter, InterNext, piece, board
    <2> QED BY <2>1, RowsFrame DEF Landed
  <1>5. ASSUME NEW next_shape \in Shapes, NewBlock(next_shape) PROVE RowsInv'
    BY <1>5, RowsFrame DEF NewBlock, board, Landed
  <1>6. ASSUME state \in Steering \cup {"BEFORENEW", "NEWNEXT"}, state' # "NEW_BLOCK",
               UNCHANGED <<block, stage, coord_static, current_shape>>
        PROVE  RowsInv'
    BY <1>6, RowsFrame DEF GameInv, ShapeKnown, Landed, Steering
  <1>7. ASSUME NEW sig \in BOOLEAN, BeforeNew(sig) PROVE RowsInv'
    BY <1>6, <1>7 DEF BeforeNew, piece, board
  <1>8. ASSUME NEW next_shape \in Shapes, NewNext(next_shape) PROVE RowsInv'
    BY <1>6, <1>8 DEF NewNext, piece, board
  <1>9. CASE MoveLeft \/ MoveRight \/ RotateChoose \/ Rotate
    BY <1>6, <1>9 DEF MoveLeft, MoveRight, RotateChoose, Rotate, board, Steering
  <1>10. CASE MoveDown
    <2>1. CASE Land
      BY <1>10, <2>1, LandRows
    <2>2. CASE Fall
      BY <1>6, <1>10, <2>2 DEF MoveDown, Fall, board, Steering
    <2> QED BY <1>10, <2>1, <2>2 DEF MoveDown
  <1>11. ASSUME NEW key \in Keys, NEW from \in {"AFTERLEFT", "AFTERRIGHT", "AFTERROTATE"},
                NEW held, Release(from, held, key)
         PROVE  RowsInv'
    BY <1>6, <1>11 DEF Release, board, Steering
  <1>12. CASE ClearTest \/ ClearShift \/ ClearLast
    BY <1>12, ClearTestRows, ClearShiftRows, ClearLastRows
  <1>13. CASE UNCHANGED vars
    BY <1>13
    DEF vars, piece, board, RowsInv, NoFullRow, Full, Landed, Ordered, FullToTest, Swept, ToTest
  <1> QED BY <1>1, <1>2, <1>3, <1>4, <1>5, <1>7, <1>8, <1>9, <1>10, <1>11, <1>12, <1>13
          DEF Next, Frame

LEMMA RowsSafe == Spec => [](GameInv /\ RowsInv)
  <1>1. Init => GameInv /\ RowsInv BY GameInit, RowsInit
  <1>2. GameInv /\ RowsInv /\ [Next]_vars => (GameInv /\ RowsInv)'
    BY GameStep, RowsStep
  <1> QED BY <1>1, <1>2, PTL DEF Spec

\* A landing never leaves a full row behind for the next piece, although each
\* row is tested for its block only and CLEAR4_1 goes by the row of the first
\* block (logic.sv:445-619, 986-1079).
THEOREM RowsAreCleared == Spec => []NoFullRow
  <1>1. RowsInv => NoFullRow BY DEF RowsInv
  <1> QED BY <1>1, RowsSafe, PTL

\* CLEAR4_2 .. CLEAR4_5 are dead states on a board of any size
\* (logic.sv:1059-1080).
THEOREM LastBlockTestsOnly == Spec => []LastBlockNeverShifts
  <1>1. GameInv /\ RowsInv => LastBlockNeverShifts
    BY DEF RowsInv, LastBlockNeverShifts, GameInv, TypeInv, TypeOK, Stages
  <1> QED BY <1>1, RowsSafe, PTL

-----------------------------------------------------------------------------
(* The requests for shapes, and the well. *)

(***************************************************************************)
(* What the protocol adds to GameInv: a game ends only when its last piece  *)
(* has landed, since a piece in play implies that the top rows are empty.   *)
(***************************************************************************)
EndsLanded ==
    /\ state = "GAMEOVER" => current_shape = 0
    /\ (state = "INTER" /\ current_shape # 0) => TopRowsEmpty

RequestInv == GameInv /\ EndsLanded

LEMMA RequestInvInit == Init => RequestInv
  BY GameInit DEF Init, RequestInv, EndsLanded

LEMMA RequestInvStep == RequestInv /\ [Next]_vars => RequestInv'
  <1> SUFFICES ASSUME RequestInv, [Next]_vars PROVE EndsLanded'
    BY GameStep DEF RequestInv
  <1> USE DEF RequestInv, EndsLanded, Goto
  <1>t. state \in Steering \cup {"PAUSE", "NEWNEXT"} => TopRowsEmpty
    BY DEF GameInv, TopFree, Steering
  <1>1. CASE Reset
    BY <1>1 DEF Reset
  <1>2. ASSUME NEW key \in Keys, Inter(key) PROVE EndsLanded'
    BY <1>2, <1>t DEF Inter, InterNext, board, TopRowsEmpty
  <1>3. ASSUME NEW key \in Keys, Start(key) \/ GameOver(key) \/ Pause(key)
        PROVE  EndsLanded'
    BY <1>3, <1>t DEF Start, GameOver, Pause, board, TopRowsEmpty
  <1>4. ASSUME NEW key \in Keys,
               \/ Release("AFTERLEFT", "left", key)
               \/ Release("AFTERRIGHT", "right", key)
               \/ Release("AFTERROTATE", "up", key)
        PROVE  EndsLanded'
    BY <1>4, <1>t DEF Release, board, TopRowsEmpty, Steering
  <1>5. ASSUME NEW next_shape \in Shapes, NewBlock(next_shape) \/ NewNext(next_shape)
        PROVE  EndsLanded'
    BY <1>5, <1>t DEF NewBlock, NewNext, board, TopRowsEmpty
  <1>6. ASSUME NEW sig \in BOOLEAN, BeforeNew(sig) PROVE EndsLanded'
    BY <1>6 DEF BeforeNew
  <1>7. CASE MoveDown
    BY <1>7, <1>t DEF MoveDown, Land, Fall, board, TopRowsEmpty, Steering
  <1>8. CASE RotateChoose
    BY <1>8, <1>t DEF RotateChoose, board, TopRowsEmpty, Steering
  <1>9. CASE ResetBoard \/ MoveLeft \/ MoveRight \/ Rotate
    BY <1>9 DEF ResetBoard, MoveLeft, MoveRight, Rotate
  <1>10. CASE ClearTest \/ ClearShift \/ ClearLast
    BY <1>10 DEF ClearTest, ClearShift, ClearLast
  <1>11. CASE UNCHANGED vars
    BY <1>11 DEF vars, board, TopRowsEmpty
  <1> QED BY <1>1, <1>2, <1>3, <1>4, <1>5, <1>6, <1>7, <1>8, <1>9, <1>10, <1>11
          DEF Next, Frame

-----------------------------------------------------------------------------
LEMMA RequestsInit == Init => TheRequests!InitRequest
  BY DEF Init, TheRequests!InitRequest, Asking

\* Every step of the game machine is a step of the protocol, or none.
LEMMA RequestsStep ==
  ASSUME RequestInv, [Next]_vars
  PROVE  [TheRequests!NextRequest]_(TheRequests!requestVars)
  <1> USE DEF RequestInv, Goto, Asking, TheRequests!requestVars
  <1>s. ShapeKnown /\ EndsLanded
    BY DEF GameInv
  <1>1. CASE Reset
    BY <1>1 DEF Reset, TheRequests!NextRequest, TheRequests!ResetRequest
  <1>2. ASSUME NEW key \in Keys, Start(key) \/ GameOver(key)
        PROVE  TheRequests!Enter \/ UNCHANGED TheRequests!requestVars
    BY <1>2, <1>s DEF Start, GameOver, EndsLanded, TheRequests!Enter
  <1>3. CASE ResetBoard
    BY <1>3 DEF ResetBoard, TheRequests!NextRequest, TheRequests!Prepare
  <1>4. ASSUME NEW next_shape \in Shapes, NewBlock(next_shape)
        PROVE  TheRequests!Draw(next_shape)
    BY <1>4 DEF NewBlock, I, TheRequests!Draw, TheRequests!ShapeOf
  <1>5. ASSUME NEW sig \in BOOLEAN, BeforeNew(sig)
        PROVE  TheRequests!Answered \/ UNCHANGED TheRequests!requestVars
    BY <1>5 DEF BeforeNew, TheRequests!Answered
  <1>6. ASSUME NEW next_shape \in Shapes, NewNext(next_shape)
        PROVE  TheRequests!Preview(next_shape)
    BY <1>6 DEF NewNext, TheRequests!Preview
  <1>7. CASE MoveDown
    BY <1>7, <1>s DEF MoveDown, Land, Fall, ShapeKnown, Steering, TheRequests!NextRequest,
       TheRequests!LandPiece
  <1>8. CASE ClearTest
    <2>1. state = "CLEAR" /\ current_shape = 0
      BY <1>8, <1>s DEF ClearTest, ShapeKnown
    <2> QED
      BY <1>8, <2>1 DEF ClearTest, TheRequests!NextRequest, TheRequests!NextPiece
  <1>9. ASSUME \/ MoveLeft \/ MoveRight \/ RotateChoose \/ Rotate \/ ClearShift \/ ClearLast
               \/ \E key \in Keys :
                    \/ Pause(key) \/ Inter(key)
                    \/ Release("AFTERLEFT", "left", key)
                    \/ Release("AFTERRIGHT", "right", key)
                    \/ Release("AFTERROTATE", "up", key)
        PROVE  UNCHANGED TheRequests!requestVars
    BY <1>9 DEF MoveLeft, MoveRight, RotateChoose, Rotate, ClearShift, ClearLast, Pause,
       Inter, InterNext, Release
  <1>10. CASE UNCHANGED vars
    BY <1>10 DEF vars
  <1> QED BY <1>1, <1>2, <1>3, <1>4, <1>5, <1>6, <1>7, <1>8, <1>9, <1>10
          DEF Next, Frame, TheRequests!NextRequest

(***************************************************************************)
(* The game machine implements PieceRequest: the model of the software's    *)
(* side may use that module in its place (logic.sv:137-338, 857-859).       *)
(***************************************************************************)
THEOREM RequestsImplemented == Spec => ImplementsPieceRequest
  <1>1. Init => RequestInv  BY RequestInvInit
  <1>2. RequestInv /\ [Next]_vars => RequestInv'  BY RequestInvStep
  <1>3. Init => TheRequests!InitRequest  BY RequestsInit
  <1>4. RequestInv /\ [Next]_vars => [TheRequests!NextRequest]_(TheRequests!requestVars)
    BY RequestsStep
  <1> QED
    BY <1>1, <1>2, <1>3, <1>4, PTL
    DEF Spec, ImplementsPieceRequest, TheRequests!SpecRequest

-----------------------------------------------------------------------------
(***************************************************************************)
(* The well.  Two facts about the rows turn into facts about sets of cells: *)
(* how a piece covers four different cells, and what a row becomes when the *)
(* five stages of its removal have passed.  The removal is one step of the  *)
(* well, taken when CLEARk_1 empties the row; what the later stages do is   *)
(* seen in advance through Sweep.                                          *)
(***************************************************************************)
(* Cells and rows. *)

\* Two sets of cells are compared cell by cell.
LEMMA SameCells ==
    ASSUME NEW A \in SUBSET TheWell!Cells, NEW B \in SUBSET TheWell!Cells,
           \A r \in 0 .. Height, c \in 1 .. Width : <<r, c>> \in A <=> <<r, c>> \in B
    PROVE  A = B
  BY DEF TheWell!Cells

\* The cells of the rows f.
LEMMA CellsOfRows ==
    ASSUME NEW f
    PROVE  /\ CellsOf(f) \in SUBSET TheWell!Cells
           /\ \A r \in 0 .. Height, c \in 1 .. Width : <<r, c>> \in CellsOf(f) <=> c \in f[r]
  BY DEF CellsOf, TheWell!Cells

\* What is left of a set of cells without a row.
LEMMA WithoutCells ==
    ASSUME NEW A \in SUBSET TheWell!Cells, NEW row \in 0 .. Height
    PROVE  /\ TheWell!Without(A, row) \in SUBSET TheWell!Cells
           /\ \A r \in 0 .. Height, c \in 1 .. Width :
                 <<r, c>> \in TheWell!Without(A, row) <=>
                    \/ r > row /\ <<r, c>> \in A
                    \/ r # 0 /\ r <= row /\ <<r - 1, c>> \in A
  <1>1. ASSUME NEW cell \in A, cell[1] < row
        PROVE  TheWell!Below(cell) \in TheWell!Cells
    BY <1>1, BoardFacts DEF TheWell!Below, TheWell!Cells
  <1>2. TheWell!Without(A, row) \in SUBSET TheWell!Cells
    BY <1>1 DEF TheWell!Without
  <1>3. ASSUME NEW r \in 0 .. Height, NEW c \in 1 .. Width
        PROVE  <<r, c>> \in {TheWell!Below(e) : e \in {d \in A : d[1] < row}}
                  <=> r # 0 /\ r <= row /\ <<r - 1, c>> \in A
    <2>1. ASSUME NEW e \in A, e[1] < row, <<r, c>> = TheWell!Below(e)
          PROVE  r # 0 /\ r <= row /\ <<r - 1, c>> \in A
      <3>1. PICK q \in 0 .. Height, k \in 1 .. Width : e = <<q, k>>
        BY DEF TheWell!Cells
      <3>2. r = q + 1 /\ c = k /\ q < row
        BY <2>1, <3>1 DEF TheWell!Below
      <3> QED BY <3>1, <3>2, BoardFacts
    <2>2. ASSUME r # 0, r <= row, <<r - 1, c>> \in A
          PROVE  /\ <<r - 1, c>>[1] < row
                 /\ <<r, c>> = TheWell!Below(<<r - 1, c>>)
      BY <2>2, BoardFacts DEF TheWell!Below
    <2> QED BY <2>1, <2>2
  <1> QED BY <1>2, <1>3 DEF TheWell!Without

\* The same for a row that is smeared.
LEMMA SmearedCells ==
    ASSUME NEW A \in SUBSET TheWell!Cells, NEW row \in 0 .. Height
    PROVE  /\ TheWell!Smeared(A, row) \in SUBSET TheWell!Cells
           /\ \A r \in 0 .. Height, c \in 1 .. Width :
                 <<r, c>> \in TheWell!Smeared(A, row) <=>
                    \/ (r <= 4 * Stripe \/ r > row) /\ <<r, c>> \in A
                    \/ r > 4 * Stripe /\ r <= row /\ <<r - 1, c>> \in A
  <1>1. ASSUME NEW cell \in A, cell[1] < row
        PROVE  TheWell!Below(cell) \in TheWell!Cells
    BY <1>1, BoardFacts DEF TheWell!Below, TheWell!Cells
  <1>2. TheWell!Smeared(A, row) \in SUBSET TheWell!Cells
    BY <1>1 DEF TheWell!Smeared
  <1>3. ASSUME NEW r \in 0 .. Height, NEW c \in 1 .. Width
        PROVE  <<r, c>> \in {TheWell!Below(e) :
                               e \in {d \in A : 4 * Stripe <= d[1] /\ d[1] < row}}
                  <=> r > 4 * Stripe /\ r <= row /\ <<r - 1, c>> \in A
    <2>1. ASSUME NEW e \in A, 4 * Stripe <= e[1], e[1] < row, <<r, c>> = TheWell!Below(e)
          PROVE  r > 4 * Stripe /\ r <= row /\ <<r - 1, c>> \in A
      <3>1. PICK q \in 0 .. Height, k \in 1 .. Width : e = <<q, k>>
        BY DEF TheWell!Cells
      <3>2. r = q + 1 /\ c = k /\ q < row /\ 4 * Stripe <= q
        BY <2>1, <3>1 DEF TheWell!Below
      <3> QED BY <3>1, <3>2, BoardFacts
    <2>2. ASSUME r > 4 * Stripe, r <= row, <<r - 1, c>> \in A
          PROVE  /\ 4 * Stripe <= <<r - 1, c>>[1] /\ <<r - 1, c>>[1] < row
                 /\ <<r, c>> = TheWell!Below(<<r - 1, c>>)
      BY <2>2, BoardFacts DEF TheWell!Below
    <2> QED BY <2>1, <2>2
  <1> QED BY <1>2, <1>3, BoardFacts DEF TheWell!Smeared

-----------------------------------------------------------------------------
(* The stages of a removal, as they are seen when they have finished. *)

Sweep(f, s, row) ==
    [r \in Rows |-> IF r = 0 THEN {}
                    ELSE IF r <= (6 - s) * Stripe /\ r <= row THEN f[r - 1] ELSE f[r]]

\* CLEARk_1 on the rows e, which differ from f in row only: row is gone from f.
LEMMA SweepStart ==
    ASSUME NEW f, NEW e, NEW row \in 0 .. Height,
           \A q \in Rows : q # row => e[q] = f[q],
           NEW r \in 0 .. Height
    PROVE  Sweep(Shifted(e, 1, row), 2, row)[r]
              = IF r = 0 THEN {} ELSE IF r <= row THEN f[r - 1] ELSE f[r]
  <1>1. r \in Rows /\ (r # 0 => r - 1 \in Rows)
    BY BoardFacts DEF Rows
  <1>2. \A q \in Rows : Shifted(e, 1, row)[q] =
            IF q \in 4 * Stripe + 1 .. 5 * Stripe /\ row > q - 1 THEN e[q - 1] ELSE e[q]
    BY DEF Shifted, StageRows
  <1>3. Sweep(Shifted(e, 1, row), 2, row)[r] =
            IF r = 0 THEN {}
            ELSE IF r <= 4 * Stripe /\ r <= row THEN Shifted(e, 1, row)[r - 1]
            ELSE Shifted(e, 1, row)[r]
    BY <1>1 DEF Sweep
  <1>4. CASE r = 0
    BY <1>3, <1>4
  <1>5. CASE r # 0 /\ r <= 4 * Stripe /\ r <= row
    <2>1. Shifted(e, 1, row)[r - 1] = e[r - 1]
      BY <1>1, <1>2, <1>5, BoardFacts
    <2> QED BY <1>1, <1>3, <1>5, <2>1
  <1>6. CASE r # 0 /\ r > 4 * Stripe /\ r <= row
    <2>1. r \in 4 * Stripe + 1 .. 5 * Stripe /\ row > r - 1
      BY <1>6, BoardFacts DEF Height
    <2>2. Shifted(e, 1, row)[r] = e[r - 1]
      BY <1>1, <1>2, <2>1
    <2> QED BY <1>1, <1>3, <1>6, <2>2, BoardFacts
  <1>7. CASE r > row
    <2>1. ~(row > r - 1) /\ ~(r <= row)
      BY <1>7
    <2>2. Shifted(e, 1, row)[r] = e[r]
      BY <1>1, <1>2, <2>1
    <2> QED BY <1>1, <1>3, <1>7, <2>1, <2>2
  <1> QED BY <1>4, <1>5, <1>6, <1>7, BoardFacts

\* CLEARk_2 .. CLEARk_4 change nothing in what is seen.
LEMMA SweepOn ==
    ASSUME NEW f, NEW s \in 2 .. 4, NEW row \in 0 .. Height, NEW r \in 0 .. Height
    PROVE  Sweep(Shifted(f, s, row), s + 1, row)[r] = Sweep(f, s, row)[r]
  <1> DEFINE g == Shifted(f, s, row)
  <1>1. r \in Rows /\ (r # 0 => r - 1 \in Rows)
    BY BoardFacts DEF Rows
  <1>2. \A q \in Rows : g[q] =
            IF q \in (5 - s) * Stripe + 1 .. (6 - s) * Stripe /\ row > q - 1
            THEN f[q - 1] ELSE f[q]
    BY DEF Shifted, StageRows
  <1>3. /\ Sweep(g, s + 1, row)[r] =
             IF r = 0 THEN {}
             ELSE IF r <= (6 - (s + 1)) * Stripe /\ r <= row THEN g[r - 1] ELSE g[r]
        /\ Sweep(f, s, row)[r] =
             IF r = 0 THEN {}
             ELSE IF r <= (6 - s) * Stripe /\ r <= row THEN f[r - 1] ELSE f[r]
    BY <1>1 DEF Sweep
  <1> HIDE DEF g
  <1> SUFFICES Sweep(g, s + 1, row)[r] = Sweep(f, s, row)[r]
    BY DEF g
  <1>4. CASE s = 2 BY <1>1, <1>2, <1>3, <1>4, BoardFacts
  <1>5. CASE s = 3 BY <1>1, <1>2, <1>3, <1>5, BoardFacts
  <1>6. CASE s = 4 BY <1>1, <1>2, <1>3, <1>6, BoardFacts
  <1> QED BY <1>4, <1>5, <1>6

\* After CLEARk_5 the rows are what was seen.
LEMMA SweepEnd ==
    ASSUME NEW f, NEW row \in 0 .. Height, NEW r \in 0 .. Height, r # 0
    PROVE  Shifted(f, 5, row)[r] = Sweep(f, 5, row)[r]
  <1>1. r \in Rows
    BY BoardFacts DEF Rows
  <1>2. Shifted(f, 5, row)[r] =
            IF r \in 0 * Stripe + 1 .. 1 * Stripe /\ row > r - 1 THEN f[r - 1] ELSE f[r]
    BY <1>1 DEF Shifted, StageRows
  <1>3. Sweep(f, 5, row)[r] = IF r <= 1 * Stripe /\ r <= row THEN f[r - 1] ELSE f[r]
    BY <1>1 DEF Sweep
  <1> QED BY <1>2, <1>3, BoardFacts

-----------------------------------------------------------------------------
(* Pieces: four different cells, of which an L may have two in the left wall. *)

\* The four blocks of a form are different.
LEMMA FormsDistinct ==
    ASSUME NEW s \in 1 .. 7, NEW t \in 0 .. 3, NEW b \in Blocks, NEW c \in Blocks, b # c
    PROVE  Form(s, t)[b][1] # Form(s, t)[c][1] \/ Form(s, t)[b][2] # Form(s, t)[c][2]
  <1>1. CASE s = I BY <1>1 DEF Form, Blocks, I, J, L, O, S, T, Z
  <1>2. CASE s = J BY <1>2 DEF Form, Blocks, I, J, L, O, S, T, Z
  <1>3. CASE s = L BY <1>3 DEF Form, Blocks, I, J, L, O, S, T, Z
  <1>4. CASE s = O BY <1>4 DEF Form, Blocks, I, J, L, O, S, T, Z
  <1>5. CASE s = S BY <1>5 DEF Form, Blocks, I, J, L, O, S, T, Z
  <1>6. CASE s = T BY <1>6 DEF Form, Blocks, I, J, L, O, S, T, Z
  <1>7. CASE s = Z BY <1>7 DEF Form, Blocks, I, J, L, O, S, T, Z
  <1> QED BY <1>1, <1>2, <1>3, <1>4, <1>5, <1>6, <1>7 DEF I, J, L, O, S, T, Z

\* An L has two blocks that are not left of the one it turns about.
LEMMA FormOfL ==
    ASSUME NEW t \in 0 .. 3
    PROVE  Form(L, t)[1][1] >= 0 \/ Form(L, t)[3][1] >= 0
  BY DEF Form, I, J, L, O, S, T, Z

\* The image of B has as many elements as B when f takes no two to the same.
LEMMA ImageSize ==
    ASSUME NEW f, NEW B \in SUBSET Blocks,
           \A b, c \in B : b # c => f[b] # f[c],
           NEW image, image = {f[b] : b \in B}
    PROVE  /\ IsFiniteSet(image) /\ Cardinality(image) = Cardinality(B)
           /\ Cardinality(B) \in 0 .. 4
           /\ Cardinality(B) = 4 <=> B = Blocks
  <1>1. IsFiniteSet(Blocks) /\ Cardinality(Blocks) = 4
    <2>1. 1 \in Int /\ 4 \in Int /\ ~(1 > 4) /\ 4 - 1 + 1 = 4
      OBVIOUS
    <2>2. IsFiniteSet(1 .. 4) /\ Cardinality(1 .. 4) = 4 - 1 + 1
      BY <2>1, FS_Interval, Zenon
    <2> QED BY <2>1, <2>2 DEF Blocks
  <1>2. /\ IsFiniteSet(B) /\ Cardinality(B) \in 0 .. 4
        /\ Cardinality(B) = 4 <=> B = Blocks
    BY <1>1, FS_Subset, FS_CardinalityType
  <1> DEFINE g == [b \in B |-> f[b]]
  <1>3. g \in [B -> image] /\ \A b \in B : g[b] = f[b]
    OBVIOUS
  <1> HIDE DEF g
  <1>4. g \in Injection(B, image)
    <2>1. \A b, c \in B : g[b] = g[c] => b = c
      BY <1>3
    <2> QED BY <1>3, <2>1 DEF Injection, IsInjective
  <1>5. g \in Surjection(B, image)
    BY <1>3 DEF Surjection
  <1>6. ExistsBijection(B, image)
    BY <1>4, <1>5 DEF ExistsBijection, Bijection
  <1> QED BY <1>2, <1>6, FS_Bijection

\* A set with two different elements has at least two.
LEMMA TwoElements ==
    ASSUME NEW image, IsFiniteSet(image), NEW a \in image, NEW b \in image, a # b
    PROVE  Cardinality(image) >= 2
  <1>1. /\ IsFiniteSet(image \ {a}) /\ Cardinality(image \ {a}) = Cardinality(image) - 1
        /\ Cardinality(image) \in Nat
    BY FS_RemoveElement, FS_CardinalityType
  <1>2. Cardinality(image \ {a}) # 0
    BY <1>1, FS_EmptySet
  <1>3. Cardinality(image \ {a}) \in Nat
    BY <1>1, FS_CardinalityType
  <1> QED BY <1>1, <1>2, <1>3

\* A piece in play lies in the well, and only an L has less than four cells there.
LEMMA PieceInWell ==
    (GameInv /\ current_shape # 0) =>
        /\ PieceCells \in SUBSET TheWell!Cells
        /\ Cardinality(PieceCells) \in 2 .. 4
        /\ (\A b \in Blocks : x[b] # 0) <=> Cardinality(PieceCells) = 4
  <1> SUFFICES ASSUME GameInv, current_shape # 0
               PROVE  /\ PieceCells \in SUBSET TheWell!Cells
                      /\ Cardinality(PieceCells) \in 2 .. 4
                      /\ (\A b \in Blocks : x[b] # 0) <=> Cardinality(PieceCells) = 4
    OBVIOUS
  <1> DEFINE F == Form(current_shape, rotate_counter)
             cell == [b \in Blocks |-> <<y[b], x[b]>>]
             inside == {b \in Blocks : x[b] # 0}
  <1>1. /\ current_shape \in 1 .. 7 /\ rotate_counter \in 0 .. 3
        /\ \A b \in Blocks : x[b] \in 0 .. Width /\ y[b] \in 0 .. Height
        /\ x[2] # 0 /\ x[2] \in 1 .. Width /\ y[2] \in 1 .. Height
        /\ current_shape # L => \A b \in Blocks : x[b] # 0
        /\ \A b \in Blocks : x[b] = x[2] + F[b][1] /\ y[b] = y[2] + F[b][2]
    BY DEF GameInv, TypeInv, TypeOK, Geometry, InBounds, FormKept, Blocks
  <1>2. ASSUME NEW b \in Blocks, NEW c \in Blocks, b # c
        PROVE  cell[b] # cell[c]
    <2>1. /\ F[b][1] # F[c][1] \/ F[b][2] # F[c][2]
          /\ F[b][1] \in -1 .. 2 /\ F[b][2] \in -1 .. 2
          /\ F[c][1] \in -1 .. 2 /\ F[c][2] \in -1 .. 2
      BY <1>1, <1>2, FormsDistinct, FormOffsets
    <2> HIDE DEF F
    <2>2. x[b] # x[c] \/ y[b] # y[c]
      BY <1>1, <2>1, BoardFacts
    <2> QED BY <2>2
  <1>3. PieceCells \in SUBSET TheWell!Cells
    BY DEF PieceCells, TheWell!Cells
  <1>4. PieceCells = {cell[b] : b \in inside}
    <2>1. ASSUME NEW b \in Blocks, x[b] # 0 PROVE cell[b] \in PieceCells
      <3>1. x[b] \in 1 .. Width
        BY <1>1, <2>1, BoardFacts
      <3> QED BY <1>1, <3>1 DEF PieceCells
    <2>2. ASSUME NEW e \in PieceCells PROVE \E b \in inside : e = cell[b]
      BY DEF PieceCells
    <2> QED BY <2>1, <2>2
  <1> HIDE DEF cell
  <1>5. /\ Cardinality(PieceCells) = Cardinality(inside) /\ IsFiniteSet(PieceCells)
        /\ Cardinality(inside) \in 0 .. 4
        /\ Cardinality(inside) = 4 <=> inside = Blocks
    <2>1. \A b, c \in inside : b # c => cell[b] # cell[c]
      BY <1>2
    <2>2. inside \in SUBSET Blocks
      OBVIOUS
    <2> HIDE DEF inside
    <2> QED BY <1>4, <2>1, <2>2, ImageSize
  <1>6. PICK j \in {1, 3} : x[j] # 0
    <2>1. CASE current_shape # L
      BY <1>1, <2>1 DEF Blocks
    <2>2. CASE current_shape = L
      <3>1. PICK j \in {1, 3} : F[j][1] >= 0
        BY <1>1, <2>2, FormOfL
      <3>2. j \in Blocks /\ F[j][1] \in -1 .. 2
        BY <1>1, FormOffsets DEF Blocks
      <3> HIDE DEF F
      <3> QED BY <1>1, <3>1, <3>2, BoardFacts
    <2> QED BY <2>1, <2>2
  <1>7. Cardinality(PieceCells) >= 2
    <2>1. cell[2] \in PieceCells /\ cell[j] \in PieceCells /\ cell[2] # cell[j]
      BY <1>1, <1>2, <1>4, <1>6 DEF Blocks
    <2> QED BY <1>5, <2>1, TwoElements
  <1> QED BY <1>3, <1>5, <1>7

\* The same after a step.
LEMMA PieceInWellNext ==
    (/\ GameInv /\ current_shape # 0
      => /\ PieceCells \in SUBSET TheWell!Cells
         /\ Cardinality(PieceCells) \in 2 .. 4
         /\ (\A b \in Blocks : x[b] # 0) <=> Cardinality(PieceCells) = 4)'
  <1>1. GameInv /\ current_shape # 0
           => /\ PieceCells \in SUBSET TheWell!Cells
              /\ Cardinality(PieceCells) \in 2 .. 4
              /\ (\A b \in Blocks : x[b] # 0) <=> Cardinality(PieceCells) = 4
    BY PieceInWell
  <1> QED BY <1>1, PTL

-----------------------------------------------------------------------------
(* The steps. *)

LEMMA WellCardinality == \A cells : TheWell!Cardinality(cells) = Cardinality(cells)
  BY DEF TheWell!Cardinality, Cardinality, TheWell!IsFiniteSet, IsFiniteSet

LEMMA WellInit == Init => TheWell!Init
  <1> SUFFICES ASSUME Init PROVE TheWell!Init
    OBVIOUS
  <1>1. CellsOf(Finished(coord_static)) = {} /\ CellsOf(Finished(color_static)) = {}
    BY BoardFacts DEF Init, CellsOf, Finished, Pending, NoRows, Rows
  <1> QED BY <1>1 DEF Init, TheWell!Init, Phase, Pending

\* Nothing happens to the rows.
LEMMA WellRowsKept ==
    ASSUME ~Pending, ~Pending', UNCHANGED board
    PROVE  /\ CellsOf(Finished(coord_static))' = CellsOf(Finished(coord_static))
           /\ CellsOf(Finished(color_static))' = CellsOf(Finished(color_static))
  BY DEF Pending, Finished, CellsOf, board

\* A step that is none of the well's.
LEMMA WellQuiet ==
    ASSUME ~Pending, ~Pending', UNCHANGED <<board, x, y, current_shape, current_score>>,
           Phase' = Phase, state = "CLEAR" <=> state' = "CLEAR", accu' = accu \/ state # "CLEAR"
    PROVE  UNCHANGED TheWell!vars
  <1>1. PieceCells' = PieceCells
    BY DEF PieceCells
  <1> QED BY <1>1, WellRowsKept DEF TheWell!vars, board, Pending

(***************************************************************************)
(* The piece in play moves.                                                 *)
(***************************************************************************)
Free == TheWell!Cells \ CellsOf(Finished(coord_static))

LEMMA FreeCell ==
    ASSUME ~Pending, NEW row \in 0 .. Height, NEW c \in 1 .. Width, c \notin coord_static[row]
    PROVE  <<row, c>> \in Free
  BY DEF Free, TheWell!Cells, CellsOf, Finished

\* MOVELEFT, MOVERIGHT and the falling half of MOVEDOWN.
LEMMA WellTranslates ==
    ASSUME GameInv, Walled, current_shape # 0, ~Pending,
           NEW dx \in -1 .. 1, NEW dy \in 0 .. 1, dx = 0 <=> dy # 0,
           \A b \in Blocks : MayBeClear(Target(b, <<dx, dy>>)),
           MoveBy(Together(dx, dy))
    PROVE  TheWell!Shift(PieceCells, PieceCells', Free)
  <1> DEFINE d == <<dy, dx>>
             moved == {TheWell!Plus(cell, d) : cell \in PieceCells}
  <1>1. ASSUME NEW b \in Blocks
        PROVE  /\ y[b] + dy \in 0 .. Height /\ x[b] + dx \in 1 .. Width
               /\ x[b] + dx \notin coord_static[y[b] + dy]
               /\ x'[b] = x[b] + dx /\ y'[b] = y[b] + dy
               /\ x[b] \in 0 .. Width /\ y[b] \in 0 .. Height
    <2>1. x[b] \in 0 .. Width /\ y[b] \in 0 .. Height
      BY DEF GameInv, Geometry, InBounds
    <2>2. dx = 0 \/ dy = 0
      OBVIOUS
    <2> QED BY <2>1, <2>2, TranslationEnds
  <1>2. d \in TheWell!Directions \ {<<-1, 0>>}
    BY DEF TheWell!Directions
  <1>3. moved \subseteq PieceCells'
    <2> SUFFICES ASSUME NEW cell \in PieceCells
                 PROVE  TheWell!Plus(cell, d) \in PieceCells'
      OBVIOUS
    <2>1. PICK b \in Blocks : cell = <<y[b], x[b]>>
      BY DEF PieceCells
    <2>2. TheWell!Plus(cell, d) = <<y'[b], x'[b]>>
      BY <1>1, <2>1 DEF TheWell!Plus
    <2> QED BY <1>1, <2>2 DEF PieceCells
  <1>4. PieceCells' \subseteq moved \cup ((0 .. Height) \X {1})
    <2> SUFFICES ASSUME NEW cell \in PieceCells'
                 PROVE  cell \in moved \/ cell \in (0 .. Height) \X {1}
      OBVIOUS
    <2>1. PICK b \in Blocks : cell = <<y'[b], x'[b]>>
      BY DEF PieceCells
    <2>2. CASE x[b] # 0
      <3>1. x[b] \in 1 .. Width
        BY <1>1, <2>2, BoardFacts
      <3>2. <<y[b], x[b]>> \in PieceCells
        BY <1>1, <3>1 DEF PieceCells
      <3>3. cell = TheWell!Plus(<<y[b], x[b]>>, d)
        BY <1>1, <2>1 DEF TheWell!Plus
      <3> QED BY <3>2, <3>3
    <2>3. CASE x[b] = 0
      <3>1. x'[b] = 1 /\ y'[b] \in 0 .. Height
        BY <1>1, <2>3
      <3> QED BY <2>1, <3>1
    <2> QED BY <2>2, <2>3
  <1>5. PieceCells' \subseteq Free
    <2> SUFFICES ASSUME NEW cell \in PieceCells' PROVE cell \in Free
      OBVIOUS
    <2>1. PICK b \in Blocks : cell = <<y'[b], x'[b]>>
      BY DEF PieceCells
    <2>2. /\ y'[b] \in 0 .. Height /\ x'[b] \in 1 .. Width
          /\ x'[b] \notin coord_static[y'[b]]
      BY <1>1
    <2> QED BY <2>1, <2>2, FreeCell
  <1> QED BY <1>2, <1>3, <1>4, <1>5 DEF TheWell!Shift

\* A rotation turns every block about the second, by a quarter.
LEMMA TurnQuarter ==
    ASSUME NEW s \in {I, J, L, S, T, Z}, NEW t \in 0 .. 3
    PROVE  \/ \A b \in Blocks : /\ Form(s, (t + 1) % 4)[b][1] = -Form(s, t)[b][2]
                                 /\ Form(s, (t + 1) % 4)[b][2] = Form(s, t)[b][1]
           \/ \A b \in Blocks : /\ Form(s, (t + 1) % 4)[b][1] = Form(s, t)[b][2]
                                 /\ Form(s, (t + 1) % 4)[b][2] = -Form(s, t)[b][1]
  <1>1. CASE s = I BY <1>1 DEF Form, Blocks, I, J, L, O, S, T, Z
  <1>2. CASE s = J BY <1>2 DEF Form, Blocks, I, J, L, O, S, T, Z
  <1>3. CASE s = L BY <1>3 DEF Form, Blocks, I, J, L, O, S, T, Z
  <1>4. CASE s = S BY <1>4 DEF Form, Blocks, I, J, L, O, S, T, Z
  <1>5. CASE s = T BY <1>5 DEF Form, Blocks, I, J, L, O, S, T, Z
  <1>6. CASE s = Z BY <1>6 DEF Form, Blocks, I, J, L, O, S, T, Z
  <1> QED BY <1>1, <1>2, <1>3, <1>4, <1>5, <1>6

\* The rotation of a piece other than an L.
LEMMA WellTurns ==
    ASSUME GameInv, Walled, current_shape \in {I, J, S, T, Z}, ~Pending,
           \A b \in Blocks : MayBeClear(Probe(current_shape, rotate_counter, b)),
           MoveBy(Turn(current_shape, rotate_counter))
    PROVE  TheWell!Turn(PieceCells, PieceCells', Free)
  <1> DEFINE F == Form(current_shape, rotate_counter)
             G == Form(current_shape, (rotate_counter + 1) % 4)
             pivot == <<y[2], x[2]>>
             Ahead(cell) == TheWell!Plus(pivot, TheWell!Quarter(TheWell!Minus(cell, pivot)))
             Back(cell) == TheWell!Minus(pivot, TheWell!Quarter(TheWell!Minus(cell, pivot)))
  <1>1. /\ current_shape \in 1 .. 7 /\ current_shape # 0 /\ current_shape # L
        /\ current_shape \in {I, J, L, S, T, Z} /\ rotate_counter \in 0 .. 3
    BY DEF GameInv, TypeInv, TypeOK, I, J, L, S, T, Z
  <1>2. ASSUME NEW b \in Blocks
        PROVE  /\ x'[b] \in 1 .. Width /\ y'[b] \in 0 .. Height
               /\ x'[b] \notin coord_static[y'[b]]
               /\ x'[b] = x[2] + G[b][1] /\ y'[b] = y[2] + G[b][2]
    <2>1. /\ Turned[b][2] \in 0 .. Height /\ Turned[b][1] \in 0 .. Width
          /\ Turned[b][1] # 0 /\ Turned[b][1] \notin coord_static[Turned[b][2]]
          /\ x'[b] = Turned[b][1] /\ y'[b] = Turned[b][2]
      BY <1>1, TurnEnds
    <2>2. Turned[b][1] = x[2] + G[b][1] /\ Turned[b][2] = y[2] + G[b][2]
      BY DEF Turned
    <2> HIDE DEF G
    <2> QED BY <2>1, <2>2, BoardFacts
  <1>3. ASSUME NEW b \in Blocks
        PROVE  /\ x[b] \in 1 .. Width /\ y[b] \in 0 .. Height
               /\ x[b] = x[2] + F[b][1] /\ y[b] = y[2] + F[b][2]
    <2>1. x[b] \in 0 .. Width /\ y[b] \in 0 .. Height /\ x[b] # 0
      BY <1>1 DEF GameInv, Geometry, InBounds
    <2>2. x[b] = x[2] + F[b][1] /\ y[b] = y[2] + F[b][2]
      BY <1>1 DEF GameInv, Geometry, FormKept
    <2> HIDE DEF F
    <2> QED BY <2>1, <2>2, BoardFacts
  <1>4. ASSUME NEW b \in Blocks
        PROVE  F[b][1] \in -1 .. 2 /\ F[b][2] \in -1 .. 2
    BY <1>1, FormOffsets, Zenon
  <1>5. \/ \A b \in Blocks : G[b][1] = -F[b][2] /\ G[b][2] = F[b][1]
        \/ \A b \in Blocks : G[b][1] = F[b][2] /\ G[b][2] = -F[b][1]
    BY <1>1, TurnQuarter, Zenon
  <1> HIDE DEF F, G
  <1>6. pivot \in PieceCells /\ x[2] \in Int /\ y[2] \in Int
    BY <1>3 DEF PieceCells, Blocks
  <1>7. ASSUME NEW b \in Blocks
        PROVE  /\ TheWell!Quarter(TheWell!Minus(<<y[b], x[b]>>, pivot)) = <<F[b][1], -F[b][2]>>
    <2>1. y[b] - y[2] = F[b][2] /\ x[b] - x[2] = F[b][1]
      BY <1>3, <1>4, <1>6
    <2> QED BY <2>1 DEF TheWell!Quarter, TheWell!Minus
  <1>8. \/ \A b \in Blocks : Ahead(<<y[b], x[b]>>) = <<y'[b], x'[b]>>
        \/ \A b \in Blocks : Back(<<y[b], x[b]>>) = <<y'[b], x'[b]>>
    <2>1. CASE \A b \in Blocks : G[b][1] = -F[b][2] /\ G[b][2] = F[b][1]
      <3>1. ASSUME NEW b \in Blocks PROVE Ahead(<<y[b], x[b]>>) = <<y'[b], x'[b]>>
        <4>1. y[2] + F[b][1] = y'[b] /\ x[2] + (-F[b][2]) = x'[b]
          BY <1>2, <2>1
        <4> QED BY <1>7, <4>1 DEF TheWell!Plus
      <3> QED BY <3>1
    <2>2. CASE \A b \in Blocks : G[b][1] = F[b][2] /\ G[b][2] = -F[b][1]
      <3>1. ASSUME NEW b \in Blocks PROVE Back(<<y[b], x[b]>>) = <<y'[b], x'[b]>>
        <4>1. y[2] - F[b][1] = y'[b] /\ x[2] - (-F[b][2]) = x'[b]
          BY <1>2, <1>4, <1>6, <2>2
        <4>2. Back(<<y[b], x[b]>>) = TheWell!Minus(pivot, <<F[b][1], -F[b][2]>>)
          BY <1>7
        <4> QED BY <4>1, <4>2 DEF TheWell!Minus
      <3> QED BY <3>1
    <2> QED BY <1>5, <2>1, <2>2
  <1>9. ASSUME NEW cell PROVE /\ cell \in PieceCells <=> \E b \in Blocks : cell = <<y[b], x[b]>>
                              /\ cell \in PieceCells' <=> \E b \in Blocks : cell = <<y'[b], x'[b]>>
    BY <1>2, <1>3 DEF PieceCells
  <1> HIDE DEF Ahead, Back
  <1>10. \/ PieceCells' = {Ahead(cell) : cell \in PieceCells}
         \/ PieceCells' = {Back(cell) : cell \in PieceCells}
    <2>1. ASSUME NEW To, \A b \in Blocks : To[<<y[b], x[b]>>] = <<y'[b], x'[b]>>
          PROVE  PieceCells' = {To[cell] : cell \in PieceCells}
      <3>1. ASSUME NEW cell \in PieceCells' PROVE cell \in {To[e] : e \in PieceCells}
        <4>1. PICK b \in Blocks : cell = <<y'[b], x'[b]>>
          BY <1>9
        <4>2. <<y[b], x[b]>> \in PieceCells /\ cell = To[<<y[b], x[b]>>]
          BY <1>9, <2>1, <4>1
        <4> QED BY <4>2
      <3>2. ASSUME NEW cell \in PieceCells PROVE To[cell] \in PieceCells'
        <4>1. PICK b \in Blocks : cell = <<y[b], x[b]>>
          BY <1>9
        <4>2. To[cell] = <<y'[b], x'[b]>>
          BY <2>1, <4>1
        <4> QED BY <1>9, <4>2
      <3> QED BY <3>1, <3>2
    <2>2. CASE \A b \in Blocks : Ahead(<<y[b], x[b]>>) = <<y'[b], x'[b]>>
      <3> DEFINE To == [cell \in PieceCells |-> Ahead(cell)]
      <3>1. /\ \A b \in Blocks : To[<<y[b], x[b]>>] = <<y'[b], x'[b]>>
            /\ {To[cell] : cell \in PieceCells} = {Ahead(cell) : cell \in PieceCells}
        BY <1>9, <2>2
      <3> HIDE DEF To
      <3> QED BY <2>1, <3>1
    <2>3. CASE \A b \in Blocks : Back(<<y[b], x[b]>>) = <<y'[b], x'[b]>>
      <3> DEFINE To == [cell \in PieceCells |-> Back(cell)]
      <3>1. /\ \A b \in Blocks : To[<<y[b], x[b]>>] = <<y'[b], x'[b]>>
            /\ {To[cell] : cell \in PieceCells} = {Back(cell) : cell \in PieceCells}
        BY <1>9, <2>3
      <3> HIDE DEF To
      <3> QED BY <2>1, <3>1
    <2> QED BY <1>8, <2>2, <2>3
  <1>11. PieceCells' \subseteq Free
    <2> SUFFICES ASSUME NEW cell \in PieceCells' PROVE cell \in Free
      OBVIOUS
    <2>1. PICK b \in Blocks : cell = <<y'[b], x'[b]>>
      BY DEF PieceCells
    <2> QED BY <1>2, <2>1, FreeCell
  <1> QED BY <1>6, <1>10, <1>11 DEF TheWell!Turn, Ahead, Back

\* The form of an L is that of the well.
Along(t) == <<Form(L, t)[3][2], Form(L, t)[3][1]>>

LEMMA EllForm ==
    ASSUME NEW t \in 0 .. 3
    PROVE  /\ Along(t) \in TheWell!Directions
           /\ Along((t + 1) % 4) = TheWell!Quarter(Along(t))
           /\ Form(L, t)[1][1] = -Along(t)[2] /\ Form(L, t)[1][2] = -Along(t)[1]
           /\ Form(L, t)[2][1] = 0 /\ Form(L, t)[2][2] = 0
           /\ Form(L, t)[3][1] = Along(t)[2] /\ Form(L, t)[3][2] = Along(t)[1]
           /\ Form(L, t)[4][1] = -Along(t)[2] - Along(t)[1]
           /\ Form(L, t)[4][2] = -Along(t)[1] + Along(t)[2]
  BY DEF Along, Form, TheWell!Directions, TheWell!Quarter, I, J, L, O, S, T, Z

LEMMA EllCells ==
    ASSUME NEW t \in 0 .. 3, NEW X, NEW Y, X[2] \in Int, Y[2] \in Int,
           \A b \in Blocks : X[b] = X[2] + Form(L, t)[b][1] /\ Y[b] = Y[2] + Form(L, t)[b][2],
           NEW cell
    PROVE  (\E b \in Blocks : cell = <<Y[b], X[b]>>)
              <=> cell \in TheWell!Ell(<<Y[2], X[2]>>, Along(t))
  <1> DEFINE d == Along(t)
             p == <<Y[2], X[2]>>
  <1>1. d[1] \in Int /\ d[2] \in Int
    BY EllForm DEF TheWell!Directions
  <1>2. /\ X[1] = X[2] - d[2] /\ Y[1] = Y[2] - d[1]
        /\ X[3] = X[2] + d[2] /\ Y[3] = Y[2] + d[1]
        /\ X[4] = (X[2] - d[2]) + (-d[1]) /\ Y[4] = (Y[2] - d[1]) + d[2]
    <2> DEFINE F == Form(L, t)
    <2>1. /\ F[1][1] = -d[2] /\ F[1][2] = -d[1] /\ F[3][1] = d[2] /\ F[3][2] = d[1]
          /\ F[4][1] = -d[2] - d[1] /\ F[4][2] = -d[1] + d[2]
      BY EllForm
    <2>2. \A b \in {1, 3, 4} : X[b] = X[2] + F[b][1] /\ Y[b] = Y[2] + F[b][2]
      BY DEF Blocks
    <2> HIDE DEF F, d
    <2> QED BY <1>1, <2>1, <2>2
  <1> HIDE DEF d
  <1>3. /\ TheWell!Minus(p, d) = <<Y[1], X[1]>> /\ TheWell!Plus(p, d) = <<Y[3], X[3]>>
        /\ TheWell!Plus(TheWell!Minus(p, d), TheWell!Quarter(d)) = <<Y[4], X[4]>>
    BY <1>2 DEF TheWell!Minus, TheWell!Plus, TheWell!Quarter
  <1>4. TheWell!Ell(p, d) = {<<Y[2], X[2]>>, <<Y[3], X[3]>>, <<Y[1], X[1]>>, <<Y[4], X[4]>>}
    BY <1>3 DEF TheWell!Ell
  <1>5. \A b : b \in Blocks <=> b \in {1, 2, 3, 4}
    BY DEF Blocks
  <1> QED BY <1>4, <1>5 DEF d

\* The rotation of an L.
LEMMA WellTurnsEll ==
    ASSUME GameInv, Walled, current_shape = L, ~Pending,
           \A b \in Blocks : MayBeClear(Probe(current_shape, rotate_counter, b)),
           MoveBy(Turn(current_shape, rotate_counter))
    PROVE  TheWell!TurnEll(PieceCells, PieceCells')
  <1> DEFINE t == rotate_counter
             u == (rotate_counter + 1) % 4
             pivot == <<y[2], x[2]>>
  <1>1. /\ L \in 1 .. 7 /\ L # 0 /\ current_shape \in {I, J, L, S, T, Z}
        /\ t \in 0 .. 3 /\ u \in 0 .. 3 /\ 2 \in Blocks
    BY DEF GameInv, TypeInv, TypeOK, I, J, L, S, T, Z, Blocks
  <1>2. /\ x[2] \in 1 .. Width /\ y[2] \in 0 .. Height
        /\ \A b \in Blocks : x[b] = x[2] + Form(L, t)[b][1] /\ y[b] = y[2] + Form(L, t)[b][2]
    BY <1>1, BoardFacts DEF GameInv, Geometry, InBounds, FormKept
  <1>3. \A b \in Blocks : x'[b] = Turned[b][1] /\ y'[b] = Turned[b][2]
    BY <1>1, TurnEnds
  <1>4. \A b \in Blocks : x'[b] = x[2] + Form(L, u)[b][1] /\ y'[b] = y[2] + Form(L, u)[b][2]
    BY <1>3 DEF Turned
  <1> HIDE DEF t, u
  <1>5. x'[2] = x[2] /\ y'[2] = y[2]
    <2>1. Form(L, u)[2][1] = 0 /\ Form(L, u)[2][2] = 0
      BY <1>1, EllForm
    <2> QED BY <1>1, <1>2, <1>4, <2>1
  <1>6. /\ \A cell : (\E b \in Blocks : cell = <<y[b], x[b]>>)
                        <=> cell \in TheWell!Ell(pivot, Along(t))
        /\ \A cell : (\E b \in Blocks : cell = <<y'[b], x'[b]>>)
                        <=> cell \in TheWell!Ell(pivot, Along(u))
    <2>1. x[2] \in Int /\ y[2] \in Int
      BY <1>2
    <2>2. ASSUME NEW cell
          PROVE  (\E b \in Blocks : cell = <<y[b], x[b]>>)
                    <=> cell \in TheWell!Ell(pivot, Along(t))
      BY <1>1, <1>2, <2>1, EllCells
    <2>3. ASSUME NEW cell
          PROVE  (\E b \in Blocks : cell = <<y'[b], x'[b]>>)
                    <=> cell \in TheWell!Ell(<<y'[2], x'[2]>>, Along(u))
      BY <1>1, <1>4, <1>5, <2>1, EllCells
    <2> QED BY <1>5, <2>2, <2>3
  <1>7. /\ PieceCells = TheWell!Ell(pivot, Along(t)) \cap TheWell!Cells
        /\ PieceCells' = TheWell!Ell(pivot, Along(u)) \cap TheWell!Cells
    BY <1>6 DEF PieceCells, TheWell!Cells
  <1>8. pivot \in PieceCells
    BY <1>1, <1>2 DEF PieceCells
  <1>9. Along(t) \in TheWell!Directions /\ Along(u) = TheWell!Quarter(Along(t))
    BY <1>1, EllForm DEF t, u
  <1> QED BY <1>7, <1>8, <1>9 DEF TheWell!TurnEll

\* So every move is a step of the well, or none.
LEMMA WellSteer ==
    ASSUME GameInv, GameInv', current_shape # 0, UNCHANGED <<current_shape, board, current_score>>,
           state # "CLEAR", state' # "CLEAR", Phase = "play", Phase' = "play",
           \/ TheWell!Shift(PieceCells, PieceCells', Free)
           \/ TheWell!Turn(PieceCells, PieceCells', Free)
           \/ TheWell!TurnEll(PieceCells, PieceCells')
    PROVE  TheWell!Steer \/ UNCHANGED TheWell!vars
  <1>1. PieceCells' \in SUBSET TheWell!Cells /\ Cardinality(PieceCells') \in 2 .. 4
    BY PieceInWellNext
  <1>2. CASE PieceCells' = PieceCells
    BY <1>2, WellRowsKept DEF TheWell!vars, Pending
  <1>3. CASE PieceCells' # PieceCells
    BY <1>1, <1>3, WellRowsKept, WellCardinality DEF TheWell!Steer, Pending, Free
  <1> QED BY <1>2, <1>3

\* What the rows say of the cells: where a row is full, and the top empty.
LEMMA RowFacts ==
    ASSUME coord_static \in [Rows -> SUBSET Cols], Walled
    PROVE  /\ \A r \in 0 .. Height : coord_static[r] = FullRow
                 <=> \A c \in 1 .. Width : c \in coord_static[r]
           /\ \A r \in 0 .. Height : coord_static[r] = EmptyRow
                 <=> \A c \in 1 .. Width : c \notin coord_static[r]
  <1> SUFFICES ASSUME NEW r \in 0 .. Height
               PROVE  /\ coord_static[r] = FullRow
                            <=> \A c \in 1 .. Width : c \in coord_static[r]
                      /\ coord_static[r] = EmptyRow
                            <=> \A c \in 1 .. Width : c \notin coord_static[r]
    OBVIOUS
  <1>1. /\ r \in Rows /\ coord_static[r] \subseteq Cols /\ EmptyRow \subseteq coord_static[r]
    BY BoardFacts DEF Rows, Walled
  <1>2. \A c : c \in Cols <=> c \in EmptyRow \/ c \in 1 .. Width
    BY BoardFacts DEF Cols, EmptyRow
  <1>3. \A c \in 1 .. Width : c \notin EmptyRow
    BY BoardFacts DEF EmptyRow
  <1> QED BY <1>1, <1>2, <1>3 DEF FullRow

\* The rows that CLEARk_1 finds full are the full rows of the well.
LEMMA FullRowsOfWell ==
    ASSUME GameInv, state = "CLEAR", stage = 1, NEW r \in 0 .. Height
    PROVE  (TheWell!Row(r) \subseteq CellsOf(Finished(coord_static)))
              <=> coord_static[r] = FullRow
  <1>1. coord_static \in [Rows -> SUBSET Cols] /\ Walled
    BY DEF GameInv, TypeInv, TypeOK, WallsIntact, Walled
  <1>2. Finished(coord_static) = coord_static
    BY DEF Finished, Pending
  <1>3. \A c \in 1 .. Width : <<r, c>> \in CellsOf(coord_static) <=> c \in coord_static[r]
    BY CellsOfRows
  <1>4. (TheWell!Row(r) \subseteq CellsOf(coord_static))
           <=> \A c \in 1 .. Width : <<r, c>> \in CellsOf(coord_static)
    BY DEF TheWell!Row
  <1> QED BY <1>1, <1>2, <1>3, <1>4, RowFacts

\* INTER looks for the end of the game where the well has its top.
LEMMA TopOfWell ==
    ASSUME GameInv, state = "INTER"
    PROVE  TheWell!TopDirty <=> ~TopRowsEmpty
  <1>1. coord_static \in [Rows -> SUBSET Cols] /\ Walled
    BY DEF GameInv, TypeInv, TypeOK, WallsIntact, Walled
  <1>2. Finished(coord_static) = coord_static
    BY DEF Finished, Pending
  <1>3. 0 \in 0 .. Height /\ 1 \in 0 .. Height
    BY BoardFacts
  <1>4. \A r \in {0, 1}, c \in 1 .. Width : <<r, c>> \in CellsOf(coord_static) <=> c \in coord_static[r]
    BY <1>3, CellsOfRows
  <1>5. ASSUME TheWell!TopDirty PROVE ~TopRowsEmpty
    <2>1. PICK cell \in CellsOf(coord_static) : cell \in TheWell!Row(0) \cup TheWell!Row(1)
      BY <1>2, <1>5 DEF TheWell!TopDirty
    <2>2. PICK r \in {0, 1}, c \in 1 .. Width : cell = <<r, c>>
      BY <2>1 DEF TheWell!Row
    <2>3. c \in coord_static[r] /\ r \in 0 .. Height
      BY <1>3, <1>4, <2>1, <2>2
    <2> QED BY <1>1, <2>3, RowFacts DEF TopRowsEmpty
  <1>6. ASSUME ~TopRowsEmpty PROVE TheWell!TopDirty
    <2>1. PICK r \in {0, 1} : coord_static[r] # EmptyRow
      BY <1>6 DEF TopRowsEmpty
    <2>2. PICK c \in 1 .. Width : c \in coord_static[r]
      BY <1>1, <1>3, <2>1, RowFacts
    <2>3. <<r, c>> \in CellsOf(coord_static)
      BY <1>4, <2>2
    <2>4. <<r, c>> \in TheWell!Row(0) \cup TheWell!Row(1)
      BY <2>1 DEF TheWell!Row
    <2> QED BY <1>2, <2>3, <2>4 DEF TheWell!TopDirty
  <1> QED BY <1>5, <1>6

-----------------------------------------------------------------------------
\* A new piece has four cells in the first two rows.
LEMMA WellAppear ==
    ASSUME GameInv, GameInv', RowsInv, NEW next_shape \in Shapes, NewBlock(next_shape)
    PROVE  TheWell!Appear
  <1>1. /\ state = "NEW_BLOCK" /\ state' = "BEFORENEW" /\ current_shape = 0
        /\ current_shape' # 0 /\ UNCHANGED <<board, scores>>
        /\ next_shape \in 0 .. 7
    BY BoardFacts DEF NewBlock, Goto, GameInv, ShapeKnown, I
  <1>2. ASSUME NEW b \in Blocks
        PROVE  x'[b] # 0 /\ y'[b] \in 1 .. 2
    <2>1. Spawn(next_shape)[b][1] \in 0 .. 3 /\ Spawn(next_shape)[b][2] \in 0 .. 1
      BY <1>1, SpawnRange
    <2>2. /\ x'[b] = SpawnX + Spawn(next_shape)[b][1]
          /\ y'[b] = 1 + Spawn(next_shape)[b][2]
      BY DEF NewBlock
    <2> QED BY <2>1, <2>2, BoardFacts
  <1>3. PieceCells' \in SUBSET TheWell!Cells /\ Cardinality(PieceCells') = 4
    <2>1. \A b \in Blocks : x'[b] # 0
      BY <1>2
    <2> QED BY <1>1, <2>1, PieceInWellNext
  <1>4. PieceCells' \subseteq TheWell!Row(1) \cup TheWell!Row(2)
    <2>1. ASSUME NEW cell \in PieceCells'
          PROVE  cell \in TheWell!Row(1) \cup TheWell!Row(2)
      <3>1. PICK b \in Blocks : cell = <<y'[b], x'[b]>>
        BY DEF PieceCells
      <3>2. x'[b] \in 1 .. Width
        BY <3>1 DEF PieceCells
      <3>3. y'[b] \in {1, 2}
        BY <1>2
      <3> QED BY <3>1, <3>2, <3>3 DEF TheWell!Row
    <2> QED BY <2>1
  <1>5. Phase = "play" /\ Phase' = "play"
    BY <1>1 DEF Phase
  <1> QED BY <1>1, <1>3, <1>4, <1>5, WellRowsKept, WellCardinality
          DEF TheWell!Appear, Pending, scores

\* A piece that lands has a block above a cell that is set, or one in the wall.
LEMMA WellLand ==
    ASSUME GameInv, RowsInv, MoveDown, Land
    PROVE  TheWell!Land
  <1>1. /\ state = "MOVEDOWN" /\ state' = "INTER" /\ current_shape # 0 /\ current_shape' = 0
        /\ UNCHANGED <<scores, x, y>>
        /\ coord_static \in [Rows -> SUBSET Cols] /\ color_static \in [Rows -> SUBSET Cols]
    BY DEF MoveDown, Land, Goto, GameInv, TypeInv, TypeOK, ShapeKnown, Steering
  <1>2. /\ Finished(coord_static) = coord_static /\ Finished(color_static) = color_static
        /\ Finished(coord_static)' = coord_static' /\ Finished(color_static)' = color_static'
    BY <1>1 DEF Finished, Pending
  <1>3. \A r \in 0 .. Height : /\ coord_static'[r] = coord_static[r] \cup Covered(r)
                               /\ color_static'[r] = color_static[r] \cup Covered(r)
    BY <1>1, BoardFacts DEF Land, Rows
  <1>4. \A r \in 0 .. Height, c \in 1 .. Width : <<r, c>> \in PieceCells <=> c \in Covered(r)
    BY BoardFacts DEF PieceCells, Covered, Cols
  <1>5. PieceCells \in SUBSET TheWell!Cells
    BY DEF PieceCells, TheWell!Cells
  <1>6. CellsOf(coord_static') = CellsOf(coord_static) \cup PieceCells
    <2>1. \A r \in 0 .. Height, c \in 1 .. Width :
            <<r, c>> \in CellsOf(coord_static') <=> <<r, c>> \in CellsOf(coord_static) \cup PieceCells
      BY <1>3, <1>4, CellsOfRows
    <2>2. /\ CellsOf(coord_static') \in SUBSET TheWell!Cells
          /\ CellsOf(coord_static) \cup PieceCells \in SUBSET TheWell!Cells
      BY <1>5, CellsOfRows
    <2> DEFINE A == CellsOf(coord_static')
               B == CellsOf(coord_static) \cup PieceCells
    <2>3. /\ A \in SUBSET TheWell!Cells /\ B \in SUBSET TheWell!Cells
          /\ \A r \in 0 .. Height, c \in 1 .. Width : <<r, c>> \in A <=> <<r, c>> \in B
      BY <2>1, <2>2
    <2> HIDE DEF A, B
    <2>4. A = B
      BY <2>3, SameCells
    <2> QED BY <2>4 DEF A, B
  <1>7. CellsOf(color_static') = CellsOf(color_static) \cup PieceCells
    <2>1. \A r \in 0 .. Height, c \in 1 .. Width :
            <<r, c>> \in CellsOf(color_static') <=> <<r, c>> \in CellsOf(color_static) \cup PieceCells
      BY <1>3, <1>4, CellsOfRows
    <2>2. /\ CellsOf(color_static') \in SUBSET TheWell!Cells
          /\ CellsOf(color_static) \cup PieceCells \in SUBSET TheWell!Cells
      BY <1>5, CellsOfRows
    <2> DEFINE A == CellsOf(color_static')
               B == CellsOf(color_static) \cup PieceCells
    <2>3. /\ A \in SUBSET TheWell!Cells /\ B \in SUBSET TheWell!Cells
          /\ \A r \in 0 .. Height, c \in 1 .. Width : <<r, c>> \in A <=> <<r, c>> \in B
      BY <2>1, <2>2
    <2> HIDE DEF A, B
    <2>4. A = B
      BY <2>3, SameCells
    <2> QED BY <2>4 DEF A, B
  <1>8. \/ \E cell \in PieceCells : cell[1] = Height \/ TheWell!Below(cell) \in CellsOf(coord_static)
        \/ Cardinality(PieceCells) < 4
    <2>1. PICK b \in Blocks : MayBeSet(Target(b, <<0, 1>>))
      BY DEF Land
    <2>2. x[b] \in 0 .. Width /\ y[b] \in 0 .. Height
      BY <1>1 DEF GameInv, Geometry, InBounds
    <2>3. x[b] \in coord_static[y[b] + 1]
      BY <2>1, <2>2, BoardFacts DEF MayBeSet, Target, InArray, Rows, Cols
    <2>4. CASE x[b] = 0
      <3>1. Cardinality(PieceCells) \in 2 .. 4 /\ Cardinality(PieceCells) # 4
        BY <1>1, <2>4, PieceInWell
      <3> QED BY <3>1
    <2>5. CASE x[b] # 0
      <3>1. x[b] \in 1 .. Width /\ <<y[b], x[b]>> \in PieceCells
        BY <2>2, <2>5, BoardFacts DEF PieceCells
      <3>2. CASE y[b] = Height
        BY <3>1, <3>2
      <3>3. CASE y[b] # Height
        <4>1. y[b] + 1 \in 0 .. Height
          BY <2>2, <3>3, BoardFacts
        <4>2. <<y[b] + 1, x[b]>> \in CellsOf(coord_static)
          BY <2>3, <3>1, <4>1, CellsOfRows
        <4> QED BY <3>1, <4>2 DEF TheWell!Below
      <3> QED BY <3>2, <3>3
    <2> QED BY <2>4, <2>5
  <1>9. Phase = "play" /\ Phase' = "landed"
    BY <1>1 DEF Phase
  <1> QED BY <1>1, <1>2, <1>6, <1>7, <1>8, <1>9, WellCardinality
          DEF TheWell!Land, Pending, scores, CellsOf

-----------------------------------------------------------------------------
(* What the stages of a removal do to the cells. *)

\* Rows that agree between the walls have the same cells.
LEMMA CellsAgree ==
    ASSUME NEW f, NEW g,
           \A r \in 0 .. Height, c \in 1 .. Width : c \in f[r] <=> c \in g[r]
    PROVE  CellsOf(f) = CellsOf(g)
  BY DEF CellsOf

\* Rows that have come down by one are the cells without the row.
LEMMA RemovedCells ==
    ASSUME NEW f, NEW g, NEW row \in 0 .. Height,
           \A r \in 0 .. Height :
              g[r] = IF r = 0 THEN {} ELSE IF r <= row THEN f[r - 1] ELSE f[r]
    PROVE  CellsOf(g) = TheWell!Without(CellsOf(f), row)
  <1> DEFINE A == CellsOf(f)
             B == CellsOf(g)
             W == TheWell!Without(A, row)
  <1>1. A \in SUBSET TheWell!Cells /\ B \in SUBSET TheWell!Cells
    BY CellsOfRows
  <1>2. \A r \in 0 .. Height, c \in 1 .. Width :
           /\ <<r, c>> \in A <=> c \in f[r]
           /\ <<r, c>> \in B <=> c \in g[r]
    BY CellsOfRows
  <1> HIDE DEF A, B
  <1>3. /\ W \in SUBSET TheWell!Cells
        /\ \A r \in 0 .. Height, c \in 1 .. Width :
              <<r, c>> \in W <=>
                 \/ r > row /\ <<r, c>> \in A
                 \/ r # 0 /\ r <= row /\ <<r - 1, c>> \in A
    BY <1>1, WithoutCells
  <1> HIDE DEF W
  <1>4. ASSUME NEW r \in 0 .. Height, NEW c \in 1 .. Width
        PROVE  <<r, c>> \in B <=> <<r, c>> \in W
    <2>1. CASE r = 0
      <3>1. g[r] = {} /\ ~(r > row)
        BY <2>1
      <3> QED BY <1>2, <1>3, <2>1, <3>1
    <2>2. CASE r # 0
      <3>1. r - 1 \in 0 .. Height /\ (r > row <=> ~(r <= row))
        BY <2>2, BoardFacts
      <3> QED BY <1>2, <1>3, <2>2, <3>1
    <2> QED BY <2>1, <2>2
  <1>5. B = W
    BY <1>1, <1>3, <1>4, SameCells
  <1> QED BY <1>5 DEF A, B, W

\* What the first stage alone leaves.
LEMMA SmearOfStage ==
    ASSUME NEW f, NEW row \in 0 .. Height
    PROVE  CellsOf(Shifted(f, 1, row)) = TheWell!Smeared(CellsOf(f), row)
  <1> DEFINE g == Shifted(f, 1, row)
             A == CellsOf(f)
             B == CellsOf(g)
             W == TheWell!Smeared(A, row)
  <1>1. \A q \in Rows : g[q] =
            IF q \in 4 * Stripe + 1 .. 5 * Stripe /\ row > q - 1 THEN f[q - 1] ELSE f[q]
    BY DEF Shifted, StageRows
  <1> HIDE DEF g
  <1>2. A \in SUBSET TheWell!Cells /\ B \in SUBSET TheWell!Cells
    BY CellsOfRows
  <1>3. \A r \in 0 .. Height, c \in 1 .. Width :
           /\ <<r, c>> \in A <=> c \in f[r]
           /\ <<r, c>> \in B <=> c \in g[r]
    BY CellsOfRows
  <1> HIDE DEF A, B
  <1>4. /\ W \in SUBSET TheWell!Cells
        /\ \A r \in 0 .. Height, c \in 1 .. Width :
              <<r, c>> \in W <=>
                 \/ (r <= 4 * Stripe \/ r > row) /\ <<r, c>> \in A
                 \/ r > 4 * Stripe /\ r <= row /\ <<r - 1, c>> \in A
    BY <1>2, SmearedCells
  <1> HIDE DEF W
  <1>5. ASSUME NEW r \in 0 .. Height, NEW c \in 1 .. Width
        PROVE  <<r, c>> \in B <=> <<r, c>> \in W
    <2>1. CASE r > 4 * Stripe /\ r <= row
      <3>1. r - 1 \in 0 .. Height /\ r \in Rows
        BY <2>1, BoardFacts DEF Rows
      <3>2. g[r] = f[r - 1]
        BY <1>1, <2>1, <3>1, BoardFacts DEF Height
      <3>3. ~(r <= 4 * Stripe \/ r > row)
        BY <2>1, BoardFacts
      <3> QED BY <1>3, <1>4, <2>1, <3>1, <3>2, <3>3
    <2>2. CASE ~(r > 4 * Stripe /\ r <= row)
      <3>1. r \in Rows /\ (r <= 4 * Stripe \/ r > row)
        BY <2>2, BoardFacts DEF Rows
      <3>2. g[r] = f[r]
        BY <1>1, <2>2, <3>1, BoardFacts
      <3> QED BY <1>3, <1>4, <2>2, <3>1, <3>2
    <2> QED BY <2>1, <2>2
  <1>6. B = W
    BY <1>2, <1>4, <1>5, SameCells
  <1> QED BY <1>6 DEF A, B, W, g

\* Emptying a row takes its cells out.
LEMMA CellsOfEmptied ==
    ASSUME coord_static \in [Rows -> SUBSET Cols], NEW row \in 0 .. Height
    PROVE  CellsOf(Emptied(row)) = CellsOf(coord_static) \ TheWell!Row(row)
  <1> DEFINE e == Emptied(row)
             A == CellsOf(coord_static) \ TheWell!Row(row)
             B == CellsOf(e)
  <1>1. \A r \in 0 .. Height : e[r] = IF r = row THEN EmptyRow ELSE coord_static[r]
    BY BoardFacts DEF Emptied, Rows
  <1> HIDE DEF e
  <1>2. A \in SUBSET TheWell!Cells /\ B \in SUBSET TheWell!Cells
    BY CellsOfRows
  <1>3. \A r \in 0 .. Height, c \in 1 .. Width :
            /\ <<r, c>> \in A <=> c \in coord_static[r] /\ r # row
            /\ <<r, c>> \in B <=> c \in e[r]
    BY CellsOfRows DEF TheWell!Row
  <1>4. \A c \in 1 .. Width : c \notin EmptyRow
    BY BoardFacts DEF EmptyRow
  <1> HIDE DEF A, B
  <1>5. \A r \in 0 .. Height, c \in 1 .. Width : <<r, c>> \in B <=> <<r, c>> \in A
    BY <1>1, <1>3, <1>4
  <1>6. B = A
    BY <1>2, <1>5, SameCells
  <1> QED BY <1>6 DEF A, B, e

-----------------------------------------------------------------------------
\* A full row of one of the first three blocks leaves the well in one step.
LEMMA WellRemove ==
    ASSUME GameInv, ClearTest, block < 4, Full(y[block])
    PROVE  TheWell!RemoveRow
  <1> DEFINE row == y[block]
  <1>1. /\ block \in Blocks /\ row \in 0 .. Height /\ row \in Rows
        /\ coord_static \in [Rows -> SUBSET Cols] /\ coord_static[row] = FullRow
        /\ current_shape = 0
    BY BoardFacts DEF GameInv, TypeInv, TypeOK, Geometry, AboveFloor, Full, ClearTest, ShapeKnown
  <1>2. /\ state = "CLEAR" /\ stage = 1 /\ state' = "CLEAR" /\ stage' = 2
        /\ block' = block /\ y' = y /\ UNCHANGED <<x, current_shape, scores>>
        /\ coord_static' = Shifted(Emptied(row), 1, row)
        /\ color_static' = Shifted(color_static, 1, row)
    BY DEF ClearTest, DecidingBlock, piece
  <1>3. ~Pending /\ Pending'
    BY <1>2 DEF Pending
  <1>4. /\ Finished(coord_static) = coord_static /\ Finished(color_static) = color_static
        /\ Finished(coord_static)' = Sweep(Shifted(Emptied(row), 1, row), 2, row)
        /\ Finished(color_static)' = Sweep(Shifted(color_static, 1, row), 2, row)
    BY <1>2, <1>3 DEF Finished, Sweep
  <1>5. \A q \in Rows : q # row => Emptied(row)[q] = coord_static[q]
    BY <1>1 DEF Emptied
  <1> HIDE DEF row
  <1>6. \A r \in 0 .. Height : Finished(coord_static)'[r] =
            IF r = 0 THEN {} ELSE IF r <= row THEN coord_static[r - 1] ELSE coord_static[r]
    BY <1>1, <1>4, <1>5, SweepStart
  <1>7. \A r \in 0 .. Height : Finished(color_static)'[r] =
            IF r = 0 THEN {} ELSE IF r <= row THEN color_static[r - 1] ELSE color_static[r]
    BY <1>1, <1>4, SweepStart
  <1>8. /\ CellsOf(Finished(coord_static)') = TheWell!Without(CellsOf(coord_static), row)
        /\ CellsOf(Finished(color_static)') = TheWell!Without(CellsOf(color_static), row)
    BY <1>1, <1>6, <1>7, RemovedCells
  <1>9. CellsOf(Finished(coord_static))' = CellsOf(Finished(coord_static)')
        /\ CellsOf(Finished(color_static))' = CellsOf(Finished(color_static)')
    BY DEF CellsOf
  <1>10. row \in TheWell!FullRows
    <2>1. TheWell!Row(row) \subseteq CellsOf(Finished(coord_static))
      BY <1>1, <1>2, FullRowsOfWell
    <2> QED BY <1>1, <2>1 DEF TheWell!FullRows
  <1>11. Phase = "clearing" /\ Phase' = "clearing"
    BY <1>2 DEF Phase
  <1> QED BY <1>1, <1>2, <1>3, <1>4, <1>8, <1>9, <1>10, <1>11 DEF TheWell!RemoveRow, scores

\* The row of the fourth block alone is full: it is smeared.
LEMMA WellSmear ==
    ASSUME GameInv, RowsInv, ClearTest, block = 4, Full(y[4])
    PROVE  TheWell!SmearRow
  <1> DEFINE row == y[4]
  <1>1. /\ row \in 0 .. Height /\ y[1] \in 0 .. Height
        /\ coord_static \in [Rows -> SUBSET Cols] /\ coord_static[row] = FullRow
        /\ current_shape = 0 /\ state = "CLEAR" /\ stage = 1
    BY DEF GameInv, TypeInv, TypeOK, Geometry, AboveFloor, Full, ClearTest, ShapeKnown, Blocks
  <1>2. \A r \in 0 .. Height : coord_static[r] = FullRow => r = row /\ r # y[1]
    <2>1. \A r \in 0 .. Height : Swept(r) = FullRow => ToTest(4, r)
      BY <1>1 DEF RowsInv, Landed, FullToTest
    <2>2. \A r \in 0 .. Height : Swept(r) = coord_static[r]
      BY <1>1 DEF Swept
    <2> QED BY <2>1, <2>2, ToTestCases
  <1>3. ~Full(y[1])
    BY <1>1, <1>2 DEF Full
  <1>4. /\ state' = "NEW_BLOCK" /\ stage' = 1 /\ UNCHANGED <<x, y, current_shape, scores>>
        /\ coord_static' = Shifted(Emptied(row), 1, row)
        /\ color_static' = Shifted(color_static, 1, row)
    BY <1>3 DEF ClearTest, DecidingBlock, piece
  <1>5. ~Pending /\ ~Pending'
    BY <1>1, <1>4 DEF Pending
  <1>6. /\ Finished(coord_static) = coord_static /\ Finished(color_static) = color_static
        /\ Finished(coord_static)' = coord_static' /\ Finished(color_static)' = color_static'
    BY <1>5 DEF Finished
  <1> HIDE DEF row
  <1>7. /\ CellsOf(coord_static') = TheWell!Smeared(CellsOf(coord_static) \ TheWell!Row(row), row)
        /\ CellsOf(color_static') = TheWell!Smeared(CellsOf(color_static), row)
    BY <1>1, <1>4, SmearOfStage, CellsOfEmptied
  <1>8. CellsOf(Finished(coord_static))' = CellsOf(Finished(coord_static)')
        /\ CellsOf(Finished(color_static))' = CellsOf(Finished(color_static)')
    BY DEF CellsOf
  <1>9. TheWell!FullRows = {row}
    <2>1. \A r \in 0 .. Height : (TheWell!Row(r) \subseteq CellsOf(Finished(coord_static)))
                                    <=> coord_static[r] = FullRow
      BY <1>1, FullRowsOfWell
    <2> QED BY <1>1, <1>2, <2>1 DEF TheWell!FullRows
  <1>10. Phase = "clearing" /\ Phase' = "play"
    BY <1>1, <1>4 DEF Phase
  <1> QED BY <1>1, <1>4, <1>5, <1>6, <1>7, <1>8, <1>9, <1>10 DEF TheWell!SmearRow, scores

\* No row is full at the fourth block: the removal is over.
LEMMA WellEnd ==
    ASSUME GameInv, RowsInv, ClearTest, block = 4, ~Full(y[4])
    PROVE  TheWell!EndClearing
  <1>1. /\ y[1] \in 0 .. Height /\ y[4] \in 0 .. Height
        /\ current_shape = 0 /\ state = "CLEAR" /\ stage = 1
    BY DEF GameInv, Geometry, AboveFloor, ClearTest, ShapeKnown, Blocks
  <1>2. \A r \in 0 .. Height : coord_static[r] # FullRow
    <2>1. \A r \in 0 .. Height : Swept(r) = FullRow => ToTest(4, r)
      BY <1>1 DEF RowsInv, Landed, FullToTest
    <2>2. \A r \in 0 .. Height : Swept(r) = coord_static[r]
      BY <1>1 DEF Swept
    <2>3. coord_static[y[4]] # FullRow
      BY <1>1, BoardFacts DEF Full, Rows
    <2> QED BY <2>1, <2>2, <2>3, ToTestCases
  <1>3. ~Full(y[1])
    BY <1>1, <1>2 DEF Full
  <1>4. /\ state' = "NEW_BLOCK" /\ stage' = 1
        /\ UNCHANGED <<x, y, current_shape, scores, board>>
    BY <1>3 DEF ClearTest, DecidingBlock, piece
  <1>5. ~Pending /\ ~Pending'
    BY <1>1, <1>4 DEF Pending
  <1>6. TheWell!FullRows = {}
    <2>1. \A r \in 0 .. Height : (TheWell!Row(r) \subseteq CellsOf(Finished(coord_static)))
                                    <=> coord_static[r] = FullRow
      BY <1>1, FullRowsOfWell
    <2> QED BY <1>2, <2>1 DEF TheWell!FullRows
  <1>7. Phase = "clearing" /\ Phase' = "play"
    BY <1>1, <1>4 DEF Phase
  <1> QED BY <1>1, <1>4, <1>5, <1>6, <1>7, WellRowsKept DEF TheWell!EndClearing, scores

\* The row of the block is not full: the next block is looked at.
LEMMA WellNextTest ==
    ASSUME GameInv, ClearTest, block < 4, ~Full(y[block])
    PROVE  UNCHANGED TheWell!vars
  <1>1. /\ state = "CLEAR" /\ stage = 1 /\ state' = "CLEAR" /\ stage' = 1
        /\ UNCHANGED <<x, y, current_shape, scores, board>>
    BY DEF ClearTest, DecidingBlock, piece, GameInv, TypeInv, TypeOK, Blocks
  <1>2. Phase' = Phase
    BY <1>1 DEF Phase
  <1> QED BY <1>1, <1>2, WellQuiet DEF Pending, scores

\* The stages that shift rows were seen in advance ...
LEMMA WellShift ==
    ASSUME GameInv, ClearShift
    PROVE  UNCHANGED TheWell!vars
  <1>1. /\ state = "CLEAR" /\ state' = "CLEAR" /\ stage \in 2 .. 4 /\ stage' = stage + 1
        /\ UNCHANGED <<block, x, y, current_shape, scores>>
        /\ coord_static' = Shifted(coord_static, stage, y[block])
        /\ color_static' = Shifted(color_static, stage, y[block])
        /\ y[block] \in 0 .. Height /\ current_shape = 0
    BY DEF ClearShift, piece, GameInv, TypeInv, TypeOK, Geometry, AboveFloor, ShapeKnown
  <1>2. Pending /\ Pending'
    BY <1>1 DEF Pending
  <1>3. /\ Finished(coord_static) = Sweep(coord_static, stage, y[block])
        /\ Finished(color_static) = Sweep(color_static, stage, y[block])
        /\ Finished(coord_static)' = Sweep(coord_static', stage + 1, y[block])
        /\ Finished(color_static)' = Sweep(color_static', stage + 1, y[block])
    BY <1>1, <1>2 DEF Finished, Sweep
  <1>4. ASSUME NEW r \in 0 .. Height
        PROVE  /\ Finished(coord_static)'[r] = Finished(coord_static)[r]
               /\ Finished(color_static)'[r] = Finished(color_static)[r]
    <2> DEFINE s == stage
               row == y[block]
    <2>1. s \in 2 .. 4 /\ row \in 0 .. Height
      BY <1>1
    <2> HIDE DEF s, row
    <2>2. /\ Sweep(Shifted(coord_static, s, row), s + 1, row)[r] = Sweep(coord_static, s, row)[r]
          /\ Sweep(Shifted(color_static, s, row), s + 1, row)[r] = Sweep(color_static, s, row)[r]
      BY <2>1, SweepOn
    <2> QED BY <1>1, <1>3, <2>2 DEF s, row
  <1>5. /\ CellsOf(Finished(coord_static))' = CellsOf(Finished(coord_static))
        /\ CellsOf(Finished(color_static))' = CellsOf(Finished(color_static))
    BY <1>4, CellsAgree DEF CellsOf
  <1>6. Phase' = Phase
    BY <1>1 DEF Phase
  <1> QED BY <1>1, <1>2, <1>5, <1>6 DEF TheWell!vars, scores

\* ... and so were the last of them and the score.
LEMMA WellLast ==
    ASSUME GameInv, ClearLast
    PROVE  UNCHANGED TheWell!vars
  <1> DEFINE row == y[block]
             f == Shifted(coord_static, 5, row)
             g == Shifted(color_static, 5, row)
  <1>1. /\ state = "CLEAR" /\ state' = "CLEAR" /\ stage = 5 /\ stage' = 1
        /\ UNCHANGED <<x, y, current_shape>>
        /\ current_score' = RowScore /\ accu' = (accu + 1) % ScoreMod
        /\ coord_static' = [f EXCEPT ![0] = EmptyRow]
        /\ color_static' = [g EXCEPT ![0] = {}]
        /\ row \in 0 .. Height /\ current_shape = 0
    BY DEF ClearLast, Retest, piece, GameInv, TypeInv, TypeOK, Geometry, AboveFloor, ShapeKnown
  <1>2. Pending /\ ~Pending'
    BY <1>1 DEF Pending
  <1>3. /\ Finished(coord_static) = Sweep(coord_static, 5, row)
        /\ Finished(color_static) = Sweep(color_static, 5, row)
        /\ Finished(coord_static)' = coord_static' /\ Finished(color_static)' = color_static'
    BY <1>1, <1>2 DEF Finished, Sweep
  <1>4. /\ DOMAIN f = Rows /\ DOMAIN g = Rows /\ 0 \in Rows
        /\ \A r \in 0 .. Height : r \in Rows
    BY BoardFacts DEF Shifted, Rows
  <1>5. ASSUME NEW r \in 0 .. Height, r # 0
        PROVE  /\ f[r] = Sweep(coord_static, 5, row)[r]
               /\ g[r] = Sweep(color_static, 5, row)[r]
    BY <1>1, <1>5, SweepEnd
  <1>6. Sweep(coord_static, 5, row)[0] = {} /\ Sweep(color_static, 5, row)[0] = {}
    BY <1>4 DEF Sweep
  <1> HIDE DEF row, f, g
  <1>7. \A r \in 0 .. Height : /\ coord_static'[r] = IF r = 0 THEN EmptyRow ELSE f[r]
                               /\ color_static'[r] = IF r = 0 THEN {} ELSE g[r]
    BY <1>1, <1>4
  <1>8. \A c \in 1 .. Width : c \notin EmptyRow
    BY BoardFacts DEF EmptyRow
  <1>9. \A r \in 0 .. Height, c \in 1 .. Width :
            /\ c \in coord_static'[r] <=> c \in Finished(coord_static)[r]
            /\ c \in color_static'[r] <=> c \in Finished(color_static)[r]
    BY <1>3, <1>5, <1>6, <1>7, <1>8
  <1>10. /\ CellsOf(coord_static') = CellsOf(Finished(coord_static))
         /\ CellsOf(color_static') = CellsOf(Finished(color_static))
    BY <1>9, CellsAgree
  <1>11. /\ CellsOf(Finished(coord_static))' = CellsOf(Finished(coord_static))
         /\ CellsOf(Finished(color_static))' = CellsOf(Finished(color_static))
    BY <1>3, <1>10 DEF CellsOf
  <1>12. Phase' = Phase
    BY <1>1 DEF Phase
  <1> QED BY <1>1, <1>2, <1>11, <1>12 DEF TheWell!vars, RowScore

-----------------------------------------------------------------------------
\* INTER ends the game, starts to clear, or does nothing to the well.
LEMMA WellInter ==
    ASSUME RequestInv, RowsInv, NEW key \in Keys, Inter(key)
    PROVE  [TheWell!Next]_(TheWell!vars)
  <1>1. /\ state = "INTER" /\ state' = InterNext(key)
        /\ UNCHANGED <<x, y, current_shape, current_score, board, block, stage>> /\ accu' = 1
    BY DEF Inter, Goto, piece
  <1>2. ~Pending
    BY <1>1 DEF Pending
  <1>3. CASE state' = "GAMEOVER"
    <2>1. ~TopRowsEmpty
      BY <1>1, <1>3 DEF InterNext
    <2>2. current_shape = 0 /\ TheWell!TopDirty
      BY <1>1, <2>1, TopOfWell DEF RequestInv, EndsLanded
    <2>3. Phase = "landed" /\ Phase' = "idle" /\ ~Pending'
      BY <1>1, <1>3, <2>2 DEF Phase, Pending
    <2> QED BY <1>1, <1>2, <1>3, <2>2, <2>3, WellRowsKept DEF TheWell!TopOut, TheWell!Next
  <1>4. CASE state' = "CLEAR"
    <2>1. TopRowsEmpty /\ current_shape = 0
      BY <1>1, <1>4 DEF InterNext
    <2>2. ~TheWell!TopDirty
      BY <1>1, <2>1, TopOfWell DEF RequestInv
    <2>3. Phase = "landed" /\ Phase' = "clearing" /\ ~Pending'
      BY <1>1, <1>4, <2>1 DEF Phase, Pending, RowsInv
    <2> QED BY <1>1, <1>2, <1>4, <2>1, <2>2, <2>3, WellRowsKept DEF TheWell!StartClearing, TheWell!Next
  <1>5. CASE state' \notin {"GAMEOVER", "CLEAR"}
    <2>1. ~Pending' /\ Phase' = Phase
      BY <1>1, <1>5 DEF InterNext, Phase, Pending, Keys
    <2> QED BY <1>1, <1>2, <1>5, <2>1, WellQuiet
  <1> QED BY <1>3, <1>4, <1>5

\* The states between two games, the pause, and those that wait for the
\* software or for a key to be released.
LEMMA WellWaits ==
    ASSUME RequestInv, RowsInv, NEW key \in Keys, NEW shape \in Shapes, NEW sig \in BOOLEAN,
           \/ Start(key) \/ GameOver(key) \/ Pause(key)
           \/ Release("AFTERLEFT", "left", key)
           \/ Release("AFTERRIGHT", "right", key)
           \/ Release("AFTERROTATE", "up", key)
           \/ BeforeNew(sig) \/ NewNext(shape) \/ RotateChoose
    PROVE  UNCHANGED TheWell!vars
  <1>1. /\ UNCHANGED <<board, x, y, current_shape, current_score, accu>>
        /\ state # "CLEAR" /\ state' # "CLEAR"
    BY DEF Start, GameOver, Pause, Release, BeforeNew, NewNext, RotateChoose, Goto, piece, scores
  <1>2. Phase' = Phase
    <2>1. CASE Start(key) \/ GameOver(key)
      BY <2>1 DEF Start, GameOver, Goto, Phase
    <2>2. CASE Pause(key)
      BY <2>2 DEF Pause, Goto, Phase
    <2>3. CASE \/ Release("AFTERLEFT", "left", key)
               \/ Release("AFTERRIGHT", "right", key)
               \/ Release("AFTERROTATE", "up", key)
      BY <2>3 DEF Release, Goto, Phase, RequestInv, GameInv, ShapeKnown, Steering
    <2>4. CASE BeforeNew(sig) \/ NewNext(shape)
      BY <2>4 DEF BeforeNew, NewNext, Goto, Phase, RequestInv, GameInv, ShapeKnown
    <2>5. CASE RotateChoose
      BY <2>5 DEF RotateChoose, Goto, Phase, RequestInv, GameInv, ShapeKnown, Steering
    <2> QED BY <2>1, <2>2, <2>3, <2>4, <2>5
  <1> QED BY <1>1, <1>2, WellQuiet DEF Pending

LEMMA WellNewGame ==
    ASSUME ResetBoard
    PROVE  TheWell!NewGame
  <1>1. /\ state = "RESET" /\ state' = "NEW_BLOCK" /\ current_shape' = 0 /\ current_score' = 0
        /\ \A r \in 0 .. Height : coord_static'[r] = EmptyRow /\ color_static'[r] = {}
    BY BoardFacts DEF ResetBoard, Goto, Rows
  <1>2. ~Pending' /\ Phase = "idle" /\ Phase' = "play"
    BY <1>1 DEF Pending, Phase
  <1>3. \A c \in 1 .. Width : c \notin EmptyRow
    BY BoardFacts DEF EmptyRow
  <1>4. CellsOf(coord_static') = {} /\ CellsOf(color_static') = {}
    BY <1>1, <1>3 DEF CellsOf
  <1>5. CellsOf(Finished(coord_static))' = {} /\ CellsOf(Finished(color_static))' = {}
    BY <1>2, <1>4 DEF CellsOf, Finished
  <1> QED BY <1>1, <1>2, <1>5 DEF TheWell!NewGame

LEMMA WellReset ==
    ASSUME Reset
    PROVE  TheWell!Reset
  <1>1. ~Pending' /\ Phase' = "idle"
    BY DEF Reset, Pending, Phase
  <1>2. CellsOf(Finished(coord_static))' = {} /\ CellsOf(Finished(color_static))' = {}
    BY <1>1, BoardFacts DEF Reset, CellsOf, Finished, NoRows, Rows
  <1> QED BY <1>1, <1>2 DEF Reset, TheWell!Reset

LEMMA WellStep ==
    ASSUME RequestInv, RequestInv', RowsInv, [Next]_vars
    PROVE  [TheWell!Next]_(TheWell!vars)
  <1>1. GameInv /\ GameInv'
    BY DEF RequestInv
  <1>2. ASSUME NEW key \in Keys, Inter(key)
        PROVE  [TheWell!Next]_(TheWell!vars)
    BY <1>2, WellInter
  <1>3. ASSUME NEW key \in Keys,
               \/ Start(key) \/ GameOver(key) \/ Pause(key)
               \/ Release("AFTERLEFT", "left", key)
               \/ Release("AFTERRIGHT", "right", key)
               \/ Release("AFTERROTATE", "up", key)
        PROVE  [TheWell!Next]_(TheWell!vars)
    <2>1. PICK shape : shape \in Shapes
      BY BoardAssumption
    <2> QED BY <1>3, <2>1, WellWaits
  <1>4. ASSUME NEW sig \in BOOLEAN, BeforeNew(sig)
        PROVE  [TheWell!Next]_(TheWell!vars)
    <2>1. PICK shape : shape \in Shapes
      BY BoardAssumption
    <2>2. "none" \in Keys
      BY DEF Keys
    <2> QED BY <1>4, <2>1, <2>2, WellWaits
  <1>5. ASSUME NEW shape \in Shapes, NewNext(shape)
        PROVE  [TheWell!Next]_(TheWell!vars)
    <2>1. "none" \in Keys /\ TRUE \in BOOLEAN
      BY DEF Keys
    <2> QED BY <1>5, <2>1, WellWaits
  <1>6. CASE RotateChoose
    <2>1. PICK shape : shape \in Shapes
      BY BoardAssumption
    <2>2. "none" \in Keys /\ TRUE \in BOOLEAN
      BY DEF Keys
    <2> QED BY <1>6, <2>1, <2>2, WellWaits
  <1>7. ASSUME NEW shape \in Shapes, NewBlock(shape)
        PROVE  [TheWell!Next]_(TheWell!vars)
    BY <1>1, <1>7, WellAppear DEF TheWell!Next
  <1>8. CASE MoveLeft \/ MoveRight \/ Rotate \/ (MoveDown /\ Fall)
    <2>1. /\ UNCHANGED <<current_shape, board, current_score>>
          /\ state \in Steering /\ state' \in {"AFTERLEFT", "AFTERRIGHT", "AFTERROTATE", "INTER"}
      BY <1>8 DEF MoveLeft, MoveRight, Rotate, MoveDown, Fall, Goto, Steering, scores
    <2>2. current_shape # 0
      BY <1>1, <2>1 DEF GameInv, ShapeKnown
    <2>3. /\ state # "CLEAR" /\ state' # "CLEAR" /\ Phase = "play" /\ Phase' = "play"
      BY <2>1, <2>2 DEF Phase, Steering
    <2>4. Walled /\ ~Pending
      BY <1>1, <2>1, <2>3 DEF GameInv, WallsIntact, Walled, Pending, Steering
    <2>5. CASE UNCHANGED <<x, y>>
      <3>1. Phase' = Phase /\ ~Pending'
        BY <2>3 DEF Pending
      <3> QED BY <2>1, <2>3, <2>4, <2>5, <3>1, WellQuiet
    <2>6. ASSUME NEW dx \in -1 .. 1, NEW dy \in 0 .. 1, dx = 0 <=> dy # 0,
                 \A b \in Blocks : MayBeClear(Target(b, <<dx, dy>>)), MoveBy(Together(dx, dy))
          PROVE  [TheWell!Next]_(TheWell!vars)
      <3>1. TheWell!Shift(PieceCells, PieceCells', Free)
        BY <1>1, <2>2, <2>4, <2>6, WellTranslates
      <3> QED BY <1>1, <2>1, <2>2, <2>3, <3>1, WellSteer DEF TheWell!Next
    <2>7. CASE MoveLeft \/ MoveRight \/ (MoveDown /\ Fall)
      <3>1. \A dx, dy : Together(dx, dy) = [b \in Blocks |-> <<dx, dy>>]
        BY DEF Together
      <3>2. \A dx, dy : \A b \in Blocks : Together(dx, dy)[b] = <<dx, dy>>
        BY <3>1
      <3>3. CASE MoveLeft
        BY <2>5, <2>6, <3>2, <3>3 DEF MoveLeft, MoveIfClear
      <3>4. CASE MoveRight
        BY <2>5, <2>6, <3>2, <3>4 DEF MoveRight, MoveIfClear
      <3>5. CASE MoveDown /\ Fall
        BY <2>6, <3>5 DEF Fall
      <3> QED BY <2>7, <3>3, <3>4, <3>5
    <2>8. CASE Rotate
      <3>1. CASE UNCHANGED piece
        BY <2>5, <3>1 DEF piece
      <3>2. CASE /\ \A b \in Blocks : MayBeClear(Probe(current_shape, rotate_counter, b))
                 /\ MoveBy(Turn(current_shape, rotate_counter))
        <4>1. current_shape \in {I, J, L, S, T, Z}
          BY <1>1, <2>8 DEF Rotate, Goto, GameInv, TypeInv, TurnsOnly
        <4>2. CASE current_shape = L
          BY <1>1, <2>1, <2>2, <2>3, <2>4, <3>2, <4>2, WellTurnsEll, WellSteer DEF TheWell!Next
        <4>3. CASE current_shape # L
          <5>1. current_shape \in {I, J, S, T, Z}
            BY <4>1, <4>3
          <5>2. TheWell!Turn(PieceCells, PieceCells', Free)
            BY <1>1, <2>4, <3>2, <5>1, WellTurns
          <5> QED BY <1>1, <2>1, <2>2, <2>3, <5>2, WellSteer DEF TheWell!Next
        <4> QED BY <4>2, <4>3
      <3> QED BY <2>8, <3>1, <3>2 DEF Rotate
    <2> QED BY <1>8, <2>7, <2>8
  <1>9. CASE MoveDown /\ Land
    BY <1>1, <1>9, WellLand DEF TheWell!Next
  <1>10. CASE ClearTest
    <2>1. block \in Blocks
      BY <1>1 DEF GameInv, TypeInv, TypeOK
    <2>2. CASE block < 4 /\ Full(y[block])
      BY <1>1, <1>10, <2>2, WellRemove DEF TheWell!Next
    <2>3. CASE block < 4 /\ ~Full(y[block])
      BY <1>1, <1>10, <2>3, WellNextTest
    <2>4. CASE block = 4 /\ Full(y[4])
      BY <1>1, <1>10, <2>4, WellSmear DEF TheWell!Next
    <2>5. CASE block = 4 /\ ~Full(y[4])
      BY <1>1, <1>10, <2>5, WellEnd DEF TheWell!Next
    <2> QED BY <2>1, <2>2, <2>3, <2>4, <2>5 DEF Blocks
  <1>11. CASE ClearShift \/ ClearLast
    BY <1>1, <1>11, WellShift, WellLast
  <1>12. CASE ResetBoard
    BY <1>12, WellNewGame DEF TheWell!Next
  <1>13. CASE Reset
    BY <1>13, WellReset DEF TheWell!Next
  <1>14. CASE UNCHANGED vars
    BY <1>14 DEF vars, piece, scores, board, TheWell!vars, Phase, Pending, CellsOf, Finished, PieceCells
  <1> QED BY <1>2, <1>3, <1>4, <1>5, <1>6, <1>7, <1>8, <1>9, <1>10, <1>11, <1>12, <1>13, <1>14
          DEF Next, Frame, MoveDown

(***************************************************************************)
(* Every behaviour of the game machine is one of the well: a key moves the  *)
(* piece by one step, or turns it by a quarter, into free cells (an L turns *)
(* blindly), it joins the well where it rests, full rows leave it one at a  *)
(* time and score 1, 2, 3, ... within one landing, the game ends exactly    *)
(* when the stack reaches the top after a landing, and the one removal that *)
(* goes wrong (CLEAR4_1 tests the row of the first block) happens only as   *)
(* SmearRow says (logic.sv:137-1106).                                       *)
(***************************************************************************)
THEOREM WellImplemented == Spec => ImplementsWell
  <1>1. RequestInv /\ RowsInv /\ [Next]_vars => RequestInv' /\ RowsInv'
    BY RequestInvStep, RowsStep DEF RequestInv
  <1>2. RequestInv /\ RequestInv' /\ RowsInv /\ [Next]_vars => [TheWell!Next]_(TheWell!vars)
    BY WellStep
  <1> QED BY <1>1, <1>2, RequestInvInit, RowsInit, WellInit, PTL
          DEF Spec, ImplementsWell, TheWell!Spec
=============================================================================
