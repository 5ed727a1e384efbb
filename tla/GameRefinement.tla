---------------------------- MODULE GameRefinement --------------------------
(***************************************************************************)
(* The game machine of src/logic.sv implements the well that its player     *)
(* sees (Well) and the requests that its software sees (PieceRequest).      *)
(*                                                                         *)
(* While CLEARk_2 .. CLEARk_5 are still shifting rows the well is already   *)
(* what it will be when they have finished, and the row is already scored.  *)
(***************************************************************************)
EXTENDS Blocklogic

Pending == state = "CLEAR" /\ stage > 1

\* The rows f once the stages that are still to come have shifted them.
Finished(f) ==
    IF ~Pending THEN f
    ELSE [r \in Rows |->
            IF r = 0 THEN {}
            ELSE IF r <= (6 - stage) * Stripe /\ r <= y[block] THEN f[r - 1]
            ELSE f[r]]

CellsOf(f) == {cell \in (0 .. Height) \X (1 .. Width) : cell[2] \in f[cell[1]]}

PieceCells == {cell \in (0 .. Height) \X (1 .. Width) :
                 \E b \in Blocks : cell = <<y[b], x[b]>>}

Phase == CASE state \in {"START", "RESET", "GAMEOVER"} -> "idle"
           [] state = "CLEAR" -> "clearing"
           [] state \in {"INTER", "PAUSE"} /\ current_shape = 0 -> "landed"
           [] OTHER -> "play"

TheWell == INSTANCE Well WITH
    Height  <- Height,
    Kept    <- 4 * Stripe,
    phase   <- Phase,
    well    <- CellsOf(Finished(coord_static)),
    painted <- CellsOf(Finished(color_static)),
    falling <- IF current_shape = 0 THEN {} ELSE PieceCells,
    score   <- IF Pending THEN (current_score + accu) % ScoreMod ELSE current_score,
    combo   <- IF Pending THEN (accu + 1) % ScoreMod
               ELSE IF state = "CLEAR" THEN accu ELSE 1

\* Every behaviour of the game machine, seen through the mapping, is one of
\* the well (logic.sv, the whole of the two always_comb blocks).
ImplementsWell == TheWell!Spec

-----------------------------------------------------------------------------
Asking == {"START", "RESET", "NEW_BLOCK", "BEFORENEW", "NEWNEXT"}

TheRequests == INSTANCE PieceRequest WITH
    Numbers <- Shapes,
    request <- IF state \in Asking THEN state ELSE "PLAY",
    spawned <- current_shape,
    preview <- next_static

\* The game asks for a shape, and takes it, at the points of its protocol with
\* the software only (logic.sv:137-338, 857-859, 1092-1106).
ImplementsPieceRequest == TheRequests!SpecRequest
=============================================================================
