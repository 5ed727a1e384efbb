---------------------------- MODULE PieceRequest ----------------------------
(***************************************************************************)
(* The game machine of src/logic.sv as the software that supplies the       *)
(* pieces sees it: it asks (to_sw_sig) in START and BEFORENEW, takes the    *)
(* number once for the piece (NEW_BLOCK) and once for the preview           *)
(* (NEWNEXT), and spends the rest of its time playing.                     *)
(***************************************************************************)
EXTENDS Integers

CONSTANT Numbers        \* the values of the random number   (code: 0 .. 7)

ASSUME NumbersAssumption == Numbers \subseteq 0 .. 7

VARIABLES
    request,    \* "START", "RESET", "NEW_BLOCK", "BEFORENEW", "NEWNEXT" or "PLAY"
    spawned,    \* the shape of the piece in play, 0 when there is none
    preview     \* the number drawn in the preview box

requestVars == <<request, spawned, preview>>

Requests == {"START", "RESET", "NEW_BLOCK", "BEFORENEW", "NEWNEXT", "PLAY"}

\* The signal to_sw_sig, which the software reads as random_needed.
Needed == request \in {"START", "BEFORENEW"}

\* The shape of a number; 0 makes an I like 1.
ShapeOf(number) == IF number = 0 THEN 1 ELSE number

InitRequest == request = "START" /\ spawned = 0 /\ preview = 0

ResetRequest == request' = "START" /\ spawned' = 0 /\ preview' = 0

\* The enter key, at the title or when the last piece landed at the top.
Enter == /\ \/ request = "START"
            \/ request = "PLAY" /\ spawned = 0
         /\ request' = "RESET"
         /\ UNCHANGED <<spawned, preview>>

Prepare == /\ request = "RESET" /\ request' = "NEW_BLOCK"
           /\ spawned' = 0 /\ UNCHANGED preview

Draw(number) == /\ request = "NEW_BLOCK" /\ request' = "BEFORENEW"
                /\ spawned' = ShapeOf(number) /\ UNCHANGED preview

Answered == /\ request = "BEFORENEW" /\ request' = "NEWNEXT"
            /\ UNCHANGED <<spawned, preview>>

Preview(number) == /\ request = "NEWNEXT" /\ request' = "PLAY"
                   /\ preview' = number /\ UNCHANGED spawned

\* The piece lands, and when no row is left to remove the next one is drawn.
LandPiece == /\ request = "PLAY" /\ spawned # 0 /\ spawned' = 0
             /\ UNCHANGED <<request, preview>>

NextPiece == /\ request = "PLAY" /\ spawned = 0 /\ request' = "NEW_BLOCK"
             /\ UNCHANGED <<spawned, preview>>

NextRequest == \/ ResetRequest \/ Enter \/ Prepare \/ Answered \/ LandPiece \/ NextPiece
               \/ \E number \in Numbers : Draw(number) \/ Preview(number)

SpecRequest == InitRequest /\ [][NextRequest]_requestVars
=============================================================================
