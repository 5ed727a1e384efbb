---------------------------- MODULE PieceSupply -----------------------------
(***************************************************************************)
(* The supply of random pieces: the game machine (PieceRequest), clocked by *)
(* the frames, and the main loop of src/software/usb_kb/main.c, running on  *)
(* the Nios processor, share three I/O ports without any locking.           *)
(*   random_needed  a wire: the software reads to_sw_sig as it is           *)
(*   random_number  a register written by the software                      *)
(*   random_ready   a register written by the software (from_sw_sig)        *)
(* Frames and software steps interleave.  An iteration of the main loop may *)
(* take any time - it waits for the USB transfer, and for ever while the    *)
(* keyboard is unplugged - but between reading random_needed and writing    *)
(* random_number there is only the choice of a number, so at most Slack     *)
(* frames can begin there.                                                 *)
(***************************************************************************)
EXTENDS PieceRequest

CONSTANT Slack

ASSUME SupplyAssumption == Slack \in Nat /\ 1 .. 7 \subseteq Numbers /\ 0 \in Numbers

VARIABLES
    random_number, random_ready,
    pc,         \* the next step of the software: "poll", "number", "ready" or "clear"
    prev,       \* the last choice, 7 before the first one
    temp,       \* the choice in this iteration
    edges,      \* frames begun since random_needed was read
    promise     \* history: the number last shown in the preview, 0 if none holds

hardware == <<request, spawned, preview>>
software == <<random_number, random_ready, pc, prev, temp>>
supplyVars == <<hardware, software, edges, promise>>

TypeOK ==
    /\ request \in Requests /\ spawned \in 0 .. 7 /\ preview \in Numbers
    /\ random_number \in Numbers /\ random_ready \in BOOLEAN
    /\ pc \in {"poll", "number", "ready", "clear"}
    /\ prev \in 0 .. 7 /\ temp \in 0 .. 6
    /\ edges \in 0 .. Slack /\ promise \in Numbers

Init == /\ InitRequest
        /\ random_number = 0 /\ random_ready = FALSE
        /\ pc = "poll" /\ prev = 7 /\ temp = 0
        /\ edges = 0 /\ promise = 0

-----------------------------------------------------------------------------
(* The software: main.c:532-576.  The rest of the loop, between two rounds    *)
(* of these steps, does not touch the three ports.                         *)

ChooseAny(random) == random     \* mutant: the last choice is not looked at

\* A random number, or the one after it when it is the last choice again.
Choose(random) == IF random = prev THEN (random + 1) % 7 ELSE random

ReadNeededAlways ==             \* mutant: a number is drawn in every iteration
    /\ pc = "poll" /\ pc' = "number"
    /\ \E random \in 0 .. 6 : temp' = Choose(random) /\ prev' = Choose(random)
    /\ edges' = 0
    /\ UNCHANGED <<hardware, random_number, random_ready, promise>>

ReadNeeded ==
    /\ pc = "poll"
    /\ IF Needed
       THEN /\ \E random \in 0 .. 6 : temp' = Choose(random) /\ prev' = Choose(random)
            /\ pc' = "number"
       ELSE pc' = "clear" /\ UNCHANGED <<temp, prev>>
    /\ edges' = 0
    /\ UNCHANGED <<hardware, random_number, random_ready, promise>>

WriteNumber ==
    /\ pc = "number" /\ pc' = "ready"
    /\ random_number' = temp + 1
    /\ edges' = 0
    /\ UNCHANGED <<hardware, random_ready, prev, temp, promise>>

WriteReadyNever ==              \* mutant: the answer is not flagged
    /\ pc = "ready" /\ pc' = "poll"
    /\ UNCHANGED <<hardware, random_ready, random_number, prev, temp, edges, promise>>

WriteReady ==
    /\ pc = "ready" /\ pc' = "poll"
    /\ random_ready' = TRUE
    /\ UNCHANGED <<hardware, random_number, prev, temp, edges, promise>>

ClearBoth ==                    \* mutant: the number is cleared with the flag
    /\ pc = "clear" /\ pc' = "poll"
    /\ random_ready' = FALSE /\ random_number' = 0
    /\ UNCHANGED <<hardware, prev, temp, edges, promise>>

ClearReady ==
    /\ pc = "clear" /\ pc' = "poll"
    /\ random_ready' = FALSE
    /\ UNCHANGED <<hardware, random_number, prev, temp, edges, promise>>

Software == ReadNeeded \/ WriteNumber \/ WriteReady \/ ClearReady

-----------------------------------------------------------------------------
(* The frames: the game machine samples the two registers. *)

\* A frame begins; it is not the one more than Slack in the middle of a choice.
Tick == IF pc = "number" THEN edges < Slack /\ edges' = edges + 1 ELSE UNCHANGED edges

Frame == /\ Tick
         /\ UNCHANGED software
         /\ \/ Enter \/ Prepare \/ LandPiece \/ NextPiece
            \/ Draw(random_number)
            \/ random_ready /\ Answered
         /\ UNCHANGED promise

ShowPreview == /\ Tick
               /\ UNCHANGED software
               /\ Preview(random_number)
               /\ promise' = random_number

\* Frames in which the machine waits: for enter, for the software, for the player.
Wait == /\ Tick
        /\ UNCHANGED software
        /\ \/ request \in {"START", "PLAY"}
           \/ request = "BEFORENEW" /\ ~random_ready
        /\ UNCHANGED <<hardware, promise>>

\* KEY[3] resets the game machine alone.
ResetGame == /\ ResetRequest
             /\ promise' = 0
             /\ UNCHANGED <<software, edges>>

\* KEY[0] restarts the processor and clears its ports, but not the game machine.
ResetNios == /\ random_number' = 0 /\ random_ready' = FALSE
             /\ pc' = "poll" /\ prev' = 7 /\ temp' = 0
             /\ edges' = 0 /\ promise' = 0
             /\ UNCHANGED hardware

Next == Software \/ Frame \/ ShowPreview \/ Wait \/ ResetGame \/ ResetNios

Spec == Init /\ [][Next]_supplyVars

(***************************************************************************)
(* The frames go on, the main loop goes on (the keyboard stays plugged in), *)
(* and after some time nobody presses KEY[0] any more.                      *)
(***************************************************************************)
FairSpec == /\ Spec
            /\ <>[][~ResetNios]_supplyVars
            /\ WF_supplyVars(Frame \/ ShowPreview)
            /\ WF_supplyVars(Software)

-----------------------------------------------------------------------------
(* Properties. *)

(***************************************************************************)
(* The piece that spawns is the one the preview showed, although the number *)
(* is written without regard to the frame in which it is sampled            *)
(* (main.c:532-576; logic.sv:161-338, 857-859).  KEY[0] breaks the promise. *)
(***************************************************************************)
PreviewHonest ==
    [][(request = "NEW_BLOCK" /\ request' = "BEFORENEW" /\ promise # 0)
         => spawned' = ShapeOf(promise)]_supplyVars

(***************************************************************************)
(* While a shown preview waits for its turn the number does not change, nor *)
(* is the software about to change it.                                     *)
(***************************************************************************)
NumberHeld ==
    (promise # 0 /\ request \in {"PLAY", "NEW_BLOCK"}) =>
        random_number = promise /\ pc # "number"

\* The software never makes the same choice twice in a row (main.c:534-539).
ChoiceChanges == [][pc = "poll" /\ pc' = "number" => prev' # prev]_supplyVars

(***************************************************************************)
(* A game that asks for a number gets on, whatever is left in random_ready  *)
(* from before (main.c:571-575, logic.sv:944-948).                         *)
(***************************************************************************)
RequestAnswered == request = "BEFORENEW" ~> request # "BEFORENEW"

=============================================================================
