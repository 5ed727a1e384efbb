-------------------------- MODULE PieceSupplyProofs -------------------------
(***************************************************************************)
(* The proof that the piece that spawns is the one the preview showed, for  *)
(* a software that misses at most one frame between reading random_needed   *)
(* and writing random_number.                                              *)
(*                                                                         *)
(* NumberHeld is not inductive: it says nothing of the states in which the  *)
(* software has already seen a request and has not answered yet.  Such a    *)
(* request is at most one frame old, so the machine is still at it or has   *)
(* just left it, and no preview is being relied on.                        *)
(***************************************************************************)
EXTENDS PieceSupply, TLAPS

\* A request being answered is fresh: at most one frame has passed since it
\* was read.
Fresh == pc = "number" => /\ request \in {"START", "RESET", "BEFORENEW", "NEWNEXT"}
                          /\ edges = 0 => Needed

\* The number stays as it was shown until the piece is drawn, also while a
\* game that is over is started again; and there is no preview at the title.
Held == /\ request = "START" => promise = 0
        /\ (promise # 0 /\ request \in {"RESET", "PLAY", "NEW_BLOCK"}) =>
              random_number = promise /\ pc # "number"

SupplyInv == TypeOK /\ Fresh /\ Held

\* The number of a choice is one the hardware can hold.
LEMMA NumberRange == ASSUME NEW t \in 0 .. 6
                     PROVE  t + 1 \in Numbers /\ t + 1 # 0
  BY SupplyAssumption

\* Choosing stays within the seven shapes.
LEMMA ChoiceRange == ASSUME NEW random \in 0 .. 6, prev \in 0 .. 7
                     PROVE  Choose(random) \in 0 .. 6 /\ Choose(random) # prev
  <1>1. CASE random = prev /\ random = 6
    BY <1>1, 7 % 7 = 0 DEF Choose
  <1>2. CASE random = prev /\ random # 6
    <2>1. (random + 1) % 7 = random + 1  BY <1>2
    <2> QED  BY <2>1, <1>2 DEF Choose
  <1>3. CASE random # prev
    BY <1>3 DEF Choose
  <1> QED  BY <1>1, <1>2, <1>3

\* The supply starts with nothing asked, chosen or shown.
LEMMA SupplyInit == Init => SupplyInv
  <1> SUFFICES ASSUME Init PROVE SupplyInv  OBVIOUS
  <1>1. random_ready \in BOOLEAN  BY Zenon DEF Init
  <1> QED
    BY <1>1, SupplyAssumption, NumbersAssumption
    DEF Init, InitRequest, SupplyInv, TypeOK, Fresh, Held, Requests, Needed

\* No step of the software, the frames or the buttons breaks the invariant.
LEMMA SupplyStep ==
  ASSUME Slack <= 1, SupplyInv, [Next]_supplyVars
  PROVE  SupplyInv'
  <1> USE DEF SupplyInv, Requests, hardware, software, requestVars
  <1>1. CASE ReadNeeded
    <2>1. CASE Needed
      <3>1. PICK random \in 0 .. 6 : temp' = Choose(random) /\ prev' = Choose(random)
        BY <1>1, <2>1 DEF ReadNeeded
      <3>2. Choose(random) \in 0 .. 6  BY <3>1, ChoiceRange DEF TypeOK
      <3>3. TypeOK'
        BY <1>1, <2>1, <3>1, <3>2, SupplyAssumption DEF ReadNeeded, TypeOK
      <3>4. Fresh' /\ Held'
        BY <1>1, <2>1 DEF ReadNeeded, Fresh, Held, Needed
      <3> QED  BY <3>3, <3>4
    <2>2. CASE ~Needed
      BY <1>1, <2>2, SupplyAssumption DEF ReadNeeded, TypeOK, Fresh, Held
    <2> QED  BY <2>1, <2>2
  <1>2. CASE WriteNumber
    BY <1>2, NumberRange, SupplyAssumption DEF WriteNumber, TypeOK, Fresh, Held
  <1>3. CASE WriteReady
    BY <1>3 DEF WriteReady, TypeOK, Fresh, Held
  <1>4. CASE ClearReady
    BY <1>4 DEF ClearReady, TypeOK, Fresh, Held
  <1>5. CASE Frame
    <2>1. edges' \in 0 .. Slack /\ (pc = "number" => edges = 0 /\ Needed)
      BY <1>5, SupplyAssumption DEF Frame, Tick, TypeOK, Fresh
    <2>2. TypeOK'
      <3>1. spawned' \in 0 .. 7 /\ preview' = preview /\ request' \in Requests
        BY <1>5, NumbersAssumption
        DEF Frame, Enter, Prepare, LandPiece, NextPiece, Draw, Answered, ShapeOf, TypeOK
      <3> QED  BY <1>5, <2>1, <3>1 DEF Frame, TypeOK
    <2>3. Fresh'
      BY <1>5, <2>1 
      DEF Frame, Tick, Enter, Prepare, LandPiece, NextPiece, Draw, Answered, Needed, Fresh, TypeOK
    <2>4. Held'
      BY <1>5, <2>1
      DEF Frame, Enter, Prepare, LandPiece, NextPiece, Draw, Answered, Needed, Fresh, Held
    <2> QED  BY <2>2, <2>3, <2>4
  <1>6. CASE ShowPreview
    <2>1. pc # "number"
      BY <1>6, SupplyAssumption DEF ShowPreview, Tick, Preview, Fresh, TypeOK, Needed
    <2> QED
      BY <1>6, <2>1 DEF ShowPreview, Tick, Preview, TypeOK, Fresh, Held
  <1>7. CASE Wait
    BY <1>7, SupplyAssumption DEF Wait, Tick, TypeOK, Fresh, Held, Needed
  <1>8. CASE ResetGame
    BY <1>8, SupplyAssumption DEF ResetGame, ResetRequest, TypeOK, Fresh, Held, Needed
  <1>9. CASE ResetNios
    <2>1. random_ready' \in BOOLEAN  BY <1>9, Zenon DEF ResetNios
    <2> QED
      BY <1>9, <2>1, SupplyAssumption DEF ResetNios, TypeOK, Fresh, Held, Needed
  <1>10. CASE UNCHANGED supplyVars
    BY <1>10 DEF supplyVars, TypeOK, Fresh, Held, Needed
  <1> QED
    BY <1>1, <1>2, <1>3, <1>4, <1>5, <1>6, <1>7, <1>8, <1>9, <1>10 DEF Next, Software

(***************************************************************************)
(* With at most one frame between reading random_needed and writing         *)
(* random_number (main.c:532-566), the number shown in the preview stays in *)
(* its register until the piece is drawn.                                  *)
(***************************************************************************)
THEOREM NumberStaysHeld == ASSUME Slack <= 1 PROVE Spec => []NumberHeld
  <1>1. SupplyInv => NumberHeld  BY DEF SupplyInv, Held, NumberHeld
  <1>2. SupplyInv /\ [Next]_supplyVars => SupplyInv'  BY SupplyStep
  <1> QED  BY <1>1, <1>2, SupplyInit, PTL DEF Spec

(***************************************************************************)
(* Under the same bound the piece that spawns is the one the preview showed *)
(* (logic.sv:161-338 samples the register twice, NEW_BLOCK and NEWNEXT).    *)
(***************************************************************************)
THEOREM PreviewIsHonest == ASSUME Slack <= 1 PROVE Spec => PreviewHonest
  <1>1. ASSUME SupplyInv, [Next]_supplyVars
        PROVE  [(request = "NEW_BLOCK" /\ request' = "BEFORENEW" /\ promise # 0)
                  => spawned' = ShapeOf(promise)]_supplyVars
    <2> SUFFICES ASSUME Next, request = "NEW_BLOCK", request' = "BEFORENEW", promise # 0
                 PROVE  spawned' = ShapeOf(promise)
      BY <1>1
    <2>1. Draw(random_number)
      BY DEF Next, Software, ReadNeeded, WriteNumber, WriteReady, ClearReady, Frame,
             ShowPreview, Wait, ResetGame, ResetNios, hardware, Enter, Prepare, LandPiece,
             NextPiece, Answered, Preview, ResetRequest
    <2>2. random_number = promise  BY <1>1 DEF SupplyInv, Held
    <2> QED  BY <2>1, <2>2 DEF Draw
  <1>2. SupplyInv /\ [Next]_supplyVars => SupplyInv'  BY SupplyStep
  <1> QED  BY <1>1, <1>2, SupplyInit, PTL DEF Spec, PreviewHonest

\* Two choices in a row differ (main.c:534-539), for every history of requests.
THEOREM ChoicesChange == ASSUME Slack <= 1 PROVE Spec => ChoiceChanges
  <1>1. ASSUME SupplyInv, [Next]_supplyVars
        PROVE  [pc = "poll" /\ pc' = "number" => prev' # prev]_supplyVars
    <2> SUFFICES ASSUME Next, pc = "poll", pc' = "number"
                 PROVE  prev' # prev
      BY <1>1
    <2>1. ReadNeeded /\ Needed
      BY DEF Next, Software, ReadNeeded, WriteNumber, WriteReady, ClearReady, Frame,
             ShowPreview, Wait, ResetGame, ResetNios, software
    <2>2. PICK random \in 0 .. 6 : prev' = Choose(random)  BY <2>1 DEF ReadNeeded
    <2> QED  BY <1>1, <2>2, ChoiceRange DEF SupplyInv, TypeOK
  <1>2. SupplyInv /\ [Next]_supplyVars => SupplyInv'  BY SupplyStep
  <1> QED  BY <1>1, <1>2, SupplyInit, PTL DEF Spec, ChoiceChanges
=============================================================================
