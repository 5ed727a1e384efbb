-------------------------- MODULE VgaTimingProofs --------------------------
(***************************************************************************)
(* The frame clock for lines and frames of every size: proofs of the safety *)
(* properties of VgaTiming.  They rest on one invariant, which says where   *)
(* the sync pulse is and what the game machine has done since the first     *)
(* pixel of the frame.                                                     *)
(***************************************************************************)
EXTENDS VgaTiming, TLAPS

InPulse == v_counter >= VSync /\ v_counter < VSyncEnd

AtFirstPixel == h_counter = 0 /\ v_counter = 0

\* VGA_VS is low in the lines of the pulse, and after KEY[0] until the first pixel.
PulseWhere ==
    \/ VGA_VS = 0 /\ InPulse
    \/ VGA_VS = 1 /\ ~InPulse
    \/ VGA_VS = 0 /\ AtFirstPixel /\ disturbed = 1

ShownWhere == VGA_BLANK_N = 1 => v_counter < VVisible

ResetHolds == reset = 1 => AtFirstPixel /\ disturbed = 1

GameWhere == disturbed = 0 /\ v_counter < VSyncEnd => game = top

TimingInv ==
    /\ TypeOK /\ PulseWhere /\ ShownWhere /\ ResetHolds /\ GameWhere /\ OneStepPerFrame

LEMMA InitTiming == Init => TimingInv
BY TimingAssumption
   DEF Init, TimingInv, TypeOK, Bit, PulseWhere, InPulse, AtFirstPixel, ShownWhere,
       ResetHolds, GameWhere, OneStepPerFrame

\* Where the counters are after a pixel.
LEMMA CountersMove ==
    ASSUME TypeOK, Pixel
    PROVE  /\ h_counter' \in 0 .. HTotal - 1 /\ v_counter' \in 0 .. VTotal - 1
           /\ ~AtFirstPixel' => v_counter' = v_counter \/ (v_counter' = v_counter + 1 /\ h_counter' = 0)
           /\ AtFirstPixel => h_counter' = 1 /\ v_counter' = 0
           /\ VGA_VS' = IF InPulse' THEN 0 ELSE 1
           /\ VGA_BLANK_N' = 1 => v_counter' < VVisible
BY TimingAssumption
   DEF TypeOK, Pixel, h_counter_in, v_counter_in, VGA_VS_in, VGA_BLANK_N_in, InPulse,
       AtFirstPixel

\* An edge of VGA_VS at a pixel is the end of the pulse, or the first pixel
\* after KEY[0].
LEMMA EdgeWhere ==
    ASSUME TimingInv, Pixel, Steps
    PROVE  \/ h_counter' = 0 /\ v_counter' = VSyncEnd
           \/ disturbed = 1 /\ AtFirstPixel
<1>1. CASE InPulse
  <2>1. ~InPulse' /\ v_counter \in Nat /\ v_counter' \in Nat
        BY CountersMove, TimingAssumption DEF Steps, TimingInv, TypeOK
  <2>2. ~AtFirstPixel'
        BY <1>1, TimingAssumption
        DEF InPulse, AtFirstPixel, Pixel, v_counter_in, h_counter_in, TimingInv, TypeOK
  <2> QED BY <1>1, <2>1, <2>2, CountersMove, TimingAssumption DEF InPulse, TimingInv
<1>2. CASE ~InPulse
      BY <1>2 DEF TimingInv, PulseWhere, Steps
<1> QED BY <1>1, <1>2

\* Without a reset every line that begins the pulse's end is an edge.
LEMMA EndIsEdge ==
    ASSUME TimingInv, Pixel, disturbed = 0, v_counter < VSyncEnd, v_counter' >= VSyncEnd
    PROVE  Steps
<1>1. InPulse
      BY CountersMove, TimingAssumption DEF TimingInv, TypeOK, InPulse, AtFirstPixel
<1>2. ~InPulse'
      BY CountersMove, TimingAssumption DEF InPulse, TimingInv
<1>3. VGA_VS = 0
      BY <1>1 DEF TimingInv, PulseWhere, TypeOK, Bit
<1> QED BY <1>2, <1>3, CountersMove DEF Steps, TimingInv

LEMMA PixelTiming ==
    ASSUME TimingInv, Pixel
    PROVE  TimingInv'
<1> USE TimingAssumption
<1>1. TypeOK'
      BY CountersMove
      DEF TimingInv, TypeOK, Pixel, GameClock, Bit, VGA_VS_in, VGA_BLANK_N_in
<1>2. PulseWhere'
      BY CountersMove DEF TimingInv, PulseWhere
<1>3. ShownWhere'
      BY CountersMove DEF TimingInv, ShownWhere
<1>4. ResetHolds'
      BY DEF Pixel, ResetHolds
<1>5. CASE AtFirstPixel'
  <2>1. game' = top' /\ ticks' = 0 /\ v_counter' = 0
        BY <1>5 DEF Pixel, GameClock, AtFirstPixel
  <2>2. GameWhere' /\ OneStepPerFrame'
        BY <2>1 DEF GameWhere, OneStepPerFrame
  <2> QED BY <1>1, <1>2, <1>3, <1>4, <2>2 DEF TimingInv
<1>6. CASE ~AtFirstPixel'
  <2> SUFFICES ASSUME disturbed = 0 PROVE GameWhere' /\ OneStepPerFrame'
      BY <1>1, <1>2, <1>3, <1>4, <1>6
      DEF TimingInv, GameWhere, OneStepPerFrame, Pixel, GameClock, AtFirstPixel
  <2>1. /\ disturbed' = 0 /\ top' = top
        /\ Steps => ticks' = IF ticks < 3 THEN ticks + 1 ELSE ticks
        /\ ~Steps => ticks' = ticks /\ game' = game
        BY <1>6 DEF Pixel, GameClock, AtFirstPixel
  <2>2. /\ v_counter \in Nat /\ v_counter' \in Nat
        /\ v_counter' = v_counter \/ v_counter' = v_counter + 1
        BY <1>6, CountersMove DEF TimingInv, TypeOK
  <2>3. Steps <=> v_counter < VSyncEnd /\ v_counter' >= VSyncEnd
    <3>1. ASSUME Steps PROVE v_counter < VSyncEnd /\ v_counter' >= VSyncEnd
          BY <3>1, <2>2, EdgeWhere DEF Steps, TimingInv, PulseWhere, InPulse
    <3> QED BY <3>1, EndIsEdge
  <2>4. OneStepPerFrame'
        BY <2>1, <2>2, <2>3 DEF OneStepPerFrame, TimingInv
  <2>5. GameWhere'
        BY <2>1, <2>2, <2>3 DEF GameWhere, TimingInv
  <2> QED BY <2>4, <2>5
<1> QED BY <1>5, <1>6

LEMMA StepTiming == TimingInv /\ [Next]_vars => TimingInv'
<1> SUFFICES ASSUME TimingInv, [Next]_vars PROVE TimingInv'
    OBVIOUS
<1> USE TimingAssumption
    DEF TimingInv, TypeOK, Bit, PulseWhere, InPulse, AtFirstPixel, ShownWhere, ResetHolds,
        GameWhere, OneStepPerFrame, timing
<1>1. CASE PressReset
      BY <1>1 DEF PressReset
<1>2. CASE ReleaseReset
      BY <1>2 DEF ReleaseReset
<1>3. CASE UNCHANGED vars
      BY <1>3 DEF vars
<1> QED BY <1>1, <1>2, <1>3, PixelTiming DEF Next

THEOREM TimingInvariant == Spec => []TimingInv
BY InitTiming, StepTiming, PTL DEF Spec

\* No frame shows two states of the game, unless KEY[0] was pressed in it
\* (VGA_controller.sv and lab8.sv:125).
THEOREM FramesAreWhole == Spec => []NoTearing
<1>1. TimingInv => NoTearing
      BY TimingAssumption
      DEF TimingInv, NoTearing, ShownWhere, GameWhere, TypeOK
<1> QED BY <1>1, TimingInvariant, PTL

\* The game machine steps once in each frame that KEY[0] leaves alone.
THEOREM FramesAreSteps == Spec => []OneStepPerFrame
BY TimingInvariant, PTL DEF TimingInv

\* No other edge reaches the game machine than the end of the pulse and the
\* one that follows KEY[0].
THEOREM EdgesAreExpected == Spec => StepsInTurn
<1> DEFINE InTurn ==
      Steps => \/ h_counter' = 0 /\ v_counter' = VSyncEnd
               \/ disturbed = 1 /\ h_counter = 0 /\ v_counter = 0
<1>1. TimingInv /\ [Next]_vars => [InTurn]_vars
  <2> SUFFICES ASSUME TimingInv, Next, Steps PROVE InTurn
      BY DEF vars
  <2>1. ~PressReset /\ ~ReleaseReset
        BY DEF PressReset, ReleaseReset, Steps, timing
  <2> QED BY <2>1, EdgeWhere DEF Next, AtFirstPixel
<1> QED BY <1>1, TimingInvariant, PTL DEF Spec, StepsInTurn
=============================================================================
