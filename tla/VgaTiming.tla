----------------------------- MODULE VgaTiming -----------------------------
(***************************************************************************)
(* VGA_controller, whose vertical sync pulse is the clock of the game       *)
(* machine (lab8.sv:125), and the reset button that stops both.  The game   *)
(* machine steps when VGA_VS rises, and the picture is drawn from its       *)
(* state pixel by pixel, without a buffer.                                  *)
(***************************************************************************)
EXTENDS Integers

CONSTANTS
    HTotal, HVisible,      \* pixels of a line (800), and those that are shown (640)
    VTotal, VVisible,      \* lines of a frame (525), and those that are shown (480)
    VSync, VSyncEnd        \* first line of the sync pulse and first one after it (490, 492)

ASSUME TimingAssumption ==
    /\ HTotal \in Nat /\ HVisible \in 1 .. HTotal - 1
    /\ VTotal \in Nat /\ VVisible \in Nat /\ VSync \in Nat /\ VSyncEnd \in Nat
    /\ 1 <= VVisible /\ VVisible < VSync /\ VSync < VSyncEnd /\ VSyncEnd < VTotal

VARIABLES
    h_counter, v_counter,      \* DrawX and DrawY
    VGA_VS, VGA_BLANK_N,
    reset,                     \* KEY[0] is pressed
    game,                      \* steps of the game machine, modulo three
    top,                       \* for the properties: the step the first pixel showed,
    ticks,                     \* the steps since then, at most three,
    disturbed                  \* and whether there was a reset since then

timing == <<h_counter, v_counter, VGA_VS, VGA_BLANK_N>>
vars == <<timing, reset, game, top, ticks, disturbed>>

Bit == {0, 1}

TypeOK ==
    /\ h_counter \in 0 .. HTotal - 1 /\ v_counter \in 0 .. VTotal - 1
    /\ VGA_VS \in Bit /\ VGA_BLANK_N \in Bit
    /\ reset \in Bit
    /\ game \in 0 .. 2 /\ top \in 0 .. 2 /\ ticks \in 0 .. 3 /\ disturbed \in Bit

\* The values of a reset; the registers have them after power-up too.
Init ==
    /\ h_counter = 0 /\ v_counter = 0 /\ VGA_VS = 0 /\ VGA_BLANK_N = 0
    /\ reset = 0
    /\ game = 0 /\ top = 0 /\ ticks = 0 /\ disturbed = 1

-----------------------------------------------------------------------------
h_counter_in == IF h_counter + 1 = HTotal THEN 0 ELSE h_counter + 1

\* Mutant: the lines are counted as far as they are shown.
v_counter_shown ==
    IF h_counter + 1 # HTotal THEN v_counter
    ELSE IF v_counter + 1 = VVisible THEN 0 ELSE v_counter + 1

v_counter_in ==
    IF h_counter + 1 # HTotal THEN v_counter
    ELSE IF v_counter + 1 = VTotal THEN 0 ELSE v_counter + 1

\* Mutant: the pulse is taken at the lines that are shown.
VS_early == IF v_counter_in >= VVisible - 2 /\ v_counter_in < VVisible - 1 THEN 0 ELSE 1

\* Mutant: two pulses, one in each half of the blanking interval.
VS_twice == IF v_counter_in \in {VSync, VSyncEnd} THEN 0 ELSE 1

\* Mutant: the pulse is a line too long.
VS_long == IF v_counter_in >= VSync /\ v_counter_in <= VSyncEnd THEN 0 ELSE 1

VGA_VS_in == IF v_counter_in >= VSync /\ v_counter_in < VSyncEnd THEN 0 ELSE 1

VGA_BLANK_N_in == IF h_counter_in < HVisible /\ v_counter_in < VVisible THEN 1 ELSE 0

\* The game machine sees an edge of VGA_VS, whatever caused it.
Steps == VGA_VS = 0 /\ VGA_VS' = 1

GameClock ==
    /\ game' = (IF Steps THEN (game + 1) % 3 ELSE game)
    /\ IF h_counter' = 0 /\ v_counter' = 0
       THEN top' = game' /\ ticks' = 0 /\ disturbed' = 0
       ELSE /\ ticks' = (IF Steps /\ ticks < 3 THEN ticks + 1 ELSE ticks)
            /\ UNCHANGED <<top, disturbed>>

\* A pixel clock.
Pixel ==
    /\ reset = 0
    /\ h_counter' = h_counter_in /\ v_counter' = v_counter_in
    /\ VGA_VS' = VGA_VS_in /\ VGA_BLANK_N' = VGA_BLANK_N_in
    /\ GameClock
    /\ UNCHANGED reset

\* KEY[0] resets the counters at once and holds VGA_VS low.
PressReset ==
    /\ reset = 0 /\ reset' = 1
    /\ h_counter' = 0 /\ v_counter' = 0 /\ VGA_VS' = 0 /\ VGA_BLANK_N' = 0
    /\ disturbed' = 1 /\ UNCHANGED <<game, top, ticks>>

ReleaseReset == reset = 1 /\ reset' = 0 /\ UNCHANGED <<timing, game, top, ticks, disturbed>>

Next == Pixel \/ PressReset \/ ReleaseReset

\* The pixel clock runs, and the button is not held for ever.
Fairness == WF_vars(Pixel) /\ WF_vars(ReleaseReset)

Spec == Init /\ [][Next]_vars
FairSpec == Spec /\ Fairness
-----------------------------------------------------------------------------
(* Properties *)

\* All pixels that are shown between two resets come from one state of the
\* game: the machine steps between the last pixel and the first.
NoTearing == VGA_BLANK_N = 1 /\ disturbed = 0 => game = top

\* In a frame without a reset the game machine steps once, at the end of the
\* sync pulse, so its counter of frames is a clock.
OneStepPerFrame ==
    disturbed = 0 => ticks = (IF v_counter >= VSyncEnd THEN 1 ELSE 0)

\* A step of the game machine out of turn comes only from KEY[0], at the first
\* pixel after it is released.
StepsInTurn ==
    [][Steps => \/ h_counter' = 0 /\ v_counter' = VSyncEnd
                \/ disturbed = 1 /\ h_counter = 0 /\ v_counter = 0]_vars

\* The frame clock does not stop, as the fairness of Blocklogic assumes, once
\* KEY[0] is left alone.
FrameClockRuns == <>[](reset = 0) => []<>(VGA_VS = 0) /\ []<>(VGA_VS = 1)
=============================================================================
