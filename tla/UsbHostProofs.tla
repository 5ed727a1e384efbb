--------------------------- MODULE UsbHostProofs ---------------------------
(***************************************************************************)
(* Proofs about UsbHost, for any number of requests and any set of keys:    *)
(* type correctness, that the program never goes past a request that no     *)
(* keyboard has taken, what makes a report a repetition, that no answer is  *)
(* read too early, and where the program cannot hang.                       *)
(***************************************************************************)
EXTENDS UsbHost, TLAPS

Cycle == {"load", "start", "sleep", "test", "waitRead", "waitClear", "check",
          "retryRead", "retryClear", "spin", "retryCheck"}
Asking == Cycle \ {"load"}
Judging == {"check", "retryRead", "retryClear", "spin", "retryCheck"}
Starting == {"init", "initWait", "busReset", "busAck", "detect", "noDevice"}
Polling == {"poll", "key", "watch"}

\* A request whose first descriptor the controller has still to execute.
Pending == run.stage = "first" /\ run.of \in 1 .. Requests

\* From hot plug to the first list the controller is at rest, but for a reset.
Quiet ==
    /\ pc = "resetRead" => command = "reset" \/ run = Resting
    /\ pc \in Starting => run = Resting

\* The list in memory is that of the current request, and its control byte
\* is good only if a keyboard took it.
ByteTrue ==
    pc \in Asking => /\ td.of = step
                     /\ td.ctl = "ok" /\ step <= Requests => step \in heard

\* What is pending is the current request ...
PendingCurrent == pc \in Cycle \cup Polling /\ Pending => run.of = step

\* ... and was written by the first Start, not earlier ...
PendingLater == pc \in {"load", "start"} /\ ~resent => ~Pending

FreshActive == pc = "start" /\ ~resent => td.ctl = "active"

\* ... and its control byte is not good, unless it was started twice and the
\* program sleeps until both are over.
PendingNotGood == td.ctl = "ok" /\ Pending => pc = "sleep"

StepKnown ==
    /\ pc \in Judging => step <= Requests
    /\ pc \in Polling => step = Poll

-----------------------------------------------------------------------------
LEMMA InitType == Init => TypeOK
  <1> SUFFICES ASSUME Init PROVE TypeOK
    OBVIOUS
  <1>1. /\ resent \in BOOLEAN /\ flag \in BOOLEAN /\ plugged \in BOOLEAN
        /\ addressed \in BOOLEAN /\ clean \in BOOLEAN
    BY Zenon DEF Init
  <1> QED
    BY <1>1, UsbAssumption
       DEF Init, TypeOK, Labels, Resting, Transfers, Info, Poll, Idle, NoKey, Link

LEMMA StepStep == TypeOK /\ StepKnown /\ [Next]_vars => StepKnown'
  <1> SUFFICES ASSUME TypeOK, StepKnown, [Next]_vars PROVE StepKnown'
    OBVIOUS
  <1> USE UsbAssumption DEF StepKnown, Judging, Polling
  <1>0. step \in 1 .. Poll /\ Poll = Requests + 1 /\ Requests \in Nat
    BY DEF TypeOK, Poll
  <1>1. CASE SoftReset
    BY <1>0, <1>1 DEF SoftReset, At, GoTo
  <1>2. CASE ResetRead
    BY <1>0, <1>2 DEF ResetRead, At, GoTo
  <1>3. CASE InitSie
    BY <1>0, <1>3 DEF InitSie, At, GoTo
  <1>4. CASE InitAck
    BY <1>0, <1>4 DEF InitAck, At, GoTo
  <1>5. CASE BusReset
    BY <1>0, <1>5 DEF BusReset, At, GoTo
  <1>6. CASE BusAck
    BY <1>0, <1>6 DEF BusAck, At, GoTo
  <1>7. CASE Detect
    BY <1>0, <1>7 DEF Detect, At, GoTo
  <1>8. CASE NoDevice
    BY <1>0, <1>8 DEF NoDevice, At, GoTo
  <1>9. CASE DeviceInfo
    BY <1>0, <1>9 DEF DeviceInfo, At, GoTo
  <1>10. CASE Load
    BY <1>0, <1>10 DEF Load, At, GoTo
  <1>11. CASE Start
    BY <1>0, <1>11 DEF Start, At, GoTo
  <1>12. CASE Sleep
    BY <1>0, <1>12 DEF Sleep, At, GoTo
  <1>13. CASE Test
    BY <1>0, <1>13 DEF Test, At, GoTo
  <1>14. CASE WaitRead
    BY <1>0, <1>14 DEF WaitRead, At, GoTo
  <1>15. CASE WaitClear
    BY <1>0, <1>15 DEF WaitClear, At, GoTo
  <1>16. CASE Check
    BY <1>0, <1>16 DEF Check, At, GoTo, Advance
  <1>17. CASE RetryRead
    BY <1>0, <1>17 DEF RetryRead, At, GoTo
  <1>18. CASE RetryClear
    BY <1>0, <1>18 DEF RetryClear, At, GoTo
  <1>19. CASE Spin
    BY <1>0, <1>19 DEF Spin, At, GoTo
  <1>20. CASE RetryCheck
    BY <1>0, <1>20 DEF RetryCheck, At, GoTo, Advance
  <1>21. CASE PollAgain
    BY <1>0, <1>21 DEF PollAgain, At, GoTo
  <1>22. CASE WriteKey
    BY <1>0, <1>22 DEF WriteKey, At, GoTo
  <1>23. CASE Watch
    BY <1>0, <1>23 DEF Watch, At, GoTo
  <1>24. CASE Absent
    BY <1>0, <1>24 DEF Absent, At, GoTo
  <1>25. CASE Controller \/ PlugOrPull \/ UNCHANGED vars
    BY <1>25
       DEF Controller, CommandDone, RequestTaken, RequestLost, Report,
           NothingSaid,
                 ListDone, PlugOrPull, vars, program
  <1> QED
    BY <1>1, <1>2, <1>3, <1>4, <1>5, <1>6, <1>7, <1>8, <1>9, <1>10, <1>11, <1>12, <1>13, <1>14, <1>15, <1>16, <1>17, <1>18, <1>19, <1>20, <1>21, <1>22, <1>23, <1>24, <1>25
       DEF Next, Program

LEMMA TypeStep == TypeOK /\ StepKnown /\ [Next]_vars => TypeOK'
  <1> SUFFICES ASSUME TypeOK, StepKnown, [Next]_vars PROVE TypeOK'
    OBVIOUS
  <1> USE UsbAssumption
  <1>1. CASE SoftReset
    <2>1. resent' \in BOOLEAN
      BY <1>1, Zenon DEF SoftReset, TypeOK
    <2>2. clean' \in BOOLEAN
      BY <1>1, Zenon DEF SoftReset, TypeOK
    <2> QED
      BY <1>1, <2>1, <2>2
         DEF TypeOK, Labels, At, GoTo, Transfers, Info, Poll, Idle, NoKey, Link,
             program, keyboard, history, SoftReset
  <1>2. CASE ResetRead
    <2>1. flag' \in BOOLEAN
      BY <1>2, Zenon DEF ResetRead, TypeOK
    <2> QED
      BY <1>2, <2>1
         DEF TypeOK, Labels, At, GoTo, Transfers, Info, Poll, Idle, NoKey, Link,
             program, keyboard, history, ResetRead
  <1>3. CASE InitSie
    BY <1>3
       DEF TypeOK, Labels, At, GoTo, Transfers, Info, Poll, Idle, NoKey, Link,
           program, keyboard, history, InitSie
  <1>4. CASE InitAck
    BY <1>4
       DEF TypeOK, Labels, At, GoTo, Transfers, Info, Poll, Idle, NoKey, Link,
           program, keyboard, history, InitAck
  <1>5. CASE BusReset
    BY <1>5
       DEF TypeOK, Labels, At, GoTo, Transfers, Info, Poll, Idle, NoKey, Link,
           program, keyboard, history, BusReset
  <1>6. CASE BusAck
    BY <1>6
       DEF TypeOK, Labels, At, GoTo, Transfers, Info, Poll, Idle, NoKey, Link,
           program, keyboard, history, BusAck
  <1>7. CASE Detect
    BY <1>7
       DEF TypeOK, Labels, At, GoTo, Transfers, Info, Poll, Idle, NoKey, Link,
           program, keyboard, history, Detect
  <1>8. CASE NoDevice
    BY <1>8
       DEF TypeOK, Labels, At, GoTo, Transfers, Info, Poll, Idle, NoKey, Link,
           program, keyboard, history, NoDevice
  <1>9. CASE DeviceInfo
    BY <1>9
       DEF TypeOK, Labels, At, GoTo, Transfers, Info, Poll, Idle, NoKey, Link,
           program, keyboard, history, DeviceInfo, Queue
  <1>10. CASE Load
    BY <1>10
       DEF TypeOK, Labels, At, GoTo, Transfers, Info, Poll, Idle, NoKey, Link,
           program, keyboard, history, Load
  <1>11. CASE Start
    BY <1>11
       DEF TypeOK, Labels, At, GoTo, Transfers, Info, Poll, Idle, NoKey, Link,
           program, keyboard, history, Start, Queue
  <1>12. CASE Sleep
    BY <1>12
       DEF TypeOK, Labels, At, GoTo, Transfers, Info, Poll, Idle, NoKey, Link,
           program, keyboard, history, Sleep
  <1>13. CASE Test
    <2>1. resent' \in BOOLEAN
      BY <1>13, Zenon DEF Test
    <2> QED
      BY <1>13, <2>1
         DEF TypeOK, Labels, At, GoTo, Transfers, Info, Poll, Idle, NoKey, Link,
             program, keyboard, history, Test
  <1>14. CASE WaitRead
    <2>1. flag' \in BOOLEAN
      BY <1>14, Zenon DEF WaitRead, TypeOK
    <2> QED
      BY <1>14, <2>1
         DEF TypeOK, Labels, At, GoTo, Transfers, Info, Poll, Idle, NoKey, Link,
             program, keyboard, history, WaitRead
  <1>15. CASE WaitClear
    BY <1>15
       DEF TypeOK, Labels, At, GoTo, Transfers, Info, Poll, Idle, NoKey, Link,
           program, keyboard, history, WaitClear
  <1>16. CASE Check
    <2>1. resent' \in BOOLEAN
      BY <1>16, Zenon DEF Check, Advance, TypeOK
    <2>2. step \in 1 .. Poll /\ Poll = Requests + 1 /\ step <= Requests
      BY <1>16 DEF Check, At, TypeOK, Poll, StepKnown, Judging
    <2>3. step' \in 1 .. Poll
      BY <1>16, <2>2 DEF Check, Advance
    <2>4. pc' \in Labels
      BY <1>16 DEF Check, Advance, GoTo, Labels
    <2> QED
      BY <1>16, <2>1, <2>3, <2>4
         DEF TypeOK, Labels, At, GoTo, Transfers, Info, Poll, Idle, NoKey, Link,
             program, keyboard, history, Check, Advance
  <1>17. CASE RetryRead
    <2>1. flag' \in BOOLEAN
      BY <1>17, Zenon DEF RetryRead, TypeOK
    <2> QED
      BY <1>17, <2>1
         DEF TypeOK, Labels, At, GoTo, Transfers, Info, Poll, Idle, NoKey, Link,
             program, keyboard, history, RetryRead
  <1>18. CASE RetryClear
    BY <1>18
       DEF TypeOK, Labels, At, GoTo, Transfers, Info, Poll, Idle, NoKey, Link,
           program, keyboard, history, RetryClear
  <1>19. CASE Spin
    BY <1>19
       DEF TypeOK, Labels, At, GoTo, Transfers, Info, Poll, Idle, NoKey, Link,
           program, keyboard, history, Spin
  <1>20. CASE RetryCheck
    <2>1. resent' \in BOOLEAN
      BY <1>20, Zenon DEF RetryCheck, Advance, TypeOK
    <2>2. step \in 1 .. Poll /\ Poll = Requests + 1 /\ step <= Requests
      BY <1>20 DEF RetryCheck, At, TypeOK, Poll, StepKnown, Judging
    <2>3. step' \in 1 .. Poll
      BY <1>20, <2>2 DEF RetryCheck, Advance
    <2>4. pc' \in Labels
      BY <1>20 DEF RetryCheck, Advance, GoTo, Labels
    <2> QED
      BY <1>20, <2>1, <2>3, <2>4
         DEF TypeOK, Labels, At, GoTo, Transfers, Info, Poll, Idle, NoKey, Link,
             program, keyboard, history, RetryCheck, Advance
  <1>21. CASE PollAgain
    <2>1. resent' \in BOOLEAN
      BY <1>21, Zenon DEF PollAgain, TypeOK
    <2> QED
      BY <1>21, <2>1
         DEF TypeOK, Labels, At, GoTo, Transfers, Info, Poll, Idle, NoKey, Link,
             program, keyboard, history, PollAgain
  <1>22. CASE WriteKey
    BY <1>22
       DEF TypeOK, Labels, At, GoTo, Transfers, Info, Poll, Idle, NoKey, Link,
           program, keyboard, history, WriteKey
  <1>23. CASE Watch
    BY <1>23
       DEF TypeOK, Labels, At, GoTo, Transfers, Info, Poll, Idle, NoKey, Link,
           program, keyboard, history, Watch
  <1>24. CASE Absent
    BY <1>24
       DEF TypeOK, Labels, At, GoTo, Transfers, Info, Poll, Idle, NoKey, Link,
           program, keyboard, history, Absent
  <1>25. CASE CommandDone
    <2>1. flag' \in BOOLEAN
      BY <1>25, Zenon DEF CommandDone, Resting, TypeOK
    <2>2. addressed' \in BOOLEAN
      BY <1>25, Zenon DEF CommandDone, Resting, TypeOK
    <2> QED
      BY <1>25, <2>1, <2>2
         DEF TypeOK, Labels, At, GoTo, Transfers, Info, Poll, Idle, NoKey, Link,
             program, keyboard, history, CommandDone, Resting
  <1>26. CASE RequestTaken
    BY <1>26
       DEF TypeOK, Labels, At, GoTo, Transfers, Info, Poll, Idle, NoKey, Link,
           program, keyboard, history, RequestTaken, Reachable
  <1>27. CASE RequestLost
    <2>1. clean' \in BOOLEAN
      BY <1>27, Zenon DEF RequestLost, TypeOK
    <2> QED
      BY <1>27, <2>1
         DEF TypeOK, Labels, At, GoTo, Transfers, Info, Poll, Idle, NoKey, Link,
             program, keyboard, history, RequestLost
  <1>28. CASE Report
    BY <1>28
       DEF TypeOK, Labels, At, GoTo, Transfers, Info, Poll, Idle, NoKey, Link,
           program, keyboard, history, Report
  <1>29. CASE NothingSaid
    BY <1>29
       DEF TypeOK, Labels, At, GoTo, Transfers, Info, Poll, Idle, NoKey, Link,
           program, keyboard, history, NothingSaid
  <1>30. CASE ListDone
    BY <1>30
       DEF TypeOK, Labels, At, GoTo, Transfers, Info, Poll, Idle, NoKey, Link,
           program, keyboard, history, ListDone, Resting
  <1>31. CASE PlugOrPull
    <2>1. flag' \in BOOLEAN
      BY <1>31, Zenon DEF PlugOrPull, TypeOK
    <2>2. plugged' \in BOOLEAN
      BY <1>31, Zenon DEF PlugOrPull, TypeOK
    <2>3. addressed' \in BOOLEAN
      BY <1>31, Zenon DEF PlugOrPull, TypeOK
    <2>4. clean' \in BOOLEAN
      BY <1>31, Zenon DEF PlugOrPull, TypeOK
    <2> QED
      BY <1>31, <2>1, <2>2, <2>3, <2>4
         DEF TypeOK, Labels, At, GoTo, Transfers, Info, Poll, Idle, NoKey, Link,
             program, keyboard, history, PlugOrPull
  <1>32. CASE UNCHANGED vars
    BY <1>32
       DEF TypeOK, Labels, At, GoTo, Transfers, Info, Poll, Idle, NoKey, Link,
           program, keyboard, history, vars
  <1> QED
    BY <1>1, <1>2, <1>3, <1>4, <1>5, <1>6, <1>7, <1>8, <1>9, <1>10, <1>11, <1>12, <1>13, <1>14, <1>15, <1>16, <1>17, <1>18, <1>19, <1>20, <1>21, <1>22, <1>23, <1>24, <1>25, <1>26, <1>27, <1>28, <1>29, <1>30, <1>31, <1>32
       DEF Next, Program, Controller

LEMMA TypeAndStep == Spec => [](TypeOK /\ StepKnown)
  <1>1. Init => TypeOK /\ StepKnown
    BY InitType DEF Init, StepKnown, Judging, Polling
  <1>2. TypeOK /\ StepKnown /\ [Next]_vars => (TypeOK /\ StepKnown)'
    BY TypeStep, StepStep
  <1> QED
    BY <1>1, <1>2, PTL DEF Spec
\* Every variable keeps its type (main.c, usb.c).
THEOREM TypeCorrect == Spec => []TypeOK
  BY TypeAndStep, PTL

-----------------------------------------------------------------------------
\* What RequestsHeard rests on, besides the types.
HeardInv ==
    /\ RequestsHeard /\ Quiet /\ ByteTrue /\ PendingCurrent /\ PendingLater
    /\ FreshActive /\ PendingNotGood

LEMMA HeardStep ==
    ASSUME Prompt, TypeOK, StepKnown, HeardInv, [Next]_vars PROVE HeardInv'
  <1> USE UsbAssumption
  <1>0. /\ step \in 1 .. Poll /\ td.of \in Nat /\ run.of \in Nat /\ heard \subseteq 1 .. Requests
        /\ Requests \in Nat /\ Poll = Requests + 1 /\ Info = Requests + 2
        /\ td = [of |-> td.of, ctl |-> td.ctl, toggle |-> td.toggle]
        /\ run = [of |-> run.of, stage |-> run.stage]
    BY DEF TypeOK, Transfers, Info, Poll, Idle
  <1> USE DEF HeardInv, RequestsHeard, Quiet, ByteTrue, PendingCurrent, PendingLater,
              FreshActive, PendingNotGood, StepKnown, Cycle, Asking, Judging, Polling,
              Starting, Pending, At, GoTo, Resting, Idle
  <1>1. CASE SoftReset
    BY <1>0, <1>1, SMTT(20) DEF SoftReset, history
  <1>2. CASE ResetRead
    BY <1>0, <1>2, SMTT(20) DEF ResetRead, history
  <1>3. CASE InitSie
    BY <1>0, <1>3, SMTT(20) DEF InitSie, history
  <1>4. CASE InitAck
    BY <1>0, <1>4, SMTT(20) DEF InitAck, history
  <1>5. CASE BusReset
    BY <1>0, <1>5, SMTT(20) DEF BusReset, history
  <1>6. CASE BusAck
    BY <1>0, <1>6, SMTT(20) DEF BusAck, history
  <1>7. CASE Detect
    BY <1>0, <1>7, SMTT(20) DEF Detect, history
  <1>8. CASE NoDevice
    BY <1>0, <1>8, SMTT(20) DEF NoDevice, history
  <1>9. CASE DeviceInfo
    BY <1>0, <1>9, SMTT(20) DEF DeviceInfo, Queue, history
  <1>10. CASE Load
    BY <1>0, <1>10, SMTT(20) DEF Load, history
  <1>11. CASE Start
    BY <1>0, <1>11, SMTT(20) DEF Start, Queue, history
  <1>12. CASE Sleep
    BY <1>0, <1>12, SMTT(20) DEF Sleep, history
  <1>13. CASE Test
    <2>1. pc = "test" /\ UNCHANGED <<step, td, run, heard, command>>
      BY <1>13 DEF Test, history
    <2>2. pc' = "waitRead" \/ (pc' = "load" /\ resent')
      BY <1>13, Zenon DEF Test
    <2> QED
      BY <1>0, <2>1, <2>2
  <1>14. CASE WaitRead
    BY <1>0, <1>14, SMTT(20) DEF WaitRead, history
  <1>15. CASE WaitClear
    BY <1>0, <1>15, SMTT(20) DEF WaitClear, history
  <1>16. CASE Check
    BY <1>0, <1>16, SMTT(20) DEF Check, Advance, history
  <1>17. CASE RetryRead
    BY <1>0, <1>17, SMTT(20) DEF RetryRead, history
  <1>18. CASE RetryClear
    BY <1>0, <1>18, SMTT(20) DEF RetryClear, history
  <1>19. CASE Spin
    BY <1>0, <1>19, SMTT(20) DEF Spin, history
  <1>20. CASE RetryCheck
    BY <1>0, <1>20, SMTT(20) DEF RetryCheck, Advance, history
  <1>21. CASE PollAgain
    BY <1>0, <1>21, SMTT(20) DEF PollAgain, history
  <1>22. CASE WriteKey
    BY <1>0, <1>22, SMTT(20) DEF WriteKey, history
  <1>23. CASE Watch
    BY <1>0, <1>23, SMTT(20) DEF Watch, history
  <1>24. CASE Absent
    BY <1>0, <1>24, SMTT(20) DEF Absent, history
  <1>25. CASE CommandDone
    <2>1. /\ UNCHANGED <<pc, step, resent, td, heard>>
          /\ IF command = "reset" THEN run' = Resting ELSE run' = run
      BY <1>25, Zenon DEF CommandDone, program, history
    <2> QED
      BY <1>0, <2>1
  <1>26. CASE RequestTaken
    BY <1>0, <1>26, SMTT(20) DEF RequestTaken, program, keyboard
  <1>27. CASE RequestLost
    BY <1>0, <1>27, SMTT(20) DEF RequestLost, program, keyboard
  <1>28. CASE Report
    BY <1>0, <1>28, SMTT(20) DEF Report, program, keyboard
  <1>29. CASE NothingSaid
    <2>1. /\ UNCHANGED <<pc, step, resent, td, heard, command>> /\ run.of \in {Poll, Info}
          /\ run' = [run EXCEPT !.stage = "rest"]
      BY <1>29, Zenon DEF NothingSaid, program, history
    <2>2. run' = [of |-> run.of, stage |-> "rest"] /\ run.of # 0
      BY <1>0, <2>1
    <2> QED
      BY <1>0, <2>1, <2>2
  <1>30. CASE ListDone
    <2>1. UNCHANGED <<pc, step, resent, td, heard>> /\ run' = Resting
      BY <1>30, Zenon DEF ListDone, program, history
    <2> QED
      BY <1>0, <2>1
  <1>31. CASE PlugOrPull
    BY <1>0, <1>31, SMTT(20) DEF PlugOrPull, program, keyboard
  <1>32. CASE UNCHANGED vars
    BY <1>0, <1>32 DEF vars, program, keyboard, history
  <1> QED
    BY <1>1, <1>2, <1>3, <1>4, <1>5, <1>6, <1>7, <1>8, <1>9, <1>10, <1>11, <1>12, <1>13, <1>14, <1>15, <1>16, <1>17, <1>18, <1>19, <1>20, <1>21, <1>22, <1>23, <1>24, <1>25, <1>26, <1>27, <1>28, <1>29, <1>30, <1>31, <1>32
       DEF Next, Program, Controller

\* With lists that are over when a sleep is, no request is passed that no
\* keyboard has taken since USB_HOT_PLUG (main.c:199-468).
THEOREM RequestsAreHeard == ASSUME Prompt PROVE Spec => []RequestsHeard
  <1>1. Init => HeardInv
    BY UsbAssumption
       DEF Init, HeardInv, RequestsHeard, Quiet, ByteTrue, PendingCurrent, PendingLater,
           FreshActive, PendingNotGood, Cycle, Asking, Polling, Starting, Pending,
           Resting, Idle
  <1>2. HeardInv /\ TypeOK /\ StepKnown /\ [Next]_vars => HeardInv'
    BY HeardStep
  <1>3. Spec => [](TypeOK /\ StepKnown)
    BY TypeAndStep
  <1>4. HeardInv => RequestsHeard
    BY DEF HeardInv
  <1> QED
    BY <1>1, <1>2, <1>3, <1>4, PTL DEF Spec

-----------------------------------------------------------------------------
(***************************************************************************)
(* When a report counts as a repetition.  A keyboard without an address has   *)
(* its data toggle at 0, and so has one that is not polled yet (DataReset),    *)
(* while the toggle of the program is the one it carried over USB_HOT_PLUG     *)
(* (FirstTurn).  From then on each turn of the loop changes the one and each   *)
(* report the other, and nothing else changes either (InPhase).               *)
(***************************************************************************)
\* The list in memory is that of the current request.
ListCurrent == pc \in Asking => td.of = step

\* A keyboard that is pulled loses its address and its report.
NoKeyboard == ~plugged => ~addressed /\ report = NoKey

\* The lists that may still run from an earlier request, or an earlier session.
AddressRun == run.of = 1 => step = 1 \/ (step = 2 /\ pc \in {"load", "start", "info"})
PollRun == run.of = Poll => step = Poll \/ (command = "reset" /\ ~addressed)

\* A session begins with the first request, and without a report.
StartStep == pc \in Starting \cup {"resetRead"} => step = 1
OldReport == (step # Poll \/ pc \in {"absent", "hotPlug"}) => report = NoKey
GoneAddress == (step = Poll /\ pc \in {"absent", "hotPlug"}) => ~addressed

\* The toggles: in the list, of the program, and of the keyboard.
ToggleTrue == step = Poll \/ pc \in Asking => td.toggle = toggle
FirstTurn == step # Poll => got = 1 /\ missed = 0 /\ toggle = carried
DataReset == step # Poll \/ ~addressed \/ run.of = Configure => data = 0
InPhase == step = Poll /\ addressed => (data = toggle <=> (got = 1 <=> carried = missed))

\* When a command may be under way.
Commands ==
    /\ command = "reset" => pc = "resetRead"
    /\ command = "init" => pc \in {"initWait", "busReset", "hotPlug"}

ReportInv ==
    /\ ListCurrent /\ NoKeyboard /\ AddressRun /\ PollRun /\ StartStep /\ OldReport /\ GoneAddress
    /\ ToggleTrue /\ FirstTurn /\ DataReset /\ InPhase /\ Commands

LEMMA ReportStep ==
    ASSUME TypeOK, StepKnown, ReportInv, [Next]_vars PROVE ReportInv'
  <1> USE UsbAssumption
  <1>0. /\ step \in 1 .. Poll /\ td.of \in Nat /\ run.of \in Nat
        /\ Requests \in Nat /\ Poll = Requests + 1 /\ Info = Requests + 2 /\ Requests >= 2
        /\ td = [of |-> td.of, ctl |-> td.ctl, toggle |-> td.toggle]
        /\ run = [of |-> run.of, stage |-> run.stage]
        /\ td.toggle \in {0, 1} /\ toggle \in {0, 1} /\ data \in {0, 1} /\ got \in 0 .. 2
        /\ carried \in {0, 1} /\ missed \in {0, 1}
        /\ Configure \in 2 .. Requests
    BY DEF TypeOK, Transfers, Info, Poll, Idle
  <1> USE DEF ReportInv, ListCurrent, NoKeyboard, AddressRun, PollRun, StartStep, OldReport,
              GoneAddress, ToggleTrue, FirstTurn, DataReset, InPhase, Commands,
              StepKnown, Cycle, Asking, Judging, Polling, Starting, At, GoTo, Resting, Idle
  <1>1. CASE SoftReset
    <2>1. /\ pc' = "resetRead" /\ step' = 1 /\ command' = "reset" /\ got' = 1 /\ pc = "hotPlug"
          /\ UNCHANGED <<toggle, td, run, buf, plugged, addressed, data, report>>
          /\ carried' = toggle /\ missed' = 0
      BY <1>1, Zenon DEF SoftReset, keyboard, At, GoTo
    <2> QED
      BY <1>0, <2>1
  <1>2. CASE ResetRead
    BY <1>0, <1>2, SMTT(20) DEF ResetRead, program, keyboard, history
  <1>3. CASE InitSie
    BY <1>0, <1>3, SMTT(20) DEF InitSie, program, keyboard, history
  <1>4. CASE InitAck
    BY <1>0, <1>4, SMTT(20) DEF InitAck, program, keyboard, history
  <1>5. CASE BusReset
    BY <1>0, <1>5, SMTT(20) DEF BusReset, program, keyboard, history
  <1>6. CASE BusAck
    BY <1>0, <1>6, SMTT(20) DEF BusAck, program, keyboard, history
  <1>7. CASE Detect
    BY <1>0, <1>7, SMTT(20) DEF Detect, program, keyboard, history
  <1>8. CASE NoDevice
    BY <1>0, <1>8, SMTT(20) DEF NoDevice, program, keyboard, history
  <1>9. CASE DeviceInfo
    BY <1>0, <1>9, SMTT(20) DEF DeviceInfo, Queue, program, keyboard, history
  <1>10. CASE Load
    BY <1>0, <1>10, SMTT(20) DEF Load, program, keyboard, history
  <1>11. CASE Start
    BY <1>0, <1>11, SMTT(20) DEF Start, Queue, program, keyboard, history
  <1>12. CASE Sleep
    BY <1>0, <1>12, SMTT(20) DEF Sleep, program, keyboard, history
  <1>13. CASE Test
    BY <1>0, <1>13, SMTT(20) DEF Test, program, keyboard, history
  <1>14. CASE WaitRead
    BY <1>0, <1>14, SMTT(20) DEF WaitRead, program, keyboard, history
  <1>15. CASE WaitClear
    BY <1>0, <1>15, SMTT(20) DEF WaitClear, program, keyboard, history
  <1>16. CASE Check
    BY <1>0, <1>16, SMTT(20) DEF Check, Advance, program, keyboard, history
  <1>17. CASE RetryRead
    BY <1>0, <1>17, SMTT(20) DEF RetryRead, program, keyboard, history
  <1>18. CASE RetryClear
    BY <1>0, <1>18, SMTT(20) DEF RetryClear, program, keyboard, history
  <1>19. CASE Spin
    BY <1>0, <1>19, SMTT(20) DEF Spin, program, keyboard, history
  <1>20. CASE RetryCheck
    BY <1>0, <1>20, SMTT(20) DEF RetryCheck, Advance, program, keyboard, history
  <1>21. CASE PollAgain
    <2>1. /\ pc' = "start" /\ pc = "poll" /\ toggle' = 1 - toggle /\ got' = 0
          /\ td' = [of |-> Poll, ctl |-> "active", toggle |-> 1 - toggle]
          /\ UNCHANGED <<step, command, run, buf, plugged, addressed, data, report>>
          /\ carried' = carried /\ missed' = IF got = 1 THEN missed ELSE 1 - missed
      BY <1>21, Zenon DEF PollAgain, keyboard, At, GoTo
    <2> QED
      BY <1>0, <2>1
  <1>22. CASE WriteKey
    BY <1>0, <1>22, SMTT(20) DEF WriteKey, program, keyboard, history
  <1>23. CASE Watch
    BY <1>0, <1>23, SMTT(20) DEF Watch, program, keyboard, history
  <1>24. CASE Absent
    BY <1>0, <1>24, SMTT(20) DEF Absent, program, keyboard, history
  <1>25. CASE CommandDone
    <2>1. /\ command # "none" /\ command' = "none"
          /\ IF command = "reset" THEN run' = Resting ELSE run' = run
          /\ IF command = "busReset" THEN ~addressed' /\ data' = 0
             ELSE (addressed' <=> addressed) /\ data' = data
          /\ UNCHANGED <<pc, step, toggle, td, buf, plugged, report, carried, got,
                         missed>>
      BY <1>25, Zenon DEF CommandDone, program, history
    <2>2. command \in {"reset", "init", "busReset"}
      BY <2>1 DEF TypeOK
    <2> QED
      BY <1>0, <2>1, <2>2
  <1>26. CASE RequestTaken
    BY <1>0, <1>26, SMTT(20) DEF RequestTaken, program, keyboard, history
  <1>27. CASE RequestLost
    BY <1>0, <1>27, SMTT(20) DEF RequestLost, program, keyboard, history
  <1>28. CASE Report
    BY <1>0, <1>28, SMTT(20) DEF Report, program, keyboard, history
  <1>29. CASE NothingSaid
    BY <1>0, <1>29, SMTT(20) DEF NothingSaid, program, keyboard, history
  <1>30. CASE ListDone
    <2>1. /\ run' = Resting
          /\ addressed' => addressed \/ (plugged /\ run.of = 1)
          /\ addressed => addressed'
          /\ (data' = 0 /\ run.of = Configure) \/ data' = data
          /\ UNCHANGED <<pc, step, toggle, command, td, buf, plugged, report, carried, got,
                         missed>>
      BY <1>30, Zenon DEF ListDone, program, history
    <2> QED
      BY <1>0, <2>1
  <1>31. CASE PlugOrPull
    BY <1>0, <1>31, SMTT(20) DEF PlugOrPull, program, keyboard, history
  <1>32. CASE UNCHANGED vars
    BY <1>0, <1>32 DEF vars, program, keyboard, history
  <1> QED
    BY <1>1, <1>2, <1>3, <1>4, <1>5, <1>6, <1>7, <1>8, <1>9, <1>10, <1>11, <1>12, <1>13, <1>14, <1>15, <1>16, <1>17, <1>18, <1>19, <1>20, <1>21, <1>22, <1>23, <1>24, <1>25, <1>26, <1>27, <1>28, <1>29, <1>30, <1>31, <1>32
       DEF Next, Program, Controller

LEMMA ReportKnown == Spec => [](TypeOK /\ StepKnown /\ ReportInv)
  <1>1. Init => ReportInv
    BY UsbAssumption, InitType
       DEF Init, ReportInv, ListCurrent, NoKeyboard, AddressRun, PollRun, StartStep, OldReport,
           GoneAddress, ToggleTrue, FirstTurn, DataReset, InPhase, Commands,
           Cycle, Asking, Starting, Resting, Idle, Poll
  <1>2. TypeOK /\ StepKnown /\ ReportInv /\ [Next]_vars => ReportInv'
    BY ReportStep
  <1> QED BY <1>1, <1>2, TypeAndStep, PTL DEF Spec

\* A report counts as a repetition exactly after an odd number of causes: an
\* odd toggle carried through USB_HOT_PLUG, turns without a report, another
\* report in the same turn (main.c:477, 497-529).
THEOREM RepetitionsHaveCause == Spec => ReportKept
  <1>1. ASSUME TypeOK, ReportInv, Report
        PROVE  Repetition <=> (got = 1 <=> carried = missed)
    <2>1. run.of = Poll /\ addressed /\ run.stage = "first"
      BY <1>1 DEF Report
    <2>2. step = Poll
      BY <1>1, <2>1 DEF ReportInv, PollRun
    <2> QED
      BY <1>1, <2>1, <2>2 DEF Repetition, ReportInv, ToggleTrue, InPhase
  <1>2. TypeOK /\ ReportInv /\ [Next]_vars
          => [Report => (Repetition <=> (got = 1 <=> carried = missed))]_vars
    BY <1>1
  <1> QED BY <1>2, ReportKnown, PTL DEF Spec, ReportKept

-----------------------------------------------------------------------------
(***************************************************************************)
(* Why the program does not hang while nothing goes wrong.  Before the       *)
(* configuration is set one list is on its way at a time, sent again until   *)
(* a sleep has outlasted it; the message register and the flag then tell     *)
(* the same story, and the control byte is good.                            *)
(***************************************************************************)
Early == clean /\ step < Configure

\* Nothing was said yet of the list that is sent next.
Silent ==
    /\ pc \in Starting \cup {"resetRead"} => ~resent
    /\ Early => /\ pc = "init" => ~flag
                /\ \/ pc \in {"initWait", "busReset", "busAck", "detect", "noDevice", "check"}
                   \/ pc \in {"load", "start"} /\ ~resent
                   => run = Resting /\ msg = "none" /\ ~flag

\* The list is sent, perhaps again, until it is over and the program knows.
Sending ==
    Early /\ pc \in {"load", "start", "sleep", "test"} =>
        /\ run = Resting \/ (run.of = step /\ run.stage # "failed")
        /\ flag <=> msg = "done"
        /\ run = Resting /\ (resent \/ pc \in {"sleep", "test"}) => flag
        /\ ~resent /\ flag => run = Resting
        /\ resent /\ pc = "test" => run = Resting
        /\ pc \in {"sleep", "test"} /\ (run = Resting \/ run.stage = "rest") => td.ctl = "ok"

\* Its message is read, and the request was taken at the first attempt.
Answered ==
    Early => /\ pc \in {"waitRead", "waitClear", "check"} => run = Resting /\ td.ctl = "ok"
             /\ pc = "waitRead" => msg = "done"
             /\ pc = "waitClear" => seen = "done" /\ ~flag
             /\ pc \notin {"retryRead", "retryClear", "spin", "retryCheck", "info"}

CleanInv == Quiet /\ Silent /\ Sending /\ Answered

LEMMA CleanStep ==
    ASSUME Prompt, TypeOK, StepKnown, ReportInv, CleanInv, [Next]_vars PROVE CleanInv'
  <1> USE UsbAssumption
  <1>0. /\ step \in 1 .. Poll /\ td.of \in Nat /\ run.of \in Nat
        /\ Requests \in Nat /\ Poll = Requests + 1 /\ Info = Requests + 2 /\ Requests >= 2
        /\ td = [of |-> td.of, ctl |-> td.ctl, toggle |-> td.toggle]
        /\ run = [of |-> run.of, stage |-> run.stage]
        /\ Configure \in 2 .. Requests
    BY DEF TypeOK, Transfers, Info, Poll, Idle
  <1>r. ListCurrent /\ Commands
    BY DEF ReportInv
  <1> USE <1>r DEF CleanInv, ListCurrent, Cycle, Asking, Quiet, Commands, Silent, Sending, Answered, Early,
              StepKnown, Judging, Polling, Starting, At, GoTo, Resting, Idle
  <1>1. CASE SoftReset
    BY <1>0, <1>1, SMTT(20) DEF SoftReset, program, keyboard, history
  <1>2. CASE ResetRead
    BY <1>0, <1>2, SMTT(20) DEF ResetRead, program, keyboard, history
  <1>3. CASE InitSie
    BY <1>0, <1>3, SMTT(20) DEF InitSie, program, keyboard, history
  <1>4. CASE InitAck
    BY <1>0, <1>4, SMTT(20) DEF InitAck, program, keyboard, history
  <1>5. CASE BusReset
    BY <1>0, <1>5, SMTT(20) DEF BusReset, program, keyboard, history
  <1>6. CASE BusAck
    BY <1>0, <1>6, SMTT(20) DEF BusAck, program, keyboard, history
  <1>7. CASE Detect
    BY <1>0, <1>7, SMTT(20) DEF Detect, program, keyboard, history
  <1>8. CASE NoDevice
    BY <1>0, <1>8, SMTT(20) DEF NoDevice, program, keyboard, history
  <1>9. CASE DeviceInfo
    BY <1>0, <1>9, SMTT(20) DEF DeviceInfo, Queue, program, keyboard, history
  <1>10. CASE Load
    BY <1>0, <1>10, SMTT(20) DEF Load, program, keyboard, history
  <1>11. CASE Start
    BY <1>0, <1>11, SMTT(20) DEF Start, Queue, program, keyboard, history
  <1>12. CASE Sleep
    BY <1>0, <1>12, SMTT(20) DEF Sleep, program, keyboard, history
  <1>13. CASE Test
    BY <1>0, <1>13, SMTT(20) DEF Test, program, keyboard, history
  <1>14. CASE WaitRead
    BY <1>0, <1>14, SMTT(20) DEF WaitRead, program, keyboard, history
  <1>15. CASE WaitClear
    BY <1>0, <1>15, SMTT(20) DEF WaitClear, program, keyboard, history
  <1>16. CASE Check
    BY <1>0, <1>16, SMTT(20) DEF Check, Advance, program, keyboard, history
  <1>17. CASE RetryRead
    BY <1>0, <1>17, SMTT(20) DEF RetryRead, program, keyboard, history
  <1>18. CASE RetryClear
    BY <1>0, <1>18, SMTT(20) DEF RetryClear, program, keyboard, history
  <1>19. CASE Spin
    BY <1>0, <1>19, SMTT(20) DEF Spin, program, keyboard, history
  <1>20. CASE RetryCheck
    BY <1>0, <1>20, SMTT(20) DEF RetryCheck, Advance, program, keyboard, history
  <1>21. CASE PollAgain
    BY <1>0, <1>21, SMTT(20) DEF PollAgain, program, keyboard, history
  <1>22. CASE WriteKey
    BY <1>0, <1>22, SMTT(20) DEF WriteKey, program, keyboard, history
  <1>23. CASE Watch
    BY <1>0, <1>23, SMTT(20) DEF Watch, program, keyboard, history
  <1>24. CASE Absent
    BY <1>0, <1>24, SMTT(20) DEF Absent, program, keyboard, history
  <1>25. CASE CommandDone
    BY <1>0, <1>25, SMTT(20) DEF CommandDone, program, keyboard, history
  <1>26. CASE RequestTaken
    <2>1. PICK ctl \in {"ok", "bad"} :
               /\ td' = [td EXCEPT !.ctl = ctl] /\ run' = [run EXCEPT !.stage = "rest"]
               /\ clean' => clean /\ ctl = "ok"
               /\ run.stage = "first" /\ run.of \in 1 .. Requests
               /\ UNCHANGED <<pc, step, resent, seen, command, msg, flag>>
      BY <1>26, Zenon DEF RequestTaken, program, keyboard
    <2> QED
      BY <1>0, <2>1
  <1>27. CASE RequestLost
    BY <1>0, <1>27, SMTT(20) DEF RequestLost, program, keyboard, history
  <1>28. CASE Report
    BY <1>0, <1>28, SMTT(20) DEF Report, program, keyboard, history
  <1>29. CASE NothingSaid
    BY <1>0, <1>29, SMTT(20) DEF NothingSaid, program, keyboard, history
  <1>30. CASE ListDone
    BY <1>0, <1>30, SMTT(20) DEF ListDone, program, keyboard, history
  <1>31. CASE PlugOrPull
    BY <1>0, <1>31, SMTT(20) DEF PlugOrPull, program, keyboard, history
  <1>32. CASE UNCHANGED vars
    BY <1>0, <1>32 DEF vars, program, keyboard, history
  <1> QED
    BY <1>1, <1>2, <1>3, <1>4, <1>5, <1>6, <1>7, <1>8, <1>9, <1>10, <1>11, <1>12, <1>13, <1>14, <1>15, <1>16, <1>17, <1>18, <1>19, <1>20, <1>21, <1>22, <1>23, <1>24, <1>25, <1>26, <1>27, <1>28, <1>29, <1>30, <1>31, <1>32
       DEF Next, Program, Controller

\* When every transfer works and nothing is plugged or pulled, and a list never
\* outlasts a sleep, the program waits for no message that cannot come before it
\* has run the list at 0x0576 (usb.c:539-580, main.c:354).
THEOREM CleanHangsNowhere == ASSUME Prompt PROVE Spec => []CleanNeverHangs
  <1>1. Init => CleanInv
    BY DEF Init, CleanInv, Quiet, Silent, Sending, Answered, Early, Starting
  <1>2. TypeOK /\ StepKnown /\ ReportInv /\ CleanInv /\ [Next]_vars => CleanInv'
    BY CleanStep
  <1>3. TypeOK /\ CleanInv => CleanNeverHangs
    BY UsbAssumption DEF TypeOK, CleanInv, Sending, Answered, Early, CleanNeverHangs, Hung, Poll
  <1> QED BY <1>1, <1>2, <1>3, ReportKnown, PTL DEF Spec
-----------------------------------------------------------------------------
(***************************************************************************)
(* Why no answer is looked at too early.  Before the configuration is set a  *)
(* list is started only when the one before is over, or is followed by a      *)
(* sleep; so a message that says TDListDone is never that of an older list.    *)
(***************************************************************************)
OneList ==
    /\ pc \in Starting \ {"init"} => msg # "done"
    /\ pc = "info" => step = Configure
    /\ step < Configure =>
        /\ pc \in {"load", "start"} /\ ~resent => run = Resting /\ msg # "done"
        /\ pc \in {"sleep", "test"} /\ ~resent /\ run # Resting => msg # "done"
        /\ pc = "test" /\ resent => run = Resting
        /\ pc \in {"waitRead", "waitClear"} /\ msg = "done" => run = Resting
        /\ pc = "waitClear" /\ seen = "done" => run = Resting
        /\ pc \in Judging => msg # "done"

AnswerInv == Quiet /\ OneList /\ AnswerComplete

LEMMA AnswerStep ==
    ASSUME Prompt, TypeOK, StepKnown, ReportInv, AnswerInv, [Next]_vars PROVE AnswerInv'
  <1> USE UsbAssumption
  <1>0. /\ step \in 1 .. Poll /\ run.of \in Nat
        /\ Requests \in Nat /\ Poll = Requests + 1 /\ Info = Requests + 2 /\ Requests >= 2
        /\ run = [of |-> run.of, stage |-> run.stage]
        /\ Configure \in 2 .. Requests
    BY DEF TypeOK, Transfers, Info, Poll, Idle
  <1>r. Commands
    BY DEF ReportInv
  <1> USE <1>r DEF AnswerInv, OneList, AnswerComplete, Quiet, Commands, StepKnown, Judging,
                   Polling, Starting, At, GoTo, Resting, Idle
  <1>1. CASE SoftReset
    BY <1>0, <1>1, SMTT(20) DEF SoftReset, program, keyboard, history
  <1>2. CASE ResetRead
    BY <1>0, <1>2, SMTT(20) DEF ResetRead, program, keyboard, history
  <1>3. CASE InitSie
    BY <1>0, <1>3, SMTT(20) DEF InitSie, program, keyboard, history
  <1>4. CASE InitAck
    BY <1>0, <1>4, SMTT(20) DEF InitAck, program, keyboard, history
  <1>5. CASE BusReset
    BY <1>0, <1>5, SMTT(20) DEF BusReset, program, keyboard, history
  <1>6. CASE BusAck
    BY <1>0, <1>6, SMTT(20) DEF BusAck, program, keyboard, history
  <1>7. CASE Detect
    BY <1>0, <1>7, SMTT(20) DEF Detect, program, keyboard, history
  <1>8. CASE NoDevice
    BY <1>0, <1>8, SMTT(20) DEF NoDevice, program, keyboard, history
  <1>9. CASE DeviceInfo
    BY <1>0, <1>9, SMTT(20) DEF DeviceInfo, Queue, program, keyboard, history
  <1>10. CASE Load
    BY <1>0, <1>10, SMTT(20) DEF Load, program, keyboard, history
  <1>11. CASE Start
    BY <1>0, <1>11, SMTT(20) DEF Start, Queue, program, keyboard, history
  <1>12. CASE Sleep
    BY <1>0, <1>12, SMTT(20) DEF Sleep, program, keyboard, history
  <1>13. CASE Test
    BY <1>0, <1>13, SMTT(20) DEF Test, program, keyboard, history
  <1>14. CASE WaitRead
    BY <1>0, <1>14, SMTT(20) DEF WaitRead, program, keyboard, history
  <1>15. CASE WaitClear
    BY <1>0, <1>15, SMTT(20) DEF WaitClear, program, keyboard, history
  <1>16. CASE Check
    BY <1>0, <1>16, SMTT(20) DEF Check, Advance, program, keyboard, history
  <1>17. CASE RetryRead
    BY <1>0, <1>17, SMTT(20) DEF RetryRead, program, keyboard, history
  <1>18. CASE RetryClear
    BY <1>0, <1>18, SMTT(20) DEF RetryClear, program, keyboard, history
  <1>19. CASE Spin
    BY <1>0, <1>19, SMTT(20) DEF Spin, program, keyboard, history
  <1>20. CASE RetryCheck
    BY <1>0, <1>20, SMTT(20) DEF RetryCheck, Advance, program, keyboard, history
  <1>21. CASE PollAgain
    BY <1>0, <1>21, SMTT(20) DEF PollAgain, program, keyboard, history
  <1>22. CASE WriteKey
    BY <1>0, <1>22, SMTT(20) DEF WriteKey, program, keyboard, history
  <1>23. CASE Watch
    BY <1>0, <1>23, SMTT(20) DEF Watch, program, keyboard, history
  <1>24. CASE Absent
    BY <1>0, <1>24, SMTT(20) DEF Absent, program, keyboard, history
  <1>25. CASE CommandDone
    BY <1>0, <1>25, SMTT(20) DEF CommandDone, program, keyboard, history
  <1>26. CASE RequestTaken
    BY <1>0, <1>26, SMTT(20) DEF RequestTaken, program, keyboard, history
  <1>27. CASE RequestLost
    BY <1>0, <1>27, SMTT(20) DEF RequestLost, program, keyboard, history
  <1>28. CASE Report
    BY <1>0, <1>28, SMTT(20) DEF Report, program, keyboard, history
  <1>29. CASE NothingSaid
    BY <1>0, <1>29, SMTT(20) DEF NothingSaid, program, keyboard, history
  <1>30. CASE ListDone
    BY <1>0, <1>30, SMTT(20) DEF ListDone, program, keyboard, history
  <1>31. CASE PlugOrPull
    BY <1>0, <1>31, SMTT(20) DEF PlugOrPull, program, keyboard, history
  <1>32. CASE UNCHANGED vars
    BY <1>0, <1>32 DEF vars, program, keyboard, history
  <1> QED
    BY <1>1, <1>2, <1>3, <1>4, <1>5, <1>6, <1>7, <1>8, <1>9, <1>10, <1>11, <1>12, <1>13, <1>14, <1>15, <1>16, <1>17, <1>18, <1>19, <1>20, <1>21, <1>22, <1>23, <1>24, <1>25, <1>26, <1>27, <1>28, <1>29, <1>30, <1>31, <1>32
       DEF Next, Program, Controller

\* With lists that are over when a sleep is, the controller is through with a list
\* whenever the program judges it or reads its answer, up to the word at 0x056c
\* (main.c:199-332), whatever fails and whenever the plug is pulled.
THEOREM AnswersAreComplete == ASSUME Prompt PROVE Spec => []AnswerComplete
  <1>1. Init => AnswerInv
    BY DEF Init, AnswerInv, Quiet, OneList, AnswerComplete, Judging, Starting
  <1>2. TypeOK /\ StepKnown /\ ReportInv /\ AnswerInv /\ [Next]_vars => AnswerInv'
    BY AnswerStep
  <1>3. AnswerInv => AnswerComplete
    BY DEF AnswerInv
  <1> QED BY <1>1, <1>2, <1>3, ReportKnown, PTL DEF Spec
=============================================================================
