------------------------------ MODULE UsbHost ------------------------------
(***************************************************************************)
(* The keyboard driver: main() enumerates a keyboard through the CY7C67200  *)
(* controller, polls it for reports, writes the first key of each report to *)
(* the port the game reads, and starts again after the keyboard was pulled. *)
(*                                                                         *)
(* The program is one process; pc says which access to the controller comes *)
(* next.  Accesses are separate actions where the controller, which runs    *)
(* beside the program, can come between them.  The controller and the      *)
(* keyboard are not part of the repository: they are modelled by what the   *)
(* program relies on, and otherwise do anything.                            *)
(***************************************************************************)
EXTENDS Integers, FiniteSets

CONSTANTS
    Requests,      \* number of control transfers of the enumeration (9 in the code)
    Configure,     \* the one that sets the configuration (6)
    Slow,          \* those followed by a sleep before the first look (5)
    DetectTries,   \* looks for a keyboard before the program gives up (5)
    RemoveTries,   \* looks before it says the keyboard is gone (7)
    Keys,          \* key codes the keyboard can report
    Prompt         \* TRUE: a transfer list never takes longer than a usleep

ASSUME UsbAssumption ==
    /\ Requests \in Nat /\ Requests >= 2 /\ Configure \in 2 .. Requests
    /\ Slow \subseteq 1 .. Requests /\ Prompt \in BOOLEAN
    /\ DetectTries \in Nat \ {0} /\ RemoveTries \in Nat \ {0}
    /\ "none" \notin Keys /\ "link" \notin Keys

Poll == Requests + 1          \* the interrupt transfer of the polling loop
Info == Requests + 2          \* the list at 0x0576
Transfers == 1 .. Info
Idle == 0

NoKey == "none"               \* no key pressed, and the port before the first report
Link == "link"                \* what enumeration leaves in the word at 0x051e

VARIABLES
    \* the program
    pc, step, tries, resent, seen, toggle, port,
    \* the controller: command and mailbox, message register and its flag in
    \* HPI_STATUS, the list in memory, the list being executed, the word at 0x051e
    command, mailbox, msg, flag, td, run, buf,
    \* the keyboard
    plugged, addressed, data, report,
    \* for the properties, since USB_HOT_PLUG: the requests a keyboard has taken;
    \* whether every transfer worked and nothing was plugged or pulled; the
    \* toggle that was carried over; the reports of this turn of the polling
    \* loop; the turns with none or two of them, modulo 2
    heard, clean, carried, got, missed

program == <<pc, step, tries, resent, seen, toggle, port>>
keyboard == <<plugged, addressed, data, report>>
history == <<heard, clean, carried, got, missed>>
vars == <<program, command, mailbox, msg, flag, td, run, buf, keyboard, history>>

Labels == {"hotPlug", "resetRead", "init", "initWait", "busReset", "busAck",
           "detect", "noDevice", "info", "load", "start", "sleep", "test",
           "waitRead", "waitClear", "check", "retryRead", "retryClear", "spin",
           "retryCheck", "poll", "key", "watch", "absent"}

TypeOK ==
    /\ pc \in Labels /\ step \in 1 .. Poll
    /\ tries \in 0 .. DetectTries + RemoveTries
    /\ resent \in BOOLEAN /\ seen \in {"none", "done", "other"}
    /\ toggle \in {0, 1} /\ port \in Keys \cup {NoKey, Link}
    /\ command \in {"none", "reset", "init", "busReset"} /\ mailbox \in {"ack", "other"}
    /\ msg \in {"none", "done", "other"} /\ flag \in BOOLEAN
    /\ td \in [of : Transfers, ctl : {"active", "ok", "bad"}, toggle : {0, 1}]
    /\ run \in [of : {Idle} \cup Transfers, stage : {"first", "rest", "failed"}]
    /\ buf \in Keys \cup {NoKey, Link}
    /\ plugged \in BOOLEAN /\ addressed \in BOOLEAN /\ data \in {0, 1}
    /\ report \in Keys \cup {NoKey}
    /\ heard \subseteq 1 .. Requests /\ clean \in BOOLEAN
    /\ carried \in {0, 1} /\ got \in 0 .. 2 /\ missed \in {0, 1}

Resting == [of |-> Idle, stage |-> "first"]

Init ==
    /\ pc = "hotPlug" /\ step = 1 /\ tries = 0 /\ resent = FALSE /\ seen = "none"
    /\ toggle = 0 /\ port = NoKey
    /\ command = "none" /\ mailbox \in {"ack", "other"} /\ msg = "none" /\ flag = FALSE
    /\ td = [of |-> 1, ctl |-> "bad", toggle |-> 0] /\ run = Resting /\ buf = Link
    /\ plugged \in BOOLEAN /\ addressed = FALSE /\ data = 0 /\ report = NoKey
    /\ heard = {} /\ clean = TRUE /\ carried = 0 /\ got = 1 /\ missed = 0

At(l) == pc = l
GoTo(l) == pc' = l
-----------------------------------------------------------------------------
(* Steps 1 and 2: reset the controller, then the bus (main.c:66-135). *)

\* UsbSoftReset.  Its 600 ms of sleep are longer than the reset takes.
SoftReset ==
    /\ At("hotPlug") /\ GoTo("resetRead")
    /\ command' = "reset"
    /\ step' = 1 /\ tries' = 0 /\ resent' = FALSE /\ seen' = "none"
    /\ heard' = {} /\ clean' = TRUE /\ carried' = toggle /\ got' = 1 /\ missed' = 0
    /\ UNCHANGED <<toggle, port, mailbox, msg, flag, td, run, buf, keyboard>>

ResetRead ==
    /\ At("resetRead") /\ GoTo("init")
    /\ command = "none"
    /\ flag' = FALSE
    /\ UNCHANGED <<step, tries, resent, seen, toggle, port, command, mailbox, msg, td, run,
                   buf, keyboard, history>>

InitSie ==
    /\ At("init") /\ GoTo("initWait")
    /\ msg' = "none" /\ command' = "init"
    /\ UNCHANGED <<step, tries, resent, seen, toggle, port, mailbox, flag, td, run, buf,
                   keyboard, history>>

\* HPI_STATUS is not zero once the mailbox is answered, or for a message.
InitAck ==
    /\ At("initWait")
    /\ command = "none" \/ flag
    /\ GoTo(IF mailbox = "ack" THEN "busReset" ELSE "hotPlug")
    /\ UNCHANGED <<step, tries, resent, seen, toggle, port, command, mailbox, msg, flag, td,
                   run, buf, keyboard, history>>

BusReset ==
    /\ At("busReset") /\ GoTo("busAck")
    /\ command' = "busReset"
    /\ UNCHANGED <<step, tries, resent, seen, toggle, port, mailbox, msg, flag, td, run, buf,
                   keyboard, history>>

\* No wait this time: the mailbox may still hold the answer to step 1.
BusAck ==
    /\ At("busAck")
    /\ GoTo(IF mailbox = "ack" THEN "detect" ELSE "hotPlug")
    /\ UNCHANGED <<step, tries, resent, seen, toggle, port, command, mailbox, msg, flag, td,
                   run, buf, keyboard, history>>

\* tries looks at USB1_CTL_REG have found no keyboard.
Detect ==
    /\ At("detect")
    /\ \/ plugged /\ GoTo("load") /\ tries' = 0
       \/ ~plugged /\ tries < DetectTries /\ tries' = tries + 1 /\ UNCHANGED pc
       \/ ~plugged /\ tries = DetectTries /\ tries' = 0 /\ GoTo("noDevice")
    /\ UNCHANGED <<step, resent, seen, toggle, port, command, mailbox, msg, flag, td, run, buf,
                   keyboard, history>>

\* Mutant: the loop waits on the value it has read before.
NoDeviceWaits ==
    /\ At("noDevice") /\ plugged /\ GoTo("noDevice")
    /\ UNCHANGED <<step, tries, resent, seen, toggle, port, command, mailbox, msg, flag, td,
                   run, buf, keyboard, history>>

NoDevice ==
    /\ At("noDevice") /\ plugged /\ GoTo("hotPlug")
    /\ UNCHANGED <<step, tries, resent, seen, toggle, port, command, mailbox, msg, flag, td,
                   run, buf, keyboard, history>>
-----------------------------------------------------------------------------
(* One transfer: write its list and its address, look at the flag, write   *)
(* them again every 10 ms, wait for TDListDone (main.c:182-190 and so on).  *)

\* Mutant: a list without its control word.
LoadKeepsByte ==
    /\ At("load") /\ GoTo("start")
    /\ td' = [td EXCEPT !.of = step, !.toggle = toggle]
    /\ buf' = IF step = Poll THEN buf ELSE Link
    /\ UNCHANGED <<step, tries, resent, seen, toggle, port, command, mailbox, msg, flag, run,
                   keyboard, history>>

\* Mutant: the loop advances its toggle when it sends a transfer again.
LoadToggling ==
    /\ At("load") /\ GoTo("start")
    /\ toggle' = (IF step = Poll THEN 1 - toggle ELSE toggle)
    /\ td' = [of |-> step, ctl |-> "active", toggle |-> toggle']
    /\ buf' = IF step = Poll THEN buf ELSE Link
    /\ UNCHANGED <<step, tries, resent, seen, port, command, mailbox, msg, flag, run,
                   keyboard, history>>

\* The list is written over whatever is in memory.
Load ==
    /\ At("load") /\ GoTo("start")
    /\ td' = [of |-> step, ctl |-> "active", toggle |-> toggle]
    /\ buf' = IF step = Poll THEN buf ELSE Link
    /\ UNCHANGED <<step, tries, resent, seen, toggle, port, command, mailbox, msg, flag, run,
                   keyboard, history>>

\* Writing HUSB_SIE1_pCurrentTDPtr makes the controller start at the first
\* descriptor, also when it was in the middle of a list.
Queue(transfer) == run' = [of |-> transfer, stage |-> "first"]

\* Mutant: no sleep after a list was written again.
StartAtOnce ==
    /\ At("start")
    /\ GoTo(IF step \in Slow THEN "sleep" ELSE "test")
    /\ Queue(td.of)
    /\ UNCHANGED <<step, tries, resent, seen, toggle, port, command, mailbox, msg, flag, td,
                   buf, keyboard, history>>

Start ==
    /\ At("start")
    /\ GoTo(IF resent \/ step \in Slow THEN "sleep" ELSE "test")
    /\ Queue(td.of)
    /\ UNCHANGED <<step, tries, resent, seen, toggle, port, command, mailbox, msg, flag, td,
                   buf, keyboard, history>>

Sleep ==
    /\ At("sleep") /\ GoTo("test")
    /\ Prompt => run = Resting
    /\ UNCHANGED <<step, tries, resent, seen, toggle, port, command, mailbox, msg, flag, td,
                   run, buf, keyboard, history>>

Test ==
    /\ At("test")
    /\ \/ flag /\ GoTo("waitRead") /\ resent' = FALSE
       \/ ~flag /\ GoTo("load") /\ resent' = TRUE
    /\ UNCHANGED <<step, tries, seen, toggle, port, command, mailbox, msg, flag, td, run, buf,
                   keyboard, history>>

\* Mutant: the register is cleared before it is read.
WaitReadCleared ==
    /\ At("waitRead") /\ GoTo("waitClear")
    /\ seen' = "none" /\ flag' = FALSE /\ msg' = "none"
    /\ UNCHANGED <<step, tries, resent, toggle, port, command, mailbox, td, run, buf,
                   keyboard, history>>

\* UsbWaitTDListDone: reading the register takes the flag back.
WaitRead ==
    /\ At("waitRead") /\ GoTo("waitClear")
    /\ seen' = msg /\ flag' = FALSE
    /\ UNCHANGED <<step, tries, resent, toggle, port, command, mailbox, msg, td, run, buf,
                   keyboard, history>>

WaitClear ==
    /\ At("waitClear")
    /\ GoTo(IF seen # "done" THEN "waitRead" ELSE IF step = Poll THEN "key" ELSE "check")
    /\ msg' = "none" /\ seen' = "none"
    /\ UNCHANGED <<step, tries, resent, toggle, port, command, mailbox, flag, td, run, buf,
                   keyboard, history>>
-----------------------------------------------------------------------------
(* The control byte of the first descriptor decides (main.c:194-203 for the *)
(* address, main.c:225-231 and so on for the others).                       *)

Advance ==
    /\ step' = step + 1 /\ resent' = FALSE
    /\ GoTo(IF step + 1 = Configure THEN "info" ELSE IF step = Requests THEN "poll" ELSE "load")

Check ==
    /\ At("check")
    /\ IF td.ctl = "ok" THEN Advance ELSE GoTo("retryRead") /\ UNCHANGED <<step, resent>>
    /\ UNCHANGED <<tries, seen, toggle, port, command, mailbox, msg, flag, td, run, buf,
                   keyboard, history>>

\* UsbGetRetryCnt.
RetryRead ==
    /\ At("retryRead")
    /\ GoTo(IF msg = "done" THEN "retryClear" ELSE "retryCheck")
    /\ flag' = FALSE
    /\ UNCHANGED <<step, tries, resent, seen, toggle, port, command, mailbox, msg, td, run, buf,
                   keyboard, history>>

RetryClear ==
    /\ At("retryClear") /\ GoTo("spin")
    /\ msg' = "none"
    /\ UNCHANGED <<step, tries, resent, seen, toggle, port, command, mailbox, flag, td, run,
                   buf, keyboard, history>>

Spin ==
    /\ At("spin") /\ flag /\ GoTo("retryCheck")
    /\ UNCHANGED <<step, tries, resent, seen, toggle, port, command, mailbox, msg, flag, td,
                   run, buf, keyboard, history>>

\* The address starts over whatever the byte is now; the others ask again.
RetryCheck ==
    /\ At("retryCheck")
    /\ \/ step = 1 /\ GoTo("hotPlug") /\ UNCHANGED <<step, resent>>
       \/ step # 1 /\ td.ctl = "ok" /\ Advance
       \/ step # 1 /\ td.ctl # "ok" /\ GoTo("retryRead") /\ UNCHANGED <<step, resent>>
    /\ UNCHANGED <<tries, seen, toggle, port, command, mailbox, msg, flag, td, run, buf,
                   keyboard, history>>

\* Before the configuration is set the program writes five words at 0x0576
\* and has the controller execute them as a list (main.c:348-354).
DeviceInfo ==
    /\ At("info") /\ GoTo("load")
    /\ Queue(Info)
    /\ UNCHANGED <<step, tries, resent, seen, toggle, port, command, mailbox, msg, flag, td,
                   buf, keyboard, history>>
-----------------------------------------------------------------------------
(* The polling loop (main.c:475-612). *)

PollAgain ==
    /\ At("poll") /\ GoTo("start")
    /\ toggle' = 1 - toggle /\ resent' = FALSE
    /\ td' = [of |-> Poll, ctl |-> "active", toggle |-> 1 - toggle]
    /\ got' = 0 /\ missed' = (IF got = 1 THEN missed ELSE 1 - missed)
    /\ UNCHANGED <<step, tries, seen, port, command, mailbox, msg, flag, run, buf, keyboard,
                   heard, clean, carried>>

\* Mutant: a key is written only after the one before was released.
WriteKeyReleased ==
    /\ At("key") /\ GoTo("watch")
    /\ port' = (IF port = NoKey THEN buf ELSE port)
    /\ UNCHANGED <<step, tries, resent, seen, toggle, command, mailbox, msg, flag, td, run, buf,
                   keyboard, history>>

WriteKey ==
    /\ At("key") /\ GoTo("watch")
    /\ port' = buf
    /\ UNCHANGED <<step, tries, resent, seen, toggle, command, mailbox, msg, flag, td, run, buf,
                   keyboard, history>>

Watch ==
    /\ At("watch")
    /\ \/ plugged /\ GoTo("poll") /\ tries' = 0
       \/ ~plugged /\ tries < RemoveTries /\ tries' = tries + 1 /\ UNCHANGED pc
       \/ ~plugged /\ tries = RemoveTries /\ tries' = 0 /\ GoTo("absent")
    /\ UNCHANGED <<step, resent, seen, toggle, port, command, mailbox, msg, flag, td, run, buf,
                   keyboard, history>>

Absent ==
    /\ At("absent") /\ plugged /\ GoTo("hotPlug")
    /\ UNCHANGED <<step, tries, resent, seen, toggle, port, command, mailbox, msg, flag, td,
                   run, buf, keyboard, history>>

Program ==
    \/ SoftReset \/ ResetRead \/ InitSie \/ InitAck \/ BusReset \/ BusAck
    \/ Detect \/ NoDevice \/ DeviceInfo
    \/ Load \/ Start \/ Sleep \/ Test \/ WaitRead \/ WaitClear
    \/ Check \/ RetryRead \/ RetryClear \/ Spin \/ RetryCheck
    \/ PollAgain \/ WriteKey \/ Watch \/ Absent
-----------------------------------------------------------------------------
(***************************************************************************)
(* The controller and the keyboard (external).                              *)
(***************************************************************************)
\* The reset leaves garbage in the mailbox and the message register
\* (usb.c:104-106).  The keyboard on the bus forgets its address only when
\* the bus itself is reset.
CommandDone ==
    /\ command # "none" /\ command' = "none"
    /\ mailbox' \in {"ack", "other"}
    /\ IF command = "reset"
       THEN msg' \in {"none", "done", "other"} /\ flag' \in BOOLEAN /\ run' = Resting
       ELSE UNCHANGED <<msg, flag, run>>
    /\ IF command = "busReset"
       THEN addressed' = FALSE /\ data' = 0
       ELSE UNCHANGED <<addressed, data>>
    /\ UNCHANGED <<program, td, buf, plugged, report, history>>

\* A keyboard without an address takes only the request that gives it one.
\* A list is executed also while the bus reset, which the program does not
\* wait for, is under way.
Reachable(transfer) == plugged /\ (addressed <=> transfer # 1)

\* The first descriptor of a request is done: the controller writes its
\* control byte, 3 if it worked at the first attempt.
RequestTaken ==
    /\ run.of \in 1 .. Requests /\ run.stage = "first" /\ Reachable(run.of)
    /\ \E ctl \in {"ok", "bad"} :
          /\ td' = [td EXCEPT !.ctl = ctl]
          /\ clean' = (clean /\ ctl = "ok")
    /\ run' = [run EXCEPT !.stage = "rest"]
    /\ heard' = heard \cup {run.of}
    /\ UNCHANGED <<program, command, mailbox, msg, flag, buf, keyboard, carried, got, missed>>

RequestLost ==
    /\ run.of \in 1 .. Requests /\ run.stage = "first"
    /\ td' = [td EXCEPT !.ctl = "bad"] /\ clean' = FALSE
    /\ run' = [run EXCEPT !.stage = "failed"]
    /\ UNCHANGED <<program, command, mailbox, msg, flag, buf, keyboard, heard, carried, got,
                   missed>>

\* The keyboard has a report for the polling list.  One with the other
\* DATA toggle counts as a repetition: it may be thrown away.
Report ==
    /\ run = [of |-> Poll, stage |-> "first"] /\ plugged /\ addressed
    /\ \E k \in Keys \cup {NoKey} :
          /\ report' = k
          /\ buf' \in (IF td.toggle # data THEN {k} ELSE {k, buf})
    /\ data' = 1 - data /\ got' = (IF got = 2 THEN 1 ELSE got + 1)
    /\ run' = [run EXCEPT !.stage = "rest"]
    /\ UNCHANGED <<program, command, mailbox, msg, flag, td, plugged, addressed, heard, clean,
                   carried, missed>>

\* No answer, no report, or the list that is not one.
NothingSaid ==
    /\ run.of \in {Poll, Info} /\ run.stage = "first"
    /\ run' = [run EXCEPT !.stage = "rest"]
    /\ UNCHANGED <<program, command, mailbox, msg, flag, td, buf, keyboard, history>>

\* The last descriptor is done and TDListDone is sent, whatever became of it.
\* An address counts from the end of its transfer, a configuration starts the
\* keyboard's reports at DATA0.
ListDone ==
    /\ run.stage \in {"rest", "failed"}
    /\ run' = Resting /\ msg' = "done" /\ flag' = TRUE
    /\ LET works == run.stage = "rest" /\ plugged
       IN  /\ addressed' = (addressed \/ (works /\ run.of = 1))
           /\ data' = IF works /\ run.of = Configure THEN 0 ELSE data
    /\ UNCHANGED <<program, command, mailbox, td, buf, plugged, report, history>>

\* The controller may send a message about it.
PlugOrPull ==
    /\ plugged' = ~plugged /\ addressed' = FALSE /\ data' = 0 /\ report' = NoKey
    /\ \/ msg' = "other" /\ flag' = TRUE
       \/ UNCHANGED <<msg, flag>>
    /\ clean' = FALSE
    /\ UNCHANGED <<program, command, mailbox, td, run, buf, heard, carried, got, missed>>

Controller == CommandDone \/ RequestTaken \/ RequestLost \/ Report \/ NothingSaid \/ ListDone

Next == Program \/ Controller \/ PlugOrPull

Spec == Init /\ [][Next]_vars

(***************************************************************************)
(* Fairness.  The program runs, and the controller finishes what it was     *)
(* told to do, well or badly.                                               *)
(***************************************************************************)
Fairness ==
    /\ WF_vars(Program)
    /\ WF_vars(CommandDone) /\ WF_vars(RequestTaken \/ RequestLost \/ Report \/ NothingSaid)
    /\ WF_vars(ListDone)

FairSpec == Spec /\ Fairness
-----------------------------------------------------------------------------
(* Properties *)

\* The program gets past a request only after a keyboard has taken it since
\* USB_HOT_PLUG (main.c:199 and the tests like it), although it looks only
\* at one byte in memory that earlier transfers have written as well.
RequestsHeard == \A r \in 1 .. Requests : r < step => r \in heard

\* The program waits for what the controller will not send of itself: in
\* UsbWaitTDListDone, in UsbGetRetryCnt, or in the loop around it.
Hung ==
    /\ run = Resting
    /\ \/ pc \in {"waitRead", "waitClear"} /\ msg # "done" /\ seen # "done"
       \/ pc = "spin" /\ ~flag
       \/ pc \in {"retryRead", "retryCheck"} /\ step # 1 /\ td.ctl # "ok" /\ msg # "done"

\* When every transfer works and nothing is plugged or pulled, the program
\* does not wait for what never comes (usb.c:539-580), except after it ran
\* the list at 0x0576 (main.c:354), whose message can be taken for another.
CleanNeverHangs == clean /\ Hung => step >= Configure

\* A report counts as a repetition exactly when an odd number of things has put
\* the toggle of the loop out of step: an odd toggle carried through USB_HOT_PLUG
\* to a keyboard that starts with DATA0, each turn without a report, a second
\* report in this turn (main.c:477).  No resend and no lost message does.
Repetition == td.toggle = data
ReportKept == [][Report => (Repetition <=> (got = 1 <=> carried = missed))]_vars

\* Before the configuration is set the controller is through with the list
\* when the program judges the request, and when it reads the answer
\* (main.c:199-332): no word of an answer is looked at too early.
AnswerComplete ==
    \/ pc = "info"
    \/ step < Configure /\ pc \in {"check", "retryRead", "retryClear", "spin", "retryCheck"}
    => run = Resting

\* A key that stays in the last report gets to the port (main.c:526-529).
KeyReachesPort ==
    \A k \in Keys : (step = Poll /\ report = k /\ buf = k)
                      ~> (port = k \/ report # k \/ buf # k \/ Hung)

\* If from some time on a keyboard stays plugged, every transfer works and
\* every command is acknowledged, the program polls for ever, or it hangs
\* (main.c:66-614): none of the loops and restarts goes on without end.
Works ==
    /\ CommandDone => mailbox' = "ack"
    /\ RequestTaken => td'.ctl = "ok"
    /\ ~RequestLost

PolledOrHung == <>[]plugged /\ <>[][Works]_vars => []<>(pc = "watch") \/ <>[]Hung
=============================================================================
