-------------------------------- MODULE Buttons --------------------------------
(***************************************************************************)
(* The button (system/system.c, main.c): the interrupt notes when a press  *)
(* begins and how long it lasted; the button thread counts clicks, asks    *)
(* for a reboot after one and for one of the modes of sys_reset_mode after *)
(* several, or, while the button is held, shuts down or, if it is held on, *)
(* resets the pairing.  main does the same for a button that is held when  *)
(* it looks, a while after the interrupt was enabled.                      *)
(*                                                                         *)
(* Times are counted in units the thresholds are multiples of; one turn of *)
(* the thread's loop, 20 ms, is one action up to sys_user_shutdown.        *)
(***************************************************************************)
EXTENDS Naturals

CONSTANTS
    Debounce, ClickWindow, HoldTime,  \* of the thread
    OffTime, CancelTime,              \* of sys_user_shutdown
    BootHold,                         \* of main
    ResetModes,                       \* of sys_reset_mode, those the build has
    Presses                           \* bound: presses

ASSUME ButtonAssumption ==
    /\ {Debounce, ClickWindow, HoldTime, OffTime, CancelTime, BootHold, Presses} \subseteq Nat \ {0}
    /\ Debounce < HoldTime /\ OffTime < CancelTime /\ ResetModes \subseteq Nat \ {0}

VARIABLES
    down,        \* the button; presses are numbered
    press,
    pressTime,   \* press_time, as the time since it, NoTime for 0
    clicked,     \* last_press_duration # 0
    numPresses, lastPress,  \* of the thread
    buttonPc, inShutdown,   \* where the thread is, and for how long in sys_user_shutdown
    mainPc, sinceBoot,
    fromShutdown,  \* booting_from_shutdown
    zero,        \* the reboot counter is 0, which stands for a shutdown by the user
    busy,        \* an update is going on or suppresses the sensors
    acts,        \* history: actions each press has led to
    clickOf,     \* history: the press that clicked is about
    counted,     \* history: the presses counted in numPresses
    hurried,     \* history: the presses that were released while the pairing was reset
    early        \* history: the presses that the interrupt noted and main saw

buttonVars == <<down, press, pressTime, clicked, numPresses, lastPress, buttonPc, inShutdown,
                mainPc, sinceBoot, fromShutdown, zero, busy, acts, clickOf, counted, hurried, early>>

NoTime == 99
TimeLimit == ClickWindow + HoldTime + OffTime + CancelTime + BootHold
Next(t) == IF t = NoTime \/ t = TimeLimit THEN t ELSE t + 1
After(t, limit) == t # NoTime /\ t > limit
Act(ps) == acts' = [p \in 0 .. Presses |-> IF p \in ps THEN acts[p] + 1 ELSE acts[p]]
Acts(p) == Act({p})

\* A button that is held at boot gave no interrupt.
ButtonInit ==
    /\ down \in BOOLEAN /\ press = 0 /\ pressTime = NoTime /\ clicked = FALSE
    /\ numPresses = 0 /\ lastPress = NoTime /\ buttonPc = "loop" /\ inShutdown = 0
    /\ mainPc = "starts" /\ sinceBoot = 0 /\ fromShutdown = FALSE /\ zero \in BOOLEAN /\ busy = FALSE
    /\ acts = [p \in 0 .. Presses |-> 0] /\ clickOf = 0 /\ counted = {} /\ hurried = {} /\ early = {}

-----------------------------------------------------------------------------
(* button_interrupt_handler                                                *)

\* main, which polls the button, may miss that it was let go before.
Press ==
    /\ ~down /\ press < Presses /\ down' = TRUE /\ press' = press + 1
    /\ pressTime' = IF pressTime = NoTime THEN 0 ELSE pressTime
    /\ early' = IF mainPc = "held" THEN early \cup {press + 1} ELSE early
    /\ UNCHANGED <<clicked, numPresses, lastPress, buttonPc, inShutdown, mainPc, sinceBoot,
                   fromShutdown, zero, busy, acts, clickOf, counted, hurried>>

Release ==
    /\ down /\ down' = FALSE /\ pressTime' = NoTime
    /\ IF After(pressTime, Debounce)
       THEN clicked' = TRUE /\ clickOf' = press
       ELSE UNCHANGED <<clicked, clickOf>>
    /\ hurried' = IF buttonPc = "reset" THEN hurried \cup {press} ELSE hurried
    /\ UNCHANGED <<press, numPresses, lastPress, buttonPc, inShutdown, mainPc, sinceBoot,
                   fromShutdown, zero, busy, acts, counted, early>>

-----------------------------------------------------------------------------
(* button_thread                                                           *)

Held == After(pressTime, HoldTime) /\ down
WindowOver == ~clicked /\ After(lastPress, ClickWindow)

CountClick ==
    /\ buttonPc = "loop" /\ clicked /\ clicked' = FALSE
    /\ numPresses' = numPresses + 1 /\ lastPress' = 0 /\ counted' = counted \cup {clickOf}
    /\ UNCHANGED <<down, press, pressTime, buttonPc, inShutdown, mainPc, sinceBoot, fromShutdown,
                   zero, busy, acts, clickOf, hurried, early>>

\* One click asks for a reboot, n for mode n - 1: a calibration, a reset of the
\* pairing, the bootloader.
Asks(n) == n = 1 \/ n - 1 \in ResetModes

\* The test mode keeps one click from rebooting.
Clicks ==
    /\ buttonPc = "loop" /\ WindowOver
    /\ lastPress' = NoTime /\ numPresses' = 0 /\ counted' = {}
    /\ \/ ~busy /\ Asks(numPresses) /\ Act(counted)
       \/ (busy \/ numPresses = 1 \/ ~Asks(numPresses)) /\ UNCHANGED acts
    /\ UNCHANGED <<down, press, pressTime, clicked, buttonPc, inShutdown, mainPc, sinceBoot,
                   fromShutdown, zero, busy, clickOf, hurried, early>>

Hold ==
    /\ buttonPc = "loop" /\ ~clicked /\ ~WindowOver /\ Held
    /\ IF busy THEN pressTime' = NoTime /\ UNCHANGED <<buttonPc, inShutdown, zero>>
       ELSE buttonPc' = "shutdown" /\ inShutdown' = 0 /\ zero' = TRUE /\ UNCHANGED pressTime
    /\ UNCHANGED <<down, press, clicked, numPresses, lastPress, mainPc, sinceBoot, fromShutdown,
                   busy, acts, clickOf, counted, hurried, early>>

\* Released: the system is asked to turn off, and the thread aborts itself.
Off ==
    /\ buttonPc = "shutdown" /\ inShutdown >= OffTime /\ ~down
    /\ buttonPc' = "gone" /\ Acts(press)
    /\ UNCHANGED <<down, press, pressTime, clicked, numPresses, lastPress, inShutdown, mainPc,
                   sinceBoot, fromShutdown, zero, busy, clickOf, counted, hurried, early>>

\* Held on: the pairing is reset, and that takes a while.
Cancel ==
    /\ buttonPc = "shutdown" /\ inShutdown > CancelTime /\ down
    /\ buttonPc' = "reset" /\ Acts(press)
    /\ UNCHANGED <<down, press, pressTime, clicked, numPresses, lastPress, inShutdown, mainPc,
                   sinceBoot, fromShutdown, zero, busy, clickOf, counted, hurried, early>>

ResetPair_KeepsPress ==
    /\ buttonPc = "reset" /\ buttonPc' = "loop"
    /\ UNCHANGED <<down, press, pressTime, clicked, numPresses, lastPress, inShutdown, mainPc,
                   sinceBoot, fromShutdown, zero, busy, acts, clickOf, counted, hurried, early>>

ResetPair ==
    /\ buttonPc = "reset" /\ buttonPc' = "loop" /\ pressTime' = NoTime
    /\ UNCHANGED <<down, press, clicked, numPresses, lastPress, inShutdown, mainPc, sinceBoot,
                   fromShutdown, zero, busy, acts, clickOf, counted, hurried, early>>

ButtonThread == CountClick \/ Clicks \/ Hold \/ Off \/ Cancel \/ ResetPair

-----------------------------------------------------------------------------
(* main                                                                    *)

\* Whether the tracker was shut down by the user, who now holds the button.
MainStarts ==
    /\ mainPc = "starts" /\ mainPc' = "looks" /\ fromShutdown' = (zero /\ down)
    /\ UNCHANGED <<down, press, pressTime, clicked, numPresses, lastPress, buttonPc, inShutdown,
                   sinceBoot, zero, busy, acts, clickOf, counted, hurried, early>>

\* Press 0 is the one before the interrupt was enabled.
MainLooks ==
    /\ mainPc = "looks" /\ mainPc' = (IF down THEN "held" ELSE "boots")
    /\ early' = IF down /\ press > 0 THEN early \cup {press} ELSE early
    /\ UNCHANGED <<down, press, pressTime, clicked, numPresses, lastPress, buttonPc, inShutdown,
                   sinceBoot, fromShutdown, zero, busy, acts, clickOf, counted, hurried>>

\* The button is let go: after a shutdown, at once means to stay off.
MainReleased ==
    /\ mainPc = "held" /\ ~down /\ mainPc' = "boots"
    /\ IF sinceBoot < Debounce /\ fromShutdown THEN Acts(press) ELSE UNCHANGED acts
    /\ UNCHANGED <<down, press, pressTime, clicked, numPresses, lastPress, buttonPc, inShutdown,
                   sinceBoot, fromShutdown, zero, busy, clickOf, counted, hurried, early>>

\* It is held on, and the pairing is reset.
MainResets ==
    /\ mainPc = "held" /\ down /\ sinceBoot > BootHold /\ mainPc' = "boots" /\ Acts(press)
    /\ UNCHANGED <<down, press, pressTime, clicked, numPresses, lastPress, buttonPc, inShutdown,
                   sinceBoot, fromShutdown, zero, busy, clickOf, counted, hurried, early>>

\* The counter starts anew.  The reset pin is never seen to be the cause, the watchdog
\* having cleared it, so none of the modes that resets are counted for is entered.
MainBoots ==
    /\ mainPc = "boots" /\ mainPc' = "done" /\ zero' = FALSE
    /\ UNCHANGED <<down, press, pressTime, clicked, numPresses, lastPress, buttonPc, inShutdown,
                   sinceBoot, fromShutdown, busy, acts, clickOf, counted, hurried, early>>

MainThread == MainStarts \/ MainLooks \/ MainReleased \/ MainResets \/ MainBoots

-----------------------------------------------------------------------------
\* Time passes when the threads wait; resetting the pairing is shorter than that.
Tick ==
    /\ ~ENABLED (ButtonThread \/ MainThread)
    /\ pressTime' = Next(pressTime) /\ lastPress' = Next(lastPress)
    /\ inShutdown' = (IF buttonPc = "shutdown" THEN Next(inShutdown) ELSE 0)
    /\ sinceBoot' = Next(sinceBoot)
    /\ UNCHANGED <<down, press, clicked, numPresses, buttonPc, mainPc, fromShutdown, zero, busy,
                   acts, clickOf, counted, hurried, early>>

Ota ==
    /\ busy' = ~busy
    /\ UNCHANGED <<down, press, pressTime, clicked, numPresses, lastPress, buttonPc, inShutdown,
                   mainPc, sinceBoot, fromShutdown, zero, acts, clickOf, counted, hurried, early>>

ButtonsNext == Press \/ Release \/ ButtonThread \/ MainThread \/ Tick \/ Ota
ButtonsSpec == ButtonInit /\ [][ButtonsNext]_buttonVars

-----------------------------------------------------------------------------
ButtonsTypeOK ==
    /\ {down, clicked, fromShutdown, zero, busy} \subseteq BOOLEAN /\ press \in 0 .. Presses
    /\ {pressTime, lastPress, inShutdown, sinceBoot} \subseteq 0 .. TimeLimit \cup {NoTime}
    /\ {numPresses, clickOf} \cup counted \cup hurried \cup early \subseteq 0 .. Presses
    /\ buttonPc \in {"loop", "shutdown", "reset", "gone"}
    /\ mainPc \in {"starts", "looks", "held", "boots", "done"}

\* A press leads to one action at most: a reboot, a shutdown, a reset of the
\* pairing or, with the clicks around it, one of the modes that clicks ask for,
\* whatever the presses before it and after it; unless it is released just while
\* the pairing is reset, or the interrupt noted it and main still finds it held.
OneActionPerPress == \A p \in 0 .. press : p \notin hurried \cup early => acts[p] <= 1

\* And then too.
OneActionEver == \A p \in 0 .. press : acts[p] <= 1

\* "0 means from user shutdown" (main.c:86): once main has run, the reboot counter is 0
\* only while the tracker is on its way to being shut down.
ZeroMeansShutdown == zero /\ mainPc = "done" => buttonPc \in {"shutdown", "gone"}
=============================================================================
