---------------------------------- MODULE Led ----------------------------------
(***************************************************************************)
(* The LED (system/led.c): every thread asks for patterns in a table with  *)
(* one entry per priority, set_led shows the first entry that is not off,  *)
(* and the LED thread plays what is shown.  set_led takes no lock: threads *)
(* of the same priority share the processor in slices, and the connection  *)
(* thread interrupts them anywhere.  The status thread (system/status.c)   *)
(* asks again every 100 ms, for an error pattern or for none.              *)
(*                                                                         *)
(* Colours, brightness and the length of the flashes are left out; patterns*)
(* that repeat for ever are one class, one-shots that end by themselves    *)
(* another (power-off, which ends dark instead of off, is left out).       *)
(***************************************************************************)
EXTENDS Naturals

CONSTANTS
    Callers,      \* threads that ask for patterns
    StatusCaller, \* status_thread
    Repeating, OneShots,  \* patterns
    ErrorPattern, \* the repeating pattern of an error
    Depth,        \* SYS_LED_PATTERN_DEPTH
    StatusPriority,
    Steps,        \* steps of a one-shot
    LedRequests   \* bound: requests of the callers

ASSUME LedAssumption ==
    /\ StatusCaller \notin Callers /\ ErrorPattern \in Repeating
    /\ Repeating \cap OneShots = {} /\ {"off", "force"} \cap (Repeating \cup OneShots) = {}
    /\ {Depth, Steps} \subseteq Nat \ {0} /\ LedRequests \in Nat
    /\ StatusPriority \in 0 .. Depth - 1

VARIABLES
    table,      \* led_patterns; its last place is the memory behind the array
    current,    \* current_led_pattern
    priority,   \* current_priority
    step,       \* led_pattern_state
    playing,    \* the LED thread is not suspended
    ending,     \* the LED thread has decided to turn its one-shot off
    call,       \* where each caller is in set_led
    requests,   \* bound
    error       \* an error bit of status_state

ledVars == <<table, current, priority, step, playing, ending, call, requests, error>>

\* OFF yields to lower priorities, OFF_FORCE does not; with both the LED is dark.
Dark == {"off", "force"}
Patterns == Dark \cup Repeating \cup OneShots
AllCallers == Callers \cup {StatusCaller}

LedInit ==
    /\ table = [p \in 0 .. Depth |-> "off"]
    /\ current = "off" /\ priority = 0 /\ step = 0 /\ playing = FALSE /\ ending = FALSE
    /\ call = [c \in AllCallers |-> [at |-> "out", pattern |-> "off"]]
    /\ requests = 0 /\ error = FALSE

-----------------------------------------------------------------------------
(* set_led                                                                 *)

Enter(c, pattern, p) ==
    /\ call[c].at = "out"
    /\ table' = [table EXCEPT ![p] = pattern]
    /\ call' = [call EXCEPT ![c] = [at |-> "scan", pattern |-> pattern]]

\* The loop ends behind the table when it finds nothing.
FirstAsked(asked) ==
    LET places == {p \in 0 .. Depth - 1 : asked[p] # "off"}
    IN IF places = {} THEN Depth ELSE CHOOSE p \in places : \A q \in places : p <= q
Found(asked, pattern) == IF FirstAsked(asked) = Depth THEN pattern ELSE asked[FirstAsked(asked)]

\* What is shown already is left alone, where it comes from included.
Shown(pattern) == pattern = current /\ current \notin Dark

Show(c) ==
    /\ call[c].at = "scan"
    /\ LET pattern == Found(table, call[c].pattern) IN
       IF Shown(pattern)
       THEN /\ call' = [call EXCEPT ![c].at = "out"]
            /\ UNCHANGED <<current, priority, step>>
       ELSE /\ current' = pattern /\ priority' = FirstAsked(table) /\ step' = 0
            /\ call' = [call EXCEPT ![c].at = "shown"]
    /\ UNCHANGED <<table, playing, ending, requests, error>>

\* What is shown now decides, another caller may have changed it since.
Decide(c) ==
    /\ call[c].at = "shown"
    /\ call' = [call EXCEPT ![c].at = IF current \in Dark THEN "stop" ELSE "play"]
    /\ UNCHANGED <<table, current, priority, step, playing, ending, requests, error>>

Switch(c) ==
    /\ call[c].at \in {"stop", "play"}
    /\ playing' = (call[c].at = "play")
    /\ call' = [call EXCEPT ![c].at = "out"]
    /\ UNCHANGED <<table, current, priority, step, ending, requests, error>>

Request(c) ==
    /\ requests < LedRequests /\ requests' = requests + 1
    /\ \E pattern \in Patterns, p \in (0 .. Depth - 1) \ {StatusPriority} : Enter(c, pattern, p)
    /\ UNCHANGED <<current, priority, step, playing, ending, error>>

StatusPoll_OnlyErrors ==
    /\ error /\ Enter(StatusCaller, ErrorPattern, StatusPriority)
    /\ UNCHANGED <<current, priority, step, playing, ending, requests, error>>

StatusPoll ==
    /\ Enter(StatusCaller, IF error THEN ErrorPattern ELSE "off", StatusPriority)
    /\ UNCHANGED <<current, priority, step, playing, ending, requests, error>>

\* set_status raises and clears a bit that status_thread shows.
SetError ==
    /\ requests < LedRequests /\ requests' = requests + 1
    /\ error' = ~error
    /\ UNCHANGED <<table, current, priority, step, playing, ending, call>>

-----------------------------------------------------------------------------
(* led_thread                                                              *)

Play ==
    /\ playing /\ ~ending
    /\ IF current \in OneShots
       THEN /\ step' = (IF step > Steps THEN step ELSE step + 1)
            /\ ending' = (step + 1 = Steps) /\ UNCHANGED playing
       ELSE /\ playing' = (current \in Repeating) /\ UNCHANGED <<step, ending>>
    /\ UNCHANGED <<table, current, priority, call, requests, error>>

\* set_led called by the LED thread turns off what is shown when it gets there.
TurnOff ==
    LET cleared == [table EXCEPT ![priority] = "off"]
        pattern == Found(cleared, "off")
    IN /\ playing /\ ending /\ ending' = FALSE /\ table' = cleared
       /\ IF Shown(pattern)
          THEN UNCHANGED <<current, priority, step, playing>>
          ELSE /\ current' = pattern /\ priority' = FirstAsked(cleared) /\ step' = 0
               /\ playing' = (pattern \notin Dark)
       /\ UNCHANGED <<call, requests, error>>

LedThread == Play \/ TurnOff
InSetLed(c) == Show(c) \/ Decide(c) \/ Switch(c)
LedNext == LedThread \/ StatusPoll \/ SetError
           \/ (\E c \in Callers : Request(c))
           \/ (\E c \in AllCallers : InSetLed(c))

\* The status thread never stops asking; a call that was begun ends.
LedFairness ==
    /\ WF_ledVars(LedThread) /\ WF_ledVars(StatusPoll)
    /\ \A c \in AllCallers : WF_ledVars(InSetLed(c))
LedSpec == LedInit /\ [][LedNext]_ledVars /\ LedFairness

-----------------------------------------------------------------------------
LedTypeOK ==
    /\ table \in [0 .. Depth -> Patterns] /\ current \in Patterns
    /\ priority \in 0 .. Depth /\ step \in 0 .. Steps + 1
    /\ {playing, ending, error} \subseteq BOOLEAN
    /\ call \in [AllCallers -> [at : {"out", "scan", "shown", "stop", "play"}, pattern : Patterns]]
    /\ requests \in 0 .. LedRequests

\* Callers that interrupt each other in the middle of set_led can leave a pattern
\* shown that nobody asks for any more; once they are done the LED comes to show
\* the most urgent pattern asked for, because the status thread asks again.
LedSettles == <>[](current = Found(table, "off"))

\* "200ms on 200ms off, 4 times" (led.h:47): a one-shot ends after its steps.
OneShotEnds == current \in OneShots => step <= Steps

\* A pattern that is shown is played.
Lit == <>[](current \notin Dark => playing)

\* The LED thread turns off an entry of the table.
StaysInTable == ending /\ playing => priority < Depth
=============================================================================
