------------------------ MODULE RemoteCommandProofs -------------------------
(***************************************************************************)
(* A command is executed at most once for each time it was accepted, for   *)
(* every set of commands and every delay.                                  *)
(***************************************************************************)
EXTENDS RemoteCommand, TLAPS

(* NORMAL stands for "no command": nothing is acknowledged then.           *)
NothingAcked == received = NORMAL => acked = NORMAL

(* A command that waits for its execution has not been executed, wherever  *)
(* the thread is but in the execution itself.                              *)
WaitingNotRun ==
  /\ esb \notin {"running", "ack"} /\ received # NORMAL /\ received # acked => runs = 0
  /\ esb = "switch" => received = NORMAL \/ received # acked

IInv == TypeOK /\ NothingAcked /\ WaitingNotRun /\ ExecutedOnce

LEMMA InitIInv ==
  ASSUME CommandAssumption, Init
  PROVE  IInv
BY DEF CommandAssumption, Init, IInv, TypeOK, NothingAcked, WaitingNotRun,
       ExecutedOnce, Flags, NoTime, NoPing

(* The interrupt's part of a step, and what it keeps of the invariant.     *)
LEMMA HandlePongKeeps ==
  ASSUME CommandAssumption, IInv, NEW f \in Flags, HandlePong(f), UNCHANGED esb
  PROVE  /\ received' \in Flags /\ acked' \in Flags
         /\ age' \in {NoTime} \cup 0..Delay
         /\ runs' \in 0..1
         /\ NothingAcked' /\ WaitingNotRun'
BY DEF CommandAssumption, IInv, TypeOK, NothingAcked, WaitingNotRun,
       ExecutedOnce, Flags, NoTime, HandlePong, Accepts

LEMMA StepIInv ==
  ASSUME CommandAssumption, IInv, [Next]_vars
  PROVE  IInv'
<1> USE CommandAssumption DEF IInv, Flags
<1>1. CASE Look
  BY <1>1 DEF Look, Due, TypeOK, NothingAcked, WaitingNotRun, ExecutedOnce, receiver
<1>2. CASE Switch
  <2>1. received # NORMAL => runs = 0
    BY <1>2 DEF Switch, WaitingNotRun
  <2> QED
    BY <1>2, <2>1 DEF Switch, TypeOK, NothingAcked, WaitingNotRun, ExecutedOnce,
       receiver, CommandAssumption
<1>3. CASE Execute
  BY <1>3 DEF Execute, TypeOK, NothingAcked, WaitingNotRun, ExecutedOnce, receiver
<1>4. CASE Ack
  BY <1>4 DEF Ack, AckedNow, TypeOK, NothingAcked, WaitingNotRun, ExecutedOnce, receiver
<1>5. CASE Tick
  <2>1. age' \in {NoTime} \cup 0..Delay
    BY <1>5 DEF Tick, TypeOK, NoTime, CommandAssumption
  <2> QED
    BY <1>5, <2>1 DEF Tick, TypeOK, NothingAcked, WaitingNotRun, ExecutedOnce, receiver
<1>6. CASE BuildPing \/ LosePing
  BY <1>6 DEF BuildPing, LosePing, AckFlag, TypeOK, NothingAcked, WaitingNotRun,
     ExecutedOnce, receiver, tracker
<1>7. ASSUME NEW lost \in BOOLEAN, Exchange(lost)
      PROVE  IInv'
  <2>1. /\ received' \in Flags /\ acked' \in Flags
        /\ age' \in {NoTime} \cup 0..Delay
        /\ runs' \in 0..1
        /\ NothingAcked' /\ WaitingNotRun'
    <3>1. CASE lost
      BY <1>7, <3>1 DEF Exchange, TypeOK, NothingAcked, WaitingNotRun, ExecutedOnce
    <3>2. CASE ~lost
      BY <1>7, <3>2, HandlePongKeeps DEF Exchange, TypeOK
    <3> QED BY <3>1, <3>2
  <2>2. wanted' \in Flags /\ pong' \in Flags
    BY <1>7 DEF Exchange, TypeOK
  <2> QED
    BY <1>7, <2>1, <2>2 DEF Exchange, TypeOK, ExecutedOnce
<1>8. ASSUME NEW c \in Commands, Issue(c)
      PROVE  IInv'
  BY <1>8 DEF Issue, TypeOK, NothingAcked, WaitingNotRun, ExecutedOnce
<1>9. CASE Restart
  BY <1>9 DEF Restart, TypeOK, NothingAcked, WaitingNotRun, ExecutedOnce, tracker
<1>10. CASE UNCHANGED vars
  BY <1>10 DEF vars, tracker, receiver, TypeOK, NothingAcked, WaitingNotRun, ExecutedOnce
<1> QED
  BY <1>1, <1>2, <1>3, <1>4, <1>5, <1>6, <1>7, <1>8, <1>9, <1>10 DEF Next, EsbThread

LEMMA SpecIInv ==
  ASSUME CommandAssumption
  PROVE  Spec => []IInv
<1>1. Init => IInv BY InitIInv
<1>2. IInv /\ [Next]_vars => IInv' BY StepIInv
<1> QED BY <1>1, <1>2, PTL DEF Spec

(* Received, acknowledged and running flags, the receiver's and the        *)
(* history stay in their types (esb.c 120-122).                            *)
THEOREM TypeCorrect == Spec => []TypeOK
<1>1. IInv => TypeOK BY DEF IInv
<1> QED BY <1>1, SpecIInv, CommandAssumption, PTL

(* No interleaving of interrupt and thread, no lost or repeated PING or    *)
(* PONG and no restart of the receiver makes the thread execute a command  *)
(* twice that was accepted once (esb.c 830-840 and 1685-1982).             *)
THEOREM OnceOnly == Spec => []ExecutedOnce
<1>1. IInv => ExecutedOnce BY DEF IInv
<1> QED BY <1>1, SpecIInv, CommandAssumption, PTL
=============================================================================
