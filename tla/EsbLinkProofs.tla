--------------------------- MODULE EsbLinkProofs ----------------------------
(***************************************************************************)
(* Interrupt and ESB thread count a PING as failed at most once between    *)
(* them, for every threshold, interval, backoff and delay.                 *)
(***************************************************************************)
EXTENDS EsbLink, FiniteSetTheorems, TLAPS

One(b) == IF b THEN 1 ELSE 0

(* A PING not yet counted is either pending or in the ESB thread's hands.  *)
Uncounted == One(ping_pending) + One(esb = "store")

(* The failures counted, and those still to be, never exceed the PINGs     *)
(* sent; the token is in one place; the thread's load is fresh.            *)
Tokens ==
  ~raced =>
    /\ unanswered = Most \/ ping_failures + Uncounted <= unanswered
    /\ esb = "clear" => ping_pending \/ unanswered = Most
    /\ esb = "store" => loaded = ping_failures

IInv == TypeOK /\ Tokens

LEMMA ConstantsType ==
  ASSUME LinkAssumption
  PROVE  /\ LongestInterval \in Nat
         /\ Most \in Nat \ {0, 1}
         /\ SyncTimeout + 1 \in Nat /\ TimeoutDelay + 1 \in Nat
         /\ Threshold \in Nat /\ RecoveryThreshold \in Nat
         /\ 0 \in 0..RecoveryThreshold /\ 0 \in 0..Most
         /\ 0 \in 0..LongestInterval /\ LongestInterval \in 0..LongestInterval
<1>1. Cardinality(BackoffAt) \in Nat
  BY FS_CardinalityType DEF LinkAssumption
<1> QED BY <1>1 DEF LinkAssumption, LongestInterval, Most

LEMMA BumpType ==
  ASSUME LinkAssumption, NEW n \in 0..Most
  PROVE  /\ Bump(n) \in 0..Most
         /\ Bump(n) = n + 1 \/ (n = Most /\ Bump(n) = n)
BY ConstantsType DEF Bump

LEMMA OlderType ==
  ASSUME NEW cap \in Nat, NEW age \in 0..cap
  PROVE  Older(age, cap) \in 0..cap
BY DEF Older

LEMMA InitIInv ==
  ASSUME LinkAssumption, Init
  PROVE  IInv
<1>1. TypeOK
  <2>1. ping_failures \in 0..Most /\ loaded \in 0..Most /\ unanswered \in 0..Most
        /\ ping_success_streak \in 0..RecoveryThreshold
    BY ConstantsType DEF Init
  <2>2. send_age \in 0..LongestInterval /\ last_age \in 0..LongestInterval
        /\ idle_age \in 0..LongestInterval
    BY ConstantsType DEF Init
  <2>3. sync_age \in {NotSynced} /\ error_age \in {NoStart}
        /\ flags \subseteq Flags /\ esb = "check" /\ conn = "loop"
    BY DEF Init
  <2>4. ping_pending \in BOOLEAN /\ connection_error \in BOOLEAN
        /\ shutdown_requested \in BOOLEAN /\ command \in BOOLEAN /\ raced \in BOOLEAN
    BY Zenon DEF Init
  <2> QED BY <2>1, <2>2, <2>3, <2>4 DEF TypeOK
<1>2. Tokens
  BY ConstantsType DEF Init, Tokens, Uncounted, One
<1> QED BY <1>1, <1>2 DEF IInv

LEMMA StepType ==
  ASSUME LinkAssumption, TypeOK, [Next]_vars
  PROVE  TypeOK'
<1> USE LinkAssumption, ConstantsType
<1>1. CASE BeginPing
  BY <1>1, BumpType DEF BeginPing, TypeOK, SyncAfterRead, status, thread
<1>2. ASSUME NEW accepted \in BOOLEAN, QueuePing(accepted)
      PROVE  TypeOK'
  BY <1>2 DEF QueuePing, TypeOK, status, history
<1>3. CASE TxFailed
  <2>1. /\ ping_pending' \in BOOLEAN
        /\ ping_failures' \in 0..Most
        /\ ping_success_streak' \in 0..RecoveryThreshold
    BY <1>3, BumpType DEF TxFailed, TypeOK, PendingAfterFailure
  <2>2. error_age' \in {NoStart} \cup 0..(TimeoutDelay + 1)
    BY <1>3 DEF TxFailed, TypeOK
  <2>3. raced' \in BOOLEAN
    BY <1>3, Zenon DEF TxFailed, TypeOK, Counting
  <2> QED
    BY <1>3, <2>1, <2>2, <2>3 DEF TxFailed, TypeOK, status, thread
<1>4. ASSUME NEW own \in BOOLEAN, Pong(own)
      PROVE  TypeOK'
  <2>1. /\ ping_success_streak' \in 0..RecoveryThreshold
        /\ connection_error' \in BOOLEAN /\ shutdown_requested' \in BOOLEAN
        /\ error_age' \in {NoStart} \cup 0..(TimeoutDelay + 1)
    <3>1. CASE ~ErrorIsTrue
      BY <1>4, <3>1 DEF Pong, TypeOK, StreakWithoutError
    <3>2. CASE ErrorIsTrue /\ ~(own /\ ping_success_streak + 1 < RecoveryThreshold)
      BY <1>4, <3>2 DEF Pong, ClearError
    <3>3. CASE ErrorIsTrue /\ own /\ ping_success_streak + 1 < RecoveryThreshold
      BY <1>4, <3>3 DEF Pong, TypeOK
    <3> QED BY <3>1, <3>2, <3>3
  <2>2. raced' \in BOOLEAN /\ command' \in BOOLEAN
    BY <1>4, Zenon DEF Pong, TypeOK, Counting
  <2>3. /\ sync_age' \in {NotSynced} \cup 0..(SyncTimeout + 1)
        /\ ping_pending' = FALSE /\ ping_failures' = 0 /\ unanswered' = 0
        /\ UNCHANGED <<send_age, last_age, flags, esb, idle_age, loaded, conn>>
    BY <1>4 DEF Pong, TypeOK
  <2> QED
    BY <2>1, <2>2, <2>3 DEF TypeOK
<1>5. CASE Check
  BY <1>5 DEF Check, TypeOK, ping, times, status, history
<1>6. CASE RaiseError
  <2>1. connection_error' \in BOOLEAN
    BY <1>6, Zenon DEF RaiseError, TypeOK
  <2> QED BY <1>6, <2>1 DEF RaiseError, TypeOK, ping, times, history
<1>7. CASE RequestShutdown
  <2>1. shutdown_requested' \in BOOLEAN
    BY <1>7, Zenon DEF RequestShutdown, TypeOK
  <2> QED BY <1>7, <2>1 DEF RequestShutdown, TypeOK, ping, times, history
<1>8. CASE ReadClock
  BY <1>8 DEF ReadClock, TypeOK, ping, times, status, history
<1>9. CASE CommandDone \/ FindTimeout
  <2>1. CASE CommandDone
    BY <2>1 DEF CommandDone, TypeOK, ping, times, status, history
  <2>2. CASE FindTimeout
    <3>1. esb' \in {"clear", "sleep"}
      BY <2>2, Zenon DEF FindTimeout
    <3> QED BY <2>2, <3>1 DEF FindTimeout, TypeOK, ping, times, status, history
  <2> QED BY <1>9, <2>1, <2>2
<1>10. CASE ClearPending
  BY <1>10 DEF ClearPending, TypeOK, times, status, history
<1>11. CASE StoreFailures
  BY <1>11, BumpType DEF StoreFailures, TypeOK, times, status, history
<1>12. CASE MarkStart
  BY <1>12 DEF MarkStart, TypeOK, ping, status, history
<1>13. CASE Tick
  <2>1. send_age' \in 0..LongestInterval /\ last_age' \in 0..LongestInterval
    BY <1>13, OlderType DEF Tick, TypeOK
  <2>2. sync_age' \in {NotSynced} \cup 0..(SyncTimeout + 1)
    BY <1>13, OlderType DEF Tick, TypeOK
  <2>3. error_age' \in {NoStart} \cup 0..(TimeoutDelay + 1)
    BY <1>13, OlderType DEF Tick, TypeOK
  <2> QED BY <1>13, <2>1, <2>2, <2>3 DEF Tick, TypeOK, status, history
<1>14. ASSUME NEW f \in Flags, ChangeFlag(f)
       PROVE  TypeOK'
  BY <1>14 DEF ChangeFlag, TypeOK, ping, times, thread, history
<1>15. CASE UNCHANGED vars
  BY <1>15 DEF vars, ping, times, status, thread, history, TypeOK
<1> QED
  BY <1>1, <1>2, <1>3, <1>4, <1>5, <1>6, <1>7, <1>8, <1>9, <1>10, <1>11, <1>12,
     <1>13, <1>14, <1>15 DEF Next, EsbThread, ConnectionThread, AnyPong

LEMMA StepTokens ==
  ASSUME LinkAssumption, TypeOK, Tokens, [Next]_vars
  PROVE  Tokens'
<1> USE LinkAssumption, ConstantsType
<1> SUFFICES ASSUME ~raced'
             PROVE  /\ unanswered' = Most
                       \/ ping_failures' + Uncounted' <= unanswered'
                    /\ esb' = "clear" => ping_pending' \/ unanswered' = Most
                    /\ esb' = "store" => loaded' = ping_failures'
  BY DEF Tokens
<1>0. /\ ping_failures \in 0..Most /\ unanswered \in 0..Most /\ loaded \in 0..Most
      /\ ping_pending \in BOOLEAN /\ raced \in BOOLEAN
  BY DEF TypeOK
<1>1. CASE BeginPing
  <2>1. unanswered = Most \/ unanswered' = unanswered + 1
    BY <1>0, <1>1, BumpType DEF BeginPing
  <2> QED
    BY <1>0, <1>1, <2>1, BumpType DEF BeginPing, Tokens, Uncounted, One, thread
<1>2. ASSUME NEW accepted \in BOOLEAN, QueuePing(accepted)
      PROVE  Tokens'
  BY <1>2 DEF QueuePing, Tokens, Uncounted, One, history
<1>3. CASE TxFailed
  <2>1. CASE ping_failures' = ping_failures
    BY <1>0, <1>3, <2>1, BumpType
       DEF TxFailed, PendingAfterFailure, Tokens, Uncounted, One, thread
  <2>2. CASE ping_failures' # ping_failures
    <3>1. ~raced /\ esb \notin {"clear", "store"}
      BY <1>3, <2>2 DEF TxFailed, Counting
    <3>2. ping_pending /\ ~ping_pending' /\ ping_failures' = ping_failures + 1
      BY <1>0, <1>3, <2>2, BumpType DEF TxFailed, PendingAfterFailure
    <3> QED
      BY <1>0, <1>3, <3>1, <3>2 DEF TxFailed, Tokens, Uncounted, One, thread
  <2> QED BY <2>1, <2>2
<1>4. ASSUME NEW own \in BOOLEAN, Pong(own)
      PROVE  Tokens'
  <2>1. ping_pending' = FALSE /\ ping_failures' = 0 /\ unanswered' = 0 /\ esb' = esb
    BY <1>4 DEF Pong
  <2>2. esb \notin {"clear", "store"}
    BY <1>4 DEF Pong, Counting
  <2> QED BY <2>1, <2>2 DEF Tokens, Uncounted, One
<1>5. CASE Check \/ RaiseError \/ RequestShutdown \/ ReadClock \/ CommandDone
  <2>1. /\ UNCHANGED <<ping, history, loaded>>
        /\ esb \notin {"clear", "store"} /\ esb' \notin {"clear", "store"}
    BY <1>5 DEF Check, RaiseError, RequestShutdown, ReadClock, CommandDone
  <2> QED BY <2>1 DEF Tokens, Uncounted, One, ping, history
<1>6. CASE FindTimeout
  BY <1>6 DEF FindTimeout, Tokens, Uncounted, One, ping, history
<1>7. CASE ClearPending
  BY <1>0, <1>7 DEF ClearPending, Tokens, Uncounted, One, history
<1>8. CASE StoreFailures
  BY <1>0, <1>8, BumpType DEF StoreFailures, Tokens, Uncounted, One, history
<1>9. CASE MarkStart
  BY <1>9 DEF MarkStart, Tokens, Uncounted, One, ping, history
<1>10. CASE Tick
  BY <1>10 DEF Tick, Tokens, Uncounted, One, history
<1>11. ASSUME NEW f \in Flags, ChangeFlag(f)
       PROVE  Tokens'
  BY <1>11 DEF ChangeFlag, Tokens, Uncounted, One, ping, thread, history
<1>12. CASE UNCHANGED vars
  BY <1>12 DEF vars, ping, thread, history, Tokens, Uncounted, One
<1> QED
  BY <1>1, <1>2, <1>3, <1>4, <1>5, <1>6, <1>7, <1>8, <1>9, <1>10, <1>11, <1>12
     DEF Next, EsbThread, ConnectionThread, AnyPong, Tokens

LEMMA SpecIInv ==
  ASSUME LinkAssumption
  PROVE  Spec => []IInv
<1>1. Init => IInv BY InitIInv
<1>2. IInv /\ [Next]_vars => IInv' BY StepType, StepTokens DEF IInv
<1> QED BY <1>1, <1>2, PTL DEF Spec

(* Counters, ages and flags of the link keep their types, the saturated    *)
(* ones their bounds (esb.c 98-107).                                       *)
THEOREM TypeCorrect == Spec => []TypeOK
<1>1. IInv => TypeOK BY DEF IInv
<1> QED BY <1>1, SpecIInv, LinkAssumption, PTL

(* ping_pending is a token: unless the interrupt hits between the thread's *)
(* test and its store, no PING is counted as failed twice, neither by      *)
(* interrupt and thread nor because a new PING re-arms the flag (esb.c     *)
(* 461-465, 1366-1371 and 1990-1995).                                      *)
THEOREM NoPingCountedTwice == Spec => []CountedOnce
<1>1. IInv => CountedOnce
  BY ConstantsType, LinkAssumption DEF IInv, Tokens, TypeOK, CountedOnce, Uncounted, One
<1> QED BY <1>1, SpecIInv, LinkAssumption, PTL
=============================================================================
