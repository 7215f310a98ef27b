----------------------------- MODULE DeviceProofs -----------------------------
(***************************************************************************)
(* Proofs about what keeps the tracker itself running: the update engine in *)
(* RAM (RamEngine), the watchdog (Watchdog), the settings in retained memory *)
(* and flash (Settings), the battery tracker (BatteryTracker) and the button *)
(* (Buttons).  The parts share no state.                                   *)
(***************************************************************************)
EXTENDS RamEngine, Settings, Watchdog, BatteryTracker, Buttons, TLAPS

(* RamEngine: every byte received is at its place.                         *)

LEMMA EngineConstants ==
  /\ ImageSize \in Nat \ {0} /\ PageSize \in Nat \ {0} /\ Pages \in Nat \ {0}
  /\ Payload \in Nat \ {0}
  BY EngineAssumption

LEMMA PageOf ==
  ASSUME NEW k \in Nat, NEW o \in 0 .. PageSize - 1
  PROVE  (k * PageSize + o) \div PageSize = k /\ (k * PageSize + o) % PageSize = o
<1> DEFINE n == k * PageSize + o
           q == n \div PageSize
           m == n % PageSize
<1>1. n \in Nat /\ PageSize \in Nat \ {0} BY EngineConstants
<1>2. q \in Nat /\ m \in 0 .. PageSize - 1 /\ n = q * PageSize + m
  <2> HIDE DEF n
  <2>1. n \div PageSize \in Nat /\ n % PageSize \in 0 .. PageSize - 1 BY <1>1, SMT
  <2>2. n = ((n \div PageSize) * PageSize) + (n % PageSize) BY <1>1, SMT
  <2> QED BY <2>1, <2>2
<1> HIDE DEF q, m
<1>3. q * PageSize + m = k * PageSize + o BY <1>2
<1>4. ~(q < k)
  <2> SUFFICES ASSUME q + 1 <= k PROVE FALSE BY <1>2
  <2>1. PICK d \in Nat : k = q + 1 + d BY <1>2
  <2>2. k * PageSize = q * PageSize + PageSize + d * PageSize /\ d * PageSize \in Nat
    BY <1>1, <1>2, <2>1
  <2>3. q * PageSize \in Nat BY <1>1, <1>2
  <2> QED BY <1>1, <1>2, <1>3, <2>2, <2>3
<1>5. ~(k < q)
  <2> SUFFICES ASSUME k + 1 <= q PROVE FALSE BY <1>2
  <2>1. PICK d \in Nat : q = k + 1 + d BY <1>2
  <2>2. q * PageSize = k * PageSize + PageSize + d * PageSize /\ d * PageSize \in Nat
    BY <1>1, <1>2, <2>1
  <2>3. k * PageSize \in Nat BY <1>1
  <2> QED BY <1>1, <1>2, <1>3, <2>2, <2>3
<1>6. q = k BY <1>2, <1>4, <1>5
<1>7. k * PageSize \in Nat /\ m = o
  <2>1. k * PageSize \in Nat BY <1>1
  <2>2. k * PageSize + m = k * PageSize + o BY <1>3, <1>6
  <2> QED BY <1>2, <2>1, <2>2
<1> QED BY <1>6, <1>7 DEF q, m

LEMMA Decompose ==
  ASSUME NEW b \in Nat
  PROVE  /\ b \div PageSize \in Nat /\ b % PageSize \in 0 .. PageSize - 1
         /\ b = ((b \div PageSize) * PageSize) + (b % PageSize)
  BY EngineConstants, SMT

(* Where a byte before, in or behind the page being filled lies.           *)
LEMMA Before ==
  ASSUME NEW b \in Nat, NEW k \in Nat, NEW o \in 0 .. PageSize
  PROVE  /\ b < k * PageSize + o => b \div PageSize <= k
         /\ b < k * PageSize + o /\ b \div PageSize = k => b % PageSize < o
<1>1. PageSize \in Nat \ {0} BY EngineConstants
<1> DEFINE q == b \div PageSize
           m == b % PageSize
<1>2. q \in Nat /\ m \in 0 .. PageSize - 1 /\ b = q * PageSize + m BY Decompose
<1> HIDE DEF q, m
<1>3. q > k => b >= k * PageSize + PageSize
  <2> SUFFICES ASSUME q > k PROVE b >= k * PageSize + PageSize OBVIOUS
  <2>1. PICK d \in Nat : q = k + 1 + d BY <1>2
  <2>2. q * PageSize = k * PageSize + PageSize + d * PageSize /\ d * PageSize \in Nat
        /\ k * PageSize \in Nat
    BY <1>1, <2>1
  <2> QED BY <1>1, <1>2, <2>2
<1>4. k * PageSize \in Nat BY <1>1
<1>5. b < k * PageSize + o => q <= k BY <1>1, <1>2, <1>3, <1>4
<1>6. b < k * PageSize + o /\ q = k => m < o BY <1>1, <1>2, <1>4
<1> QED BY <1>5, <1>6 DEF q, m

(* The bytes of the image are in the flash.                                *)
LEMMA ImageInFlash == ASSUME NEW b \in 0 .. ImageSize - 1 PROVE b \in Bytes
<1> DEFINE k == (ImageSize - 1) \div PageSize
<1>1. /\ ImageSize \in Nat \ {0} /\ ImageSize - 1 \in Nat /\ PageSize \in Nat \ {0} /\ Payload \in Nat \ {0}
      /\ Pages \in Nat
  BY EngineConstants
<1>2. /\ k \in Nat /\ ImageSize - 1 = k * PageSize + ((ImageSize - 1) % PageSize)
      /\ (ImageSize - 1) % PageSize \in 0 .. PageSize - 1
  BY <1>1, Decompose
<1>3. k + 1 <= Pages
  <2>1. k + Payload <= Pages BY EngineAssumption
  <2> HIDE DEF k
  <2> QED BY <1>1, <1>2, <2>1
<1> HIDE DEF k
<1>4. PICK d \in Nat : Pages = k + 1 + d BY <1>1, <1>2, <1>3
<1>5. Pages * PageSize = k * PageSize + PageSize + d * PageSize /\ d * PageSize \in Nat
      /\ k * PageSize \in Nat
  BY <1>1, <1>2, <1>4
<1>6. ImageSize <= Pages * PageSize /\ Pages * PageSize \in Nat
  <2> DEFINE m == (ImageSize - 1) % PageSize
             j == k * PageSize
  <2>1. m \in Nat /\ m < PageSize /\ j \in Nat /\ ImageSize - 1 = j + m BY <1>1, <1>2, <1>5
  <2> HIDE DEF m, j
  <2>2. ImageSize <= j + PageSize BY <1>1, <2>1
  <2> QED BY <1>1, <1>5, <2>1, <2>2 DEF j
<1> QED BY <1>1, <1>6 DEF Bytes

(* All pages of the image are written.                                     *)
AllWritten == \A b \in 0 .. ImageSize - 1 : b \div PageSize < page

(* What is left of a packet goes on where the bytes received end.          *)
RestPlaced ==
  \A i \in 1 .. Len(rx) : received + i - 1 < ImageSize => rx[i] \in {received + i - 1, Alien}

(* The bytes received end where the buffer does.                           *)
EngineInv ==
  /\ received \in Nat /\ nextSeq \in Nat /\ page \in Nat
  /\ rx \in Seq(Int) /\ buffer \in Seq(Int) /\ Len(buffer) < PageSize
  /\ DOMAIN flash = Bytes
  /\ received < ImageSize => received = page * PageSize + Len(buffer)
  /\ received >= ImageSize => AllWritten
  /\ \/ received + Len(rx) = nextSeq * Payload
     \/ received + Len(rx) >= ImageSize
  /\ RestPlaced /\ InPlace

LEMMA ContentPlaced ==
  ASSUME NEW seq \in Nat, NEW pad \in BOOLEAN, seq * Payload < ImageSize
  PROVE  LET c == Content(seq, pad)
         IN  /\ c \in Seq(Int)
             /\ Len(c) = Payload \/ seq * Payload + Len(c) >= ImageSize
             /\ \A i \in 1 .. Len(c) : seq * Payload + i - 1 < ImageSize
                                         => c[i] = seq * Payload + i - 1
<1> DEFINE start == seq * Payload
           length == IF pad THEN Payload ELSE Least(Payload, ImageSize - start)
           c == [i \in 1 .. length |-> IF start + i - 1 < ImageSize THEN start + i - 1 ELSE Pad]
<1>1. start \in Nat /\ start < ImageSize /\ Payload \in Nat \ {0} /\ ImageSize \in Nat
  BY EngineConstants
<1>2. Content(seq, pad) = c BY DEF Content
<1> HIDE DEF start
<1>3. length \in Nat /\ (length = Payload \/ start + length >= ImageSize)
  BY <1>1 DEF Least
<1> HIDE DEF length
<1>4. c \in Seq(Int) /\ Len(c) = length
      /\ \A i \in 1 .. length :
           c[i] = IF start + i - 1 < ImageSize THEN start + i - 1 ELSE Pad
  BY <1>1, <1>3 DEF Pad
<1> HIDE DEF c
<1> QED BY <1>2, <1>3, <1>4 DEF start

LEMMA AnswerPlaced ==
  ASSUME NEW answer \in Answers, NEW seq \in Nat, answer.seq = seq, seq * Payload < ImageSize
  PROVE  LET d == answer.data
         IN  /\ d \in Seq(Int)
             /\ Len(d) = Payload \/ seq * Payload + Len(d) >= ImageSize
             /\ \A i \in 1 .. Len(d) : seq * Payload + i - 1 < ImageSize
                                         => d[i] \in {seq * Payload + i - 1, Alien}
<1>1. CASE \E p \in Padded : answer.data = Content(seq, p)
  <2>1. PICK p \in Padded : answer.data = Content(seq, p) BY <1>1
  <2>2. p \in BOOLEAN BY EngineAssumption
  <2> QED BY <2>1, <2>2, ContentPlaced
<1>2. CASE answer.data = [i \in 1 .. Payload |-> Alien]
  <2>1. Payload \in Nat /\ Alien \in Int BY EngineConstants DEF Alien
  <2>2. /\ answer.data \in Seq(Int) /\ Len(answer.data) = Payload
        /\ \A i \in 1 .. Payload : answer.data[i] = Alien
    BY <1>2, <2>1
  <2> QED BY <2>2
<1>3. \/ \E p \in Padded : answer.data = Content(seq, p)
      \/ answer.data = [i \in 1 .. Payload |-> Alien]
  <2>1. CASE \E s \in 0 .. Packets - 1, p \in Padded : answer = [seq |-> s, data |-> Content(s, p)]
    <3>1. PICK s \in 0 .. Packets - 1, p \in Padded : answer = [seq |-> s, data |-> Content(s, p)]
      BY <2>1
    <3>2. s = seq /\ answer.data = Content(s, p) BY <3>1
    <3> QED BY <3>2
  <2>2. CASE \E s \in 0 .. Packets - 1 :
               answer = [seq |-> s, data |-> [i \in 1 .. Payload |-> Alien]]
    BY <2>2
  <2> QED BY <2>1, <2>2 DEF Answers
<1> QED BY <1>1, <1>2, <1>3

LEMMA EngineFirst == EngineInit => EngineInv
<1> SUFFICES ASSUME EngineInit PROVE EngineInv OBVIOUS
<1>1. /\ received = 0 /\ nextSeq = 0 /\ page = 0 /\ rx = <<>> /\ buffer = <<>>
      /\ DOMAIN flash = Bytes
  BY DEF EngineInit
<1>2. 0 * Payload = 0 /\ 0 * PageSize = 0 /\ PageSize > 0 /\ ImageSize > 0 /\ ImageSize \in Nat
  BY EngineConstants
<1>3. InPlace BY <1>1, <1>2 DEF InPlace
<1>4. RestPlaced BY <1>1 DEF RestPlaced
<1> QED BY <1>1, <1>2, <1>3, <1>4 DEF EngineInv

LEMMA PollKeeps == EngineInv /\ Poll => EngineInv'
<1> SUFFICES ASSUME EngineInv, Poll PROVE EngineInv' OBVIOUS
<1>1. /\ rx = <<>> /\ received < ImageSize
      /\ UNCHANGED <<phase, received, buffer, page, flash, waited>>
  BY DEF Poll
<1>2. InPlace' BY <1>1 DEF EngineInv, InPlace, ByteAt
<1>3. CASE UNCHANGED <<rx, nextSeq>>
  BY <1>1, <1>2, <1>3 DEF EngineInv, RestPlaced, AllWritten
<1>4. ASSUME NEW answer \in Answers, InOrder(answer), rx' = answer.data, nextSeq' = nextSeq + 1
      PROVE  EngineInv'
  <2>1. received \in Nat /\ nextSeq \in Nat /\ received = nextSeq * Payload
        /\ ImageSize \in Nat /\ Payload \in Nat
    BY <1>1, EngineConstants DEF EngineInv
  <2>2. /\ rx' \in Seq(Int)
        /\ Len(rx') = Payload \/ received + Len(rx') >= ImageSize
        /\ \A i \in 1 .. Len(rx') : received + i - 1 < ImageSize
                                      => rx'[i] \in {received + i - 1, Alien}
    BY <1>1, <1>4, <2>1, AnswerPlaced DEF InOrder
  <2>3. nextSeq' \in Nat /\ nextSeq' * Payload = received + Payload BY <1>4, <2>1
  <2>4. received' + Len(rx') = nextSeq' * Payload \/ received' + Len(rx') >= ImageSize
    BY <1>1, <2>2, <2>3
  <2>5. RestPlaced' BY <1>1, <2>2 DEF RestPlaced
  <2> QED BY <1>1, <1>2, <2>2, <2>3, <2>4, <2>5 DEF EngineInv, AllWritten
<1> QED BY <1>3, <1>4 DEF Poll

LEMMA CopyByteKeeps == EngineInv /\ CopyByte => EngineInv'
<1> SUFFICES ASSUME EngineInv, CopyByte PROVE EngineInv' OBVIOUS
<1> DEFINE bytes == Append(buffer, Head(rx))
<1>1. /\ rx # <<>> /\ rx' = Tail(rx) /\ received' = received + 1 /\ nextSeq' = nextSeq
      /\ IF Len(bytes) = PageSize \/ received' >= ImageSize
         THEN buffer' = <<>> /\ page' = page + 1 /\ flash' = Flushed(bytes)
         ELSE buffer' = bytes /\ UNCHANGED <<page, flash>>
  BY DEF CopyByte
<1>2. /\ received \in Nat /\ nextSeq \in Nat /\ page \in Nat /\ rx \in Seq(Int)
      /\ buffer \in Seq(Int) /\ Len(buffer) < PageSize /\ DOMAIN flash = Bytes
      /\ PageSize \in Nat \ {0} /\ ImageSize \in Nat \ {0} /\ page * PageSize \in Nat
  BY EngineConstants DEF EngineInv
<1>3. /\ Len(rx) \in Nat \ {0} /\ Head(rx) = rx[1] /\ rx[1] \in Int
      /\ rx' \in Seq(Int) /\ Len(rx') = Len(rx) - 1
      /\ \A i \in 1 .. Len(rx') : rx'[i] = rx[i + 1]
  BY <1>1, <1>2
<1>4. /\ bytes \in Seq(Int) /\ Len(bytes) = Len(buffer) + 1 /\ bytes[Len(buffer) + 1] = rx[1]
      /\ \A i \in 1 .. Len(buffer) : bytes[i] = buffer[i]
  BY <1>2, <1>3
<1> HIDE DEF bytes
<1>5. /\ received' \in Nat /\ nextSeq' \in Nat
      /\ received' + Len(rx') = received + Len(rx)
  BY <1>1, <1>2, <1>3
<1>6. received' + Len(rx') = nextSeq' * Payload \/ received' + Len(rx') >= ImageSize
  BY <1>1, <1>5 DEF EngineInv
<1>7. RestPlaced'
  <2> SUFFICES ASSUME NEW i \in 1 .. Len(rx'), received' + i - 1 < ImageSize
               PROVE  rx'[i] \in {received' + i - 1, Alien}
    BY DEF RestPlaced
  <2>1. i + 1 \in 1 .. Len(rx) /\ rx'[i] = rx[i + 1] BY <1>3
  <2>2. received' + i - 1 = received + (i + 1) - 1 BY <1>1, <1>2
  <2>3. received + (i + 1) - 1 < ImageSize => rx[i + 1] \in {received + (i + 1) - 1, Alien}
    BY <2>1 DEF EngineInv, RestPlaced
  <2> QED BY <2>1, <2>2, <2>3
(* The bytes of the page being filled, with the one copied.                *)
<1>8. ASSUME received < ImageSize, NEW b \in 0 .. ImageSize - 1, b < received + 1
      PROVE  /\ b \div PageSize \in Nat /\ b \div PageSize <= page
             /\ b % PageSize \in 0 .. PageSize - 1
             /\ b \div PageSize < page => flash[b] \in {b, Alien}
             /\ b \div PageSize = page => /\ b % PageSize < Len(bytes)
                                          /\ bytes[(b % PageSize) + 1] \in {b, Alien}
  <2>1. received = page * PageSize + Len(buffer) /\ Len(buffer) \in 0 .. PageSize - 1
    BY <1>2, <1>8 DEF EngineInv
  <2>2. b \in Nat /\ Len(buffer) + 1 \in 0 .. PageSize /\ b < page * PageSize + (Len(buffer) + 1)
    BY <1>2, <1>8, <2>1
  <2>3. /\ b \div PageSize <= page
        /\ b \div PageSize = page => b % PageSize < Len(buffer) + 1
    BY <1>2, <2>2, Before
  <2>4. b \div PageSize \in Nat /\ b % PageSize \in 0 .. PageSize - 1 BY <2>2, Decompose
  <2>5. CASE b = received
    <3>1. b \div PageSize = page /\ b % PageSize = Len(buffer) BY <1>2, <2>1, <2>5, PageOf
    <3>2. rx[1] \in {received, Alien}
      <4>1. 1 \in 1 .. Len(rx) /\ received + 1 - 1 = received BY <1>2, <1>3
      <4> QED BY <1>8, <4>1 DEF EngineInv, RestPlaced
    <3>3. bytes[(b % PageSize) + 1] \in {b, Alien} BY <1>4, <2>5, <3>1, <3>2
    <3> QED BY <1>2, <1>4, <2>3, <2>4, <3>1, <3>3
  <2>6. CASE b < received
    <3>1. ByteAt(b) \in {b, Alien} BY <1>8, <2>6 DEF EngineInv, InPlace
    <3>2. b < page * PageSize + Len(buffer) /\ Len(buffer) \in 0 .. PageSize
      BY <1>2, <2>1, <2>6
    <3>3. b \div PageSize = page => b % PageSize < Len(buffer) BY <1>2, <2>2, <3>2, Before
    <3>4. b \div PageSize < page => flash[b] \in {b, Alien} BY <3>1 DEF ByteAt
    <3>5. ASSUME b \div PageSize = page
          PROVE  bytes[(b % PageSize) + 1] \in {b, Alien}
      <4>1. ByteAt(b) = buffer[(b % PageSize) + 1] BY <1>2, <3>5 DEF ByteAt
      <4>2. (b % PageSize) + 1 \in 1 .. Len(buffer) BY <1>2, <2>4, <3>3, <3>5
      <4> QED BY <1>4, <3>1, <4>1, <4>2
    <3> QED BY <1>4, <2>3, <2>4, <3>4, <3>5
  <2> QED BY <1>2, <1>8, <2>2, <2>5, <2>6
<1>9. CASE received < ImageSize /\ ~(Len(bytes) = PageSize \/ received' >= ImageSize)
  <2>1. buffer' = bytes /\ page' = page /\ flash' = flash BY <1>1, <1>9
  <2>2. received' < ImageSize /\ Len(bytes) < PageSize BY <1>2, <1>4, <1>5, <1>9
  <2>3. received = page * PageSize + Len(buffer) BY <1>9 DEF EngineInv
  <2>4. received' = page' * PageSize + Len(buffer') BY <1>1, <1>2, <1>4, <2>1, <2>3
  <2>5. InPlace'
    <3> SUFFICES ASSUME NEW b \in 0 .. ImageSize - 1, b < received'
                 PROVE  ByteAt(b)' \in {b, Alien}
      BY DEF InPlace
    <3>1. /\ b \div PageSize \in Nat /\ b \div PageSize <= page
          /\ b \div PageSize < page => flash[b] \in {b, Alien}
          /\ b \div PageSize = page => bytes[(b % PageSize) + 1] \in {b, Alien}
      BY <1>1, <1>8, <1>9
    <3>2. ByteAt(b)' = IF b \div PageSize < page THEN flash[b] ELSE bytes[(b % PageSize) + 1]
      BY <2>1 DEF ByteAt
    <3>3. b \div PageSize < page \/ b \div PageSize = page BY <1>2, <3>1
    <3> QED BY <3>1, <3>2, <3>3
  <2>6. ~(received' >= ImageSize) BY <1>2, <1>5, <2>2
  <2>7. buffer' \in Seq(Int) /\ Len(buffer') < PageSize /\ page' \in Nat /\ DOMAIN flash' = Bytes
    BY <1>2, <1>4, <2>1, <2>2
  <2> QED BY <1>3, <1>5, <1>6, <1>7, <2>4, <2>5, <2>6, <2>7 DEF EngineInv
<1>10. CASE received < ImageSize /\ (Len(bytes) = PageSize \/ received' >= ImageSize)
  <2>1. buffer' = <<>> /\ page' = page + 1 /\ flash' = Flushed(bytes) BY <1>1, <1>10
  <2>2. /\ buffer' \in Seq(Int) /\ Len(buffer') = 0 /\ page' \in Nat /\ DOMAIN flash' = Bytes
    BY <1>2, <2>1 DEF Flushed
  <2>3. received = page * PageSize + Len(buffer) BY <1>10 DEF EngineInv
  <2>4. received' < ImageSize => received' = page' * PageSize + Len(buffer')
    <3>1. page' * PageSize = page * PageSize + PageSize BY <1>2, <2>1
    <3> DEFINE j == page * PageSize
    <3>2. j \in Nat BY <1>2
    <3> HIDE DEF j
    <3>3. received = j + Len(buffer) /\ page' * PageSize = j + PageSize BY <2>3, <3>1 DEF j
    <3>4. received' < ImageSize => Len(buffer) + 1 = PageSize BY <1>2, <1>4, <1>5, <1>10
    <3>5. received' = received + 1 /\ Len(buffer') = 0 BY <1>1, <2>2
    <3>6. received \in Nat /\ Len(buffer) \in Nat /\ PageSize \in Nat BY <1>2
    <3> QED BY <3>2, <3>3, <3>4, <3>5, <3>6
  <2>5. received' >= ImageSize => received' = ImageSize BY <1>1, <1>2, <1>10
  <2>6. ASSUME NEW b \in 0 .. ImageSize - 1, b < received'
        PROVE  /\ b \div PageSize < page' /\ flash'[b] \in {b, Alien}
    <3>1. b < received + 1 BY <1>1, <2>6
    <3>2. /\ b \div PageSize \in Nat /\ b \div PageSize <= page
          /\ b \div PageSize < page => flash[b] \in {b, Alien}
          /\ b \div PageSize = page => /\ b % PageSize < Len(bytes)
                                       /\ bytes[(b % PageSize) + 1] \in {b, Alien}
      BY <1>8, <1>10, <3>1
    <3>3. b \in Bytes BY ImageInFlash
    <3>4. flash'[b] = IF b \div PageSize # page THEN flash[b]
                      ELSE IF b % PageSize < Len(bytes) THEN bytes[(b % PageSize) + 1]
                      ELSE Erased
      BY <2>1, <3>3 DEF Flushed
    <3>5. b \div PageSize < page' BY <1>2, <2>1, <3>2
    <3>6. CASE b \div PageSize = page BY <3>2, <3>4, <3>5, <3>6
    <3>7. CASE b \div PageSize # page
      <4>1. b \div PageSize < page BY <1>2, <3>2, <3>7
      <4> QED BY <3>2, <3>4, <3>5, <3>7, <4>1
    <3> QED BY <3>6, <3>7
  <2>7. InPlace' BY <2>6 DEF InPlace, ByteAt
  <2>8. received' >= ImageSize => AllWritten'
    <3> SUFFICES ASSUME received' >= ImageSize, NEW b \in 0 .. ImageSize - 1
                 PROVE  b \div PageSize < page'
      BY DEF AllWritten
    <3>1. b < received' BY <1>2, <2>5
    <3> QED BY <2>6, <3>1
  <2>9. Len(buffer') < PageSize BY <1>2, <2>2
  <2> QED BY <1>3, <1>5, <1>6, <1>7, <2>2, <2>4, <2>7, <2>8, <2>9 DEF EngineInv
<1>11. CASE received >= ImageSize
  <2>1. buffer' = <<>> /\ page' = page + 1 /\ flash' = Flushed(bytes)
        /\ received' >= ImageSize
    BY <1>1, <1>2, <1>11
  <2>2. /\ buffer' \in Seq(Int) /\ Len(buffer') = 0 /\ page' \in Nat /\ DOMAIN flash' = Bytes
    BY <1>2, <2>1 DEF Flushed
  <2>3. ASSUME NEW b \in 0 .. ImageSize - 1
        PROVE  b \div PageSize < page' /\ flash'[b] \in {b, Alien}
    <3>1. b \div PageSize < page /\ b \in Nat
      <4>1. AllWritten BY <1>11 DEF EngineInv
      <4>2. b \in Nat BY <1>2
      <4>3. b \div PageSize < page BY <4>1, Zenon DEF AllWritten
      <4> QED BY <4>2, <4>3
    <3>2. b < received BY <1>2, <1>11
    <3>3. ByteAt(b) = flash[b] /\ ByteAt(b) \in {b, Alien}
      BY <3>1, <3>2 DEF ByteAt, EngineInv, InPlace
    <3>4. b \div PageSize \in Nat BY <3>1, Decompose
    <3>5. b \in Bytes /\ b \div PageSize # page /\ b \div PageSize < page'
      BY <1>2, <2>1, <3>1, <3>4, ImageInFlash
    <3>6. flash'[b] = flash[b] BY <2>1, <3>5 DEF Flushed
    <3> QED BY <3>3, <3>5, <3>6
  <2>4. InPlace' BY <2>3 DEF InPlace, ByteAt
  <2>5. ~(received' < ImageSize) BY <1>2, <1>5, <2>1
  <2>6. AllWritten' BY <2>3 DEF AllWritten
  <2>7. Len(buffer') < PageSize BY <1>2, <2>2
  <2> QED BY <1>3, <1>5, <1>6, <1>7, <2>2, <2>4, <2>5, <2>6, <2>7 DEF EngineInv
<1> QED BY <1>2, <1>9, <1>10, <1>11

\* Repeated, missing, cut and padded packets that pages split: for any sizes of image,
\* page and packet, each byte counted as received is at its place in the page buffer or
\* the flash, unless it is of another image (ota_ram_engine, lines 332-400).
THEOREM BytesInPlace == EngineSpec => []InPlace
<1>1. EngineInv /\ [EngineNext]_engineVars => EngineInv'
  <2> SUFFICES ASSUME EngineInv, [EngineNext]_engineVars PROVE EngineInv' OBVIOUS
  <2>1. CASE Poll BY <2>1, PollKeeps
  <2>2. CASE CopyByte BY <2>2, CopyByteKeeps
  <2>3. CASE UNCHANGED <<nextSeq, received, rx, buffer, page, flash>>
    BY <2>3 DEF EngineInv, InPlace, ByteAt, RestPlaced, AllWritten
  <2>4. \/ Poll \/ CopyByte \/ UNCHANGED <<nextSeq, received, rx, buffer, page, flash>>
    BY DEF EngineNext, Engine, Launch, TooIdle, Verify, AwaitActivate, LosePower, engineVars
  <2> QED BY <2>1, <2>2, <2>3, <2>4
<1>2. EngineInv => InPlace BY DEF EngineInv
<1> QED BY <1>1, <1>2, EngineFirst, PTL DEF EngineSpec

-----------------------------------------------------------------------------
(* Watchdog: who feeds which slot.                                         *)

(* A slot in use is fed by the thread that added it, or that thread hangs, *)
(* or is about to note the slot, or was aborted before it could.           *)
SlotOK(k) ==
  left[k] # Free =>
    \/ k \in halted
    \/ /\ owner[k] \in Threads
       /\ \/ state[owner[k]] \in {"runs", "hung", "gone"} /\ id[owner[k]] = k
          \/ state[owner[k]] = "registers" /\ adding[owner[k]] = k
       /\ left[k] = 0 => state[owner[k]] \in {"hung", "gone"}

(* A thread holds the slot it has noted, and the one it is adding.         *)
ThreadOK(t) ==
  /\ id[t] # None => owner[id[t]] = t /\ left[id[t]] # Free
  /\ state[t] \in {"start", "registers", "scans", "stopped"} => id[t] = None
  /\ state[t] = "registers" =>
       adding[t] \in Slots /\ owner[adding[t]] = t /\ left[adding[t]] # Free

WatchInv ==
  /\ DOMAIN state = Threads /\ id \in [Threads -> Slots \cup {None}]
  /\ adding \in [Threads -> Slots \cup {None}]
  /\ left \in [Slots -> Int] /\ DOMAIN owner = Slots
  /\ \A k \in Slots : left[k] >= Free /\ SlotOK(k)
  /\ \A t \in Threads : ThreadOK(t)

LEMMA WatchConstants ==
  /\ None \notin Threads /\ None \notin Slots /\ Sensor \in Threads /\ Button \in Threads
  /\ Timeout \in Nat \ {0} /\ Free = -1
  BY WatchdogAssumption DEF None, Free

(* The channel of the sensor thread is deleted: of its slots, at most the  *)
(* one it was adding is left.                                              *)
LEMMA PauseFacts ==
  ASSUME WatchInv, Pause(Sensor)
  PROVE  /\ id' \in [Threads -> Slots \cup {None}] /\ left' \in [Slots -> Int]
         /\ id'[Sensor] = None /\ \A t \in Threads \ {Sensor} : id'[t] = id[t]
         /\ \A k \in Slots : id[Sensor] # k => left'[k] = left[k]
         /\ \A k \in Slots : left'[k] = Free \/ (left'[k] = left[k] /\ id[Sensor] # k)
<1>1. CASE id[Sensor] = None
  BY <1>1, WatchConstants DEF Pause, WatchInv
<1>2. CASE id[Sensor] # None
  BY <1>2, WatchConstants DEF Pause, WatchInv
<1> QED BY <1>1, <1>2

LEMMA StartedOK == ASSUME Started PROVE WatchInv'
  BY WatchConstants DEF Started, WatchInv, SlotOK, ThreadOK

LEMMA AddKeeps == ASSUME WatchInv, NEW t \in Threads, Add(t) PROVE WatchInv'
<1> DEFINE free == {k \in Slots : left[k] = Free}
<1>1. CASE free = {}
  <2>1. state' = [state EXCEPT ![t] = "runs"] /\ state[t] = "start"
        /\ UNCHANGED <<left, owner, adding, id, halted>>
    BY <1>1 DEF Add, boot
  <2> QED BY <2>1 DEF WatchInv, SlotOK, ThreadOK
<1>2. CASE free # {}
  <2>1. PICK k \in free :
          /\ left' = [left EXCEPT ![k] = Timeout] /\ owner' = [owner EXCEPT ![k] = t]
          /\ adding' = [adding EXCEPT ![t] = k] /\ state' = [state EXCEPT ![t] = "registers"]
    BY <1>2 DEF Add
  <2>2. k \in Slots /\ state[t] = "start" /\ UNCHANGED <<id, halted>> BY DEF Add
  <2>3. /\ DOMAIN state' = Threads /\ adding' \in [Threads -> Slots \cup {None}]
        /\ left' \in [Slots -> Int] /\ DOMAIN owner' = Slots
    BY <2>1, <2>2, WatchConstants DEF WatchInv
  <2>4. ASSUME NEW j \in Slots PROVE left'[j] >= Free /\ SlotOK(j)'
    <3>1. CASE j = k
      BY <2>1, <2>2, <3>1, WatchConstants DEF WatchInv, SlotOK
    <3>2. CASE j # k
      <4>1. left'[j] = left[j] /\ owner'[j] = owner[j] /\ left[j] >= Free /\ SlotOK(j)
        BY <2>1, <3>2 DEF WatchInv
      <4>2. CASE left[j] = Free \/ j \in halted BY <2>2, <4>1, <4>2 DEF SlotOK
      <4>3. CASE left[j] # Free /\ j \notin halted
        <5>1. owner[j] \in Threads /\ owner[j] # t BY <2>2, <4>1, <4>3 DEF SlotOK
        <5> QED BY <2>1, <2>2, <4>1, <5>1 DEF SlotOK, WatchInv
      <4> QED BY <4>2, <4>3
    <3> QED BY <3>1, <3>2
  <2>5. ASSUME NEW u \in Threads PROVE ThreadOK(u)'
    <3>1. ThreadOK(u) /\ left[k] = Free BY DEF WatchInv
    <3>2. CASE u = t BY <2>1, <2>2, <3>1, <3>2, WatchConstants DEF ThreadOK, WatchInv
    <3>3. CASE u # t
      <4>1. state'[u] = state[u] /\ adding'[u] = adding[u] /\ id'[u] = id[u]
        BY <2>1, <2>2, <3>3 DEF WatchInv
      <4>2. \A j \in Slots : left[j] # Free => owner'[j] = owner[j] /\ left'[j] = left[j]
        BY <2>1, <3>1 DEF WatchInv
      <4>3. id[u] \in Slots \cup {None} BY DEF WatchInv
      <4> QED BY <3>1, <4>1, <4>2, <4>3 DEF ThreadOK
    <3> QED BY <3>2, <3>3
  <2> QED BY <2>2, <2>3, <2>4, <2>5 DEF WatchInv
<1> QED BY <1>1, <1>2

LEMMA KeepKeeps == ASSUME WatchInv, NEW t \in Threads, Keep(t) PROVE WatchInv'
<1>1. /\ state[t] = "registers" /\ state' = [state EXCEPT ![t] = "runs"]
      /\ id' = [id EXCEPT ![t] = adding[t]] /\ adding' = [adding EXCEPT ![t] = None]
      /\ left' = [left EXCEPT ![adding[t]] = Timeout] /\ UNCHANGED <<owner, halted>>
  BY DEF Keep
<1>2. adding[t] \in Slots /\ owner[adding[t]] = t BY <1>1 DEF WatchInv, ThreadOK
<1>3. /\ DOMAIN state' = Threads /\ adding' \in [Threads -> Slots \cup {None}]
      /\ id' \in [Threads -> Slots \cup {None}] /\ left' \in [Slots -> Int]
      /\ DOMAIN owner' = Slots
  BY <1>1, <1>2, WatchConstants DEF WatchInv
<1>4. ASSUME NEW j \in Slots PROVE left'[j] >= Free /\ SlotOK(j)'
  <2>1. left[j] >= Free /\ SlotOK(j) BY DEF WatchInv
  <2>2. CASE j \in halted
    BY <1>1, <1>2, <2>1, <2>2, WatchConstants DEF SlotOK, WatchInv
  <2>3. CASE j \notin halted /\ j = adding[t]
    <3>1. left'[j] = Timeout BY <1>1, <1>2, <2>3 DEF WatchInv
    <3> QED BY <1>1, <1>2, <2>1, <2>3, <3>1, WatchConstants DEF SlotOK, WatchInv
  <2>4. CASE j \notin halted /\ j # adding[t]
    BY <1>1, <1>2, <2>1, <2>4 DEF SlotOK, WatchInv
  <2> QED BY <2>2, <2>3, <2>4
<1>5. ASSUME NEW u \in Threads PROVE ThreadOK(u)'
  <2>1. ThreadOK(u) BY DEF WatchInv
  <2>2. \A j \in Slots : left[j] # Free => left'[j] # Free
    BY <1>1, <1>2, WatchConstants DEF WatchInv
  <2>3. CASE u = t
    BY <1>1, <1>2, <2>1, <2>3, WatchConstants DEF ThreadOK, WatchInv
  <2>4. CASE u # t
    <3>1. state'[u] = state[u] /\ adding'[u] = adding[u] /\ id'[u] = id[u]
      BY <1>1, <2>4 DEF WatchInv
    <3>2. id[u] \in Slots \cup {None} BY DEF WatchInv
    <3> QED BY <1>1, <2>1, <2>2, <3>1, <3>2 DEF ThreadOK
  <2> QED BY <2>3, <2>4
<1> QED BY <1>3, <1>4, <1>5 DEF WatchInv

LEMMA SensorStopKeeps ==
  ASSUME WatchInv, Pause(Sensor), UNCHANGED owner,
         \/ /\ state' = [state EXCEPT ![Sensor] = "scans"]
            /\ adding' = [adding EXCEPT ![Sensor] = None]
            /\ halted' = IF state[Sensor] = "registers" THEN halted \cup {adding[Sensor]} ELSE halted
         \/ /\ state[Sensor] \in {"runs", "hung"} /\ state' = [state EXCEPT ![Sensor] = "stopped"]
            /\ UNCHANGED <<adding, halted>>
  PROVE  WatchInv'
<1>1. /\ id' \in [Threads -> Slots \cup {None}] /\ left' \in [Slots -> Int]
      /\ id'[Sensor] = None /\ \A t \in Threads \ {Sensor} : id'[t] = id[t]
      /\ \A k \in Slots : id[Sensor] # k => left'[k] = left[k]
      /\ \A k \in Slots : left'[k] = Free \/ (left'[k] = left[k] /\ id[Sensor] # k)
  BY PauseFacts
<1>2. /\ DOMAIN state' = Threads /\ adding' \in [Threads -> Slots \cup {None}]
      /\ \A t \in Threads \ {Sensor} : state'[t] = state[t] /\ adding'[t] = adding[t]
      /\ state'[Sensor] \in {"scans", "stopped"} /\ halted \subseteq halted'
      /\ state[Sensor] = "registers" => adding[Sensor] \in halted'
  BY WatchConstants DEF WatchInv
<1>4. ASSUME NEW u \in Threads PROVE ThreadOK(u)'
  <2>1. CASE u = Sensor BY <1>1, <1>2, <2>1 DEF ThreadOK
  <2>2. CASE u # Sensor
    <3>1. ThreadOK(u) /\ ThreadOK(Sensor) /\ id[u] \in Slots \cup {None}
      BY WatchConstants DEF WatchInv
    <3>2. state'[u] = state[u] /\ adding'[u] = adding[u] /\ id'[u] = id[u]
      BY <1>1, <1>2, <2>2
    <3>3. \A k \in Slots : owner[k] = u => left'[k] = left[k]
      BY <1>1, <2>2, <3>1, WatchConstants DEF ThreadOK
    <3> QED BY <3>1, <3>2, <3>3 DEF ThreadOK
  <2> QED BY <2>1, <2>2
<1>3. ASSUME NEW k \in Slots PROVE left'[k] >= Free /\ SlotOK(k)'
  <2>1. CASE left'[k] = Free BY <2>1, WatchConstants DEF SlotOK
  <2>2. CASE left'[k] # Free
    <3>1. left'[k] = left[k] /\ id[Sensor] # k /\ SlotOK(k) /\ left[k] >= Free
      BY <1>1, <2>2 DEF WatchInv
    <3> QED BY <1>1, <1>2, <2>2, <3>1 DEF SlotOK
  <2> QED BY <2>1, <2>2
<1> QED BY <1>1, <1>2, <1>3, <1>4 DEF WatchInv

LEMMA PassKeeps == ASSUME WatchInv, Pass PROVE WatchInv'
<1>1. /\ ~Expired /\ \A t \in Threads : state[t] \notin {"start", "registers"}
      /\ left' = [k \in Slots |-> IF left[k] = Free THEN Free
                                  ELSE IF Feeds(k) THEN Timeout ELSE left[k] - 1]
      /\ UNCHANGED <<state, id, owner, adding, halted>>
  BY DEF Pass
<1>2. left' \in [Slots -> Int] BY <1>1, WatchConstants DEF WatchInv
<1>3. ASSUME NEW k \in Slots PROVE left'[k] >= Free /\ SlotOK(k)'
  <2>1. left[k] \in Int /\ left[k] >= Free /\ left[k] # 0 /\ SlotOK(k)
    BY <1>1 DEF WatchInv, Expired
  <2>2. CASE left[k] = Free BY <1>1, <2>2, WatchConstants DEF SlotOK
  <2>3. CASE left[k] # Free /\ Feeds(k)
    <3>1. left'[k] = Timeout BY <1>1, <2>3
    <3> QED BY <1>1, <2>1, <2>3, <3>1, WatchConstants DEF SlotOK
  <2>4. CASE left[k] # Free /\ ~Feeds(k)
    <3>1. left'[k] = left[k] - 1 BY <1>1, <2>4
    <3>2. CASE k \in halted
      BY <1>1, <2>1, <2>4, <3>1, <3>2, WatchConstants DEF SlotOK
    <3>3. CASE k \notin halted
      <4>1. owner[k] \in Threads /\ id[owner[k]] = k /\ state[owner[k]] \in {"hung", "gone"}
        BY <1>1, <2>1, <2>4, <3>3, WatchConstants DEF SlotOK, Feeds
      <4> QED BY <1>1, <2>1, <2>4, <3>1, <4>1, WatchConstants DEF SlotOK
    <3> QED BY <3>2, <3>3
  <2> QED BY <2>2, <2>3, <2>4
<1>4. ASSUME NEW u \in Threads PROVE ThreadOK(u)'
  <2>1. ThreadOK(u) /\ id[u] \in Slots \cup {None} BY DEF WatchInv
  <2>2. ASSUME NEW k \in Slots, left[k] # Free PROVE left'[k] # Free
    <3>1. left[k] \in Int /\ left[k] >= Free /\ left[k] # 0 /\ left[k] # Free
      BY <1>1, <2>2 DEF WatchInv, Expired
    <3> QED BY <1>1, <3>1, WatchConstants
  <2> QED BY <1>1, <2>1, <2>2 DEF ThreadOK
<1> QED BY <1>1, <1>2, <1>3, <1>4 DEF WatchInv

(* A thread hangs, or goes on, with the channel it has, or none.           *)
LEMMA StateKeeps ==
  ASSUME WatchInv, NEW t \in Threads, UNCHANGED <<channels, halted>>,
         \/ state[t] = "runs" /\ state' = [state EXCEPT ![t] = "hung"]
         \/ state[t] = "runs" /\ state' = [state EXCEPT ![t] = "gone"]
         \/ state[t] = "scans" /\ state' = [state EXCEPT ![t] = "start"]
         \/ state[t] = "stopped" /\ state' = [state EXCEPT ![t] = "runs"]
  PROVE  WatchInv'
<1>1. UNCHANGED <<id, left, owner, adding, halted>> BY DEF channels
<1>2. DOMAIN state' = Threads BY DEF WatchInv
<1>4. ASSUME NEW u \in Threads PROVE ThreadOK(u)'
  <2>1. ThreadOK(u) BY DEF WatchInv
  <2> QED BY <1>1, <2>1 DEF ThreadOK, WatchInv
<1>3. ASSUME NEW k \in Slots PROVE SlotOK(k)'
  <2>1. SlotOK(k) BY DEF WatchInv
  <2> QED BY <1>1, <2>1 DEF SlotOK, WatchInv
<1> QED BY <1>1, <1>2, <1>3, <1>4 DEF WatchInv

\* However the threads register, are aborted by a scan or an update, and register again:
\* a channel expires only when its thread hangs or was stopped with its channel in place.
THEOREM WatchdogIsRight == WatchdogSpec => []NoFalseAlarm
<1>1. WatchdogInit => WatchInv
  BY WatchConstants DEF WatchdogInit, WatchInv, SlotOK, ThreadOK
<1>2. WatchInv /\ [WatchdogNext]_watchdogVars => WatchInv'
  <2> SUFFICES ASSUME WatchInv, [WatchdogNext]_watchdogVars PROVE WatchInv' OBVIOUS
  <2>1. CASE Rescan BY <2>1, SensorStopKeeps DEF Rescan
  <2>2. CASE OtaBegins BY <2>2, SensorStopKeeps DEF OtaBegins
  <2>3. CASE ScanEnds BY <2>3, StateKeeps, WatchConstants DEF ScanEnds
  <2>4. CASE OtaAborted BY <2>4, StateKeeps, WatchConstants DEF OtaAborted
  <2>5. CASE ShutdownRefused BY <2>5, StateKeeps, WatchConstants DEF ShutdownRefused
  <2>6. CASE Pass BY <2>6, PassKeeps
  <2>7. CASE WatchdogReset \/ OtherReset
    BY <2>7, StartedOK DEF WatchdogReset, OtherReset, Booted
  <2>8. CASE \E t \in Threads : Add(t) \/ Keep(t) \/ Hang(t)
    <3>1. ASSUME NEW t \in Threads, Hang(t) PROVE WatchInv'
      BY <3>1, StateKeeps DEF Hang
    <3> QED BY <2>8, <3>1, AddKeeps, KeepKeeps
  <2>9. CASE UNCHANGED watchdogVars BY <2>9 DEF watchdogVars, WatchInv, SlotOK, ThreadOK
  <2> QED BY <2>1, <2>2, <2>3, <2>4, <2>5, <2>6, <2>7, <2>8, <2>9 DEF WatchdogNext
<1>3. WatchInv => NoFalseAlarm
  BY WatchConstants DEF WatchInv, SlotOK, NoFalseAlarm
<1> QED BY <1>1, <1>2, <1>3, PTL DEF WatchdogSpec

-----------------------------------------------------------------------------
(* Settings: what a reset may find.                                        *)

Half == Values \cup {0}
Pairs == Half \X Half

(* A copy that has begun leaves something possible when it ends.           *)
JobOK(w) ==
  /\ job[w].at = "copy" => <<ram[job[w].name][1], job[w].value>> \in possible[job[w].name]
  /\ job[w].at \in {"copy", "flash"} => job[w].name \in Names /\ job[w].value \in Values
  /\ job[w].at = "store" => \A s \in Names : job[w].sum[s] # Garbage

(* The memory and the flash hold what is possible, and no checksum was     *)
(* computed over lost memory.                                              *)
StoreOK(s) ==
  /\ ram[s] \in Pairs /\ ram[s] \in possible[s]
  /\ nvs[s] \in Pairs /\ nvs[s] \in possible[s] /\ older[s] \subseteq Pairs
  /\ checksum[s] # Garbage

SettingInv ==
  /\ ram \in [Names -> Pairs] /\ nvs \in [Names -> Pairs]
  /\ DOMAIN older = Names /\ DOMAIN possible = Names
  /\ DOMAIN job = Writers
  /\ \A s \in Names : StoreOK(s)
  /\ \A w \in Writers : JobOK(w)

LEMMA SettingFacts ==
  /\ Unset \in Pairs /\ Garbage \notin Pairs /\ NoSum # Garbage
  /\ \A v \in Values : Whole(v) \in Pairs
<1>1. Values \subseteq Nat \ {0, 100} BY SettingsAssumption
<1>2. 0 \in Half /\ Values \subseteq Half /\ 100 \notin Half BY <1>1 DEF Half
<1>3. Unset \in Pairs /\ Garbage \notin Pairs /\ NoSum # Garbage
  BY <1>2 DEF Unset, Garbage, NoSum, Pairs
<1>4. \A v \in Values : Whole(v) \in Pairs BY <1>2 DEF Whole, Pairs
<1> QED BY <1>3, <1>4

LEMMA PairIs ==
  ASSUME NEW p \in Pairs
  PROVE  p = <<p[1], p[2]>> /\ p[1] \in Half /\ p[2] \in Half
BY DEF Pairs

(* Whoever copies into the setting is among those that Late looks at.      *)
LEMMA LateHas ==
  ASSUME NEW u \in Writers, job[u].at = "copy", NEW half
  PROVE  <<half, job[u].value>> \in Late(job[u].name, half)
BY DEF Late, Written

(* A writer's job changes, and nothing of the settings.                    *)
LEMMA JobKeeps ==
  ASSUME SettingInv, NEW w \in Writers, NEW j, job' = [job EXCEPT ![w] = j],
         j.at \notin {"copy", "flash"},
         j.at = "store" => \A s \in Names : j.sum[s] # Garbage,
         UNCHANGED <<ram, nvs, older, possible>>,
         \A s \in Names : checksum'[s] # Garbage
  PROVE  SettingInv'
<1>1. DOMAIN job' = Writers BY DEF SettingInv
<1>2. ASSUME NEW u \in Writers PROVE JobOK(u)'
  <2>1. CASE u = w
    <3>1. job'[u] = j BY <2>1 DEF SettingInv
    <3> QED BY <3>1 DEF JobOK
  <2>2. CASE u # w
    <3>1. job'[u] = job[u] /\ JobOK(u) BY <2>2 DEF SettingInv
    <3> QED BY <3>1 DEF JobOK
  <2> QED BY <2>1, <2>2
<1>3. \A s \in Names : StoreOK(s)' BY DEF SettingInv, StoreOK
<1> QED BY <1>1, <1>2, <1>3 DEF SettingInv

LEMMA WriteKeeps == ASSUME SettingInv, NEW w \in Writers, Write(w) PROVE SettingInv'
<1>1. PICK s \in Names, v \in Values, ok \in BOOLEAN :
        /\ ram' = [ram EXCEPT ![s] = <<v, ram[s][2]>>]
        /\ job' = [job EXCEPT ![w] = [at |-> "copy", name |-> s, value |-> v, flash |-> ok]]
        /\ possible' = [possible EXCEPT
                          ![s] = @ \cup {Whole(v), <<v, ram[s][2]>>} \cup Late(s, v)]
  BY DEF Write
<1>2. UNCHANGED <<checksum, nvs, older>> BY DEF Write
<1> DEFINE c == <<v, ram[s][2]>>
<1>3. c \in Pairs /\ c[1] = v
  <2>1. ram[s][2] \in Half BY PairIs DEF SettingInv
  <2> QED BY <2>1 DEF Half, Pairs
<1>4. ram' \in [Names -> Pairs] /\ ram'[s] = c /\ \A r \in Names \ {s} : ram'[r] = ram[r]
  BY <1>1, <1>3 DEF SettingInv
<1>5. /\ DOMAIN possible' = Names
      /\ possible'[s] = possible[s] \cup {Whole(v), c} \cup Late(s, v)
      /\ \A r \in Names \ {s} : possible'[r] = possible[r]
  BY <1>1 DEF SettingInv
<1> HIDE DEF c
<1>6. ASSUME NEW r \in Names PROVE StoreOK(r)'
  BY <1>2, <1>3, <1>4, <1>5 DEF SettingInv, StoreOK
<1>7. DOMAIN job' = Writers
      /\ job'[w] = [at |-> "copy", name |-> s, value |-> v, flash |-> ok]
      /\ \A u \in Writers \ {w} : job'[u] = job[u]
  BY <1>1 DEF SettingInv
<1>8. ASSUME NEW u \in Writers PROVE JobOK(u)'
  <2>1. CASE u = w BY <1>3, <1>4, <1>5, <1>7, <2>1 DEF JobOK, Whole
  <2>2. CASE u # w
    <3>1. job'[u] = job[u] /\ JobOK(u) BY <1>7, <2>2 DEF SettingInv
    <3>2. ASSUME job[u].at = "copy"
          PROVE  <<ram'[job[u].name][1], job[u].value>> \in possible'[job[u].name]
      <4>1. CASE job[u].name = s BY <1>3, <1>4, <1>5, <3>2, <4>1, LateHas
      <4>2. CASE job[u].name # s BY <1>4, <1>5, <3>1, <3>2, <4>2 DEF JobOK
      <4> QED BY <4>1, <4>2
    <3> QED BY <3>1, <3>2 DEF JobOK
  <2> QED BY <2>1, <2>2
<1> QED BY <1>2, <1>4, <1>5, <1>6, <1>7, <1>8 DEF SettingInv

LEMMA CopyKeeps == ASSUME SettingInv, NEW w \in Writers, Copy(w) PROVE SettingInv'
<1> DEFINE s == job[w].name
           v == job[w].value
           c == <<ram[s][1], v>>
<1>1. /\ job[w].at = "copy" /\ ram' = [ram EXCEPT ![s] = c]
      /\ UNCHANGED <<checksum, nvs, older, possible>>
  BY DEF Copy
<1>2. PICK j : /\ job' = [job EXCEPT ![w] = j]
               /\ j \in {[at |-> "flash", name |-> s, value |-> v], [at |-> "sum"]}
  BY DEF Copy
<1>3. s \in Names /\ v \in Values /\ c \in possible[s]
  BY <1>1 DEF SettingInv, JobOK
<1>4. (j.at = "flash" /\ j.name = s /\ j.value = v) \/ j.at = "sum" BY <1>2
<1> HIDE DEF s, v
<1>5. ram[s][1] \in Half BY <1>3, PairIs DEF SettingInv
<1>6. c \in Pairs /\ c[1] = ram[s][1] BY <1>3, <1>5 DEF Half, Pairs
<1> HIDE DEF c
<1>7. ram' \in [Names -> Pairs] /\ ram'[s] = c /\ \A r \in Names \ {s} : ram'[r] = ram[r]
  BY <1>1, <1>3, <1>6 DEF SettingInv
<1>8. \A r \in Names : ram'[r][1] = ram[r][1] BY <1>6, <1>7
<1>9. ASSUME NEW r \in Names PROVE StoreOK(r)'
  BY <1>1, <1>3, <1>6, <1>7 DEF SettingInv, StoreOK
<1>10. DOMAIN job' = Writers /\ job'[w] = j /\ \A u \in Writers \ {w} : job'[u] = job[u]
  BY <1>2 DEF SettingInv
<1>11. ASSUME NEW u \in Writers PROVE JobOK(u)'
  <2>1. CASE u = w BY <1>3, <1>4, <1>10, <2>1 DEF JobOK
  <2>2. CASE u # w
    <3>1. job'[u] = job[u] /\ JobOK(u) BY <1>10, <2>2 DEF SettingInv
    <3> QED BY <1>1, <1>8, <3>1 DEF JobOK
  <2> QED BY <2>1, <2>2
<1> QED BY <1>1, <1>7, <1>9, <1>10, <1>11 DEF SettingInv

(* The flash changes, and what is possible with it.                        *)
LEMMA FlashKeeps ==
  ASSUME SettingInv, NEW w \in Writers, job' = [job EXCEPT ![w] = [at |-> "sum"]],
         UNCHANGED <<ram, checksum>>,
         nvs' \in [Names -> Pairs], DOMAIN older' = Names, DOMAIN possible' = Names,
         \A s \in Names : /\ older'[s] \subseteq Pairs
                          /\ \/ possible'[s] = Settled(s, nvs'[s])
                             \/ nvs'[s] = nvs[s] /\ possible'[s] = possible[s]
  PROVE  SettingInv'
<1>1. ASSUME NEW s \in Names PROVE StoreOK(s)'
  BY <1>1 DEF SettingInv, StoreOK, Settled
<1>2. DOMAIN job' = Writers /\ job'[w] = [at |-> "sum"]
      /\ \A u \in Writers \ {w} : job'[u] = job[u]
  BY DEF SettingInv
<1>3. ASSUME NEW u \in Writers PROVE JobOK(u)'
  <2>1. CASE u = w BY <1>2, <2>1 DEF JobOK
  <2>2. CASE u # w
    <3>1. job'[u] = job[u] /\ JobOK(u) BY <1>2, <2>2 DEF SettingInv
    <3>2. ASSUME job[u].at = "copy"
          PROVE  <<ram[job[u].name][1], job[u].value>> \in possible'[job[u].name]
      <4>1. job[u].name \in Names BY <3>1, <3>2 DEF JobOK
      <4>2. CASE possible'[job[u].name] = possible[job[u].name]
        BY <3>1, <3>2, <4>2 DEF JobOK
      <4>3. CASE possible'[job[u].name] = Settled(job[u].name, nvs'[job[u].name])
        BY <3>2, <4>3, LateHas DEF Settled
      <4> QED BY <4>1, <4>2, <4>3
    <3> QED BY <3>1, <3>2 DEF JobOK
  <2> QED BY <2>1, <2>2
<1> QED BY <1>1, <1>2, <1>3 DEF SettingInv

LEMMA ToFlashKeeps == ASSUME SettingInv, NEW w \in Writers, ToFlash(w) PROVE SettingInv'
<1> DEFINE s == job[w].name
           f == Whole(job[w].value)
<1>1. /\ job[w].at = "flash" /\ nvs' = [nvs EXCEPT ![s] = f]
      /\ older' = [older EXCEPT ![s] = @ \cup {nvs[s]}]
      /\ possible' = [possible EXCEPT ![s] = Settled(s, f)]
      /\ job' = [job EXCEPT ![w] = [at |-> "sum"]] /\ UNCHANGED <<ram, checksum>>
  BY DEF ToFlash
<1>2. s \in Names /\ f \in Pairs BY <1>1, SettingFacts DEF SettingInv, JobOK
<1> HIDE DEF s, f
<1>3. nvs' \in [Names -> Pairs] BY <1>1, <1>2 DEF SettingInv
<1>4. DOMAIN older' = Names /\ DOMAIN possible' = Names BY <1>1 DEF SettingInv
<1>5. ASSUME NEW r \in Names
      PROVE  /\ older'[r] \subseteq Pairs
             /\ \/ possible'[r] = Settled(r, nvs'[r])
                \/ nvs'[r] = nvs[r] /\ possible'[r] = possible[r]
  BY <1>1, <1>2 DEF SettingInv, StoreOK
<1> QED BY <1>1, <1>3, <1>4, <1>5, FlashKeeps

LEMMA ClearRamKeeps == ASSUME SettingInv, NEW w \in Writers, ClearRam(w) PROVE SettingInv'
<1>1. /\ ram' = [s \in Names |-> Unset] /\ checksum' = [s \in Names |-> NoSum]
      /\ possible' = [s \in Names |-> possible[s] \cup {Unset} \cup Late(s, 0)]
      /\ job' = [job EXCEPT ![w] = [at |-> "clear"]] /\ UNCHANGED <<nvs, older>>
  BY DEF ClearRam
<1>2. \A s \in Names : StoreOK(s)' BY <1>1, SettingFacts DEF SettingInv, StoreOK
<1>3. DOMAIN job' = Writers /\ job'[w] = [at |-> "clear"]
      /\ \A u \in Writers \ {w} : job'[u] = job[u]
  BY <1>1 DEF SettingInv
<1>4. ASSUME NEW u \in Writers PROVE JobOK(u)'
  <2>1. CASE u = w BY <1>3, <2>1 DEF JobOK
  <2>2. CASE u # w
    <3>1. job'[u] = job[u] /\ JobOK(u) BY <1>3, <2>2 DEF SettingInv
    <3>2. ASSUME job[u].at = "copy"
          PROVE  <<ram'[job[u].name][1], job[u].value>> \in possible'[job[u].name]
      <4>1. job[u].name \in Names BY <3>1, <3>2 DEF JobOK
      <4>2. ram'[job[u].name][1] = 0 BY <1>1, <4>1 DEF Unset
      <4> QED BY <1>1, <3>2, <4>1, <4>2, LateHas
    <3> QED BY <3>1, <3>2 DEF JobOK
  <2> QED BY <2>1, <2>2
<1> QED BY <1>1, <1>2, <1>3, <1>4, SettingFacts DEF SettingInv

LEMMA ClearFlashKeeps == ASSUME SettingInv, NEW w \in Writers, ClearFlash(w) PROVE SettingInv'
<1>1. /\ possible' = [s \in Names |-> Settled(s, nvs'[s])]
      /\ job' = [job EXCEPT ![w] = [at |-> "sum"]] /\ UNCHANGED <<ram, checksum>>
  BY DEF ClearFlash
<1>2. \/ nvs' = [s \in Names |-> Unset] /\ older' = [s \in Names |-> {}]
      \/ /\ older' = older
         /\ \E kept \in [Names -> UNION {Leftover(s) : s \in Names}] :
               (\A s \in Names : kept[s] \in Leftover(s)) /\ nvs' = kept
      \/ nvs' = nvs /\ older' = older
  BY DEF ClearFlash
<1>3. \A s \in Names : Leftover(s) \subseteq Pairs
  BY SettingFacts DEF SettingInv, StoreOK, Leftover
<1>4. /\ nvs' \in [Names -> Pairs] /\ DOMAIN older' = Names
      /\ \A s \in Names : older'[s] \subseteq Pairs
  <2>1. CASE nvs' = [s \in Names |-> Unset] /\ older' = [s \in Names |-> {}]
    BY <2>1, SettingFacts
  <2>2. ASSUME older' = older,
               NEW kept \in [Names -> UNION {Leftover(s) : s \in Names}],
               \A s \in Names : kept[s] \in Leftover(s), nvs' = kept
        PROVE  /\ nvs' \in [Names -> Pairs] /\ DOMAIN older' = Names
               /\ \A s \in Names : older'[s] \subseteq Pairs
    <3>1. kept \in [Names -> Pairs] BY <1>3, <2>2
    <3> QED BY <2>2, <3>1 DEF SettingInv, StoreOK
  <2>3. CASE nvs' = nvs /\ older' = older BY <2>3 DEF SettingInv, StoreOK
  <2> QED BY <1>2, <2>1, <2>2, <2>3
<1> QED BY <1>1, <1>4, FlashKeeps

LEMMA RestartKeeps == ASSUME SettingInv, Restart PROVE SettingInv'
<1>1. PICK memory \in {ram, [s \in Names |-> Garbage]}, updated \in BOOLEAN :
        IF Valid(memory, updated)
        THEN ram' = memory /\ UNCHANGED <<checksum, possible>>
        ELSE Restored /\ checksum' = ram'
  BY DEF Restart
<1>2. job' = [w \in Writers |-> NoJob] /\ UNCHANGED <<nvs, older>> BY DEF Restart
<1>3. DOMAIN job' = Writers /\ \A w \in Writers : JobOK(w)' BY <1>2 DEF JobOK, NoJob
<1>4. CASE Valid(memory, updated)
  <2>1. ram' = checksum /\ ram' = memory /\ UNCHANGED <<checksum, possible>>
    BY <1>1, <1>4 DEF Valid
  <2>2. \A s \in Names : ram'[s] = ram[s]
    BY <2>1 DEF SettingInv, StoreOK
  <2>3. ram' \in [Names -> Pairs] BY <2>1, <2>2 DEF SettingInv
  <2>4. \A s \in Names : StoreOK(s)' BY <1>2, <2>1, <2>2 DEF SettingInv, StoreOK
  <2> QED BY <1>2, <1>3, <2>1, <2>3, <2>4 DEF SettingInv
<1>5. CASE ~Valid(memory, updated)
  <2>1. PICK unread \in SUBSET Names :
          /\ ram' = [s \in Names |-> IF s \in unread THEN Unset ELSE nvs[s]]
          /\ possible' = [s \in Names |-> IF s \in unread THEN possible[s] \cup {Unset}
                                         ELSE possible[s]]
    BY <1>1, <1>5 DEF Restored
  <2>2. checksum' = ram' BY <1>1, <1>5
  <2>3. ram' \in [Names -> Pairs] BY <2>1, SettingFacts DEF SettingInv
  <2>4. ASSUME NEW s \in Names PROVE StoreOK(s)'
    <3>1. ram'[s] \in Pairs /\ ram'[s] # Garbage BY <2>3, SettingFacts
    <3>2. nvs[s] \in Pairs /\ nvs[s] \in possible[s] /\ older[s] \subseteq Pairs
      BY DEF SettingInv, StoreOK
    <3> QED BY <1>2, <2>1, <2>2, <3>1, <3>2 DEF StoreOK
  <2> QED BY <1>2, <1>3, <2>1, <2>3, <2>4 DEF SettingInv
<1> QED BY <1>4, <1>5

\* Threads that write any setting, with resets, lost memory, a new firmware or a flash
\* that fails in the middle of a write or a clear: what a setting holds is always what was
\* written to it and not replaced for good since.
THEOREM SettingsAreDurable == SettingsSpec => []Durable
<1>1. SettingsInit => SettingInv
  <2> SUFFICES ASSUME SettingsInit PROVE SettingInv OBVIOUS
  <2>1. /\ ram = [s \in Names |-> Unset] /\ checksum = ram /\ nvs = ram
        /\ possible = [s \in Names |-> {Unset}] /\ job = [w \in Writers |-> NoJob]
        /\ older = [s \in Names |-> {}]
    BY DEF SettingsInit
  <2>2. \A s \in Names : StoreOK(s) BY <2>1, SettingFacts DEF StoreOK
  <2>3. \A w \in Writers : JobOK(w) BY <2>1 DEF JobOK, NoJob
  <2> QED BY <2>1, <2>2, <2>3, SettingFacts DEF SettingInv
<1>2. SettingInv /\ [SettingsNext]_settingVars => SettingInv'
  <2> SUFFICES ASSUME SettingInv, [SettingsNext]_settingVars PROVE SettingInv' OBVIOUS
  <2>1. \A s \in Names : checksum[s] # Garbage /\ ram[s] # Garbage
    BY SettingFacts DEF SettingInv, StoreOK
  <2>2. ASSUME NEW w \in Writers, Writing(w) PROVE SettingInv'
    <3>1. CASE FlashFails(w)
      <4>1. job' = [job EXCEPT ![w] = NoJob] /\ UNCHANGED <<ram, nvs, older, possible, checksum>>
        BY <3>1 DEF FlashFails
      <4>2. NoJob.at = "idle" BY DEF NoJob
      <4> QED BY <2>1, <4>1, <4>2, JobKeeps
    <3>2. CASE Sum(w)
      <4> DEFINE j == [at |-> "store", sum |-> ram]
      <4>1. job' = [job EXCEPT ![w] = j] /\ UNCHANGED <<ram, nvs, older, possible, checksum>>
        BY <3>2 DEF Sum
      <4>2. j.at = "store" /\ \A s \in Names : j.sum[s] # Garbage BY <2>1
      <4> HIDE DEF j
      <4> QED BY <2>1, <4>1, <4>2, JobKeeps
    <3>3. CASE StoreSum(w)
      <4>1. job' = [job EXCEPT ![w] = NoJob] /\ UNCHANGED <<ram, nvs, older, possible>>
            /\ checksum' = job[w].sum /\ job[w].at = "store"
        BY <3>3 DEF StoreSum
      <4>2. \A s \in Names : checksum'[s] # Garbage BY <4>1 DEF SettingInv, JobOK
      <4>3. NoJob.at = "idle" BY DEF NoJob
      <4> QED BY <4>1, <4>2, <4>3, JobKeeps
    <3>4. CASE Retain(w)
      <4> DEFINE j == [at |-> "sum"]
      <4>1. job' = [job EXCEPT ![w] = j] /\ UNCHANGED <<ram, nvs, older, possible, checksum>>
        BY <3>4 DEF Retain
      <4>2. j.at = "sum" OBVIOUS
      <4> HIDE DEF j
      <4> QED BY <2>1, <4>1, <4>2, JobKeeps
    <3> QED BY <2>2, <3>1, <3>2, <3>3, <3>4, WriteKeeps, CopyKeeps, ToFlashKeeps,
               ClearRamKeeps, ClearFlashKeeps DEF Writing
  <2>3. CASE UNCHANGED settingVars
    BY <2>3 DEF settingVars, SettingInv, StoreOK, JobOK
  <2> QED BY <2>2, <2>3, RestartKeeps DEF SettingsNext
<1>3. SettingInv => Durable BY DEF SettingInv, StoreOK, Durable
<1> QED BY <1>1, <1>2, <1>3, PTL DEF SettingsSpec

-----------------------------------------------------------------------------
(* BatteryTracker: where the mark stands.                                  *)

(* The mark is one of the borders of the intervals, never far above the    *)
(* highest charge; the lowest charge is above the next border, or the      *)
(* highest is not yet left behind; what was credited lies above the mark.  *)
CreditInv ==
  /\ charge \in 0 .. 100 /\ high \in Int /\ low \in Int
  /\ TrackerValid =>
       /\ \E m \in Int : mark = Step * m
       /\ mark <= high + 4 /\ (low > mark - Step \/ low > high - 3)
  /\ credited \in [Intervals -> {0, 1}]
  /\ \A i \in Intervals : credited[i] = 1 => mark <= Step * i

LEMMA CeilIs ==
  ASSUME NEW p \in Int
  PROVE  \E m \in Int : Ceil(p) = 5 * m /\ p <= 5 * m /\ 5 * m < p + 5
<1>1. PICK m \in Int : m = (p + 4) \div 5 BY SMT
<1>2. 5 * m <= p + 4 /\ p + 4 < 5 * m + 5 BY <1>1, SMT
<1>3. Ceil(p) = m * 5 BY <1>1 DEF Ceil, Step
<1> QED BY <1>2, <1>3

(* The interval that ends at a border.                                     *)
LEMMA IntervalAt ==
  ASSUME NEW p \in 0 .. 92, NEW m \in Int, p = 5 * m
  PROVE  m \in Intervals /\ IntervalOf(p) = m
<1>1. PICK n \in Int : Ceil(p) = 5 * n /\ p <= 5 * n /\ 5 * n < p + 5 BY CeilIs
<1>2. n = m BY <1>1
<1>3. (5 * m) \div 5 = m BY SMT
<1>4. m \in 0 .. 18 OBVIOUS
<1> QED BY <1>1, <1>2, <1>3, <1>4 DEF IntervalOf, Intervals, Step

LEMMA ResetKeeps ==
  ASSUME CreditInv, NEW p \in -1 .. 100, ResetTracker(p), charge' \in 0 .. 100
  PROVE  CreditInv'
<1>1. /\ high' = p /\ low' = p /\ mark' = (IF p < 0 THEN 0 ELSE Ceil(p))
      /\ credited' = [i \in Intervals |-> 0]
  BY DEF ResetTracker
<1>2. PICK m \in Int : Ceil(p) = 5 * m /\ p <= 5 * m /\ 5 * m < p + 5 BY CeilIs
<1>3. \E n \in Int : mark' = 5 * n BY <1>1, <1>2
<1>4. p >= 0 => mark' <= high' + 4 /\ low' > high' - 3 BY <1>1, <1>2
<1>5. credited' \in [Intervals -> {0, 1}] /\ \A i \in Intervals : credited'[i] # 1 BY <1>1
<1> QED BY <1>1, <1>3, <1>4, <1>5 DEF CreditInv, TrackerValid, Step

(* A lower charge moves the mark by one interval at most, and ends the     *)
(* interval it is credited to.                                             *)
LEMMA DischargedKeeps ==
  ASSUME CreditInv, NEW p \in 0 .. 100, NEW t \in 0 .. 1, TrackerValid, ~FellUnseen(p),
         Discharged(p, t), charge' = p
  PROVE  CreditInv'
<1>1. /\ low' = (IF p < low THEN p ELSE low) /\ high' = high /\ high \in 0 .. 100
      /\ high \in Int /\ low \in Int /\ p >= low - 1
  BY DEF Discharged, TrackerValid, FellUnseen, CreditInv
<1>2. PICK m \in Int : mark = 5 * m BY DEF CreditInv, Step
<1>3. mark <= high + 4 /\ (low > mark - 5 \/ low > high - 3) BY DEF CreditInv, Step
<1>4. /\ credited \in [Intervals -> {0, 1}]
      /\ \A i \in Intervals : credited[i] = 1 => mark <= 5 * i
  BY DEF CreditInv, Step
<1>5. CASE ~(p <= high - 3 /\ p <= mark - 5)
  <2>1. UNCHANGED <<mark, credited>> BY <1>5 DEF Discharged, Step
  <2> QED BY <1>1, <1>2, <1>3, <1>4, <1>5, <2>1 DEF CreditInv, TrackerValid, Step
<1>6. CASE p <= high - 3 /\ p <= mark - 5
  <2>1. mark' = mark - 5 BY <1>6 DEF Discharged, Step
  <2>2. p = low - 1 /\ (p = mark - 5 \/ p = high - 3) BY <1>1, <1>2, <1>3, <1>6
  <2>3. mark' = 5 * (m - 1) /\ m - 1 \in Int BY <1>2, <2>1
  <2>4. mark' <= high' + 4 /\ low' > mark' - 5 BY <1>1, <1>2, <1>3, <1>6, <2>1, <2>2
  <2>5. /\ credited' \in [Intervals -> {0, 1}]
        /\ \A i \in Intervals : credited'[i] = 1 => mark' <= 5 * i
    <3>1. CASE UNCHANGED credited
      BY <1>2, <1>4, <2>1, <3>1 DEF Intervals
    <3>2. CASE credited' # credited
      <4>1. p <= high - 8 /\ credited' = [credited EXCEPT ![IntervalOf(p)] = @ + 1]
        BY <1>6, <3>2 DEF Discharged, Credit, Step
      <4>2. p = mark - 5 /\ p \in 0 .. 92 BY <1>1, <2>2, <4>1
      <4>3. p = 5 * (m - 1) BY <1>2, <4>2
      <4>4. PICK j \in Intervals : j = m - 1 /\ IntervalOf(p) = j
        BY <2>3, <4>2, <4>3, IntervalAt
      <4>5. credited[j] = 0
        <5>1. mark > 5 * j BY <1>2, <4>4 DEF Intervals
        <5> QED BY <1>2, <1>4, <4>4, <5>1 DEF Intervals
      <4>6. /\ credited' \in [Intervals -> {0, 1}] /\ mark' = 5 * j
            /\ \A i \in Intervals \ {j} : credited'[i] = credited[i]
        BY <1>4, <2>3, <4>1, <4>4, <4>5
      <4> QED BY <1>2, <1>4, <2>1, <4>4, <4>6 DEF Intervals
    <3> QED BY <3>1, <3>2
  <2> QED BY <1>1, <2>3, <2>4, <2>5 DEF CreditInv, TrackerValid, Step
<1> QED BY <1>5, <1>6

LEMMA TrackerKept ==
  ASSUME CreditInv, charge' \in 0 .. 100, UNCHANGED <<high, low, mark, credited>>
  PROVE  CreditInv'
  BY DEF CreditInv, TrackerValid

LEMMA UpdateKeeps == ASSUME CreditInv, Update PROVE CreditInv'
<1>1. PICK p \in {charge, charge - 1} \cap Nat, t \in 0 .. 1 :
        charge' = p /\ IF plugged THEN Plugged ELSE Unplugged(p, t)
  BY DEF Update
<1>2. p \in 0 .. 100 /\ -1 \in -1 .. 100 /\ p \in -1 .. 100 BY DEF CreditInv
<1>3. CASE plugged
  <2>1. CASE TrackerValid
    BY <1>1, <1>2, <1>3, <2>1, ResetKeeps DEF Plugged
  <2>2. CASE ~TrackerValid
    BY <1>1, <1>2, <1>3, <2>2, TrackerKept DEF Plugged
  <2> QED BY <2>1, <2>2
<1>4. CASE ~plugged
  <2>1. \/ ResetTracker(p)
        \/ TrackerValid /\ ~FellUnseen(p) /\ Discharged(p, t)
    BY <1>1, <1>4 DEF Unplugged
  <2> QED BY <1>1, <1>2, <2>1, ResetKeeps, DischargedKeeps
<1> QED BY <1>3, <1>4

\* Whatever the charge does, between two resets of the battery tracker each interval of
\* the charge is credited with a cycle at most once.
THEOREM IntervalsOnce == BatterySpec => []IntervalOnce
<1>1. BatteryInit => CreditInv
  <2> SUFFICES ASSUME BatteryInit PROVE CreditInv OBVIOUS
  <2>1. /\ charge = FullCharge /\ high = -1 /\ low = -1 /\ mark = -1
        /\ credited = [i \in Intervals |-> 0]
    BY DEF BatteryInit
  <2>2. /\ credited \in [Intervals -> {0, 1}] /\ ~TrackerValid
        /\ \A i \in Intervals : credited[i] # 1
    BY <2>1 DEF TrackerValid
  <2>3. charge \in 0 .. 100 BY <2>1, BatteryAssumption
  <2> QED BY <2>1, <2>2, <2>3 DEF CreditInv
<1>2. CreditInv /\ [BatteryNext]_batteryVars => CreditInv'
  <2> SUFFICES ASSUME CreditInv, [BatteryNext]_batteryVars PROVE CreditInv' OBVIOUS
  <2>1. charge \in 0 .. 100 BY DEF CreditInv
  <2>2. CASE Update BY <2>2, UpdateKeeps
  <2>3. CASE Ask \/ Answered \/ Plug \/ Reboot
    BY <2>1, <2>3, TrackerKept DEF Ask, Answered, Plug, Reboot
  <2>4. CASE Jump
    <3>1. charge' \in 0 .. 100 BY <2>4, BatteryAssumption DEF Jump
    <3> QED BY <2>4, <3>1, TrackerKept DEF Jump
  <2>5. CASE ResetAll
    <3>1. -1 \in -1 .. 100 OBVIOUS
    <3> QED BY <2>1, <2>5, <3>1, ResetKeeps DEF ResetAll
  <2>6. CASE UNCHANGED batteryVars BY <2>1, <2>6, TrackerKept DEF batteryVars
  <2> QED BY <2>2, <2>3, <2>4, <2>5, <2>6 DEF BatteryNext
<1>3. CreditInv => IntervalOnce
  BY DEF CreditInv, IntervalOnce
<1> QED BY <1>1, <1>2, <1>3, PTL DEF BatterySpec

-----------------------------------------------------------------------------
(* Buttons: what a press has led to.                                       *)

(* The presses the exceptions are not about have led to nothing yet.       *)
Fresh(p) == p \in hurried \cup early \/ acts[p] = 0

(* And still have after a step that acts.                                  *)
StaysFresh(p) == p \in hurried \cup early \/ acts'[p] = 0

(* Only main acts on the press before the interrupt was enabled, and it    *)
(* acts on no other than those it saw together with the interrupt.         *)
BootHeld ==
  /\ mainPc \in {"starts", "looks", "held"} => acts[0] = 0
  /\ mainPc = "held" => press = 0 \/ press \in early

(* A press that is still timed, or that the thread asks the user about, is *)
(* fresh, and so are the clicks that were counted or will be.              *)
Unspent ==
  /\ pressTime # NoTime => down /\ press >= 1 /\ (buttonPc # "reset" => Fresh(press))
  /\ buttonPc = "shutdown" => press >= 1 /\ Fresh(press)
  /\ clicked => clickOf >= 1 /\ clickOf \notin counted
  /\ buttonPc # "gone" => (clicked => Fresh(clickOf)) /\ \A p \in counted : Fresh(p)

PressInv ==
  /\ press \in 0 .. Presses /\ clickOf \in 0 .. press /\ counted \subseteq 1 .. press
  /\ acts \in [0 .. Presses -> Nat] /\ \A p \in 0 .. Presses : p > press => acts[p] = 0
  /\ down /\ press >= 1 => clickOf < press /\ press \notin counted
  /\ OneActionPerPress /\ BootHeld /\ Unspent

LEMMA ActIs ==
  ASSUME PressInv, NEW ps, Act(ps)
  PROVE  /\ acts' \in [0 .. Presses -> Nat]
         /\ \A p \in 0 .. Presses : acts'[p] = IF p \in ps THEN acts[p] + 1 ELSE acts[p]
  BY DEF Act, PressInv

(* Presses lead to an action that are fresh, and not to come.              *)
LEMMA ActedOnce ==
  ASSUME PressInv, NEW ps \in SUBSET (0 .. press), Act(ps), \A p \in ps : Fresh(p),
         UNCHANGED <<press, hurried, early>>
  PROVE  /\ OneActionPerPress'
         /\ \A p \in 0 .. Presses : p > press => acts'[p] = 0
         /\ \A p \in 0 .. press : p \notin ps /\ Fresh(p) => StaysFresh(p)
<1>0. Presses \in Nat /\ press \in 0 .. Presses BY ButtonAssumption DEF PressInv
<1>1. \A p \in 0 .. Presses : acts'[p] = IF p \in ps THEN acts[p] + 1 ELSE acts[p] BY ActIs
<1>2. ASSUME NEW p \in 0 .. press, p \notin hurried \cup early PROVE acts'[p] <= 1
  <2>1. CASE p \in ps BY <1>0, <1>1, <1>2, <2>1 DEF Fresh
  <2>2. CASE p \notin ps BY <1>0, <1>1, <1>2, <2>2 DEF PressInv, OneActionPerPress
  <2> QED BY <2>1, <2>2
<1>3. ASSUME NEW p \in 0 .. Presses, p > press PROVE acts'[p] = 0
  BY <1>0, <1>1, <1>3 DEF PressInv
<1>4. ASSUME NEW p \in 0 .. press, p \notin ps, Fresh(p) PROVE StaysFresh(p)
  BY <1>0, <1>1, <1>4 DEF Fresh, StaysFresh
<1> QED BY <1>2, <1>3, <1>4 DEF OneActionPerPress

LEMMA InterruptKeeps == ASSUME PressInv, Press \/ Release PROVE PressInv'
<1>0. Presses \in Nat BY ButtonAssumption
<1>1. CASE Press
  BY <1>0, <1>1 DEF Press, PressInv, OneActionPerPress, BootHeld, Unspent, Fresh
<1>2. CASE Release
  BY <1>0, <1>2 DEF Release, After, PressInv, OneActionPerPress, BootHeld, Unspent, Fresh
<1> QED BY <1>1, <1>2

LEMMA ClicksKeeps == ASSUME PressInv, Clicks PROVE PressInv'
<1>0. Presses \in Nat BY ButtonAssumption
<1>1. /\ buttonPc = "loop" /\ ~clicked /\ counted' = {}
      /\ UNCHANGED <<down, press, pressTime, clicked, buttonPc, mainPc, clickOf, hurried, early>>
  BY DEF Clicks, WindowOver
<1>2. CASE Act(counted)
  <2>1. counted \in SUBSET (0 .. press) /\ 0 \notin counted BY <1>0 DEF PressInv
  <2>2. \A p \in counted : Fresh(p) BY <1>1 DEF PressInv, Unspent
  <2>3. /\ OneActionPerPress'
        /\ \A p \in 0 .. Presses : p > press => acts'[p] = 0
        /\ \A p \in 0 .. press : p \notin counted /\ Fresh(p) => StaysFresh(p)
    BY <1>1, <1>2, <2>1, <2>2, ActedOnce
  <2>4. acts' \in [0 .. Presses -> Nat] /\ acts'[0] = acts[0] BY <1>0, <1>2, <2>1, ActIs
  <2>5. BootHeld' BY <1>1, <2>4 DEF PressInv, BootHeld
  <2>6. pressTime # NoTime => down /\ press >= 1 /\ StaysFresh(press)
    <3> SUFFICES ASSUME pressTime # NoTime PROVE down /\ press >= 1 /\ StaysFresh(press) OBVIOUS
    <3>1. down /\ press >= 1 /\ Fresh(press) BY <1>1 DEF PressInv, Unspent
    <3>2. press \notin counted /\ press \in 0 .. press BY <1>0, <3>1 DEF PressInv
    <3> QED BY <2>3, <3>1, <3>2
  <2>7. Unspent' BY <1>1, <2>6 DEF Unspent, Fresh, StaysFresh
  <2> QED BY <1>1, <2>3, <2>4, <2>5, <2>7 DEF PressInv
<1>3. CASE UNCHANGED acts
  BY <1>0, <1>1, <1>3 DEF PressInv, OneActionPerPress, BootHeld, Unspent, Fresh
<1> QED BY <1>2, <1>3 DEF Clicks

(* The thread has asked the user about a press, and acts on the answer.    *)
LEMMA AnswerKeeps == ASSUME PressInv, Off \/ Cancel PROVE PressInv'
<1>0. Presses \in Nat /\ press \in 0 .. Presses BY ButtonAssumption DEF PressInv
<1>1. /\ Act({press}) /\ buttonPc = "shutdown"
      /\ \/ ~down /\ buttonPc' = "gone"
         \/ down /\ buttonPc' = "reset"
      /\ UNCHANGED <<down, press, pressTime, clicked, mainPc, clickOf, counted, hurried, early>>
  BY DEF Off, Cancel, Acts
<1>2. press >= 1 /\ Fresh(press) BY <1>1 DEF PressInv, Unspent
<1>3. /\ OneActionPerPress'
      /\ \A p \in 0 .. Presses : p > press => acts'[p] = 0
      /\ \A p \in 0 .. press : p # press /\ Fresh(p) => StaysFresh(p)
  <2>1. {press} \in SUBSET (0 .. press) BY <1>0
  <2>2. \A p \in {press} : Fresh(p) BY <1>2
  <2>3. /\ OneActionPerPress'
        /\ \A p \in 0 .. Presses : p > press => acts'[p] = 0
        /\ \A p \in 0 .. press : p \notin {press} /\ Fresh(p) => StaysFresh(p)
    BY <1>1, <2>1, <2>2, ActedOnce
  <2> QED BY <2>3
<1>4. acts' \in [0 .. Presses -> Nat] /\ acts'[0] = acts[0] BY <1>0, <1>1, <1>2, ActIs
<1>5. BootHeld' BY <1>1, <1>4 DEF PressInv, BootHeld
<1>6. Unspent'
  <2>1. CASE ~down /\ buttonPc' = "gone" BY <1>1, <2>1 DEF PressInv, Unspent
  <2>2. CASE down /\ buttonPc' = "reset"
    <3>1. clickOf # press /\ press \notin counted /\ clickOf \in 0 .. press
      BY <1>0, <1>2, <2>2 DEF PressInv
    <3>2. /\ clicked => StaysFresh(clickOf)
          /\ \A p \in counted : StaysFresh(p)
      <4>1. (clicked => Fresh(clickOf)) /\ \A p \in counted : Fresh(p)
        BY <1>1 DEF PressInv, Unspent
      <4>2. \A p \in counted : p \in 0 .. press /\ p # press BY <1>0, <3>1 DEF PressInv
      <4> QED BY <1>3, <3>1, <4>1, <4>2
    <3>3. /\ pressTime' # NoTime => down' /\ press' >= 1
          /\ clicked' => clickOf' >= 1 /\ clickOf' \notin counted'
      BY <1>1 DEF PressInv, Unspent
    <3>4. (clicked' => StaysFresh(clickOf)) /\ \A p \in counted' : StaysFresh(p)
      BY <1>1, <3>2
    <3> QED BY <1>1, <2>2, <3>3, <3>4 DEF Unspent, Fresh, StaysFresh
  <2> QED BY <1>1, <2>1, <2>2
<1> QED BY <1>1, <1>3, <1>4, <1>5, <1>6 DEF PressInv

LEMMA ThreadKeeps == ASSUME PressInv, ButtonThread PROVE PressInv'
<1>0. Presses \in Nat BY ButtonAssumption
<1>1. CASE CountClick
  BY <1>0, <1>1 DEF CountClick, PressInv, OneActionPerPress, BootHeld, Unspent, Fresh
<1>2. CASE Hold
  BY <1>0, <1>2 DEF Hold, Held, After, PressInv, OneActionPerPress, BootHeld, Unspent, Fresh
<1>3. CASE ResetPair
  BY <1>0, <1>3 DEF ResetPair, PressInv, OneActionPerPress, BootHeld, Unspent, Fresh
<1> QED BY <1>1, <1>2, <1>3, ClicksKeeps, AnswerKeeps DEF ButtonThread

(* main acts on the press it found held.                                   *)
LEMMA MainActs ==
  ASSUME PressInv, mainPc = "held", mainPc' = "boots", Act({press}),
         UNCHANGED <<down, press, pressTime, clicked, buttonPc, clickOf, counted, hurried, early>>
  PROVE  PressInv'
<1>0. Presses \in Nat /\ press \in 0 .. Presses BY ButtonAssumption DEF PressInv
<1>1. /\ acts' \in [0 .. Presses -> Nat]
      /\ \A p \in 0 .. Presses : acts'[p] = IF p = press THEN acts[p] + 1 ELSE acts[p]
  BY ActIs
<1>2. /\ OneActionPerPress'
      /\ \A p \in 0 .. Presses : p > press => acts'[p] = 0
  <2>1. {press} \in SUBSET (0 .. press) BY <1>0
  <2>2. Fresh(press) BY DEF PressInv, BootHeld, Fresh
  <2> QED BY <2>1, <2>2, ActedOnce
<1>3. ASSUME NEW p \in 1 .. press, Fresh(p) PROVE StaysFresh(p)
  <2>1. CASE p = press
    <3>1. p \in early BY <1>0, <2>1 DEF PressInv, BootHeld
    <3> QED BY <3>1 DEF StaysFresh
  <2>2. CASE p # press
    <3>1. acts'[p] = acts[p] BY <1>0, <1>1, <2>2
    <3> QED BY <1>3, <3>1 DEF Fresh, StaysFresh
  <2> QED BY <2>1, <2>2
<1>4. Unspent'
  <2>1. pressTime # NoTime /\ buttonPc # "reset" => StaysFresh(press)
    BY <1>0, <1>3 DEF PressInv, Unspent
  <2>2. buttonPc = "shutdown" => press >= 1 /\ StaysFresh(press)
    BY <1>0, <1>3 DEF PressInv, Unspent
  <2>3. buttonPc # "gone" => (clicked => StaysFresh(clickOf)) /\ \A p \in counted : StaysFresh(p)
    BY <1>0, <1>3 DEF PressInv, Unspent
  <2>4. /\ pressTime # NoTime => down /\ press >= 1
        /\ clicked => clickOf >= 1 /\ clickOf \notin counted
    BY DEF PressInv, Unspent
  <2> QED BY <2>1, <2>2, <2>3, <2>4 DEF Unspent, Fresh, StaysFresh
<1>5. BootHeld' BY DEF BootHeld
<1> QED BY <1>1, <1>2, <1>4, <1>5 DEF PressInv

LEMMA MainKeeps == ASSUME PressInv, MainThread PROVE PressInv'
<1>0. Presses \in Nat BY ButtonAssumption
<1>1. CASE MainStarts
  BY <1>1 DEF MainStarts, PressInv, OneActionPerPress, BootHeld, Unspent, Fresh
<1>2. CASE MainLooks
  BY <1>0, <1>2 DEF MainLooks, PressInv, OneActionPerPress, BootHeld, Unspent, Fresh
<1>3. CASE MainReleased
  <2>1. CASE Acts(press) BY <1>3, <2>1, MainActs DEF MainReleased, Acts
  <2>2. CASE UNCHANGED acts
    BY <1>3, <2>2 DEF MainReleased, PressInv, OneActionPerPress, BootHeld, Unspent, Fresh
  <2> QED BY <1>3, <2>1, <2>2 DEF MainReleased
<1>4. CASE MainResets BY <1>4, MainActs DEF MainResets, Acts
<1>5. CASE MainBoots
  BY <1>5 DEF MainBoots, PressInv, OneActionPerPress, BootHeld, Unspent, Fresh
<1> QED BY <1>1, <1>2, <1>3, <1>4, <1>5 DEF MainThread

\* The interrupt, the button thread and main share the time of the press without a lock:
\* a press leads to one action at most, unless it is released while the pairing is reset
\* or main finds it held although the interrupt noted it.
THEOREM OneAction == ButtonsSpec => []OneActionPerPress
<1>1. ButtonInit => PressInv
  <2> SUFFICES ASSUME ButtonInit PROVE PressInv OBVIOUS
  <2>1. /\ press = 0 /\ pressTime = NoTime /\ clicked = FALSE /\ counted = {}
        /\ buttonPc = "loop" /\ mainPc = "starts" /\ clickOf = 0
        /\ acts = [p \in 0 .. Presses |-> 0]
    BY DEF ButtonInit
  <2>2. Presses \in Nat BY ButtonAssumption
  <2> QED BY <2>1, <2>2 DEF PressInv, OneActionPerPress, BootHeld, Unspent, Fresh
<1>2. PressInv /\ [ButtonsNext]_buttonVars => PressInv'
  <2> SUFFICES ASSUME PressInv, [ButtonsNext]_buttonVars PROVE PressInv' OBVIOUS
  <2>1. CASE Tick
    <3>1. /\ pressTime' = Next(pressTime)
          /\ UNCHANGED <<down, press, clicked, buttonPc, mainPc, acts, clickOf, counted, hurried,
                         early>>
      BY <2>1 DEF Tick
    <3>2. pressTime' # NoTime => pressTime # NoTime BY <3>1 DEF Next
    <3> QED BY <3>1, <3>2 DEF PressInv, OneActionPerPress, BootHeld, Unspent, Fresh
  <2>2. CASE UNCHANGED <<down, press, pressTime, clicked, buttonPc, mainPc, acts, clickOf,
                         counted, hurried, early>>
    BY <2>2 DEF PressInv, OneActionPerPress, BootHeld, Unspent, Fresh
  <2>3. CASE Ota BY <2>2, <2>3 DEF Ota
  <2>4. CASE UNCHANGED buttonVars BY <2>2, <2>4 DEF buttonVars
  <2> QED BY <2>1, <2>3, <2>4, InterruptKeeps, ThreadKeeps, MainKeeps DEF ButtonsNext
<1>3. PressInv => OneActionPerPress BY DEF PressInv
<1> QED BY <1>1, <1>2, <1>3, PTL DEF ButtonsSpec
=============================================================================
