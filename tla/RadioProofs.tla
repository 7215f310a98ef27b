------------------------------ MODULE RadioProofs -----------------------------
(***************************************************************************)
(* Proofs about the radio and what is exchanged over it: who switches it and *)
(* holds its clock (EsbRadio), which packet is next (Packets), when it is sent *)
(* (Tdma), the ring of raw packets that may be asked for again (RawStream), *)
(* the estimate of the receiver's clock (TimeSync) and the queue of received *)
(* OTA packets (OtaRxQueue).  The parts share no state; each is proved for any *)
(* value of its constants that its assumption admits.                      *)
(***************************************************************************)
EXTENDS EsbRadio, OtaRxQueue, RawStream, Packets, Tdma, TimeSync, SequenceTheorems, TLAPS

(* Remainders and quotients.                                               *)

LEMMA DivMod ==
  ASSUME NEW n \in Nat, NEW r \in Nat \ {0}
  PROVE  \E q \in Nat, m \in 0 .. r - 1 : m = n % r /\ n = q * r + m
<1>1. n % r \in 0 .. r - 1 BY SMT
<1>2. n \div r \in Nat BY SMT
<1>3. n % r = n - r * (n \div r) BY SMT
<1>4. PICK q \in Nat, m \in 0 .. r - 1 : m = n % r /\ m = n - r * q
  BY <1>1, <1>2, <1>3, Zenon
<1>5. r * q = q * r /\ r * q \in Nat OBVIOUS
<1>6. n = q * r + m BY <1>4, <1>5
<1> QED BY <1>4, <1>6

LEMMA TimesMonotone ==
  ASSUME NEW j \in Nat, NEW k \in Nat, NEW p \in Nat, j <= k
  PROVE  j * p <= k * p
<1> DEFINE d == k - j
<1>1. d \in Nat /\ k = j + d OBVIOUS
<1>2. (j + d) * p = j * p + d * p /\ d * p \in Nat /\ j * p \in Nat BY <1>1
<1> QED BY <1>1, <1>2

LEMMA QuotientUnique ==
  ASSUME NEW a \in Nat, NEW d \in Nat, NEW r \in Nat \ {0}, NEW b \in 0 .. r - 1,
         NEW c \in 0 .. r - 1, a * r + b = d * r + c
  PROVE  ~(a < d)
<1> SUFFICES ASSUME a < d PROVE FALSE OBVIOUS
<1>1. (a + 1) * r <= d * r BY TimesMonotone
<1>2. (a + 1) * r = a * r + r /\ a * r \in Nat /\ d * r \in Nat OBVIOUS
<1> QED BY <1>1, <1>2

LEMMA ModUnique ==
  ASSUME NEW a \in Nat, NEW r \in Nat \ {0}, NEW b \in 0 .. r - 1
  PROVE  (a * r + b) % r = b
<1>1. a * r + b \in Nat /\ a * r \in Nat BY SMT
<1>2. PICK d \in Nat, c \in 0 .. r - 1 : c = (a * r + b) % r /\ a * r + b = d * r + c
  BY <1>1, DivMod
<1>3. ~(a < d) /\ ~(d < a) BY <1>2, QuotientUnique
<1>4. a = d BY <1>3
<1>5. b = c BY <1>1, <1>2, <1>4
<1> QED BY <1>2, <1>5

LEMMA ModPlus ==
  ASSUME NEW n \in Nat, NEW r \in Nat \ {0} PROVE (n + r) % r = n % r
<1>1. PICK d \in Nat, c \in 0 .. r - 1 : c = n % r /\ n = d * r + c BY DivMod
<1>2. n + r = (d + 1) * r + c BY <1>1
<1>3. ((d + 1) * r + c) % r = c BY ModUnique
<1> QED BY <1>1, <1>2, <1>3

LEMMA ModMod ==
  ASSUME NEW n \in Nat, NEW m \in Nat \ {0}, NEW r \in Nat \ {0}, m % r = 0
  PROVE  (n % m) % r = n % r
<1>1. PICK k \in Nat : m = k * r
  <2>1. PICK k \in Nat, z \in 0 .. r - 1 : z = m % r /\ m = k * r + z BY DivMod
  <2>2. k * r \in Nat OBVIOUS
  <2> QED BY <2>1, <2>2
<1>2. PICK q \in Nat, s \in 0 .. m - 1 : s = n % m /\ n = q * m + s BY DivMod
<1>3. s \in Nat OBVIOUS
<1>4. PICK e \in Nat, c \in 0 .. r - 1 : c = s % r /\ s = e * r + c BY <1>3, DivMod
<1>5. q * (k * r) = (q * k) * r /\ (q * k) * r + e * r = (q * k + e) * r
      /\ q * k \in Nat /\ (q * k) * r \in Nat /\ e * r \in Nat
  OBVIOUS
<1>6. n = (q * k + e) * r + c BY <1>1, <1>2, <1>4, <1>5
<1>7. q * k + e \in Nat BY <1>5
<1>8. n % r = c BY <1>6, <1>7, ModUnique
<1> QED BY <1>2, <1>4, <1>8

LEMMA RemainderIs ==
  ASSUME NEW x \in Int, NEW r \in Nat \ {0}
  PROVE  x % r = x - r * (x \div r) /\ x \div r \in Int
  BY SMT

LEMMA FloorDivision ==
  ASSUME NEW x \in Int, NEW r \in Nat \ {0}
  PROVE  \E q \in Int, m \in 0 .. r - 1 : m = x % r /\ x = q * r + m
<1>1. x % r \in 0 .. r - 1 BY SMT
<1>2. x \div r \in Int BY SMT
<1>3. x % r = x - r * (x \div r) BY SMT
<1>4. PICK q \in Int, m \in 0 .. r - 1 : m = x % r /\ m = x - r * q
  BY <1>1, <1>2, <1>3, Zenon
<1>5. r * q = q * r /\ r * q \in Int OBVIOUS
<1>6. x = q * r + m BY <1>4, <1>5
<1> QED BY <1>4, <1>6

LEMMA TimesGrows ==
  ASSUME NEW n \in Nat, NEW r \in Nat \ {0}, n >= 1
  PROVE  n * r >= r
<1> DEFINE d == n - 1
<1>1. d \in Nat /\ n = d + 1 OBVIOUS
<1> HIDE DEF d
<1>2. (d + 1) * r = d * r + r /\ d * r \in Nat BY <1>1
<1> QED BY <1>1, <1>2

(* The remainder is the least of its class.                                *)
LEMMA RemainderLeast ==
  ASSUME NEW v \in Nat, NEW k \in Int, NEW r \in Nat \ {0}
  PROVE  (v + k * r) % r <= v
<1> DEFINE x == v + k * r
<1>1. k * r \in Int /\ x \in Int OBVIOUS
<1>2. PICK q \in Int, m \in 0 .. r - 1 : m = x % r /\ x = q * r + m
  BY <1>1, FloorDivision
<1>3. CASE q - k >= 0
  <2> DEFINE d == q - k
  <2>1. d \in Nat /\ q = k + d BY <1>3
  <2> HIDE DEF d
  <2>2. q * r = k * r + d * r /\ d * r \in Nat BY <2>1
  <2>3. v = d * r + m BY <1>1, <1>2, <2>2
  <2> QED BY <1>2, <2>2, <2>3
<1>4. CASE q - k < 0
  <2> DEFINE d == k - q
  <2>1. d \in Nat /\ k = q + d /\ d >= 1 BY <1>4
  <2> HIDE DEF d
  <2>2. k * r = q * r + d * r /\ d * r \in Nat /\ q * r \in Int BY <2>1
  <2>3. d * r >= r BY <2>1, TimesGrows
  <2>4. m = v + d * r BY <1>1, <1>2, <2>2
  <2> QED BY <2>2, <2>3, <2>4
<1> QED BY <1>3, <1>4

-----------------------------------------------------------------------------
(* EsbRadio: who switches the radio, and who holds the clock.              *)

Bases == Addresses \cup {"unset", "discovery"}

(* Somebody is half way through switching the radio off ...                *)
GoingOff == (\E t \in Changers : life[t] = "off") \/ conn = "off" \/ esb = "off"

(* ... or has still to switch it on.                                       *)
ComingOn == (\E t \in Changers : life[t] = "settle") \/ conn = "settle" \/ esb = "init"

(* Everyone who switches the radio off either takes the pairing away or    *)
(* switches it on at the addresses that are set by then; pairing changes   *)
(* those only while the tracker is not paired, or is about to switch on.   *)
RadioInv ==
  /\ base \in Bases /\ paired_addr \in Addresses
  /\ op \in [Changers -> Ops \cup {"none"}] /\ life \in [Changers -> {"none", "off", "settle"}]
  /\ radio = "off" \/ radio \in Bases
  /\ esb_initialized \in BOOLEAN /\ init_failed \in BOOLEAN /\ esb_paired \in BOOLEAN
  /\ GoingOff \/ init_failed \/ (esb_initialized <=> radio # "off")
  /\ esb_paired => GoingOff \/ ComingOn \/ init_failed \/ radio = base
  /\ Searching => base = "discovery" /\ radio \in {"discovery", "off"}
  /\ esb \in {"search", "clock", "step1", "step2", "off", "finish"} => ~esb_paired
  /\ \A t \in Changers : life[t] = "settle" => op[t] = "channel"

RadioVars == <<esb_initialized, radio, init_failed, base, paired_addr, esb_paired, esb, op, life, conn>>

LEMMA BasesOn == "off" \notin Bases /\ "discovery" \in Bases
  BY RadioAssumption DEF Bases, Addresses

(* Switching on makes flag and radio agree, or is known to have failed.    *)
LEMMA InitializedFacts ==
  ASSUME NEW a \in Bases, Initialized(a), esb_initialized \in BOOLEAN
  PROVE  /\ esb_initialized' \in BOOLEAN /\ init_failed' \in BOOLEAN
         /\ radio' \in {a, "off"} /\ (radio' = "off" \/ radio' \in Bases)
         /\ init_failed' \/ (esb_initialized' /\ radio' = a /\ radio' # "off")
<1>1. radio' \in {a, "off"} /\ (radio' = "off" \/ radio' \in Bases)
  BY DEF Initialized
<1>2. init_failed' \/ (esb_initialized' /\ radio' = a /\ radio' # "off")
  BY BasesOn DEF Initialized
<1>3. esb_initialized' \in BOOLEAN /\ init_failed' \in BOOLEAN
  BY Zenon DEF Initialized
<1> QED BY <1>1, <1>2, <1>3

LEMMA DisabledFacts ==
  ASSUME Disabled, init_failed \in BOOLEAN
  PROVE  /\ radio' = "off" /\ ~esb_initialized' /\ esb_initialized' \in BOOLEAN
         /\ init_failed' = init_failed
  BY Zenon DEF Disabled

LEMMA SameRadio == ASSUME RadioInv, UNCHANGED RadioVars PROVE RadioInv'
  BY DEF RadioInv, RadioVars, GoingOff, ComingOn, Searching

(* A change that needs no sleep.                                           *)
LEMMA UnpairedKeeps ==
  ASSUME RadioInv, NEW o \in Ops, Unpaired(o), UNCHANGED <<switch, op, life, conn, esb>>
  PROVE  RadioInv'
<1>1. /\ esb_paired' = FALSE /\ paired_addr' \in Addresses
      /\ UNCHANGED <<base, esb_initialized, radio, init_failed>>
  BY DEF Unpaired, Addresses, switch
<1>2. esb_paired' \in BOOLEAN BY <1>1, Zenon
<1> QED BY <1>1, <1>2 DEF RadioInv, GoingOff, ComingOn, Searching

LEMMA BeginChangeKeeps ==
  ASSUME RadioInv, NEW t \in Changers, NEW o \in Ops, BeginChange(t, o), UNCHANGED <<conn, esb>>
  PROVE  RadioInv'
<1>1. CASE NothingToReset(o) \/ (~esb_initialized /\ o # "channel")
  BY <1>1, UnpairedKeeps DEF BeginChange, change, RadioInv
<1>2. CASE ~NothingToReset(o) /\ esb_initialized
  <2>1. /\ esb_initialized' = FALSE /\ op' = [op EXCEPT ![t] = o]
        /\ life' = [life EXCEPT ![t] = "off"]
        /\ UNCHANGED <<radio, init_failed, base, paired_addr, esb_paired>>
    BY <1>2 DEF BeginChange, pairing
  <2>2. GoingOff' BY <2>1 DEF GoingOff, RadioInv
  <2>3. esb_initialized' \in BOOLEAN BY <2>1, Zenon
  <2>4. \A u \in Changers : life'[u] = "settle" => op'[u] = "channel" BY <2>1 DEF RadioInv
  <2> QED BY <2>1, <2>2, <2>3, <2>4 DEF RadioInv, Searching
<1>3. CASE ~NothingToReset(o) /\ ~esb_initialized /\ o = "channel"
  <2>1. /\ op' = [op EXCEPT ![t] = o] /\ life' = [life EXCEPT ![t] = "settle"]
        /\ life[t] = "none"
        /\ UNCHANGED <<esb_initialized, radio, init_failed, base, paired_addr, esb_paired>>
    BY <1>3 DEF BeginChange, pairing, switch
  <2>2. ComingOn' /\ (GoingOff => GoingOff') BY <2>1 DEF GoingOff, ComingOn, RadioInv
  <2>3. \A u \in Changers : life'[u] = "settle" => op'[u] = "channel" BY <1>3, <2>1 DEF RadioInv
  <2> QED BY <2>1, <2>2, <2>3 DEF RadioInv, Searching
<1> QED BY <1>1, <1>2, <1>3 DEF RadioInv

LEMMA ContinueKeeps ==
  ASSUME RadioInv, NEW t \in Changers, Continue(t), UNCHANGED <<conn, esb>>
  PROVE  RadioInv'
<1>1. CASE life[t] = "off" /\ op[t] # "channel"
  <2>1. /\ Disabled /\ op' = [op EXCEPT ![t] = "none"] /\ life' = [life EXCEPT ![t] = "none"]
        /\ esb_paired' = FALSE /\ paired_addr' \in Addresses /\ UNCHANGED base
    BY <1>1 DEF Continue, Unpaired, Addresses
  <2>2. /\ radio' = "off" /\ ~esb_initialized' /\ esb_initialized' \in BOOLEAN
        /\ init_failed' = init_failed
    BY <2>1, DisabledFacts DEF RadioInv
  <2>3. esb_paired' \in BOOLEAN BY <2>1, Zenon
  <2>4. \A u \in Changers : life'[u] = "settle" => op'[u] = "channel" BY <2>1 DEF RadioInv
  <2> QED BY <2>1, <2>2, <2>3, <2>4 DEF RadioInv, Searching
<1>2. CASE life[t] = "off" /\ op[t] = "channel"
  <2>1. /\ Disabled /\ life' = [life EXCEPT ![t] = "settle"]
        /\ UNCHANGED <<op, base, paired_addr, esb_paired>>
    BY <1>2 DEF Continue, pairing
  <2>2. /\ radio' = "off" /\ ~esb_initialized' /\ esb_initialized' \in BOOLEAN
        /\ init_failed' = init_failed
    BY <2>1, DisabledFacts DEF RadioInv
  <2>3. ComingOn' BY <2>1 DEF ComingOn, RadioInv
  <2>4. \A u \in Changers : life'[u] = "settle" => op'[u] = "channel" BY <1>2, <2>1 DEF RadioInv
  <2> QED BY <2>1, <2>2, <2>3, <2>4 DEF RadioInv, Searching
<1>3. CASE life[t] = "settle"
  <2>1. /\ Initialized(base) /\ op' = [op EXCEPT ![t] = "none"] /\ life' = [life EXCEPT ![t] = "none"]
        /\ UNCHANGED <<base, paired_addr, esb_paired>>
    BY <1>3 DEF Continue, pairing
  <2>2. /\ esb_initialized' \in BOOLEAN /\ init_failed' \in BOOLEAN
        /\ radio' \in {base, "off"} /\ (radio' = "off" \/ radio' \in Bases)
        /\ init_failed' \/ (esb_initialized' /\ radio' = base /\ radio' # "off")
    BY <2>1, InitializedFacts DEF RadioInv
  <2>3. \A u \in Changers : life'[u] = "settle" => op'[u] = "channel" BY <2>1 DEF RadioInv
  <2> QED BY <2>1, <2>2, <2>3 DEF RadioInv, Searching
<1> QED BY <1>1, <1>2, <1>3 DEF Continue

-----------------------------------------------------------------------------
LEMMA PairingKeeps ==
  ASSUME RadioInv,
         \/ Pair \/ Announce \/ AnnounceWithClock \/ Ask \/ Acknowledge
         \/ Leave \/ LeaveOff \/ Finish \/ StartRadio
  PROVE  RadioInv'
<1>1. CASE Pair /\ paired_addr = None
  <2>1. /\ esb = "loop" /\ ~esb_paired /\ base' = "discovery" /\ Initialized("discovery")
        /\ esb' = "search" /\ UNCHANGED <<paired_addr, esb_paired, op, life, conn>>
    BY <1>1 DEF Pair, SetAddrDiscovery, change, writer
  <2>2. /\ esb_initialized' \in BOOLEAN /\ init_failed' \in BOOLEAN
        /\ radio' \in {"discovery", "off"} /\ (radio' = "off" \/ radio' \in Bases)
        /\ init_failed' \/ (esb_initialized' /\ radio' = "discovery" /\ radio' # "off")
    BY <2>1, InitializedFacts, BasesOn DEF RadioInv
  <2> QED BY <2>1, <2>2, BasesOn DEF RadioInv
<1>2. CASE Pair /\ paired_addr # None
  <2>1. /\ esb = "loop" /\ ~esb_paired /\ esb' = "finish"
        /\ UNCHANGED <<esb_initialized, radio, init_failed, base, paired_addr, esb_paired, op, life, conn>>
    BY <1>2 DEF Pair, change, writer, switch
  <2> QED BY <2>1 DEF RadioInv, GoingOff, ComingOn, Searching
<1>3. CASE Announce \/ AnnounceWithClock
  <2>1. /\ esb \in {"search", "clock"} /\ esb' \in {"search", "clock", "step1"}
        /\ paired_addr' \in {None, paired_addr}
        /\ UNCHANGED <<esb_paired, op, life, conn>>
        /\ \/ UNCHANGED <<esb_initialized, radio, init_failed, base>>
           \/ base' = "discovery" /\ Initialized("discovery")
    BY <1>3 DEF Announce, AnnounceWithClock, Announced, SetAddrDiscovery, change, writer, switch
  <2>2. /\ Searching /\ base = "discovery" /\ ~esb_paired
        /\ Searching' /\ paired_addr' \in Addresses
    BY <2>1 DEF RadioInv, Searching, Addresses
  <2>3. CASE UNCHANGED <<esb_initialized, radio, init_failed, base>>
    BY <2>1, <2>2, <2>3 DEF RadioInv, GoingOff, ComingOn
  <2>4. CASE base' = "discovery" /\ Initialized("discovery")
    <3>1. /\ esb_initialized' \in BOOLEAN /\ init_failed' \in BOOLEAN
          /\ radio' \in {"discovery", "off"} /\ (radio' = "off" \/ radio' \in Bases)
          /\ init_failed' \/ (esb_initialized' /\ radio' = "discovery" /\ radio' # "off")
      BY <2>4, InitializedFacts, BasesOn DEF RadioInv
    <3> QED BY <2>1, <2>2, <2>4, <3>1, BasesOn DEF RadioInv
  <2> QED BY <2>1, <2>3, <2>4
<1>4. CASE Ask \/ Acknowledge
  <2>1. /\ Searching /\ esb' \in {"search", "step2"}
        /\ UNCHANGED <<esb_initialized, radio, init_failed, base, paired_addr, esb_paired, op, life, conn>>
    BY <1>4 DEF Ask, Acknowledge, Searching, switch, pairing, change, writer
  <2> QED BY <2>1 DEF RadioInv, GoingOff, ComingOn, Searching
<1>5. CASE Leave
  <2>1. /\ esb = "search" /\ esb_initialized' = FALSE
        /\ esb' = (IF esb_initialized THEN "off" ELSE "finish")
        /\ UNCHANGED <<radio, init_failed, base, paired_addr, esb_paired, op, life, conn>>
    BY <1>5 DEF Leave, change, writer
  <2>2. esb_initialized' \in BOOLEAN BY <2>1, Zenon
  <2> QED BY <2>1, <2>2 DEF RadioInv, GoingOff, ComingOn, Searching
<1>6. CASE LeaveOff
  <2>1. /\ esb = "off" /\ Disabled /\ esb' = "finish"
        /\ UNCHANGED <<base, paired_addr, esb_paired, op, life, conn>>
    BY <1>6 DEF LeaveOff, pairing, change, writer
  <2>2. /\ radio' = "off" /\ ~esb_initialized' /\ esb_initialized' \in BOOLEAN
        /\ init_failed' = init_failed
    BY <2>1, DisabledFacts DEF RadioInv
  <2> QED BY <2>1, <2>2 DEF RadioInv, Searching
<1>7. CASE Finish
  <2>1. /\ esb = "finish" /\ esb' = "init" /\ base' = paired_addr /\ esb_paired' = TRUE
        /\ UNCHANGED <<esb_initialized, radio, init_failed, paired_addr, op, life, conn>>
    BY <1>7 DEF Finish, SetAddrPaired, switch, change, writer
  <2>2. ComingOn' /\ base' \in Bases /\ (GoingOff => GoingOff')
    BY <2>1 DEF ComingOn, GoingOff, Bases, RadioInv
  <2>3. esb_paired' \in BOOLEAN BY <2>1, Zenon
  <2> QED BY <2>1, <2>2, <2>3 DEF RadioInv, Searching
<1>8. CASE StartRadio
  <2>1. /\ esb = "init" /\ esb' = "loop" /\ Initialized(base)
        /\ UNCHANGED <<base, paired_addr, esb_paired, op, life, conn>>
    BY <1>8 DEF StartRadio, pairing, change, writer
  <2>2. /\ esb_initialized' \in BOOLEAN /\ init_failed' \in BOOLEAN
        /\ radio' \in {base, "off"} /\ (radio' = "off" \/ radio' \in Bases)
        /\ init_failed' \/ (esb_initialized' /\ radio' = base /\ radio' # "off")
    BY <2>1, InitializedFacts DEF RadioInv
  <2> QED BY <2>1, <2>2 DEF RadioInv, Searching
<1> QED BY <1>1, <1>2, <1>3, <1>4, <1>5, <1>6, <1>7, <1>8

LEMMA WriterKeeps == ASSUME RadioInv, ConnectionThread PROVE RadioInv'
<1>1. CASE BeginWrite \/ ClockStarted \/ Queue
  <2>1. /\ conn \in {"loop", "clock", "slot"} /\ conn' \in {"loop", "clock", "slot"}
        /\ UNCHANGED <<esb_initialized, radio, init_failed, base, paired_addr, esb_paired, esb, op, life>>
    BY <1>1 DEF BeginWrite, ClockStarted, Queue, switch, pairing, change
  <2> QED BY <2>1 DEF RadioInv, GoingOff, ComingOn, Searching
<1>2. CASE Recover
  <2>1. /\ conn = "slot" /\ UNCHANGED <<radio, init_failed, base, paired_addr, esb_paired, esb, op, life>>
        /\ \/ conn' = "loop" /\ UNCHANGED esb_initialized
           \/ conn' = (IF esb_initialized THEN "off" ELSE "settle") /\ esb_initialized' = FALSE
    BY <1>2 DEF Recover, pairing, change
  <2>2. esb_initialized' \in BOOLEAN BY <2>1 DEF RadioInv
  <2> QED BY <2>1, <2>2 DEF RadioInv, GoingOff, ComingOn, Searching
<1>3. CASE RecoverOff
  <2>1. /\ conn = "off" /\ Disabled /\ conn' = "settle"
        /\ UNCHANGED <<base, paired_addr, esb_paired, esb, op, life>>
    BY <1>3 DEF RecoverOff, pairing, change
  <2>2. /\ radio' = "off" /\ ~esb_initialized' /\ esb_initialized' \in BOOLEAN
        /\ init_failed' = init_failed
    BY <2>1, DisabledFacts DEF RadioInv
  <2>3. ComingOn' BY <2>1 DEF ComingOn
  <2> QED BY <2>1, <2>2, <2>3 DEF RadioInv, Searching
<1>4. CASE RecoverInit
  <2>1. /\ conn = "settle" /\ Initialized(base) /\ conn' = "loop"
        /\ UNCHANGED <<base, paired_addr, esb_paired, esb, op, life>>
    BY <1>4 DEF RecoverInit, pairing, change
  <2>2. /\ esb_initialized' \in BOOLEAN /\ init_failed' \in BOOLEAN
        /\ radio' \in {base, "off"} /\ (radio' = "off" \/ radio' \in Bases)
        /\ init_failed' \/ (esb_initialized' /\ radio' = base /\ radio' # "off")
    BY <2>1, InitializedFacts DEF RadioInv
  <2> QED BY <2>1, <2>2 DEF RadioInv, Searching
<1> QED BY <1>1, <1>2, <1>3, <1>4 DEF ConnectionThread

LEMMA RadioInvAlways == Spec => []RadioInv
<1>1. Init => RadioInv
  <2> SUFFICES ASSUME Init PROVE RadioInv OBVIOUS
  <2>1. /\ radio = "off" /\ esb_initialized = FALSE /\ init_failed = FALSE /\ esb_paired = FALSE
        /\ base = "unset" /\ paired_addr \in {None, Found} /\ esb = "loop" /\ conn = "loop"
        /\ op = [t \in Changers |-> "none"] /\ life = [t \in Changers |-> "none"]
    BY DEF Init
  <2>2. esb_initialized \in BOOLEAN /\ init_failed \in BOOLEAN /\ esb_paired \in BOOLEAN BY <2>1, Zenon
  <2> QED BY <2>1, <2>2 DEF RadioInv, Bases, Addresses, Searching
<1>2. RadioInv /\ [Next]_vars => RadioInv'
  <2> SUFFICES ASSUME RadioInv, [Next]_vars PROVE RadioInv' OBVIOUS
  <2>1. CASE BootThread
    BY <2>1, SameRadio DEF BootThread, RadioVars, switch, pairing, change, writer
  <2>2. CASE User
    BY <2>2, BeginChangeKeeps, ContinueKeeps DEF User, writer, Changers
  <2>3. CASE RemoteChange
    BY <2>3, BeginChangeKeeps DEF RemoteChange, writer, Changers, Ops
  <2>4. CASE ContinueRemote
    BY <2>4, ContinueKeeps DEF ContinueRemote, writer, Changers
  <2>5. CASE EsbThread BY <2>3, <2>4, <2>5, PairingKeeps DEF EsbThread
  <2>6. CASE Interrupt
    <3>1. CASE TxSuccess \/ TxFailed
      BY <3>1, SameRadio DEF TxSuccess, TxFailed, RadioVars, switch, pairing, change, writer
    <3>2. ASSUME NEW mine \in BOOLEAN, PairingResponse(mine) PROVE RadioInv'
      BY <3>2 DEF PairingResponse, switch, change, writer, RadioInv, GoingOff, ComingOn, Searching, Addresses
    <3> QED BY <2>6, <3>1, <3>2 DEF Interrupt
  <2>7. CASE ConnectionThread BY <2>7, WriterKeeps
  <2>8. CASE UNCHANGED vars
    BY <2>8, SameRadio DEF vars, RadioVars, switch, pairing, change, writer
  <2> QED BY <2>1, <2>2, <2>5, <2>6, <2>7, <2>8 DEF Next
<1> QED BY <1>1, <1>2, PTL DEF Spec

\* esb_initialize and esb_deinitialize sleep between their steps, and the user, remote
\* commands, pairing and the writer all switch the radio: when all of them are done it
\* listens where the tracker is paired, or not at all.
THEOREM RadioIsAtAddress == Spec => []RadioAtAddress
<1>1. RadioInv => RadioAtAddress
  <2> SUFFICES ASSUME RadioInv, Settled, ~init_failed PROVE RadioAtAddress BY DEF RadioAtAddress
  <2>1. ~GoingOff /\ ~ComingOn BY DEF Settled, GoingOff, ComingOn
  <2> QED BY <2>1 DEF RadioInv, RadioAtAddress
<1> QED BY <1>1, RadioInvAlways, PTL

-----------------------------------------------------------------------------
(* Each report that is awaited, and the claim that the clock runs, is      *)
(* backed by a request of its own.                                         *)
One(b) == IF b THEN 1 ELSE 0

ClockInv ==
  /\ holds \in Nat /\ clock_status \in BOOLEAN
  /\ One(clock_status) + One(boot_clock = "wait") + One(conn = "clock") + One(esb = "clock")
       <= holds

LEMMA ClocksStopKeeps ==
  ASSUME ClockInv, ClocksStop, UNCHANGED <<boot_clock, conn>>,
         (esb = "clock") = (esb' = "clock")
  PROVE  ClockInv'
<1>1. clock_status' \in BOOLEAN BY Zenon DEF ClocksStop
<1> QED BY <1>1 DEF ClocksStop, ClockInv, One

LEMMA SameClock ==
  ASSUME ClockInv, UNCHANGED <<clock, boot_clock>>, (conn = "clock") = (conn' = "clock"),
         (esb = "clock") = (esb' = "clock")
  PROVE  ClockInv'
  BY DEF clock, ClockInv, One

\* Boot, pairing, the end of a transmission and the writer start and stop the clock
\* without a lock: while clock_status says that it runs, it was asked for and not released.
THEOREM ClockIsHeld == Spec => []ClockHeld
<1>1. Init => ClockInv
  <2> SUFFICES ASSUME Init PROVE ClockInv OBVIOUS
  <2>1. clock_status = FALSE /\ boot_clock = "start" /\ holds = 0 /\ conn = "loop" /\ esb = "loop"
    BY DEF Init
  <2>2. clock_status \in BOOLEAN BY <2>1, Zenon
  <2> QED BY <2>1, <2>2 DEF ClockInv, One
<1>2. ClockInv /\ [Next]_vars => ClockInv'
  <2> SUFFICES ASSUME ClockInv, [Next]_vars PROVE ClockInv' OBVIOUS
  <2>1. CASE BootThread
    <3>1. UNCHANGED <<conn, esb>> /\ BootClock BY <2>1 DEF BootThread, writer
    <3>2. clock_status' \in BOOLEAN BY <3>1, Zenon DEF BootClock, ClockReported, clock, ClockInv
    <3>3. CASE boot_clock = "start" /\ ~clock_status
      BY <3>1, <3>2, <3>3 DEF BootClock, RequestClock, ClockInv, One
    <3>4. CASE boot_clock = "start" /\ clock_status
      BY <3>1, <3>4 DEF BootClock, clock, ClockInv, One
    <3>5. CASE boot_clock = "wait"
      BY <3>1, <3>2, <3>5 DEF BootClock, ClockReported, ClockInv, One
    <3> QED BY <3>1, <3>3, <3>4, <3>5 DEF BootClock
  <2>2. CASE User BY <2>2, SameClock DEF User, writer
  <2>3. CASE RemoteChange \/ ContinueRemote
    BY <2>3, SameClock DEF RemoteChange, ContinueRemote, writer
  <2>4. CASE Pair \/ Ask \/ Acknowledge \/ Leave \/ LeaveOff \/ StartRadio
    BY <2>4, SameClock DEF Pair, Ask, Acknowledge, Leave, LeaveOff, StartRadio, writer
  <2>5. CASE Announce
    <3>1. /\ UNCHANGED <<conn, boot_clock, clock_status>> /\ esb = "search"
          /\ \/ UNCHANGED holds /\ esb' # "clock"
             \/ holds' = holds + 1 /\ esb' = "clock"
      BY <2>5 DEF Announce, Announced, RequestClock, clock, writer
    <3> QED BY <3>1 DEF ClockInv, One
  <2>13. CASE AnnounceWithClock
    <3>1. /\ UNCHANGED <<conn, boot_clock, holds>> /\ esb = "clock" /\ esb' # "clock"
          /\ clock_status' \in {TRUE, clock_status}
      BY <2>13 DEF AnnounceWithClock, Announced, ClockReported, writer
    <3>2. clock_status' \in BOOLEAN BY <3>1, Zenon DEF ClockInv
    <3> QED BY <3>1, <3>2 DEF ClockInv, One
  <2>6. CASE Finish BY <2>6, ClocksStopKeeps DEF Finish, writer
  <2>7. CASE TxSuccess \/ TxFailed
    <3>1. UNCHANGED <<boot_clock, conn, esb>> BY <2>7 DEF TxSuccess, TxFailed, writer
    <3>2. ClocksStop \/ UNCHANGED clock BY <2>7 DEF TxSuccess, TxFailed, StopAfterTx
    <3> QED BY <3>1, <3>2, ClocksStopKeeps, SameClock
  <2>8. CASE \E mine \in BOOLEAN : PairingResponse(mine)
    BY <2>8, SameClock DEF PairingResponse, writer
  <2>9. CASE BeginWrite
    <3>1. /\ conn = "loop" /\ UNCHANGED <<clock_status, boot_clock, esb>>
          /\ \/ holds' = holds + 1 /\ conn' = "clock"
             \/ conn' = "slot" /\ UNCHANGED holds
      BY <2>9 DEF BeginWrite, RequestClock
    <3> QED BY <3>1 DEF ClockInv, One
  <2>10. CASE ClockStarted
    <3>1. clock_status' \in BOOLEAN BY <2>10, Zenon DEF ClockStarted, ClockReported, ClockInv
    <3> QED BY <2>10, <3>1 DEF ClockStarted, ClockReported, ClockInv, One
  <2>11. CASE Queue \/ Recover \/ RecoverOff \/ RecoverInit
    BY <2>11, SameClock DEF Queue, Recover, RecoverOff, RecoverInit
  <2>12. CASE UNCHANGED vars BY <2>12, SameClock DEF vars, writer
  <2> QED BY <2>1, <2>2, <2>3, <2>4, <2>5, <2>6, <2>7, <2>8, <2>9, <2>10, <2>11, <2>12, <2>13
           DEF Next, EsbThread, Interrupt, ConnectionThread
<1>3. ClockInv => ClockHeld BY DEF ClockInv, One, ClockHeld
<1> QED BY <1>1, <1>2, <1>3, PTL DEF Spec
-----------------------------------------------------------------------------
(* A known receiver is stored, but for one that discovery has just found;  *)
(* outside of discovery an answer can only be awaited by a tracker that    *)
(* was asked to pair anew.                                                 *)
PairInv ==
  /\ asked \in BOOLEAN /\ pair_ack_pending \in BOOLEAN
  /\ esb_paired => asked \/ (base = paired_addr /\ base # None /\ stored = base)
  /\ ~Searching /\ paired_addr # None => asked \/ stored = paired_addr
  /\ ~Searching /\ paired_addr = None => asked \/ ~pair_ack_pending
  /\ esb \in {"off", "finish"} => asked \/ paired_addr # None

LEMMA SamePairing ==
  ASSUME PairInv, UNCHANGED <<pairing, asked>>, Searching' = Searching,
         esb' \in {"off", "finish"} => esb \in {"off", "finish"}
  PROVE  PairInv'
  BY DEF pairing, PairInv

(* The user, or the receiver, changes the pairing.                         *)
LEMMA ChangePairing ==
  ASSUME PairInv, UNCHANGED esb,
         \/ \E t \in Changers, o \in Ops : BeginChange(t, o)
         \/ \E t \in Changers : Continue(t)
  PROVE  PairInv'
<1>1. (\E o : Unpaired(o)) \/ UNCHANGED <<pairing, asked>>
  BY DEF BeginChange, Continue, ghosts
<1>2. CASE UNCHANGED <<pairing, asked>> BY <1>2, SamePairing DEF Searching
<1>3. ASSUME NEW o, Unpaired(o) PROVE PairInv'
  <2>1. /\ esb_paired' = FALSE /\ UNCHANGED <<base, pair_ack_pending, esb>>
        /\ paired_addr' = (IF o = "set" THEN Given ELSE None)
        /\ stored' = (IF o = "reset" THEN stored ELSE paired_addr')
        /\ asked' = (o # "set" /\ ~Searching)
    BY <1>3 DEF Unpaired
  <2>2. asked' \in BOOLEAN BY <2>1, Zenon
  <2>3. CASE o = "set"
    BY <2>1, <2>2, <2>3, RadioAssumption DEF PairInv, Searching
  <2>4. CASE o # "set"
    BY <2>1, <2>2, <2>4 DEF PairInv, Searching
  <2> QED BY <2>3, <2>4
<1> QED BY <1>1, <1>2, <1>3

LEMMA EsbPairing ==
  ASSUME RadioInv, PairInv,
         \/ Pair \/ Announce \/ AnnounceWithClock \/ Ask \/ Acknowledge
         \/ Leave \/ LeaveOff \/ Finish \/ StartRadio
  PROVE  PairInv'
<1>1. CASE Pair
  <2>1. /\ esb = "loop" /\ ~esb_paired /\ UNCHANGED <<paired_addr, stored, esb_paired, pair_ack_pending>>
        /\ IF paired_addr = None THEN esb' = "search" /\ asked' = FALSE
           ELSE esb' = "finish" /\ UNCHANGED asked
    BY <1>1 DEF Pair
  <2>2. asked' \in BOOLEAN BY <2>1, Zenon DEF PairInv
  <2> QED BY <2>1, <2>2 DEF PairInv, Searching
<1>2. CASE Announce \/ AnnounceWithClock
  <2>1. /\ esb \in {"search", "clock"} /\ esb' \in {"search", "clock", "step1"}
        /\ pair_ack_pending' \in {FALSE, pair_ack_pending}
        /\ UNCHANGED <<stored, esb_paired, asked>>
    BY <1>2 DEF Announce, AnnounceWithClock, Announced
  <2>2. ~esb_paired /\ pair_ack_pending' \in BOOLEAN BY <2>1, Zenon DEF RadioInv, PairInv
  <2> QED BY <2>1, <2>2 DEF PairInv, Searching
<1>3. CASE Ask
  <2>1. /\ esb = "step1" /\ esb' \in {"search", "step2"} /\ pair_ack_pending' \in BOOLEAN
        /\ UNCHANGED <<paired_addr, stored, esb_paired, base, asked>>
    BY <1>3 DEF Ask, ghosts
  <2> QED BY <2>1 DEF PairInv, Searching
<1>4. CASE Acknowledge \/ LeaveOff \/ StartRadio
  BY <1>4, SamePairing DEF Acknowledge, LeaveOff, StartRadio, Searching, ghosts
<1>5. CASE Leave
  <2>1. /\ esb = "search" /\ esb' \in {"off", "finish"} /\ paired_addr # None
        /\ stored' = paired_addr
        /\ UNCHANGED <<paired_addr, esb_paired, pair_ack_pending, asked>>
    BY <1>5 DEF Leave, FoundReceiver
  <2>2. ~esb_paired BY <2>1 DEF RadioInv
  <2> QED BY <2>1, <2>2 DEF PairInv, Searching
<1>6. CASE Finish
  <2>1. /\ esb = "finish" /\ esb' = "init" /\ base' = paired_addr
        /\ UNCHANGED <<paired_addr, stored, pair_ack_pending, asked>>
    BY <1>6 DEF Finish, SetAddrPaired, ghosts
  <2> QED BY <2>1 DEF PairInv, Searching
<1> QED BY <1>1, <1>2, <1>3, <1>4, <1>5, <1>6

\* A tracker that counts as paired holds the address of a receiver, and has it stored,
\* unless pairing was asked for while an earlier pairing was being finished.
THEOREM PairedHasAddress == Spec => []PairedAddress
<1>1. Init => PairInv
  <2> SUFFICES ASSUME Init PROVE PairInv OBVIOUS
  <2>1. /\ esb_paired = FALSE /\ stored = paired_addr /\ esb = "loop"
        /\ pair_ack_pending = FALSE /\ asked = FALSE
    BY DEF Init
  <2>2. asked \in BOOLEAN /\ pair_ack_pending \in BOOLEAN BY <2>1, Zenon
  <2> QED BY <2>1, <2>2 DEF PairInv
<1>2. RadioInv /\ PairInv /\ [Next]_vars => PairInv'
  <2> SUFFICES ASSUME RadioInv, PairInv, [Next]_vars PROVE PairInv' OBVIOUS
  <2>1. CASE BootThread BY <2>1, SamePairing DEF BootThread, Searching, ghosts
  <2>2. CASE User \/ RemoteChange \/ ContinueRemote
    BY <2>2, ChangePairing DEF User, RemoteChange, ContinueRemote, Changers, Ops
  <2>3. CASE EsbThread BY <2>2, <2>3, EsbPairing DEF EsbThread
  <2>4. CASE TxSuccess \/ TxFailed
    BY <2>4, SamePairing DEF TxSuccess, TxFailed, Searching, ghosts
  <2>5. ASSUME NEW mine \in BOOLEAN, PairingResponse(mine) PROVE PairInv'
    <3>1. /\ paired_addr = None /\ pair_ack_pending /\ pair_ack_pending' = FALSE
          /\ paired_addr' = (IF mine THEN Found ELSE paired_addr)
          /\ UNCHANGED <<base, stored, esb_paired, esb, asked>>
      BY <2>5 DEF PairingResponse, ghosts
    <3>2. pair_ack_pending' \in BOOLEAN BY <3>1, Zenon
    <3> QED BY <3>1, <3>2, RadioAssumption DEF PairInv, Searching
  <2>6. CASE ConnectionThread
    BY <2>6, SamePairing DEF ConnectionThread, BeginWrite, ClockStarted, Queue, Recover,
                             RecoverOff, RecoverInit, Searching, ghosts
  <2>7. CASE UNCHANGED vars BY <2>7, SamePairing DEF vars, Searching, ghosts
  <2> QED BY <2>1, <2>2, <2>3, <2>4, <2>5, <2>6, <2>7 DEF Next, Interrupt
<1>3. PairInv => PairedAddress BY DEF PairInv, PairedAddress
<1> QED BY <1>1, <1>2, <1>3, RadioInvAlways, PTL DEF Spec

-----------------------------------------------------------------------------
(* Packets: what a turn leaves for the next.                               *)

(* Room for one packet of each kind, and one orientation.                  *)
RoomForAll == Bytes(Periodic) <= Room

(* A magnetometer packet leaves no room only for the information, and is   *)
(* then not due again before the information is sent.                      *)
PassInv ==
  /\ age \in [Periodic -> Nat] /\ missed \in [Periodic -> Nat]
  /\ \A k \in Periodic \ {"info"} : missed[k] = 0
  /\ missed["info"] <= 1
  /\ missed["info"] = 1 => Due("info") /\ age["mag"] = 0
  /\ Bytes(packet) <= Room

Together(first) == {first, "info", "status", "runtime"}
Firsts == {"quat", "compact", "mag"}

LEMMA AllFit ==
  ASSUME RoomForAll, NEW first \in Firsts, NEW S \in SUBSET Together(first)
  PROVE  Bytes(S) <= Room
<1>1. Room \in Nat BY PacketsAssumption
<1>2. Bytes(Periodic) = 41 BY DEF Bytes, Size, Periodic
<1>3. CASE first = "quat" BY <1>1, <1>2, <1>3 DEF Together, RoomForAll, Bytes, Size
<1>4. CASE first = "compact" BY <1>1, <1>2, <1>4 DEF Together, RoomForAll, Bytes, Size
<1>5. CASE first = "mag" BY <1>1, <1>2, <1>5 DEF Together, RoomForAll, Bytes, Size
<1> QED BY <1>3, <1>4, <1>5 DEF Firsts

LEMMA WithFits ==
  ASSUME RoomForAll, NEW first \in Firsts, NEW S \in SUBSET Together(first), NEW k \in Together(first)
  PROVE  /\ With(S, k) = (IF Wanted(k) THEN S \cup {k} ELSE S)
         /\ With(S, k) \in SUBSET Together(first)
<1>1. Bytes(S \cup {k}) <= Room BY AllFit
<1> QED BY <1>1 DEF With

LEMMA SlowFits ==
  ASSUME RoomForAll, NEW first \in Firsts
  PROVE  /\ SlowKinds({first}) \in SUBSET Together(first)
         /\ first \in SlowKinds({first})
         /\ \A k \in {"status", "runtime"} : Wanted(k) => k \in SlowKinds({first})
<1>1. {first} \in SUBSET Together(first) /\ {"status", "runtime"} \subseteq Together(first)
  BY DEF Together
<1>2. /\ With({first}, "status") = (IF Wanted("status") THEN {first, "status"} ELSE {first})
      /\ With({first}, "status") \in SUBSET Together(first)
  BY <1>1, WithFits
<1>3. /\ SlowKinds({first}) = (IF Wanted("runtime") THEN With({first}, "status") \cup {"runtime"}
                               ELSE With({first}, "status"))
      /\ SlowKinds({first}) \in SUBSET Together(first)
  BY <1>1, <1>2, WithFits DEF SlowKinds
<1> QED BY <1>2, <1>3

LEMMA DueIsWanted ==
  ASSUME age \in [Periodic -> Nat], NEW k \in Periodic, Due(k)
  PROVE  Wanted(k)
<1>1. Interval[k] \in Nat BY PacketsAssumption DEF Interval, Periodic
<1> QED BY <1>1 DEF Due, Wanted

LEMMA PacketHasAll ==
  ASSUME RoomForAll, age \in [Periodic -> Nat], NextPacket # {}
  PROVE  /\ Bytes(NextPacket) <= Room
         /\ \A k \in Periodic : Due(k) => k \in NextPacket \/ (k = "info" /\ "mag" \in NextPacket)
<1>1. CASE "quat" \in fresh
  <2>1. Primary \in Firsts BY DEF Primary, Firsts
  <2> DEFINE S == SlowKinds({Primary})
  <2>2. /\ S \in SUBSET Together(Primary) /\ Primary \in S
        /\ \A k \in {"status", "runtime"} : Wanted(k) => k \in S
    BY <2>1, SlowFits
  <2>3. /\ With(S, "info") = (IF Wanted("info") THEN S \cup {"info"} ELSE S)
        /\ With(S, "info") \in SUBSET Together(Primary)
    BY <2>1, <2>2, WithFits DEF Together
  <2>4. NextPacket = With(S, "info") BY <1>1 DEF NextPacket, QuatPacket
  <2>5. Bytes(NextPacket) <= Room BY <2>1, <2>3, <2>4, AllFit
  <2>6. Wanted("mag") => "mag" \in NextPacket BY <2>2, <2>3, <2>4 DEF Primary
  <2>7. \A k \in Periodic : Wanted(k) => k \in NextPacket
    BY <2>2, <2>3, <2>4, <2>6 DEF Periodic
  <2> QED BY <2>5, <2>7, DueIsWanted
<1>2. CASE "quat" \notin fresh /\ (Due("mag") \/ Due("info"))
  <2>1. \E first \in {"mag", "info"} :
          /\ NextPacket = SlowKinds({first}) /\ Due(first)
          /\ \A k \in {"mag", "info"} \ {first} : Due(k) => k = "info"
    BY <1>2 DEF NextPacket
  <2>2. PICK first \in {"mag", "info"} :
          /\ NextPacket = SlowKinds({first}) /\ Due(first)
          /\ \A k \in {"mag", "info"} \ {first} : Due(k) => k = "info"
    BY <2>1
  <2>3. CASE first = "mag"
    <3>1. /\ NextPacket \in SUBSET Together("mag") /\ "mag" \in NextPacket
          /\ \A k \in {"status", "runtime"} : Wanted(k) => k \in NextPacket
      BY <2>2, <2>3, SlowFits DEF Firsts
    <3>2. Bytes(NextPacket) <= Room BY <3>1, AllFit DEF Firsts
    <3> QED BY <3>1, <3>2, DueIsWanted DEF Periodic
  <2>4. CASE first = "info"
    <3> DEFINE S == With({"info"}, "status")
    <3>1. /\ S = (IF Wanted("status") THEN {"info", "status"} ELSE {"info"})
          /\ S \in SUBSET Together("quat")
      BY WithFits DEF Together, Firsts
    <3>2. /\ NextPacket = (IF Wanted("runtime") THEN S \cup {"runtime"} ELSE S)
          /\ NextPacket \in SUBSET Together("quat")
      BY <2>2, <2>4, <3>1, WithFits DEF SlowKinds, Together, Firsts
    <3>3. Bytes(NextPacket) <= Room BY <3>2, AllFit DEF Firsts
    <3>4. ~Due("mag") BY <2>2, <2>4
    <3> QED BY <3>1, <3>2, <3>3, <3>4, DueIsWanted DEF Periodic
  <2> QED BY <2>3, <2>4
<1>3. CASE "quat" \notin fresh /\ ~Due("mag") /\ ~Due("info")
  <2>1. CASE Due("status")
    <3>1. /\ NextPacket = (IF Wanted("runtime") THEN {"status", "runtime"} ELSE {"status"})
          /\ NextPacket \in SUBSET Together("quat")
      BY <1>3, <2>1, WithFits DEF NextPacket, Together, Firsts
    <3>2. Bytes(NextPacket) <= Room BY <3>1, AllFit DEF Firsts
    <3> QED BY <1>3, <3>1, <3>2, DueIsWanted DEF Periodic
  <2>2. CASE ~Due("status")
    <3>1. NextPacket = {"runtime"} BY <1>3, <2>2 DEF NextPacket
    <3>2. Bytes(NextPacket) <= Room BY <3>1, AllFit DEF Firsts, Together
    <3> QED BY <1>3, <2>2, <3>1, <3>2 DEF Periodic
  <2> QED BY <2>1, <2>2
<1> QED BY <1>1, <1>2, <1>3

LEMMA NothingDue ==
  ASSUME NextPacket = {}, RoomForAll
  PROVE  ~Due("info") /\ ~Due("mag")
<1>1. \A first \in Firsts : SlowKinds({first}) # {} BY SlowFits
<1>2. "info" \in SlowKinds({"info"}) BY DEF SlowKinds, With
<1>3. "quat" \notin fresh
  <2> SUFFICES ASSUME "quat" \in fresh PROVE FALSE OBVIOUS
  <2>1. Primary \in Firsts BY DEF Primary, Firsts
  <2>2. Primary \in With(SlowKinds({Primary}), "info") BY <2>1, SlowFits DEF With
  <2> QED BY <2>2 DEF NextPacket, QuatPacket
<1> QED BY <1>1, <1>2, <1>3 DEF NextPacket, Firsts

\* For any intervals, and a radio whose payload has room for one sub-packet of each kind:
\* however often orientation, magnetometer and identity come in, no kind of packet that is
\* due is passed over in two turns running, and no packet is too large (connection_thread).
THEOREM NoKindWaits == RoomForAll /\ PacketsSpec => []NonePassedOver
<1>1. PacketsInit => PassInv
  <2> SUFFICES ASSUME PacketsInit PROVE PassInv OBVIOUS
  <2>1. Bytes(packet) <= Room
    BY PacketsAssumption DEF PacketsInit, Bytes
  <2> QED BY <2>1 DEF PacketsInit, PassInv, Periodic
<1>2. RoomForAll /\ PassInv /\ [PacketsNext]_packetVars => PassInv'
  <2> SUFFICES ASSUME RoomForAll, PassInv, [PacketsNext]_packetVars PROVE PassInv' OBVIOUS
  <2>0. FastInterval \in Nat \ {0} /\ Interval["info"] \in Nat /\ Interval["mag"] \in Nat \ {0}
    BY PacketsAssumption DEF Interval
  <2>1. CASE Turn
    <3>1. /\ packet' = NextPacket /\ Bytes(packet') <= Room
          /\ \A k \in Periodic : Due(k) => k \in packet' \/ (k = "info" /\ "mag" \in packet')
      BY <2>1, PacketHasAll DEF Turn, PassInv
    <3>2. /\ age' = [k \in Periodic |-> IF k \in packet' THEN 0 ELSE age[k]]
          /\ missed' = [k \in Periodic |-> IF Due(k) /\ k \notin packet' THEN missed[k] + 1 ELSE 0]
          /\ "ids" \in fresh' <=> "ids" \in fresh
      BY <2>1 DEF Turn
    <3>3. age' \in [Periodic -> Nat] /\ missed' \in [Periodic -> Nat] BY <3>2 DEF PassInv
    <3>4. \A k \in Periodic \ {"info"} : missed'[k] = 0 BY <3>1, <3>2
    <3>5. missed["info"] = 1 => "info" \in packet'
      <4> SUFFICES ASSUME missed["info"] = 1, "info" \notin packet' PROVE FALSE OBVIOUS
      <4>1. Due("info") /\ ~Due("mag") BY <2>0 DEF PassInv, Due
      <4>2. CASE "quat" \in fresh
        <5>1. Wanted("info") BY <4>1, DueIsWanted DEF PassInv, Periodic
        <5>2. Primary \in Firsts BY DEF Primary, Firsts
        <5>3. "info" \in With(SlowKinds({Primary}), "info")
          BY <5>1, <5>2, SlowFits, WithFits DEF Together
        <5> QED BY <3>1, <4>2, <5>3 DEF NextPacket, QuatPacket
      <4>3. CASE "quat" \notin fresh
        BY <3>1, <4>1, <4>3 DEF NextPacket, SlowKinds, With
      <4> QED BY <4>2, <4>3
    <3>6. missed'["info"] = 1 => Due("info") /\ "info" \notin packet' /\ "mag" \in packet'
      BY <3>1, <3>2 DEF Periodic
    <3>7. missed'["info"] <= 1 BY <3>2, <3>5 DEF PassInv, Periodic
    <3>8. missed'["info"] = 1 => Due("info")' /\ age'["mag"] = 0
      BY <3>2, <3>6 DEF Due, Has, Periodic
    <3> QED BY <3>1, <3>3, <3>4, <3>7, <3>8 DEF PassInv
  <2>2. CASE Update
    <3>1. UNCHANGED <<age, missed, packet>> /\ ("ids" \in fresh => "ids" \in fresh')
      BY <2>2 DEF Update
    <3> QED BY <3>1 DEF PassInv, Due, Has
  <2>3. CASE Later
    <3>1. ~Due("info") BY <2>3, NothingDue DEF Later
    <3>2. missed["info"] = 0 BY <3>1 DEF PassInv, Periodic
    <3>3. /\ age' = [k \in Periodic |-> IF age[k] > Interval[k] THEN age[k] ELSE age[k] + 1]
          /\ UNCHANGED <<missed, packet>>
      BY <2>3 DEF Later
    <3> QED BY <3>2, <3>3 DEF PassInv
  <2>4. CASE UNCHANGED packetVars BY <2>4 DEF packetVars, PassInv, Due, Has
  <2> QED BY <2>1, <2>2, <2>3, <2>4 DEF PacketsNext
<1>3. PassInv => NonePassedOver
  <2> SUFFICES ASSUME PassInv PROVE NonePassedOver OBVIOUS
  <2>1. \A k \in Periodic : missed[k] <= 1 BY DEF PassInv
  <2> QED BY <2>1 DEF PassInv, NonePassedOver
<1>4. RoomForAll => []RoomForAll
  <2>1. RoomForAll' <=> RoomForAll BY DEF RoomForAll, Bytes, Periodic
  <2> QED BY <2>1, PTL
<1> QED BY <1>1, <1>2, <1>3, <1>4, PTL DEF PacketsSpec

-----------------------------------------------------------------------------
(* OtaRxQueue: the ring implements a queue.                                *)

(* Indices of a ring wrap once.                                            *)
LEMMA ModOnce ==
  ASSUME NEW n \in Nat \ {0}, NEW x \in Nat, x < n + n
  PROVE  x % n = IF x < n THEN x ELSE x - n
  BY SMT

LEMMA AfterSlot ==
  ASSUME NEW i \in 0 .. QueueSlots - 1
  PROVE  /\ After(i) = (IF i = QueueSlots - 1 THEN 0 ELSE i + 1)
         /\ After(i) \in 0 .. QueueSlots - 1
<1>1. QueueSlots \in Nat \ {0, 1} BY OtaRxQueueAssumption
<1> DEFINE x == i + 1
<1>2. x \in Nat /\ x < QueueSlots + QueueSlots BY <1>1
<1>3. After(i) = x % QueueSlots BY DEF After
<1> HIDE DEF x, After
<1>4. x % QueueSlots = IF x < QueueSlots THEN x ELSE x - QueueSlots BY <1>1, <1>2, ModOnce
<1>5. After(i) = IF x < QueueSlots THEN x ELSE x - QueueSlots BY <1>3, <1>4
<1> QED BY <1>1, <1>5 DEF x

(* What waits in the ring: how many, and where the k-th of them is.        *)
Waiting == IF head >= tail THEN head - tail ELSE head - tail + QueueSlots
Place(t, k) == IF t + k - 1 < QueueSlots THEN t + k - 1 ELSE t + k - 1 - QueueSlots

LEMMA QueuedIs ==
  RxTypeOK =>
    /\ Waiting \in 0 .. QueueSlots - 1
    /\ \A k \in 1 .. Waiting : Place(tail, k) \in 0 .. QueueSlots - 1
    /\ Queued = [k \in 1 .. Waiting |-> slot[Place(tail, k)]]
<1> SUFFICES ASSUME RxTypeOK
             PROVE  /\ Waiting \in 0 .. QueueSlots - 1
                    /\ \A k \in 1 .. Waiting : Place(tail, k) \in 0 .. QueueSlots - 1
                    /\ Queued = [k \in 1 .. Waiting |-> slot[Place(tail, k)]]
  OBVIOUS
<1>1. QueueSlots \in Nat \ {0, 1} BY OtaRxQueueAssumption
<1>2. head \in 0 .. QueueSlots - 1 /\ tail \in 0 .. QueueSlots - 1 BY DEF RxTypeOK
<1>3. Waiting \in 0 .. QueueSlots - 1 BY <1>1, <1>2 DEF Waiting
<1>4. (head - tail + QueueSlots) % QueueSlots = Waiting
  <2> DEFINE x == head - tail + QueueSlots
  <2>1. x \in Nat /\ x < QueueSlots + QueueSlots BY <1>1, <1>2
  <2>2. Waiting = IF x < QueueSlots THEN x ELSE x - QueueSlots BY <1>1, <1>2 DEF Waiting
  <2> HIDE DEF x
  <2>3. x % QueueSlots = IF x < QueueSlots THEN x ELSE x - QueueSlots BY <1>1, <2>1, ModOnce
  <2> QED BY <2>2, <2>3 DEF x
<1>5. ASSUME NEW k \in 1 .. Waiting
      PROVE  Place(tail, k) \in 0 .. QueueSlots - 1 /\ (tail + k - 1) % QueueSlots = Place(tail, k)
  <2> DEFINE x == tail + k - 1
  <2>1. x \in Nat /\ x < QueueSlots + QueueSlots BY <1>1, <1>2, <1>3
  <2>2. Place(tail, k) = IF x < QueueSlots THEN x ELSE x - QueueSlots BY <1>1, <1>2, <2>1 DEF Place
  <2> HIDE DEF x
  <2>3. x % QueueSlots = IF x < QueueSlots THEN x ELSE x - QueueSlots BY <1>1, <2>1, ModOnce
  <2>4. Place(tail, k) \in 0 .. QueueSlots - 1 BY <1>1, <2>1, <2>2
  <2> QED BY <2>2, <2>3, <2>4 DEF x
<1> QED BY <1>3, <1>4, <1>5 DEF Queued

(* A ring loses nothing but what finds it full, and keeps the order.       *)
RxInv ==
  /\ RxTypeOK
  /\ working => head # tail
  /\ \A k \in 1 .. Waiting : slot[Place(tail, k)] \in Payloads

LEMMA RxInitInv == RxInit => RxInv /\ Waiting = 0
<1> SUFFICES ASSUME RxInit PROVE RxInv /\ Waiting = 0 OBVIOUS
<1>1. QueueSlots \in Nat \ {0, 1} BY OtaRxQueueAssumption
<1>2. head = 0 /\ tail = 0 /\ ~working /\ slot = [i \in 0 .. QueueSlots - 1 |-> NoPayload]
  BY DEF RxInit
<1>3. RxTypeOK
  <2>1. {head, tail} \subseteq 0 .. QueueSlots - 1 BY <1>1, <1>2
  <2>2. working \in BOOLEAN BY DEF RxInit
  <2> QED BY <1>2, <2>1, <2>2 DEF RxTypeOK
<1>4. Waiting = 0 BY <1>2 DEF Waiting
<1> QED BY <1>2, <1>3, <1>4 DEF RxInv

LEMMA ArriveStep ==
  ASSUME RxInv, Received
  PROVE  RxInv' /\ [Fifo!Arrive]_(Fifo!fifoVars)
<1>1. QueueSlots \in Nat \ {0, 1} BY OtaRxQueueAssumption
<1>2. /\ head \in 0 .. QueueSlots - 1 /\ tail \in 0 .. QueueSlots - 1
      /\ slot \in [0 .. QueueSlots - 1 -> Payloads \cup {NoPayload}]
      /\ RxTypeOK /\ UNCHANGED <<tail, working, result>>
  BY DEF RxInv, RxTypeOK, Received
<1>3. CASE UNCHANGED <<slot, head>>
  <2>1. RxInv' BY <1>2, <1>3 DEF RxInv, RxTypeOK, Waiting, Place
  <2>2. UNCHANGED Queued BY <1>2, <1>3 DEF Queued
  <2> QED BY <1>2, <2>1, <2>2 DEF Fifo!fifoVars
<1>4. ASSUME NEW p \in Payloads, ~Full, slot' = [slot EXCEPT ![head] = p], head' = After(head)
      PROVE  RxInv' /\ [Fifo!Arrive]_(Fifo!fifoVars)
  <2>1. /\ head' = (IF head = QueueSlots - 1 THEN 0 ELSE head + 1)
        /\ head' \in 0 .. QueueSlots - 1 /\ head' # tail
    BY <1>2, <1>4, AfterSlot DEF Full
  <2>2. RxTypeOK'
    BY <1>2, <1>4, <2>1 DEF RxTypeOK
  <2>3. Waiting' = Waiting + 1 /\ Waiting < QueueSlots - 1 /\ Waiting \in Nat
    BY <1>1, <1>2, <2>1 DEF Waiting
  <2>4. \A k \in 1 .. Waiting : Place(tail', k) = Place(tail, k) /\ Place(tail, k) # head
    BY <1>1, <1>2 DEF Waiting, Place
  <2>5. Place(tail', Waiting') = head /\ Waiting' \in 1 .. Waiting'
    BY <1>1, <1>2, <2>3 DEF Waiting, Place
  <2>6. \A k \in 1 .. Waiting : Place(tail, k) \in 0 .. QueueSlots - 1 BY <1>2, QueuedIs
  <2>7. /\ \A k \in 1 .. Waiting : slot'[Place(tail', k)] = slot[Place(tail, k)]
        /\ slot'[Place(tail', Waiting')] = p
    BY <1>2, <1>4, <2>4, <2>5, <2>6
  <2>8. \A k \in 1 .. Waiting' : k \in 1 .. Waiting \/ k = Waiting' BY <2>3
  <2>9. RxInv'
    <3>1. \A k \in 1 .. Waiting' : slot'[Place(tail', k)] \in Payloads
      BY <2>7, <2>8, <1>4 DEF RxInv
    <3>2. working' => head' # tail' BY <1>2, <2>1
    <3> QED BY <2>2, <3>1, <3>2 DEF RxInv
  <2>10. Queued = [k \in 1 .. Waiting |-> slot[Place(tail, k)]] BY <1>2, QueuedIs
  <2>11. Queued' = [k \in 1 .. Waiting' |-> slot'[Place(tail', k)]]
    <3>1. (RxTypeOK => Queued = [k \in 1 .. Waiting |-> slot[Place(tail, k)]])' BY QueuedIs, PTL
    <3> QED BY <2>2, <3>1
  <2>12. Queued \in Seq(Payloads) /\ Len(Queued) = Waiting
    BY <2>3, <2>10 DEF RxInv
  <2>13. Queued' = Append(Queued, p)
    <3>1. /\ Append(Queued, p) \in Seq(Payloads) /\ Len(Append(Queued, p)) = Waiting'
          /\ \A k \in 1 .. Waiting : Append(Queued, p)[k] = slot[Place(tail, k)]
          /\ Append(Queued, p)[Waiting'] = p
      BY <2>3, <2>10, <2>12, AppendProperties
    <3>2. /\ Queued' \in Seq(Payloads) /\ Len(Queued') = Waiting'
          /\ \A k \in 1 .. Waiting' : Queued'[k] = slot'[Place(tail', k)]
      BY <2>3, <2>9, <2>11 DEF RxInv
    <3>3. \A k \in 1 .. Waiting' : Queued'[k] = Append(Queued, p)[k]
      BY <2>7, <2>8, <3>1, <3>2
    <3> QED BY <3>1, <3>2, <3>3, SeqEqual
  <2> QED BY <1>2, <2>3, <2>9, <2>12, <2>13 DEF Fifo!Arrive
<1> QED BY <1>3, <1>4 DEF Received

LEMMA TakeStep ==
  ASSUME RxInv, EndWork
  PROVE  RxInv' /\ Fifo!Take
<1>1. QueueSlots \in Nat \ {0, 1} BY OtaRxQueueAssumption
<1>2. /\ head \in 0 .. QueueSlots - 1 /\ tail \in 0 .. QueueSlots - 1 /\ head # tail
      /\ RxTypeOK /\ UNCHANGED <<slot, head>> /\ ~working'
      /\ result' = slot[tail] /\ tail' = After(tail)
  BY DEF RxInv, RxTypeOK, EndWork
<1>3. /\ tail' = (IF tail = QueueSlots - 1 THEN 0 ELSE tail + 1)
      /\ tail' \in 0 .. QueueSlots - 1
  BY <1>2, AfterSlot
<1>4. RxTypeOK' BY <1>2, <1>3 DEF RxTypeOK, EndWork
<1>5. Waiting' = Waiting - 1 /\ Waiting \in Nat \ {0} BY <1>1, <1>2, <1>3 DEF Waiting
<1>6. \A k \in 1 .. Waiting' : Place(tail', k) = Place(tail, k + 1) /\ k + 1 \in 1 .. Waiting
  <2> SUFFICES ASSUME NEW k \in 1 .. Waiting'
               PROVE  Place(tail', k) = Place(tail, k + 1) /\ k + 1 \in 1 .. Waiting
    OBVIOUS
  <2>1. k \in Nat \ {0} /\ k + 1 \in 1 .. Waiting /\ k < QueueSlots
    BY <1>1, <1>2, <1>5 DEF Waiting
  <2> HIDE DEF Waiting
  <2> QED BY <1>1, <1>2, <1>3, <2>1 DEF Place
<1>7. Place(tail, 1) = tail BY <1>1, <1>2 DEF Place
<1>8. RxInv' BY <1>2, <1>4, <1>6 DEF RxInv
<1>9. Queued = [k \in 1 .. Waiting |-> slot[Place(tail, k)]] BY <1>2, QueuedIs
<1>10. Queued' = [k \in 1 .. Waiting' |-> slot'[Place(tail', k)]]
  <2>1. (RxTypeOK => Queued = [k \in 1 .. Waiting |-> slot[Place(tail, k)]])' BY QueuedIs, PTL
  <2> QED BY <1>4, <2>1
<1>11. Queued \in Seq(Payloads) /\ Len(Queued) = Waiting BY <1>5, <1>9 DEF RxInv
<1>12. Queued # <<>> /\ Head(Queued) = slot[tail]
  BY <1>5, <1>7, <1>9, <1>11
<1>13. Queued' = Tail(Queued)
  <2>1. /\ Tail(Queued) \in Seq(Payloads) /\ Len(Tail(Queued)) = Waiting'
        /\ \A k \in 1 .. Waiting' : Tail(Queued)[k] = Queued[k + 1]
    BY <1>5, <1>11, <1>12, HeadTailProperties
  <2>2. /\ Queued' \in Seq(Payloads) /\ Len(Queued') = Waiting'
        /\ \A k \in 1 .. Waiting' : Queued'[k] = slot'[Place(tail', k)]
    BY <1>5, <1>8, <1>10 DEF RxInv
  <2>3. \A k \in 1 .. Waiting' : Queued'[k] = Tail(Queued)[k]
    BY <1>2, <1>6, <1>9, <2>1, <2>2
  <2> QED BY <2>1, <2>2, <2>3, SeqEqual
<1> QED BY <1>2, <1>8, <1>12, <1>13 DEF Fifo!Take

LEMMA RxStep ==
  RxInv /\ [RxNext]_rxVars => RxInv' /\ [Fifo!Arrive \/ Fifo!Take]_(Fifo!fifoVars)
<1> SUFFICES ASSUME RxInv, [RxNext]_rxVars
             PROVE  RxInv' /\ [Fifo!Arrive \/ Fifo!Take]_(Fifo!fifoVars)
  OBVIOUS
<1>1. CASE Received BY <1>1, ArriveStep
<1>2. CASE BeginWork
  <2>1. RxInv' BY <1>2 DEF BeginWork, RxInv, RxTypeOK, Waiting, Place
  <2>2. UNCHANGED <<Queued, result>> BY <1>2 DEF BeginWork, Queued
  <2> QED BY <2>1, <2>2 DEF Fifo!fifoVars
<1>3. CASE EndWork BY <1>3, TakeStep
<1>4. CASE UNCHANGED rxVars
  <2>1. RxInv' BY <1>4 DEF rxVars, RxInv, RxTypeOK, Waiting, Place
  <2>2. UNCHANGED <<Queued, result>> BY <1>4 DEF rxVars, Queued
  <2> QED BY <2>1, <2>2 DEF Fifo!fifoVars
<1> QED BY <1>1, <1>2, <1>3, <1>4 DEF RxNext

\* The queue between the radio interrupt and the work item that handles OTA packets
\* (esb_ota_process_rx): with any number of slots, what is taken is what was put in and
\* not refused because the ring was full, in its order.
THEOREM QueueImplementsFifo == RxSpec => QueueIsFifo
<1>1. RxInit => Fifo!FifoInit
  <2> SUFFICES ASSUME RxInit PROVE Fifo!FifoInit OBVIOUS
  <2>1. RxTypeOK BY RxInitInv DEF RxInv
  <2>2. Waiting = 0 BY RxInitInv
  <2>3. Queued = <<>> BY <2>1, <2>2, QueuedIs
  <2> QED BY <2>3 DEF RxInit, Fifo!FifoInit
<1> QED BY <1>1, RxInitInv, RxStep, PTL DEF RxSpec, QueueIsFifo, Fifo!FifoSpec

-----------------------------------------------------------------------------
(* RawStream: what the ring holds.                                         *)

(* What a valid slot of the ring holds: one of the last RingSize packets   *)
(* of the collection going on, under its number and in its place.          *)
EntryOK(e, i) ==
  /\ e.session = collection.session
  /\ e.number \in Nat /\ e.number < packets /\ packets <= e.number + RingSize
  /\ e.seq = e.number % SeqModulus /\ i = e.number % RingSize

RingInv ==
  /\ packets \in Nat /\ retx \in Seq(Seqs) /\ DOMAIN ring = Slots
  /\ collection = [session |-> collection.session, active |-> collection.active]
  /\ \A i \in Slots : ring[i].valid => EntryOK(ring[i], i)
  /\ writing.kind = "retx" =>
       /\ retx # <<>> /\ writing.seq = writing.entry.seq
       /\ \E i \in Slots : EntryOK(writing.entry, i)

LEMMA RingConstants ==
  /\ RingSize \in Nat \ {0} /\ SeqModulus \in Nat \ {0} /\ SeqModulus % RingSize = 0
  BY RawStreamAssumption

LEMMA RingSlot ==
  ASSUME NEW n \in Nat
  PROVE  /\ n % SeqModulus \in Seqs /\ n % RingSize \in Slots
         /\ (n % SeqModulus) % RingSize = n % RingSize
<1>1. PICK q \in Nat, m \in 0 .. SeqModulus - 1 : m = n % SeqModulus
  BY RingConstants, DivMod
<1>2. PICK p \in Nat, k \in 0 .. RingSize - 1 : k = n % RingSize BY RingConstants, DivMod
<1> QED BY <1>1, <1>2, RingConstants, ModMod DEF Seqs, Slots

LEMMA RingInit == RawInit => RingInv
<1> SUFFICES ASSUME RawInit PROVE RingInv OBVIOUS
<1>1. packets = 0 /\ retx = <<>> /\ ring = [i \in Slots |-> Empty] /\ writing = Resting
      /\ collection = [session |-> 0, active |-> FALSE]
  BY DEF RawInit
<1>2. \A i \in Slots : ~ring[i].valid BY <1>1 DEF Empty
<1>3. writing.kind # "retx" BY <1>1 DEF Resting
<1> QED BY <1>1, <1>2, <1>3 DEF RingInv

(* Sending a packet replaces the oldest of the ring.                       *)
LEMMA BeginImuRing == ASSUME RingInv, BeginImu PROVE RingInv'
<1> DEFINE seq == packets % SeqModulus
           e == [valid |-> TRUE, seq |-> seq, session |-> collection.session,
                 number |-> packets]
           here == seq % RingSize
<1>1. /\ ring' = [ring EXCEPT ![here] = e] /\ writing' = [kind |-> "imu", entry |-> e]
      /\ packets' = packets + 1 /\ UNCHANGED <<collection, retx>>
  BY DEF BeginImu
<1>2. packets \in Nat /\ DOMAIN ring = Slots BY DEF RingInv
<1>3. here = packets % RingSize /\ here \in Slots BY <1>2, RingSlot
<1>4. RingSize \in Nat \ {0} BY RingConstants
<1>5. ASSUME NEW i \in Slots, ring'[i].valid
      PROVE  EntryOK(ring[i], i)' /\ UNCHANGED collection
  <2>1. CASE i = here
    <3>1. ring'[i] = e BY <1>1, <1>2, <2>1
    <3> QED BY <1>1, <1>2, <1>3, <1>4, <2>1, <3>1 DEF EntryOK
  <2>2. CASE i # here
    <3>1. ring'[i] = ring[i] BY <1>1, <1>2, <2>2
    <3>2. EntryOK(ring[i], i) BY <1>5, <3>1 DEF RingInv
    <3> DEFINE n == ring[i].number
    <3>3. n \in Nat /\ n < packets /\ packets <= n + RingSize /\ i = n % RingSize
      BY <3>2 DEF EntryOK
    <3> HIDE DEF n
    <3>4. n + RingSize # packets
      <4> SUFFICES ASSUME n + RingSize = packets PROVE FALSE OBVIOUS
      <4>1. (n + RingSize) % RingSize = n % RingSize BY <1>4, <3>3, ModPlus
      <4> QED BY <1>3, <2>2, <3>3, <4>1
    <3>5. n < packets' /\ packets' <= n + RingSize BY <1>1, <1>2, <1>4, <3>3, <3>4
    <3> QED BY <1>1, <3>1, <3>2, <3>5 DEF EntryOK, n
  <2> QED BY <2>1, <2>2
<1>6. packets' \in Nat /\ DOMAIN ring' = Slots /\ writing'.kind # "retx" BY <1>1, <1>2
<1> QED BY <1>1, <1>5, <1>6 DEF RingInv

(* Sending one again takes it from the ring.                               *)
LEMMA BeginRetxRing == ASSUME RingInv, BeginRetx PROVE RingInv'
<1> DEFINE seq == Head(retx)
           i == seq % RingSize
<1>1. /\ ring[i].valid /\ ring[i].seq = seq /\ retx # <<>>
      /\ writing' = [kind |-> "retx", seq |-> seq, entry |-> ring[i]]
      /\ UNCHANGED <<collection, packets, ring, retx>>
  BY DEF BeginRetx, InRing
<1>2. seq \in Seqs BY <1>1 DEF RingInv
<1>3. i \in Slots BY <1>2, RingSlot DEF Seqs
<1>4. PICK j \in Slots : j = i BY <1>3
<1>5. EntryOK(ring[j], j) BY <1>1, <1>4 DEF RingInv
<1>8. EntryOK(writing.entry, j)' BY <1>1, <1>4, <1>5 DEF EntryOK
<1>6. writing'.seq = writing'.entry.seq BY <1>1
<1>7. \A k \in Slots : ring'[k].valid => EntryOK(ring[k], k)'
  BY <1>1 DEF RingInv, EntryOK
<1> HIDE DEF i, seq
<1> QED BY <1>1, <1>6, <1>7, <1>8 DEF RingInv

(* A new collection begins with an empty ring.                             *)
LEMMA CollectOnRing == ASSUME RingInv, CollectOn PROVE RingInv'
<1>1. /\ packets' = 0 /\ retx' = <<>> /\ ring' = [i \in Slots |-> Empty]
      /\ writing' = Resting
      /\ collection' = [session |-> collection.session + 1, active |-> TRUE]
  BY DEF CollectOn, RingCleared
<1>2. \A i \in Slots : ~ring'[i].valid BY <1>1 DEF Empty
<1>3. writing'.kind # "retx" BY <1>1 DEF Resting
<1> QED BY <1>1, <1>2, <1>3 DEF RingInv

(* The other steps leave the ring alone; a write that ends was no other.   *)
LEMMA OtherRing ==
  ASSUME RingInv, UNCHANGED <<packets, ring>>, retx' \in Seq(Seqs),
         collection'.session = collection.session,
         collection' = [session |-> collection'.session, active |-> collection'.active],
         (writing' = writing /\ (retx # <<>> => retx' # <<>>)) \/ writing'.kind # "retx"
  PROVE  RingInv'
<1>1. \A i \in Slots : ring'[i].valid => EntryOK(ring[i], i)'
  BY DEF RingInv, EntryOK
<1>2. writing'.kind = "retx" =>
        /\ retx' # <<>> /\ writing'.seq = writing'.entry.seq
        /\ \E i \in Slots : EntryOK(writing.entry, i)'
  BY DEF RingInv, EntryOK
<1> QED BY <1>1, <1>2 DEF RingInv

LEMMA NextRing == RingInv /\ [RawNext]_rawVars => RingInv'
<1> SUFFICES ASSUME RingInv, [RawNext]_rawVars PROVE RingInv' OBVIOUS
<1>1. /\ retx \in Seq(Seqs)
      /\ collection = [session |-> collection.session, active |-> collection.active]
  BY DEF RingInv
<1>2. CASE CollectOn BY <1>2, CollectOnRing
<1>3. CASE CollectOff
  <2>1. collection' = [session |-> collection.session, active |-> FALSE]
    BY <1>1, <1>3 DEF CollectOff
  <2> QED BY <1>1, <1>3, <2>1, OtherRing DEF CollectOff
<1>4. CASE SensorTurn \/ QueueSample
  BY <1>1, <1>4, OtherRing DEF SensorTurn, QueueSample
<1>5. CASE RetxRequested
  <2>1. PICK seq \in Seqs : retx' = Append(retx, seq) BY <1>5 DEF RetxRequested
  <2>2. retx' \in Seq(Seqs) /\ retx' # <<>> BY <1>1, <2>1
  <2> QED BY <1>1, <1>5, <2>2, OtherRing DEF RetxRequested
<1>6. CASE RawConnection
  <2>1. CASE BeginRetx BY <2>1, BeginRetxRing
  <2>2. CASE BeginImu BY <2>2, BeginImuRing
  <2>3. CASE RetxGone
    <3>1. retx' \in Seq(Seqs) BY <1>1, <2>3 DEF RetxGone
    <3> QED BY <1>1, <2>3, <3>1, OtherRing DEF RetxGone, Resting
  <2>4. CASE EndRetx
    <3>1. retx' = Tail(retx) /\ writing' = Resting BY <2>4 DEF EndRetx
    <3>2. retx' \in Seq(Seqs) BY <1>1, <2>4, <3>1 DEF RingInv, EndRetx
    <3> QED BY <1>1, <2>4, <3>2, OtherRing DEF EndRetx, Resting
  <2>5. CASE BeginMeta \/ BeginCal
    BY <1>1, <2>5, OtherRing DEF BeginMeta, BeginCal
  <2>6. CASE EndMeta \/ EndCal \/ EndImu
    BY <1>1, <2>6, OtherRing DEF EndMeta, EndCal, EndImu, Resting
  <2> QED BY <1>6, <2>1, <2>2, <2>3, <2>4, <2>5, <2>6 DEF RawConnection
<1>7. CASE UNCHANGED rawVars BY <1>1, <1>7, OtherRing DEF rawVars
<1> QED BY <1>2, <1>3, <1>4, <1>5, <1>6, <1>7 DEF RawNext

\* For any size of the ring that divides the modulus of the sequence numbers: a packet
\* that is sent again is the latest of this collection that was sent under its number.
THEOREM RetransmissionIsOriginal == RawSpec => []RetransmitsOriginal
<1>1. RingInv => RetransmitsOriginal
  BY RingConstants DEF RingInv, EntryOK, RetransmitsOriginal
<1> QED BY <1>1, RingInit, NextRing, PTL DEF RawSpec

-----------------------------------------------------------------------------
(* Tdma: when the writer wakes.                                            *)

(* A configuration, as it was handed out or read in parts.                 *)
Parts == [slot : Nat, ticks : SlotTicks, frame : Nat \ {0}]

SlotInv ==
  /\ config \in Parts /\ read \in Parts
  /\ sent.config \in Parts
  /\ SendsInSlot

LEMMA BootParts == Boot \in Parts
<1>1. PICK k \in SlotTicks : k = CHOOSE j \in SlotTicks : TRUE BY TdmaAssumption
<1>2. PICK n \in TotalSlots : n = CHOOSE j \in TotalSlots : TRUE BY TdmaAssumption
<1>3. k \in Nat \ {0} /\ n \in Nat \ {0} BY TdmaAssumption
<1>4. k * n \in Nat \ {0} BY <1>3
<1>5. Boot = [slot |-> 0, ticks |-> k, frame |-> k * n] BY <1>1, <1>2 DEF Boot
<1> QED BY <1>4, <1>5 DEF Parts

(* The slots of a frame that was not read in parts lie inside it.          *)
LEMMA WholeFits ==
  ASSUME NEW c \in Parts, Whole(c)
  PROVE  c.slot * c.ticks \in Nat /\ c.slot * c.ticks + c.ticks <= c.frame
<1>1. c.slot \in Nat /\ c.ticks \in Nat \ {0} /\ c.frame \in Nat
  BY TdmaAssumption DEF Parts
<1>2. c.frame % c.ticks = 0 /\ c.slot < c.frame \div c.ticks BY DEF Whole
<1>3. PICK n \in Int : n = c.frame \div c.ticks /\ 0 = c.frame - c.ticks * n
  <2>1. c.frame \in Int /\ c.ticks \in Nat \ {0} BY <1>1
  <2>2. /\ c.frame % c.ticks = c.frame - c.ticks * (c.frame \div c.ticks)
        /\ c.frame \div c.ticks \in Int
    BY <2>1, RemainderIs, Zenon
  <2> QED BY <1>2, <2>2, Zenon
<1> DEFINE d == n - c.slot - 1
<1>4. d \in Nat /\ n = c.slot + 1 + d BY <1>1, <1>2, <1>3
<1> HIDE DEF d
<1>5. c.ticks * n = c.slot * c.ticks + c.ticks + c.ticks * d BY <1>1, <1>4
<1>6. c.ticks * d \in Nat /\ c.slot * c.ticks \in Nat /\ c.ticks * n \in Int BY <1>1, <1>4
<1> QED BY <1>1, <1>3, <1>5, <1>6

LEMMA SleepBounded ==
  ASSUME NEW ticks \in Nat, NEW c \in Parts
  PROVE  Sleep(ticks, c) \in Nat /\ Sleep(ticks, c) <= c.frame
<1> DEFINE start == c.slot * c.ticks
           n == TicksToTarget(ticks % c.frame, c.frame, start)
<1>1. c.slot \in Nat /\ c.ticks \in Nat \ {0} /\ c.frame \in Nat \ {0}
      /\ TargetOffset \in Nat
  BY TdmaAssumption DEF Parts
<1>2. start \in Nat BY <1>1
<1>3. PICK m \in 0 .. c.frame - 1 : m = ticks % c.frame BY <1>1, FloorDivision
<1> HIDE DEF start
<1>4. n \in Nat BY <1>1, <1>2, <1>3 DEF TicksToTarget, TargetPhase
<1>5. Sleep(ticks, c) = IF InSlot(Position(ticks, c.frame, start), c.ticks) \/ n > c.frame
                        THEN 0 ELSE n
  BY DEF Sleep, start
<1> HIDE DEF n
<1> QED BY <1>1, <1>4, <1>5

LEMMA SlotSum ==
  ASSUME NEW z \in Int, NEW m \in Int, NEW n \in Int, NEW start \in Int, NEW target \in Int,
         NEW f \in Int, NEW offset \in Int, NEW late \in Int, NEW goal,
         goal = z + m + n + late - start, m + n = target \/ m + n = target + f,
         target = start + offset \/ target = start + offset - f
  PROVE  LET v == offset + late
         IN  goal = v + z \/ goal = v + (z + f) \/ goal = v + (z - f)
  BY SMT

InTime(c, time) == (time - c.slot * c.ticks) % c.frame < c.ticks + Grace

(* Who does not wait is in his slot or in the grace after it; who waits    *)
(* wakes up at the middle of it, or little later.                          *)
LEMMA SlotHit ==
  ASSUME NEW ticks \in Nat, NEW c \in Parts, Whole(c), NEW late \in 0 .. Jitter,
         Sleep(ticks, c) = 0 => late = 0
  PROVE  InTime(c, ticks + Sleep(ticks, c) + late)
<1> DEFINE start == c.slot * c.ticks
           n == TicksToTarget(ticks % c.frame, c.frame, start)
           p == Position(ticks, c.frame, start)
           goal == ticks + Sleep(ticks, c) + late - start
<1>1. /\ c.slot \in Nat /\ c.ticks \in Nat \ {0} /\ c.frame \in Nat \ {0}
      /\ TargetOffset \in Nat /\ Jitter \in Nat /\ Grace \in Nat /\ late \in Nat
      /\ TargetOffset + Jitter < c.ticks + Grace /\ late <= Jitter
  <2>1. /\ c.slot \in Nat /\ c.ticks \in SlotTicks /\ c.frame \in Nat \ {0}
    BY DEF Parts
  <2>2. TargetOffset \in Nat /\ Jitter \in Nat /\ Grace \in Nat BY TdmaAssumption
  <2>3. c.ticks \in Nat \ {0} /\ TargetOffset + Jitter < c.ticks + Grace
    BY <2>1, TdmaAssumption
  <2> QED BY <2>1, <2>2, <2>3
<1>2. start \in Nat /\ start + c.ticks <= c.frame BY WholeFits
<1>3. PICK q \in Int, m \in 0 .. c.frame - 1 : m = ticks % c.frame /\ ticks = q * c.frame + m
  <2>1. ticks \in Int /\ c.frame \in Nat \ {0} BY <1>1
  <2> QED BY <2>1, FloorDivision, Zenon
<1>4. q * c.frame \in Int BY <1>1
<1>9. start = c.slot * c.ticks OBVIOUS
<1> HIDE DEF start
<1>5. Sleep(ticks, c) = IF InSlot(p, c.ticks) \/ n > c.frame THEN 0 ELSE n
  BY DEF Sleep, start
<1>6. SUFFICES \/ c.frame <= c.ticks + Grace
               \/ \E v \in Nat, k \in Int : goal = v + k * c.frame /\ v < c.ticks + Grace
  <2>1. Sleep(ticks, c) \in Nat BY SleepBounded
  <2>2. goal \in Int BY <1>1, <1>2, <2>1
  <2>5. goal = (ticks + Sleep(ticks, c) + late) - start
    <3>1. PICK k \in Int : k = Sleep(ticks, c) BY <2>1
    <3> QED BY <1>1, <1>2, <3>1
  <2> HIDE DEF goal
  <2>3. goal % c.frame \in 0 .. c.frame - 1 BY <1>1, <2>2, FloorDivision
  <2>4. goal % c.frame < c.ticks + Grace
    <3>1. CASE c.frame <= c.ticks + Grace BY <1>1, <2>3, <3>1
    <3>2. ASSUME NEW v \in Nat, NEW k \in Int,
                 goal = v + k * c.frame, v < c.ticks + Grace
          PROVE  goal % c.frame < c.ticks + Grace
      <4>1. (v + k * c.frame) % c.frame <= v BY <1>1, RemainderLeast
      <4> QED BY <1>1, <2>3, <3>2, <4>1
    <3> QED BY <1>6, <3>1, <3>2
  <2>6. PICK time : time = ticks + Sleep(ticks, c) + late OBVIOUS
  <2>7. (time - c.slot * c.ticks) % c.frame < c.ticks + Grace BY <1>9, <2>4, <2>5, <2>6
  <2> QED BY <2>6, <2>7 DEF InTime
<1>7. CASE InSlot(p, c.ticks)
  <2>1. goal = ticks - start BY <1>1, <1>2, <1>5, <1>7
  <2>2. p \in Nat /\ p < c.ticks + Grace
    BY <1>1, <1>2, <1>3, <1>7 DEF InSlot, Position
  <2>3. \/ p = m - start \/ p = (m - start) - c.frame \/ p = (m - start) + c.frame
    BY <1>3 DEF Position
  <2> HIDE DEF p
  <2>4. /\ (q + 1) * c.frame = q * c.frame + c.frame
        /\ (q - 1) * c.frame = q * c.frame - c.frame
        /\ q + 1 \in Int /\ q - 1 \in Int
    BY <1>1, <1>4
  <2>5. \/ goal = p + q * c.frame \/ goal = p + (q + 1) * c.frame
        \/ goal = p + (q - 1) * c.frame
    <3>1. PICK z \in Int : z = q * c.frame BY <1>4
    <3>2. goal = z + m - start /\ m \in Int BY <1>1, <1>2, <1>3, <2>1, <3>1
    <3> HIDE DEF goal
    <3>3. \/ goal = p + z \/ goal = p + (z + c.frame) \/ goal = p + (z - c.frame)
      BY <1>1, <1>2, <2>2, <2>3, <3>2
    <3> QED BY <2>4, <3>1, <3>3
  <2> QED BY <2>2, <2>4, <2>5
<1>8. CASE ~InSlot(p, c.ticks) /\ c.frame > c.ticks + Grace
  <2> DEFINE target == TargetPhase(c.frame, start)
             v == TargetOffset + late
  <2>1. target \in 0 .. c.frame - 1
        /\ (target = start + TargetOffset \/ target = start + TargetOffset - c.frame)
    BY <1>1, <1>2, <1>8 DEF TargetPhase
  <2> HIDE DEF target
  <2>2. n = IF target >= m THEN target - m ELSE c.frame - m + target
    BY <1>3 DEF TicksToTarget, target
  <2>3. n \in 0 .. c.frame /\ (m + n = target \/ m + n = target + c.frame)
    BY <1>1, <2>1, <2>2
  <2> HIDE DEF n
  <2>4. Sleep(ticks, c) = n BY <1>1, <1>5, <1>8, <2>3
  <2>5. /\ (q + 1) * c.frame = q * c.frame + c.frame
        /\ (q - 1) * c.frame = q * c.frame - c.frame
        /\ q + 1 \in Int /\ q - 1 \in Int
    BY <1>1, <1>4
  <2>6. v \in Nat /\ v < c.ticks + Grace BY <1>1
  <2>7. goal = q * c.frame + m + n + late - start BY <1>1, <1>2, <1>3, <1>4, <2>3, <2>4
  <2>8. \/ goal = v + q * c.frame \/ goal = v + (q + 1) * c.frame
        \/ goal = v + (q - 1) * c.frame
    <3>1. PICK z \in Int : z = q * c.frame BY <1>4
    <3>2. goal = z + m + n + late - start /\ m \in Int BY <2>7, <3>1
    <3> HIDE DEF goal
    <3>3. PICK f \in Int : f = c.frame BY <1>1
    <3>4. target \in Int /\ n \in Int /\ TargetOffset \in Int /\ late \in Int /\ start \in Int
      BY <1>1, <1>2, <2>1, <2>3
    <3>5. m + n = target \/ m + n = target + f BY <2>3, <3>3
    <3>6. target = start + TargetOffset \/ target = start + TargetOffset - f
      BY <2>1, <3>3
    <3>7. \/ goal = v + z \/ goal = v + (z + f) \/ goal = v + (z - f)
      BY <3>2, <3>4, <3>5, <3>6, SlotSum DEF v
    <3> QED BY <2>5, <3>1, <3>3, <3>7
  <2> HIDE DEF goal, v
  <2> QED BY <2>5, <2>6, <2>8
<1> QED BY <1>1, <1>7, <1>8

LEMMA SlotKept == SlotInv /\ [TdmaNext]_tdmaVars => SlotInv'
<1> SUFFICES ASSUME SlotInv, [TdmaNext]_tdmaVars PROVE SlotInv' OBVIOUS
<1>1. CASE UpdateConfig
  <2>1. PICK n \in TotalSlots, k \in SlotTicks, s \in Int :
          s \in 0 .. n - 1 /\ config' = [slot |-> s, ticks |-> k, frame |-> k * n]
    BY <1>1, TdmaAssumption DEF UpdateConfig
  <2>2. n \in Nat \ {0} /\ k \in Nat \ {0} /\ s \in Nat BY <2>1, TdmaAssumption
  <2>3. k * n \in Nat \ {0} BY <2>2
  <2>4. config' \in Parts BY <2>1, <2>2, <2>3 DEF Parts
  <2> QED BY <1>1, <2>4 DEF UpdateConfig, SlotInv, SendsInSlot
<1>2. CASE SetEnabled BY <1>2 DEF SetEnabled, SlotInv, SendsInSlot
<1>3. CASE ReadFrame
  <2>1. read' \in Parts BY <1>3 DEF ReadFrame, SlotInv, Parts
  <2>2. sent' = NoPacket /\ config' = config BY <1>3 DEF ReadFrame
  <2>3. sent'.config \in Parts BY <2>2, BootParts DEF NoPacket
  <2>4. SendsInSlot' BY <2>2 DEF SendsInSlot
  <2> QED BY <2>1, <2>2, <2>3, <2>4 DEF SlotInv
<1>4. CASE ReadTicks BY <1>4 DEF ReadTicks, SlotInv, SendsInSlot, Parts
<1>5. CASE ReadSlot BY <1>5 DEF ReadSlot, SlotInv, SendsInSlot, Parts
<1>6. CASE NotSynced BY <1>6, BootParts DEF NotSynced, SlotInv, SendsInSlot
<1>7. CASE WaitForSlot
  <2>1. PICK ticks \in ServerTicks, late \in 0 .. Jitter :
          sent' = [ready |-> ticks,
                   at |-> ticks + Sleep(ticks, read) + (IF Sleep(ticks, read) > 0 THEN late ELSE 0),
                   config |-> read]
    BY <1>7 DEF WaitForSlot
  <2> DEFINE n == Sleep(ticks, read)
             d == IF n > 0 THEN late ELSE 0
             c == read
  <2>2. /\ read \in Parts /\ read' \in Parts /\ config' \in Parts /\ ticks \in Nat
        /\ Jitter \in Nat
    BY <1>7, BootParts, TdmaAssumption DEF WaitForSlot, SlotInv
  <2>3. n \in Nat /\ n <= read.frame BY <2>2, SleepBounded
  <2> HIDE DEF n
  <2>4. d \in 0 .. Jitter /\ (n = 0 => d = 0) BY <2>2, <2>3
  <2> HIDE DEF d
  <2>5. sent' = [ready |-> ticks, at |-> ticks + n + d, config |-> read] BY <2>1 DEF n, d
  <2>6. read.frame \in Nat BY <2>2 DEF Parts
  <2>7. (ticks + n + d) - ticks <= read.frame + Jitter BY <2>2, <2>3, <2>4, <2>6
  <2>8. Whole(read) => InTime(read, ticks + n + d)
    BY <2>2, <2>4, SlotHit DEF n
  <2>9. SendsInSlot'
    <3>1. sent'.ready = ticks /\ sent'.at = ticks + n + d /\ sent'.config = read BY <2>5
    <3>2. Whole(sent'.config) => InTime(sent'.config, sent'.at) BY <2>8, <3>1
    <3>3. sent'.at - sent'.ready <= sent'.config.frame + Jitter BY <2>7, <3>1
    <3> QED BY <3>2, <3>3, Zenon DEF SendsInSlot, InTime
  <2> QED BY <2>2, <2>5, <2>9 DEF SlotInv
<1>8. CASE UNCHANGED tdmaVars BY <1>8 DEF tdmaVars, SlotInv, SendsInSlot
<1> QED BY <1>1, <1>2, <1>3, <1>4, <1>5, <1>6, <1>7, <1>8 DEF TdmaNext

\* Whatever slots and frames the receiver hands out while a writer waits for its turn
\* (esb_write), a packet goes out within a frame and the jitter of being ready, and in
\* the tracker's slot or the grace after it unless the configuration read was a mixture.
THEOREM PacketsInSlot == TdmaSpec => []SendsInSlot
<1>1. TdmaInit => SlotInv
  BY BootParts DEF TdmaInit, SlotInv, SendsInSlot, NoPacket
<1>2. SlotInv => SendsInSlot BY DEF SlotInv
<1> QED BY <1>1, <1>2, SlotKept, PTL DEF TdmaSpec

-----------------------------------------------------------------------------
(* TimeSync: how far the estimate can be off.                              *)

LEMMA QuotientBound ==
  ASSUME NEW n \in Nat, NEW p \in Nat \ {0}
  PROVE  n \div p \in Nat /\ (n \div p) * p <= n /\ n < (n \div p) * p + p
  BY SMT

LEMMA TimesCancel ==
  ASSUME NEW j \in Nat, NEW k \in Nat, NEW p \in Nat \ {0}, j * p <= k * p
  PROVE  j <= k
<1> SUFFICES ASSUME k + 1 <= j PROVE FALSE OBVIOUS
<1>1. (k + 1) * p <= j * p BY TimesMonotone
<1>2. (k + 1) * p = k * p + p /\ k * p \in Nat /\ j * p \in Nat BY SMT
<1> QED BY <1>1, <1>2

LEMMA QuotientAbove ==
  ASSUME NEW q \in Nat, NEW n \in Nat, NEW p \in Nat \ {0}, q * p <= n
  PROVE  q <= n \div p
<1> DEFINE d == n \div p
<1>1. d \in Nat /\ n < d * p + p BY QuotientBound
<1> HIDE DEF d
<1>2. (d + 1) * p = d * p + p /\ d * p \in Nat /\ q * p \in Nat BY <1>1, SMT
<1>3. SUFFICES ASSUME d + 1 <= q PROVE FALSE BY <1>1 DEF d
<1>4. (d + 1) * p <= q * p BY <1>1, <1>3, TimesMonotone
<1> QED BY <1>1, <1>2, <1>4

LEMMA TimeConstants ==
  /\ Longest \in Nat \ {0} /\ Longest <= Jump /\ Jump \in Nat \ {0}
  /\ FirstMinRtt \in Nat \ {0} /\ MinRttCeiling \in Nat /\ RttFactor \in Nat \ {0}
  /\ RttFloor \in Nat \ {0} /\ HistorySize \in Nat \ {0} /\ Counters \in Nat
  /\ Billion \in Nat \ {0} /\ Second \in Nat \ {0} /\ TickWrap \in Nat \ {0}
<1>1. /\ Jump \in Nat \ {0} /\ FirstMinRtt \in Nat \ {0} /\ MinRttCeiling \in Nat
      /\ RttFactor \in Nat \ {0} /\ RttFloor \in Nat \ {0} /\ HistorySize \in Nat \ {0}
      /\ Counters \in Nat /\ Billion \in Nat \ {0} /\ Second \in Nat \ {0}
      /\ TickWrap \in Nat \ {0}
  BY TimeSyncAssumption
<1>2. /\ RttFactor * FirstMinRtt < Jump /\ RttFactor * MinRttCeiling < Jump
      /\ RttFloor < Jump
  BY TimeSyncAssumption
<1>3. RttFactor * FirstMinRtt \in Nat /\ RttFactor * MinRttCeiling \in Nat BY <1>1
<1>4. Longest \in {RttFactor * FirstMinRtt, RttFactor * MinRttCeiling, RttFloor}
      /\ Longest >= RttFloor
  BY <1>1, <1>3 DEF Longest, Threshold, Bigger
<1> QED BY <1>1, <1>2, <1>3, <1>4

(* A skew that is at most a round trip in a second.                        *)
Steady(skew) == Magnitude(skew) * Second <= (Longest - 1) * Billion

LEMMA SignedQuotient ==
  ASSUME NEW n \in Int, NEW d \in Nat \ {0}
  PROVE  /\ Quotient(n, d) \in Int /\ Magnitude(n) \in Nat
         /\ Magnitude(Quotient(n, d)) = Magnitude(n) \div d
<1>1. CASE n < 0
  <2>1. Quotient(n, d) = -((-n) \div d) /\ Magnitude(n) = -n BY <1>1 DEF Quotient, Magnitude
  <2>2. -n \in Nat BY <1>1
  <2>3. (-n) \div d \in Nat BY <2>2, QuotientBound
  <2> QED BY <2>1, <2>2, <2>3 DEF Magnitude
<1>2. CASE ~(n < 0)
  <2>1. Quotient(n, d) = n \div d /\ Magnitude(n) = n BY <1>2 DEF Quotient, Magnitude
  <2>2. n \in Nat BY <1>2
  <2>3. n \div d \in Nat BY <2>2, QuotientBound
  <2> QED BY <2>1, <2>2, <2>3 DEF Magnitude
<1> QED BY <1>1, <1>2

LEMMA MagnitudeTimes ==
  ASSUME NEW a \in Int, NEW p \in Nat
  PROVE  Magnitude(a * p) = Magnitude(a) * p /\ a * p \in Int
<1>1. CASE a < 0
  <2>1. -a \in Nat /\ Magnitude(a) = -a BY <1>1 DEF Magnitude
  <2>2. (-a) * p \in Nat /\ a * p = -((-a) * p) BY <2>1
  <2>3. Magnitude(a * p) = (-a) * p BY <2>2 DEF Magnitude
  <2> QED BY <2>1, <2>2, <2>3
<1>2. CASE ~(a < 0)
  <2>1. a * p \in Nat /\ Magnitude(a) = a BY <1>2 DEF Magnitude
  <2> QED BY <2>1 DEF Magnitude
<1> QED BY <1>1, <1>2

(* Two samples of one clock, a second or more apart, show such a skew.     *)
LEMMA MeasuredSteady ==
  ASSUME NEW a \in Int, Magnitude(a) <= Longest - 1, NEW since \in Nat, since >= Second
  PROVE  Quotient(a * Billion, since) \in Int /\ Steady(Quotient(a * Billion, since))
<1> DEFINE m == Magnitude(a)
           n == m * Billion
           q == n \div since
<1>1. m \in Nat /\ m <= Longest - 1 BY DEF Magnitude
<1>2. Billion \in Nat /\ Longest - 1 \in Nat /\ since \in Nat \ {0} /\ Second \in Nat
  BY TimeConstants
<1>3. /\ Quotient(a * Billion, since) \in Int
      /\ Magnitude(Quotient(a * Billion, since)) = q
  BY <1>2, SignedQuotient, MagnitudeTimes
<1> HIDE DEF m
<1>4. n \in Nat /\ n <= (Longest - 1) * Billion BY <1>1, <1>2, TimesMonotone
<1> HIDE DEF n
<1>5. q \in Nat /\ q * since <= n BY <1>2, <1>4, QuotientBound
<1> HIDE DEF q
<1>6. Second * q <= since * q BY <1>2, <1>5, TimesMonotone
<1>7. /\ Second * q = q * Second /\ since * q = q * since /\ q * Second \in Nat
      /\ q * since \in Nat /\ (Longest - 1) * Billion \in Nat
  BY <1>2, <1>5
<1>8. q * Second <= (Longest - 1) * Billion BY <1>4, <1>5, <1>6, <1>7
<1> QED BY <1>3, <1>8 DEF Steady

(* A quarter of the way between two such skews is one.                     *)
LEMMA BetweenSteady ==
  ASSUME NEW x \in Int, NEW y \in Int, Steady(x), Steady(y)
  PROVE  LET z == x + Quotient(y - x, 4) IN z \in Int /\ Steady(z)
<1> DEFINE z == x + Quotient(y - x, 4)
<1>1. /\ z \in Int /\ (x <= y => z \in x .. y) /\ (y <= x => z \in y .. x)
  BY SMT DEF Quotient
<1> HIDE DEF z
<1>2. /\ Magnitude(x) \in Nat /\ Magnitude(y) \in Nat /\ Magnitude(z) \in Nat
      /\ Magnitude(z) <= Magnitude(x) \/ Magnitude(z) <= Magnitude(y)
  BY <1>1 DEF Magnitude
<1>3. Second \in Nat /\ (Longest - 1) * Billion \in Nat BY TimeConstants
<1>4. \/ Magnitude(z) * Second <= Magnitude(x) * Second
      \/ Magnitude(z) * Second <= Magnitude(y) * Second
  BY <1>2, <1>3, TimesMonotone
<1>5. /\ Magnitude(x) * Second \in Nat /\ Magnitude(y) * Second \in Nat
      /\ Magnitude(z) * Second \in Nat
  BY <1>2, <1>3
<1>6. Magnitude(z) * Second <= (Longest - 1) * Billion BY <1>3, <1>4, <1>5 DEF Steady
<1> QED BY <1>1, <1>6 DEF z, Steady

(* What such a skew adds in a time.                                        *)
LEMMA SteadyWanders ==
  ASSUME NEW skew \in Int, Steady(skew), NEW e \in Nat
  PROVE  LET w == ((Longest - 1) * e) \div Second
         IN  Quotient(skew * e, Billion) \in -w .. w
<1> DEFINE m == Magnitude(skew)
           q == (m * e) \div Billion
           w == ((Longest - 1) * e) \div Second
<1>1. /\ Billion \in Nat \ {0} /\ Second \in Nat \ {0} /\ Longest - 1 \in Nat
      /\ (Longest - 1) * e \in Nat /\ m \in Nat /\ m * Second <= (Longest - 1) * Billion
  BY TimeConstants DEF Magnitude, Steady
<1>2. Quotient(skew * e, Billion) \in Int /\ Magnitude(Quotient(skew * e, Billion)) = q
  BY <1>1, SignedQuotient, MagnitudeTimes
<1> HIDE DEF m
<1>3. m * e \in Nat BY <1>1
<1>4. q \in Nat /\ q * Billion <= m * e BY <1>1, <1>3, QuotientBound
<1> HIDE DEF q
<1>5. (q * Billion) * Second <= (m * e) * Second
  <2>1. q * Billion \in Nat BY <1>1, <1>4
  <2> QED BY <2>1, <1>1, <1>3, <1>4, TimesMonotone
<1>6. (m * Second) * e <= ((Longest - 1) * Billion) * e
  <2>1. m * Second \in Nat /\ (Longest - 1) * Billion \in Nat BY <1>1
  <2> QED BY <2>1, <1>1, TimesMonotone
<1>7. (q * Second) * Billion <= ((Longest - 1) * e) * Billion
  <2> DEFINE l == Longest - 1
  <2>1. l \in Nat BY <1>1
  <2> HIDE DEF l
  <2>2. (q * Billion) * Second = (q * Second) * Billion BY <1>1, <1>4
  <2>3. (m * e) * Second = (m * Second) * e BY <1>1
  <2>4. (l * Billion) * e = (l * e) * Billion BY <1>1, <2>1
  <2>5. (q * Second) * Billion \in Nat /\ (m * Second) * e \in Nat /\ (l * e) * Billion \in Nat
    BY <1>1, <1>4, <2>1
  <2>6. (q * Billion) * Second <= (m * e) * Second /\ (m * Second) * e <= (l * Billion) * e
    BY <1>5, <1>6 DEF l
  <2>7. (q * Second) * Billion <= (l * e) * Billion BY <2>2, <2>3, <2>4, <2>5, <2>6
  <2> QED BY <2>7 DEF l
<1>8. q * Second <= (Longest - 1) * e
  <2>1. q * Second \in Nat BY <1>1, <1>4
  <2> QED BY <2>1, <1>1, <1>7, TimesCancel
<1>9. q <= w /\ w \in Nat BY <1>1, <1>4, <1>8, QuotientAbove, QuotientBound
<1> HIDE DEF w
<1>10. Quotient(skew * e, Billion) \in -w .. w BY <1>2, <1>4, <1>9 DEF Magnitude
<1> QED BY <1>10 DEF w
SyncType == [synced : BOOLEAN, begun : BOOLEAN, at : Int, local : Nat, offset : Int,
             ref : Int, refAt : Nat, skew : Int, minRtt : Nat, age : Int, count : Int]

(* The fields that only the samples change.                                *)
SameEstimate(s, t) ==
  /\ s.synced = t.synced /\ s.begun = t.begun /\ s.local = t.local /\ s.offset = t.offset
  /\ s.ref = t.ref /\ s.refAt = t.refAt /\ s.skew = t.skew

(* An offset is good if it lags the clock by less than the longest trip.   *)
Good(offset, theirClock) == offset <= theirClock /\ offset > theirClock - Longest

(* The clock the estimate is about: the receiver's, or, until the first    *)
(* PONG after its restart, the one it had.                                 *)
Clock == IF moved = "no" THEN ahead ELSE 2 * Jump

(* What is known of an estimate that samples of one clock made.            *)
Sound(s, theirClock) ==
  Good(s.offset, theirClock) /\ Good(s.ref, theirClock) /\ Steady(s.skew)

(* A pending PONG, or answer, is no older than the record of its PING, and *)
(* no younger than its arrival.                                            *)
HeardAt(ctr, heard) ==
  /\ heard \in Int /\ heard <= now
  /\ \A i \in Entries : history.entry[i].ctr = ctr => history.entry[i].ticks <= heard
  /\ sender.stamping /\ history.entry[history.idx].ctr = ctr => heard = now

TimeInv ==
  /\ now \in Nat /\ ahead \in {0, 2 * Jump} /\ sender.stamping \in BOOLEAN
  /\ sender = [pings |-> sender.pings, stamping |-> sender.stamping]
  /\ history = [idx |-> history.idx, entry |-> history.entry]
  /\ history.idx \in Entries /\ DOMAIN history.entry = Entries
  /\ \A i \in Entries :
       /\ history.entry[i] = [ctr |-> history.entry[i].ctr, ticks |-> history.entry[i].ticks]
       /\ history.entry[i].ticks \in Nat /\ history.entry[i].ticks <= now
  /\ air = [pings |-> air.pings, answers |-> air.answers]
  /\ \A a \in air.answers : a.theirs \in Int /\ HeardAt(a.ctr, a.theirs - ahead)
  /\ moved \in {"no", "yes", "missed"} /\ (moved # "no" => ahead = 0)
  /\ pong # NoPong =>
       /\ pong = [ctr |-> pong.ctr, theirs |-> pong.theirs, ours |-> pong.ours]
       /\ pong.theirs \in Int /\ pong.ours \in Int /\ pong.ours <= now
       /\ \/ HeardAt(pong.ctr, pong.theirs - ahead) /\ pong.theirs - ahead <= pong.ours
          \/ /\ moved # "no" /\ HeardAt(pong.ctr, pong.theirs - 2 * Jump)
             /\ pong.theirs - 2 * Jump <= pong.ours
  /\ sync \in SyncType /\ (sync.synced => sync.begun)
  /\ sync.minRtt \in 1 .. Bigger(FirstMinRtt, MinRttCeiling)
  /\ sync.local <= now /\ (~sync.begun => sync.skew = 0)
  /\ sync.begun /\ moved # "missed" => Sound(sync, Clock)

-----------------------------------------------------------------------------
(* The filter stays between the estimate and the sample.                   *)
LEMMA QuotientBetween ==
  ASSUME NEW d \in Int
  PROVE  /\ Quotient(d + 2, 4) \in Int /\ Quotient(3 * d + 2, 4) \in Int
         /\ d <= 0 => Quotient(d + 2, 4) \in d .. 0 /\ Quotient(3 * d + 2, 4) \in d .. 0
         /\ d >= 0 => Quotient(d + 2, 4) \in 0 .. d /\ Quotient(3 * d + 2, 4) \in 0 .. d
  BY SMT DEF Quotient

LEMMA FilteredIsInt ==
  ASSUME NEW s \in SyncType, NEW sample \in Int
  PROVE  Filtered(s, sample) \in Int
<1> DEFINE d == sample - s.offset
<1>1. d \in Int /\ s.offset \in Int BY DEF SyncType
<1>2. Filtered(s, sample) \in {s.offset + Quotient(3 * d + 2, 4), s.offset + Quotient(d + 2, 4)}
  BY DEF Filtered
<1> HIDE DEF d
<1>3. Quotient(3 * d + 2, 4) \in Int /\ Quotient(d + 2, 4) \in Int BY <1>1, QuotientBetween
<1> QED BY <1>1, <1>2, <1>3

LEMMA FilteredGood ==
  ASSUME NEW s \in SyncType, NEW sample \in Int, NEW theirClock \in Int,
         Good(s.offset, theirClock), Good(sample, theirClock)
  PROVE  Filtered(s, sample) \in Int /\ Good(Filtered(s, sample), theirClock)
<1> DEFINE d == sample - s.offset
           q == IF s.count + 1 <= WarmUp THEN Quotient(3 * d + 2, 4) ELSE Quotient(d + 2, 4)
<1>1. s.offset \in Int /\ d \in Int BY DEF SyncType
<1>2. q \in Int /\ (d <= 0 => q \in d .. 0) /\ (d >= 0 => q \in 0 .. d)
  BY <1>1, QuotientBetween
<1>3. Filtered(s, sample) = s.offset + q BY DEF Filtered
<1> HIDE DEF q
<1>4. s.offset + q \in Int /\ Good(s.offset + q, theirClock)
  BY <1>1, <1>2, TimeConstants DEF Good
<1> QED BY <1>3, <1>4

LEMMA RecordOfSync ==
  ASSUME NEW s \in SyncType
  PROVE  /\ s.synced \in BOOLEAN /\ s.begun \in BOOLEAN /\ s.at \in Int /\ s.local \in Nat
         /\ s.offset \in Int /\ s.ref \in Int /\ s.refAt \in Nat /\ s.skew \in Int
         /\ s.minRtt \in Nat /\ s.age \in Int /\ s.count \in Int
         /\ s = [synced |-> s.synced, begun |-> s.begun, at |-> s.at, local |-> s.local,
                 offset |-> s.offset, ref |-> s.ref, refAt |-> s.refAt, skew |-> s.skew,
                 minRtt |-> s.minRtt, age |-> s.age, count |-> s.count]
  BY DEF SyncType

LEMMA DriftIs ==
  ASSUME NEW s \in SyncType, NEW ping \in Nat
  PROVE  SinceRef(s, ping) \in Nat /\ Drift(s, ping) \in Int
<1>1. ping - s.refAt \in Int /\ s.skew \in Int BY RecordOfSync
<1>2. SinceRef(s, ping) \in Nat
  <2> DEFINE d == ping - s.refAt
  <2> HIDE DEF d
  <2>1. d \in Int BY <1>1 DEF d
  <2>2. d % TickWrap \in Nat BY <2>1, TimeConstants, SMT
  <2> QED BY <2>2 DEF SinceRef, d
<1>3. s.skew * SinceRef(s, ping) \in Int BY <1>1, <1>2
<1> QED BY <1>2, <1>3, TimeConstants, SignedQuotient DEF Drift

(* The skew after a sample of the clock the reference is of.               *)
LEMMA SkewedSteady ==
  ASSUME NEW s \in SyncType, NEW sample \in Int, NEW since \in Nat, NEW theirClock \in Int,
         Good(sample, theirClock), Sound(s, theirClock)
  PROVE  Steady(Skewed(s, sample, since))
<1>1. s.skew \in Int /\ s.ref \in Int /\ Steady(s.skew) BY RecordOfSync DEF Sound
<1>2. CASE ~(since >= Second) BY <1>1, <1>2 DEF Skewed
<1>3. CASE since >= Second
  <2> DEFINE y == Measured(s, sample, since)
  <2>1. sample - s.ref \in Int /\ Magnitude(sample - s.ref) <= Longest - 1
    BY <1>1, TimeConstants DEF Sound, Good, Magnitude
  <2>2. y \in Int /\ Steady(y) BY <1>3, <2>1, MeasuredSteady DEF Measured
  <2>3. Skewed(s, sample, since) = s.skew + Quotient(y - s.skew, 4) BY <1>3 DEF Skewed
  <2> HIDE DEF y
  <2> QED BY <1>1, <2>2, <2>3, BetweenSteady
<1> QED BY <1>2, <1>3

LEMMA SkewedIsInt ==
  ASSUME NEW s \in SyncType, NEW sample \in Int, NEW since \in Nat
  PROVE  Skewed(s, sample, since) \in Int
<1>1. s.skew \in Int /\ (sample - s.ref) * Billion \in Int BY RecordOfSync, TimeConstants
<1>2. CASE since >= Second
  <2>1. since \in Nat \ {0} BY <1>2, TimeConstants
  <2>2. Measured(s, sample, since) \in Int BY <1>1, <2>1, SignedQuotient DEF Measured
  <2>3. Measured(s, sample, since) - s.skew \in Int /\ 4 \in Nat \ {0} BY <1>1, <2>2
  <2>4. Quotient(Measured(s, sample, since) - s.skew, 4) \in Int BY <2>3, SignedQuotient
  <2> QED BY <1>1, <1>2, <2>4 DEF Skewed
<1> QED BY <1>1, <1>2 DEF Skewed

(* What a sample makes of any estimate, and that it is sound if it replaces *)
(* the estimate or if the estimate is sound for the same clock.            *)
LEMMA UpdatedSound ==
  ASSUME NEW s \in SyncType, NEW sample \in Int, NEW ping \in Nat, now \in Nat,
         ~s.begun => s.skew = 0
  PROVE  LET u == Updated(s, sample, ping)
         IN  /\ u \in SyncType /\ u.begun /\ u.minRtt = s.minRtt /\ u.local = ping
             /\ \A theirClock \in Int :
                  /\ Good(sample, theirClock)
                  /\ ~s.begun \/ Jumped(s, sample, ping) \/ Sound(s, theirClock)
                  => Sound(u, theirClock)
<1> DEFINE since == SinceRef(s, ping)
           jumped == s.begun /\ Jumped(s, sample, ping)
           taken == ~s.begun \/ jumped
           newRef == taken \/ since > RefRefresh
           offset == IF taken THEN sample ELSE Filtered(s, sample)
           ref == IF newRef THEN sample ELSE s.ref
           refAt == IF newRef THEN ping ELSE s.refAt
           skew == IF jumped THEN 0 ELSE IF taken THEN s.skew ELSE Skewed(s, sample, since)
           count == IF jumped THEN s.count
                    ELSE IF taken THEN 0 ELSE Smaller(s.count + 1, WarmUp)
           u == Updated(s, sample, ping)
<1>1. u = [synced |-> TRUE, begun |-> TRUE, at |-> now, local |-> ping, offset |-> offset,
           ref |-> ref, refAt |-> refAt, skew |-> skew, count |-> count,
           minRtt |-> s.minRtt, age |-> s.age]
  BY DEF Updated
<1>2. /\ offset \in Int /\ ref \in Int /\ refAt \in Nat /\ skew \in Int /\ count \in Int
  <2>1. since \in Nat /\ s.ref \in Int /\ s.refAt \in Nat /\ s.skew \in Int
        /\ s.count \in Int /\ s.count + 1 \in Int /\ WarmUp \in Int
    BY DriftIs, RecordOfSync, TimeSyncAssumption
  <2>2. Filtered(s, sample) \in Int /\ Skewed(s, sample, since) \in Int
    BY <2>1, FilteredIsInt, SkewedIsInt
  <2>3. Smaller(s.count + 1, WarmUp) \in Int BY <2>1 DEF Smaller
  <2>4. offset \in Int /\ ref \in Int BY <2>1, <2>2
  <2>5. refAt \in Nat BY <2>1
  <2>6. skew \in Int BY <2>1, <2>2
  <2>7. count \in Int BY <2>1, <2>3
  <2> QED BY <2>4, <2>5, <2>6, <2>7
<1>3. ASSUME NEW theirClock \in Int, Good(sample, theirClock),
             taken \/ Sound(s, theirClock)
      PROVE  Good(offset, theirClock) /\ Good(ref, theirClock) /\ Steady(skew)
  <2>1. Steady(0)
    <3>1. (Longest - 1) * Billion \in Nat /\ 0 * Second = 0 BY TimeConstants
    <3> QED BY <3>1 DEF Steady, Magnitude
  <2>2. CASE taken BY <1>3, <2>1, <2>2
  <2>3. CASE ~taken
    <3>1. since \in Nat /\ Sound(s, theirClock) BY <1>3, <2>3, DriftIs
    <3>2. Good(Filtered(s, sample), theirClock) BY <1>3, <3>1, FilteredGood DEF Sound
    <3>3. Steady(Skewed(s, sample, since)) BY <1>3, <3>1, SkewedSteady
    <3>4. Good(ref, theirClock) BY <1>3, <3>1 DEF Sound
    <3> QED BY <2>3, <3>2, <3>3, <3>4
  <2> QED BY <2>2, <2>3
<1>4. taken <=> ~s.begun \/ Jumped(s, sample, ping) OBVIOUS
<1> HIDE DEF taken, offset, ref, refAt, skew, count, u
<1>5. u \in SyncType BY <1>1, <1>2, RecordOfSync DEF SyncType
<1>6. /\ u.begun /\ u.minRtt = s.minRtt /\ u.local = ping
      /\ u.offset = offset /\ u.ref = ref /\ u.skew = skew
  BY <1>1
<1>7. ASSUME NEW theirClock \in Int, Good(sample, theirClock),
             ~s.begun \/ Jumped(s, sample, ping) \/ Sound(s, theirClock)
      PROVE  Sound(u, theirClock)
  BY <1>3, <1>4, <1>6, <1>7 DEF Sound
<1> QED BY <1>5, <1>6, <1>7 DEF u

LEMMA AgedFacts ==
  ASSUME NEW s \in SyncType, s.minRtt \in 1 .. Bigger(FirstMinRtt, MinRttCeiling),
         NEW rtt \in Int
  PROVE  LET a == Aged(s, rtt)
         IN  /\ a \in SyncType /\ a.minRtt \in 1 .. Bigger(FirstMinRtt, MinRttCeiling)
             /\ SameEstimate(a, s)
<1>1. s.minRtt \in Nat /\ s.age \in Int BY RecordOfSync
<1>2. \E m \in 1 .. Bigger(FirstMinRtt, MinRttCeiling), g \in Int :
        Aged(s, rtt) = [s EXCEPT !.minRtt = m, !.age = g]
  <2>1. CASE rtt > 0 /\ rtt <= s.minRtt
    <3>1. rtt \in 1 .. Bigger(FirstMinRtt, MinRttCeiling)
      BY <2>1, TimeConstants DEF Bigger
    <3>2. Aged(s, rtt) = [s EXCEPT !.minRtt = rtt, !.age = 0] BY <2>1 DEF Aged
    <3>3. 0 \in Int OBVIOUS
    <3> QED BY <3>1, <3>2, <3>3, Zenon
  <2>2. CASE ~(rtt > 0 /\ rtt <= s.minRtt) /\ s.age + 1 >= MinRttAgeLimit
             /\ s.minRtt < MinRttCeiling
    <3>1. s.minRtt + 1 \in 1 .. Bigger(FirstMinRtt, MinRttCeiling)
      BY <1>1, <2>2, TimeConstants DEF Bigger
    <3>2. Aged(s, rtt) = [s EXCEPT !.minRtt = s.minRtt + 1, !.age = 0] BY <2>2 DEF Aged
    <3>3. 0 \in Int OBVIOUS
    <3> QED BY <3>1, <3>2, <3>3, Zenon
  <2>3. CASE ~(rtt > 0 /\ rtt <= s.minRtt)
             /\ ~(s.age + 1 >= MinRttAgeLimit /\ s.minRtt < MinRttCeiling)
    <3> DEFINE g == Smaller(s.age + 1, MinRttAgeLimit)
    <3>1. g \in Int BY <1>1, TimeSyncAssumption DEF Smaller
    <3>2. Aged(s, rtt) = [s EXCEPT !.age = g] BY <2>3 DEF Aged
    <3> HIDE DEF g
    <3>3. [s EXCEPT !.age = g] = [s EXCEPT !.minRtt = s.minRtt, !.age = g] BY RecordOfSync
    <3> QED BY <3>1, <3>2, <3>3
  <2> QED BY <2>1, <2>2, <2>3
<1>3. PICK m \in 1 .. Bigger(FirstMinRtt, MinRttCeiling), g \in Int :
        Aged(s, rtt) = [s EXCEPT !.minRtt = m, !.age = g]
  BY <1>2
<1>4. Aged(s, rtt) = [synced |-> s.synced, begun |-> s.begun, at |-> s.at,
                      local |-> s.local, offset |-> s.offset, ref |-> s.ref,
                      refAt |-> s.refAt, skew |-> s.skew, minRtt |-> m, age |-> g,
                      count |-> s.count]
  BY <1>3 DEF SyncType
<1>5. m \in Nat BY TimeConstants DEF Bigger
<1>6. Aged(s, rtt) \in SyncType BY <1>4, <1>5, RecordOfSync DEF SyncType
<1>7. SameEstimate(Aged(s, rtt), s) /\ Aged(s, rtt).minRtt = m BY <1>4 DEF SameEstimate
<1> QED BY <1>6, <1>7

(* A round trip that is accepted is shorter than the longest.              *)
LEMMA AcceptedIsShort ==
  ASSUME NEW rtt \in Int, NEW m \in 1 .. Bigger(FirstMinRtt, MinRttCeiling),
         Accepted(rtt, m)
  PROVE  rtt < Longest
<1> DEFINE b == Bigger(FirstMinRtt, MinRttCeiling)
           d == b - m
<1>1. b \in Nat /\ m \in Nat /\ m <= b BY TimeConstants DEF Bigger
<1> HIDE DEF b
<1>2. d \in Nat /\ b = m + d BY <1>1
<1> HIDE DEF d
<1>3. RttFactor * b = RttFactor * m + RttFactor * d /\ RttFactor * d \in Nat
      /\ RttFactor * m \in Nat
  BY <1>1, <1>2, TimeConstants
<1>4. RttFactor * m <= RttFactor * b BY <1>3
<1>5. RttFactor * b \in Nat /\ RttFloor \in Nat BY <1>1, TimeConstants
<1>6. Longest = Bigger(RttFactor * b, RttFloor) BY DEF Longest, Threshold, b
<1>7. rtt < Bigger(RttFactor * m, RttFloor) BY DEF Accepted, Threshold
<1> QED BY <1>3, <1>4, <1>5, <1>6, <1>7 DEF Bigger

LEMMA TimeFirst == TimeInit => TimeInv
<1> SUFFICES ASSUME TimeInit PROVE TimeInv OBVIOUS
<1>1. /\ Unsynced \in SyncType /\ ~Unsynced.synced /\ ~Unsynced.begun
      /\ Unsynced.local = 0 /\ Unsynced.skew = 0
  BY TimeConstants DEF Unsynced, SyncType
<1>2. Unsynced.minRtt \in 1 .. Bigger(FirstMinRtt, MinRttCeiling)
  BY TimeConstants DEF Unsynced, Bigger
<1>3. 0 \in Entries BY TimeConstants DEF Entries
<1>4. /\ history.idx \in Entries /\ DOMAIN history.entry = Entries
      /\ history = [idx |-> history.idx, entry |-> history.entry]
      /\ \A i \in Entries : history.entry[i] = [ctr |-> 0, ticks |-> 0]
  BY <1>3 DEF TimeInit
<1>5. /\ now = 1 /\ ahead = 2 * Jump /\ sender = [pings |-> 0, stamping |-> FALSE]
      /\ air = [pings |-> {}, answers |-> {}] /\ pong = NoPong /\ sync = Unsynced
      /\ moved = "no"
  BY DEF TimeInit
<1>6. /\ history.idx \in Entries /\ DOMAIN history.entry = Entries
      /\ \A i \in Entries :
           /\ history.entry[i] = [ctr |-> history.entry[i].ctr, ticks |-> history.entry[i].ticks]
           /\ history.entry[i].ticks \in Nat /\ history.entry[i].ticks <= now
  BY <1>4, <1>5
<1>7. /\ now \in Nat /\ ahead \in {0, 2 * Jump} /\ sender.stamping \in BOOLEAN
      /\ sender = [pings |-> sender.pings, stamping |-> sender.stamping]
      /\ air = [pings |-> air.pings, answers |-> air.answers] /\ air.answers = {}
  BY <1>5
<1>8. /\ sync \in SyncType /\ ~sync.synced /\ ~sync.begun /\ sync.local <= now /\ sync.skew = 0
      /\ sync.minRtt \in 1 .. Bigger(FirstMinRtt, MinRttCeiling)
  BY <1>1, <1>2, <1>5
<1> QED BY <1>4, <1>5, <1>6, <1>7, <1>8 DEF TimeInv

LEMMA QueuePingKeeps == TimeInv /\ QueuePing => TimeInv'
<1> SUFFICES ASSUME TimeInv, QueuePing PROVE TimeInv' OBVIOUS
<1> DEFINE c == sender.pings % Counters
<1>1. /\ history' = [history EXCEPT !.entry[history.idx].ctr = c]
      /\ air' = [pings |-> air.pings \cup {c}, answers |-> {a \in air.answers : a.ctr # c}]
      /\ pong.ctr # c /\ sender' = [pings |-> sender.pings + 1, stamping |-> TRUE]
      /\ UNCHANGED <<now, ahead, pong, sync, moved>>
  BY DEF QueuePing
<1> HIDE DEF c
<1>2. /\ history.idx \in Entries /\ DOMAIN history.entry = Entries
      /\ history = [idx |-> history.idx, entry |-> history.entry]
      /\ history.entry[history.idx] = [ctr |-> history.entry[history.idx].ctr,
                                       ticks |-> history.entry[history.idx].ticks]
  BY DEF TimeInv
<1>3. history' = [idx |-> history.idx, entry |-> [history.entry EXCEPT
                    ![history.idx] = [ctr |-> c, ticks |-> @.ticks]]]
  BY <1>1, <1>2
<1>4. /\ history'.idx = history.idx /\ DOMAIN history'.entry = Entries
      /\ history'.entry[history.idx] = [ctr |-> c, ticks |-> history.entry[history.idx].ticks]
      /\ \A i \in Entries \ {history.idx} : history'.entry[i] = history.entry[i]
  BY <1>2, <1>3
<1>5. \A i \in Entries :
        /\ history'.entry[i] = [ctr |-> history'.entry[i].ctr, ticks |-> history'.entry[i].ticks]
        /\ history'.entry[i].ticks = history.entry[i].ticks
  BY <1>2, <1>4 DEF TimeInv
<1>6. ASSUME NEW ctr, NEW heard, ctr # c, HeardAt(ctr, heard) PROVE HeardAt(ctr, heard)'
  BY <1>1, <1>2, <1>4, <1>5, <1>6 DEF HeardAt
<1>7. \A a \in air'.answers : a.theirs \in Int /\ HeardAt(a.ctr, a.theirs - ahead)'
  BY <1>1, <1>6 DEF TimeInv
<1>8. pong # NoPong =>
        /\ HeardAt(pong.ctr, pong.theirs - ahead)
             => HeardAt(pong.ctr, pong.theirs - ahead)'
        /\ HeardAt(pong.ctr, pong.theirs - 2 * Jump)
             => HeardAt(pong.ctr, pong.theirs - 2 * Jump)'
  BY <1>1, <1>6
<1> QED BY <1>1, <1>2, <1>3, <1>4, <1>5, <1>7, <1>8 DEF TimeInv, Clock, Sound

LEMMA StampPingKeeps == TimeInv /\ StampPing => TimeInv'
<1> SUFFICES ASSUME TimeInv, StampPing PROVE TimeInv' OBVIOUS
<1>1. /\ sender.stamping /\ sender' = [sender EXCEPT !.stamping = FALSE]
      /\ history' = [idx |-> (history.idx + 1) % HistorySize,
                     entry |-> [history.entry EXCEPT ![history.idx].ticks = now]]
      /\ UNCHANGED <<now, ahead, air, pong, sync, moved>>
  BY DEF StampPing
<1>2. /\ history.idx \in Entries /\ DOMAIN history.entry = Entries /\ now \in Nat
      /\ history.entry[history.idx] = [ctr |-> history.entry[history.idx].ctr,
                                       ticks |-> history.entry[history.idx].ticks]
  BY DEF TimeInv
<1>3. sender' = [pings |-> sender.pings, stamping |-> FALSE] BY <1>1 DEF TimeInv
<1>4. /\ history'.idx = (history.idx + 1) % HistorySize /\ DOMAIN history'.entry = Entries
      /\ history'.entry[history.idx] = [ctr |-> history.entry[history.idx].ctr, ticks |-> now]
      /\ \A i \in Entries \ {history.idx} : history'.entry[i] = history.entry[i]
  BY <1>1, <1>2
<1>5. history'.idx \in Entries BY <1>2, <1>4, TimeConstants DEF Entries
<1>6. \A i \in Entries :
        /\ history'.entry[i] = [ctr |-> history'.entry[i].ctr, ticks |-> history'.entry[i].ticks]
        /\ history'.entry[i].ticks \in Nat /\ history'.entry[i].ticks <= now
  BY <1>2, <1>4 DEF TimeInv
<1>7. ASSUME NEW ctr, NEW heard, HeardAt(ctr, heard) PROVE HeardAt(ctr, heard)'
  BY <1>1, <1>2, <1>3, <1>4, <1>7 DEF HeardAt
<1>8. \A a \in air'.answers : a.theirs \in Int /\ HeardAt(a.ctr, a.theirs - ahead)'
  BY <1>1, <1>7 DEF TimeInv
<1>9. /\ HeardAt(pong.ctr, pong.theirs - ahead) => HeardAt(pong.ctr, pong.theirs - ahead)'
      /\ HeardAt(pong.ctr, pong.theirs - 2 * Jump)
           => HeardAt(pong.ctr, pong.theirs - 2 * Jump)'
  BY <1>1, <1>7
<1>10. history' = [idx |-> history'.idx, entry |-> history'.entry] BY <1>1
<1>11. /\ sender'.stamping \in BOOLEAN
       /\ sender' = [pings |-> sender'.pings, stamping |-> sender'.stamping]
  BY <1>3
<1> QED BY <1>1, <1>4, <1>5, <1>6, <1>8, <1>9, <1>10, <1>11 DEF TimeInv, Clock, Sound

(* The steps that leave the records of the PINGs alone.                    *)
LEMMA OtherTimeStepsKeep ==
  TimeInv /\ (\/ Tick \/ PingHeard \/ PingLost \/ ReceiverRestarts \/ PongReceived
              \/ AckReceived \/ SyncTimedOut \/ ClearSync) => TimeInv'
<1> SUFFICES ASSUME TimeInv PROVE (\/ Tick \/ PingHeard \/ PingLost \/ ReceiverRestarts
        \/ PongReceived \/ AckReceived \/ SyncTimedOut \/ ClearSync) => TimeInv'
  OBVIOUS
<1>1. CASE Tick
  <2>1. ASSUME NEW ctr, NEW heard, HeardAt(ctr, heard) PROVE HeardAt(ctr, heard)'
    BY <1>1, <2>1 DEF Tick, HeardAt, TimeInv
  <2>2. \A a \in air'.answers : a.theirs \in Int /\ HeardAt(a.ctr, a.theirs - ahead)'
    BY <1>1, <2>1 DEF Tick, TimeInv
  <2>3. /\ HeardAt(pong.ctr, pong.theirs - ahead) => HeardAt(pong.ctr, pong.theirs - ahead)'
        /\ HeardAt(pong.ctr, pong.theirs - 2 * Jump)
             => HeardAt(pong.ctr, pong.theirs - 2 * Jump)'
    BY <1>1, <2>1 DEF Tick
  <2>4. /\ UNCHANGED <<ahead, sender, history, air, pong, sync, moved>>
        /\ now' \in Nat /\ now <= now'
    BY <1>1 DEF Tick, TimeInv
  <2>5. sync'.local <= now' BY <2>4, RecordOfSync DEF TimeInv
  <2>6. pong # NoPong => pong'.ours <= now' BY <2>4 DEF TimeInv
  <2>7. \A i \in Entries : history'.entry[i].ticks <= now'
    <3>1. \A i \in Entries : history.entry[i].ticks \in Nat /\ history.entry[i].ticks <= now
      BY DEF TimeInv
    <3>2. now \in Nat /\ history' = history BY <2>4 DEF TimeInv
    <3> QED BY <2>4, <3>1, <3>2
  <2> QED BY <2>2, <2>3, <2>4, <2>5, <2>6, <2>7 DEF TimeInv, Clock, Sound
<1>2. CASE PingHeard
  <2>1. PICK c \in air.pings :
          air' = [pings |-> air.pings \ {c},
                  answers |-> air.answers \cup {[ctr |-> c, theirs |-> now + ahead]}]
    BY <1>2 DEF PingHeard
  <2>2. UNCHANGED <<now, ahead, sender, history, pong, sync, moved>> BY <1>2 DEF PingHeard
  <2>3. now \in Nat /\ ahead \in Int /\ (now + ahead) - ahead = now
    BY TimeConstants DEF TimeInv
  <2>4. HeardAt(c, now)
    <3>1. now \in Int /\ now <= now BY <2>3
    <3>2. \A i \in Entries : history.entry[i].ticks <= now BY DEF TimeInv
    <3> QED BY <3>1, <3>2 DEF HeardAt
  <2>5. \A a \in air'.answers : a.theirs \in Int /\ HeardAt(a.ctr, a.theirs - ahead)
    BY <2>1, <2>3, <2>4 DEF TimeInv
  <2>6. \A a \in air'.answers : a.theirs \in Int /\ HeardAt(a.ctr, a.theirs - ahead)'
    BY <2>2, <2>5 DEF HeardAt
  <2> QED BY <2>1, <2>2, <2>6 DEF TimeInv, Clock, HeardAt, Sound
<1>3. CASE PingLost
  <2>1. air' = [pings |-> air'.pings, answers |-> air.answers]
        /\ UNCHANGED <<now, ahead, sender, history, pong, sync, moved>>
    BY <1>3 DEF PingLost, TimeInv
  <2> QED BY <2>1 DEF TimeInv, Clock, HeardAt, Sound
<1>4. CASE ReceiverRestarts
  <2>1. /\ air' = [pings |-> air.pings, answers |-> {}] /\ ahead = 2 * Jump
        /\ ahead' = 0 /\ moved' = "yes" /\ moved = "no"
        /\ UNCHANGED <<now, sender, history, pong, sync>>
    BY <1>4, TimeConstants DEF ReceiverRestarts, TimeInv
  <2>2. HeardAt(pong.ctr, pong.theirs - ahead) => HeardAt(pong.ctr, pong.theirs - 2 * Jump)'
    BY <2>1, TimeConstants DEF HeardAt
  <2> QED BY <2>1, <2>2, TimeConstants DEF TimeInv, Clock, Sound
<1>5. CASE PongReceived
  <2>1. PICK a \in air.answers :
          /\ air' = [air EXCEPT !.answers = air.answers \ {a}]
          /\ pong' = [ctr |-> a.ctr, theirs |-> a.theirs, ours |-> now]
    BY <1>5 DEF PongReceived
  <2>2. /\ air' = [pings |-> air.pings, answers |-> air.answers \ {a}]
        /\ UNCHANGED <<now, ahead, sender, history, sync, moved>>
    BY <1>5, <2>1 DEF PongReceived, TimeInv
  <2>3. a.theirs \in Int /\ HeardAt(a.ctr, a.theirs - ahead) BY DEF TimeInv
  <2>4. HeardAt(pong'.ctr, pong'.theirs - ahead) /\ pong'.theirs - ahead <= now
    BY <2>1, <2>3 DEF HeardAt
  <2>5. HeardAt(pong.ctr, pong.theirs - ahead)'
    BY <2>2, <2>4 DEF HeardAt
  <2>6. \A b \in air'.answers : b.theirs \in Int /\ HeardAt(b.ctr, b.theirs - ahead)'
    BY <2>2 DEF TimeInv, HeardAt
  <2>7. air' = [pings |-> air'.pings, answers |-> air'.answers] BY <2>2
  <2>8. /\ pong' = [ctr |-> pong'.ctr, theirs |-> pong'.theirs, ours |-> pong'.ours]
        /\ pong'.theirs \in Int /\ pong'.ours \in Int /\ pong'.ours <= now
        /\ pong'.ours = now
    BY <2>1, <2>3 DEF TimeInv
  <2> QED BY <2>2, <2>4, <2>5, <2>6, <2>7, <2>8 DEF TimeInv, Clock, Sound
<1>6. CASE AckReceived
  <2>1. /\ pong # NoPong /\ pong' = [pong EXCEPT !.ours = now]
        /\ UNCHANGED <<now, ahead, sender, history, air, sync, moved>>
    BY <1>6 DEF AckReceived
  <2>2. pong' = [ctr |-> pong.ctr, theirs |-> pong.theirs, ours |-> now]
    BY <2>1 DEF TimeInv
  <2>3. \/ HeardAt(pong.ctr, pong.theirs - ahead)
        \/ moved # "no" /\ HeardAt(pong.ctr, pong.theirs - 2 * Jump)
    BY <2>1 DEF TimeInv
  <2>4. \/ HeardAt(pong.ctr, pong.theirs - ahead)' /\ pong.theirs - ahead <= now
        \/ moved # "no" /\ HeardAt(pong.ctr, pong.theirs - 2 * Jump)'
             /\ pong.theirs - 2 * Jump <= now
    BY <2>1, <2>2, <2>3 DEF HeardAt
  <2> QED BY <2>1, <2>2, <2>4 DEF TimeInv, Clock, HeardAt, Sound
<1>7. CASE SyncTimedOut
  <2>1. sync' = [synced |-> FALSE, begun |-> sync.begun, at |-> sync.at,
                 local |-> sync.local, offset |-> sync.offset, ref |-> sync.ref,
                 refAt |-> sync.refAt, skew |-> sync.skew, minRtt |-> sync.minRtt,
                 age |-> sync.age, count |-> sync.count]
    BY <1>7 DEF SyncTimedOut, TimeInv, SyncType
  <2>2. sync' \in SyncType /\ ~sync'.synced BY <2>1, RecordOfSync DEF TimeInv, SyncType
  <2>3. UNCHANGED <<now, ahead, sender, history, air, pong, moved>> BY <1>7 DEF SyncTimedOut
  <2>4. Clock' = Clock BY <2>3 DEF Clock
  <2>5. sync'.begun /\ moved' # "missed" => Sound(sync', Clock')
    BY <2>1, <2>3, <2>4 DEF TimeInv, Sound
  <2> QED BY <2>1, <2>2, <2>3, <2>5 DEF TimeInv, HeardAt
<1>8. CASE ClearSync
  <2>1. sync' = [synced |-> FALSE, begun |-> FALSE, at |-> 0, local |-> 0, offset |-> 0,
                 ref |-> 0, refAt |-> 0, skew |-> 0, minRtt |-> FirstMinRtt,
                 age |-> sync.age, count |-> 0]
    BY <1>8 DEF ClearSync, Unsynced
  <2>2. /\ sync' \in SyncType /\ ~sync'.synced /\ ~sync'.begun
        /\ sync'.minRtt \in 1 .. Bigger(FirstMinRtt, MinRttCeiling)
        /\ sync'.local = 0 /\ sync'.skew = 0
    BY <2>1, TimeConstants, RecordOfSync DEF TimeInv, SyncType, Bigger
  <2>3. UNCHANGED <<now, ahead, sender, history, air, pong, moved>> BY <1>8 DEF ClearSync
  <2> QED BY <2>2, <2>3 DEF TimeInv, HeardAt
<1> QED BY <1>1, <1>2, <1>3, <1>4, <1>5, <1>6, <1>7, <1>8

(* A PONG taken into account is a good sample of the clock it came from.   *)
LEMMA HandlePongKeeps == TimeInv /\ HandlePong => TimeInv'
<1> SUFFICES ASSUME TimeInv, HandlePong PROVE TimeInv' OBVIOUS
<1>1. /\ pong # NoPong /\ pong' = NoPong
      /\ UNCHANGED <<now, ahead, sender, history, air>>
  BY DEF HandlePong
<1>2. /\ pong.theirs \in Int /\ pong.ours \in Int /\ now \in Nat
      /\ ahead \in {0, 2 * Jump} /\ moved \in {"no", "yes", "missed"}
      /\ (moved # "no" => ahead = 0)
      /\ sync \in SyncType /\ (sync.synced => sync.begun) /\ sync.local <= now
      /\ sync.minRtt \in 1 .. Bigger(FirstMinRtt, MinRttCeiling)
      /\ ~sync.begun => sync.skew = 0
      /\ sync.begun /\ moved # "missed" => Sound(sync, Clock)
  BY <1>1 DEF TimeInv
<1>3. SUFFICES
        /\ sync' \in SyncType /\ (sync'.synced => sync'.begun) /\ sync'.local <= now
        /\ sync'.minRtt \in 1 .. Bigger(FirstMinRtt, MinRttCeiling)
        /\ moved' \in {"no", "yes", "missed"} /\ (moved' # "no" => ahead = 0)
        /\ ~sync'.begun => sync'.skew = 0
        /\ sync'.begun /\ moved' # "missed" => Sound(sync', Clock')
  BY <1>1 DEF TimeInv, HeardAt
<1>4. CASE Matching = {}
  BY <1>1, <1>2, <1>4 DEF HandlePong, Clock
<1>5. CASE Matching # {}
  <2>1. PICK i \in Matching :
          LET ping == history.entry[i].ticks
              sample == pong.theirs - pong.ours
              s == Aged(sync, pong.ours - ping)
          IN IF Accepted(pong.ours - ping, s.minRtt)
             THEN sync' = Updated(s, sample, ping) /\ moved' = Noticed(s, sample, ping)
             ELSE sync' = s /\ UNCHANGED moved
    BY <1>5 DEF HandlePong
  <2> DEFINE ping == history.entry[i].ticks
             rtt == pong.ours - ping
             sample == pong.theirs - pong.ours
             s == Aged(sync, rtt)
  <2>2. i \in Entries /\ history.entry[i].ctr = pong.ctr BY DEF Matching
  <2>3. ping \in Nat /\ ping <= now BY <2>2 DEF TimeInv
  <2>4. rtt \in Int /\ sample \in Int BY <1>2, <2>3
  <2>5. /\ s \in SyncType /\ s.minRtt \in 1 .. Bigger(FirstMinRtt, MinRttCeiling)
        /\ SameEstimate(s, sync)
    BY <1>2, <2>4, AgedFacts
  <2>6. CASE ~Accepted(rtt, s.minRtt)
    <3>1. sync' = s /\ moved' = moved /\ Clock' = Clock BY <1>1, <2>1, <2>6 DEF Clock
    <3> HIDE DEF s
    <3> QED BY <1>2, <2>5, <3>1 DEF SameEstimate, Sound
  <2>7. CASE Accepted(rtt, s.minRtt)
    <3>1. sync' = Updated(s, sample, ping) /\ moved' = Noticed(s, sample, ping)
      BY <2>1, <2>7
    <3>2. rtt < Longest BY <2>4, <2>5, <2>7, AcceptedIsShort
    <3>3. PICK theirClock \in {ahead, 2 * Jump} :
            /\ theirClock = ahead \/ moved # "no"
            /\ HeardAt(pong.ctr, pong.theirs - theirClock) /\ pong.theirs - theirClock <= pong.ours
      BY <1>1 DEF TimeInv
    <3>4. ping <= pong.theirs - theirClock BY <2>2, <3>3 DEF HeardAt
    <3>5. theirClock \in Int BY <1>2, TimeConstants
    <3> HIDE DEF s, ping
    <3>6. Good(sample, theirClock)
      BY <1>2, <2>3, <3>2, <3>3, <3>4, <3>5, TimeConstants DEF Good
    <3> HIDE DEF sample, rtt
    <3>7. /\ sync' \in SyncType /\ sync'.begun /\ sync'.minRtt = s.minRtt /\ sync'.local = ping
          /\ \/ ~s.begun \/ Jumped(s, sample, ping) \/ Sound(s, theirClock)
             => Sound(sync', theirClock)
      <4>1. ~s.begun => s.skew = 0 BY <1>2, <2>5 DEF SameEstimate
      <4> QED BY <1>2, <2>3, <2>4, <2>5, <3>1, <3>5, <3>6, <4>1, UpdatedSound
    <3>8. s.begun /\ moved # "missed" => Sound(s, Clock)
      BY <1>2, <2>5 DEF SameEstimate, Sound
    <3>9. /\ moved' \in {"no", "yes", "missed"} /\ (moved' # "no" => ahead = 0)
          /\ moved' # "missed" => Sound(sync', Clock')
      <4>1. CASE moved = "no"
        <5>1. moved' = "no" /\ theirClock = ahead /\ Clock = ahead /\ Clock' = ahead
          BY <1>1, <3>1, <3>3, <4>1 DEF Noticed, Clock
        <5> QED BY <3>7, <3>8, <4>1, <5>1
      <4>2. CASE moved # "no" /\ theirClock = 2 * Jump
        <5>1. ahead = 0 /\ sample > 2 * Jump - Longest BY <1>2, <3>6, <4>2 DEF Good
        <5>2. sample >= ahead + Jump BY <2>4, <5>1, TimeConstants
        <5>3. moved' = moved BY <3>1, <5>2 DEF Noticed
        <5>4. Clock' = 2 * Jump /\ Clock = 2 * Jump BY <4>2, <5>3 DEF Clock
        <5> QED BY <1>2, <3>7, <3>8, <4>2, <5>3, <5>4
      <4>3. CASE moved # "no" /\ theirClock = ahead
        <5>1. ahead = 0 /\ sample <= 0 /\ sample > -Longest
          BY <1>2, <2>4, <3>6, <4>3, TimeConstants DEF Good
        <5>2. ~(sample >= ahead + Jump) BY <2>4, <5>1, TimeConstants
        <5>3. \/ ~s.begun \/ Jumped(s, sample, ping)
              \/ moved = "yes" /\ Magnitude(Drift(s, ping)) <= Jump - Longest
              \/ moved' = "missed"
          BY <3>1, <4>3, <5>2 DEF Noticed
        <5>4. CASE ~s.begun \/ Jumped(s, sample, ping)
          <6>1. moved' = "no" BY <3>1, <4>3, <5>2, <5>4 DEF Noticed
          <6>2. Clock' = ahead BY <1>1, <6>1 DEF Clock
          <6> QED BY <3>7, <4>3, <5>4, <6>1, <6>2
        <5>5. CASE s.begun /\ moved = "yes" /\ Magnitude(Drift(s, ping)) <= Jump - Longest
          <6> DEFINE d == Drift(s, ping)
          <6>1. Sound(s, 2 * Jump) BY <3>8, <5>5 DEF Clock
          <6>2. d \in Int /\ s.ref \in Int BY <2>3, <2>5, DriftIs, RecordOfSync
          <6>3. Magnitude(d) <= Jump - Longest BY <5>5
          <6> HIDE DEF d
          <6>4. d >= Longest - Jump BY <6>2, <6>3, TimeConstants DEF Magnitude
          <6>5. s.ref > 2 * Jump - Longest BY <6>1 DEF Sound, Good
          <6>6. sample - (s.ref + d) < -Jump BY <2>4, <5>1, <6>2, <6>4, <6>5, TimeConstants
          <6>7. Jumped(s, sample, ping)
            BY <2>4, <6>2, <6>6, TimeConstants DEF Jumped, Magnitude, d
          <6> QED BY <5>4, <6>7
        <5>6. CASE moved' = "missed" BY <5>1, <5>6
        <5> QED BY <5>3, <5>4, <5>5, <5>6
      <4> QED BY <3>3, <4>1, <4>2, <4>3
    <3> QED BY <2>3, <2>5, <3>7, <3>9
  <2> QED BY <2>6, <2>7
<1> QED BY <1>4, <1>5

LEMMA TimeInvKept == TimeInv /\ [TimeNext]_timeVars => TimeInv'
<1> SUFFICES ASSUME TimeInv, [TimeNext]_timeVars PROVE TimeInv' OBVIOUS
<1>1. CASE UNCHANGED timeVars BY <1>1 DEF TimeInv, timeVars, Clock, HeardAt, Sound
<1>2. CASE TimeNext
  BY <1>2, QueuePingKeeps, StampPingKeeps, OtherTimeStepsKeep, HandlePongKeeps DEF TimeNext
<1> QED BY <1>1, <1>2

\* Lost, late and repeated PONGs, a receiver that restarts and a history that wraps:
\* once synchronised the estimate of the receiver's clock lags it by less than the
\* longest round trip that is accepted, and the correction since the last PONG adds less
\* than such a round trip for every second.
THEOREM EstimateIsClose == TimeSpec => []SyncError
<1>1. TimeInv => SyncError
  <2> SUFFICES ASSUME TimeInv, sync.synced, moved = "no" PROVE SyncError
    BY DEF SyncError
  <2> DEFINE w == ((Longest - 1) * Elapsed) \div Second
  <2>1. /\ Good(sync.offset, ahead) /\ Steady(sync.skew) /\ sync \in SyncType
        /\ now \in Nat /\ sync.local <= now
    BY DEF TimeInv, Sound, Clock
  <2>2. sync.skew \in Int /\ Elapsed \in Nat /\ sync.offset \in Int
    BY <2>1, RecordOfSync DEF Elapsed
  <2>3. Quotient(sync.skew * Elapsed, Billion) \in -w .. w BY <2>1, <2>2, SteadyWanders
  <2>4. w \in Nat
    <3>1. (Longest - 1) * Elapsed \in Nat BY <2>2, TimeConstants
    <3> QED BY <3>1, TimeConstants, QuotientBound
  <2> HIDE DEF w
  <2>5. InUse \in sync.offset - w .. sync.offset + w BY <2>2, <2>3, <2>4 DEF InUse
  <2> QED BY <2>1, <2>5 DEF SyncError, Good, w
<1> QED BY <1>1, TimeFirst, TimeInvKept, PTL DEF TimeSpec
=============================================================================
