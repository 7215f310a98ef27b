------------------------------- MODULE RamEngine -------------------------------
(***************************************************************************)
(* The update engine that runs from RAM (system/ota_ram_engine.inc), on    *)
(* trackers whose flash has no room to stage an image: it polls the        *)
(* receiver for data with interrupts off, writes every full page over the  *)
(* firmware in place, compares the checksum of what it wrote and waits to  *)
(* be told to activate.  It is entered once and ends in a reset.           *)
(*                                                                         *)
(* A byte of the image is its position; Old is a byte of the firmware that *)
(* is being replaced, Erased an erased one, Pad what a packet carries      *)
(* beyond the end of the image and Alien a byte of another image.          *)
(* Status packets and the PID are left out: they change nothing here.      *)
(***************************************************************************)
EXTENDS Integers, Sequences

CONSTANTS
    ImageSize,     \* params.image_size
    PageSize,      \* OTA_FLASH_PAGE_SIZE
    Pages,         \* the pages from the target to the end of the flash
    Payload,       \* data bytes of a packet
    Padded,        \* what the receiver may do with its last packet
    IdleLimit,     \* IDLE_TIMEOUT_CYCLES
    ActivateLimit  \* cycles in which the engine waits to be told to activate

ASSUME EngineAssumption ==
    /\ {ImageSize, PageSize, Pages, Payload} \subseteq Nat \ {0}
    /\ Padded \subseteq BOOLEAN /\ {IdleLimit, ActivateLimit} \subseteq Nat
    /\ (ImageSize - 1) \div PageSize + Payload <= Pages

VARIABLES
    phase,       \* "launch", "receive", "activate", "booted", "bootloader"
                 \* or "lost" (the battery gave out)
    nextSeq,     \* next_seq
    received,    \* bytes_received
    rx,          \* what is left to copy of the packet in rx_buf
    buffer,      \* page_buf up to page_buf_offset
    page,        \* page_addr
    flash,       \* the bytes from the target on
    idle,        \* idle_count
    waited       \* activate_wait

engineVars == <<phase, nextSeq, received, rx, buffer, page, flash, idle, waited>>

Bytes == 0 .. Pages * PageSize - 1
Old == -1
Erased == -2
Pad == -3
Alien == -4

EngineInit ==
    /\ phase = "launch" /\ nextSeq = 0 /\ received = 0
    /\ rx = <<>> /\ buffer = <<>> /\ page = 0 /\ idle = 0 /\ waited = 0
    /\ flash = [b \in Bytes |-> Old]

-----------------------------------------------------------------------------
(* The receiver answers a status packet with nothing that is usable, or    *)
(* with any packet of the image, of its last one cut or padded to the full *)
(* length, or of an image that another tracker is being sent.              *)

Least(m, n) == IF m < n THEN m ELSE n
Content(seq, pad) ==
    LET first == seq * Payload
        length == IF pad THEN Payload ELSE Least(Payload, ImageSize - first)
    IN [i \in 1 .. length |-> IF first + i - 1 < ImageSize THEN first + i - 1 ELSE Pad]
Packets == (ImageSize + Payload - 1) \div Payload
Answers ==
    {[seq |-> s, data |-> Content(s, p)] : s \in 0 .. Packets - 1, p \in Padded}
    \cup {[seq |-> s, data |-> [i \in 1 .. Payload |-> Alien]] : s \in 0 .. Packets - 1}

-----------------------------------------------------------------------------
\* ota_launch_ram_engine takes the radio's settings over, stops the ESB driver
\* and jumps into the copy; the engine starts the crystal and the radio.
Launch ==
    /\ phase = "launch" /\ phase' = "receive"
    /\ UNCHANGED <<nextSeq, received, rx, buffer, page, flash, idle, waited>>

InOrder_Repeats(answer) == answer.seq <= nextSeq

InOrder(answer) == answer.seq = nextSeq

Idle_AnyPacketCounts(answered, taken) == idle' = (IF answered THEN 0 ELSE idle) + 1

\* Only data in order end the wait; what else is answered counts as silence.
Idle(answered, taken) == idle' = (IF taken THEN 0 ELSE idle) + 1

Poll ==
    /\ phase = "receive" /\ rx = <<>> /\ received < ImageSize /\ idle <= IdleLimit
    /\ \/ \E answer \in Answers :
            IF InOrder(answer)
            THEN rx' = answer.data /\ nextSeq' = nextSeq + 1 /\ Idle(TRUE, TRUE)
            ELSE Idle(TRUE, FALSE) /\ UNCHANGED <<rx, nextSeq>>
       \/ Idle(FALSE, FALSE) /\ UNCHANGED <<rx, nextSeq>>
    /\ UNCHANGED <<phase, received, buffer, page, flash, waited>>

\* The page is erased and written unless it holds these bytes already.
Flushed(bytes) ==
    [b \in Bytes |-> IF b \div PageSize # page THEN flash[b]
                     ELSE IF b % PageSize < Len(bytes) THEN bytes[(b % PageSize) + 1]
                     ELSE Erased]

\* One byte is copied; a full page, or one with the last byte, is flushed.
CopyByte ==
    /\ phase = "receive" /\ rx # <<>>
    /\ rx' = Tail(rx) /\ received' = received + 1
    /\ LET bytes == Append(buffer, Head(rx)) IN
       IF Len(bytes) = PageSize \/ received' >= ImageSize
       THEN buffer' = <<>> /\ page' = page + 1 /\ flash' = Flushed(bytes)
       ELSE buffer' = bytes /\ UNCHANGED <<page, flash>>
    /\ UNCHANGED <<phase, nextSeq, idle, waited>>

TooIdle ==
    /\ phase = "receive" /\ rx = <<>> /\ received < ImageSize /\ idle > IdleLimit
    /\ phase' = "bootloader"
    /\ UNCHANGED <<nextSeq, received, rx, buffer, page, flash, idle, waited>>

HoldsImage == \A b \in 0 .. ImageSize - 1 : flash[b] = b

\* The checksum is computed over what is in the flash.
Verified == HoldsImage

Verify ==
    /\ phase = "receive" /\ rx = <<>> /\ received >= ImageSize
    /\ phase' = IF Verified THEN "activate" ELSE "bootloader"
    /\ UNCHANGED <<nextSeq, received, rx, buffer, page, flash, idle, waited>>

\* VERIFY_OK is sent until ACTIVATE is heard, or for too long.
AwaitActivate ==
    /\ phase = "activate"
    /\ \/ phase' = "booted" /\ UNCHANGED waited
       \/ waited < ActivateLimit /\ waited' = waited + 1 /\ UNCHANGED phase
       \/ waited = ActivateLimit /\ phase' = "bootloader" /\ UNCHANGED waited
    /\ UNCHANGED <<nextSeq, received, rx, buffer, page, flash, idle>>

\* The battery gives out; what the bootloader then starts is what is there.
LosePower ==
    /\ phase \in {"launch", "receive", "activate"} /\ phase' = "lost"
    /\ UNCHANGED <<nextSeq, received, rx, buffer, page, flash, idle, waited>>

Engine == Launch \/ Poll \/ CopyByte \/ TooIdle \/ Verify \/ AwaitActivate
EngineNext == Engine \/ LosePower

\* With interrupts off nothing else runs.
EngineSpec == EngineInit /\ [][EngineNext]_engineVars /\ WF_engineVars(Engine)

-----------------------------------------------------------------------------
EngineTypeOK ==
    /\ phase \in {"launch", "receive", "activate", "booted",
                  "bootloader", "lost"}
    /\ nextSeq \in 0 .. Packets /\ received \in 0 .. ImageSize + Payload
    /\ Len(buffer) < PageSize /\ page \in 0 .. Pages
    /\ idle \in 0 .. IdleLimit + 1 /\ waited \in 0 .. ActivateLimit

\* A byte that was received: in the flash once its page is written.
ByteAt(b) == IF b \div PageSize < page THEN flash[b] ELSE buffer[(b % PageSize) + 1]

\* The receiver repeats, skips, cuts and pads packets, and pages split them: at every
\* moment each byte the engine counts as received (bytes_received + data_off, line 341)
\* is at its place, in the page buffer or in the flash, unless it is of another image,
\* which the packets do not tell.  So a checksum fails only for such a byte.
InPlace ==
    \A b \in 0 .. ImageSize - 1 : b < received => ByteAt(b) \in {b, Alien}

\* The engine cannot be interrupted, so it must end by itself: whatever the
\* receiver sends or stops sending, it reaches the application or the bootloader.
EngineEnds == phase = "receive" ~> phase \in {"booted", "bootloader", "lost"}

\* "Ensure we don't write beyond image size" (esb_ota.c:440, the staged path):
\* the flash behind the image's last page keeps its content.
WritesOnlyImage ==
    \A b \in Bytes : b \div PageSize > (ImageSize - 1) \div PageSize => flash[b] = Old

\* Whenever power returns, the tracker has a firmware it can run.
AlwaysBootable ==
    phase = "lost" => HoldsImage \/ \A b \in Bytes : flash[b] = Old
=============================================================================
