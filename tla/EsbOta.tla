------------------------------- MODULE EsbOta -------------------------------
(***************************************************************************)
(* The staged OTA update of the nRF52840 tracker (system/esb_ota.c).       *)
(*                                                                         *)
(* The connection thread takes BEGIN, DATA, VERIFY and ACTIVATE packets    *)
(* off the receive queue and runs their handlers; the ESB thread executes  *)
(* a remote OTA_ABORT; the power thread performs a requested reboot; power *)
(* may fail at any time.  Which packet comes next is the environment's     *)
(* choice: the link loses, repeats and delays packets, and packets of an   *)
(* earlier session may still arrive.  The connection thread does nothing   *)
(* at all in a turn that finds the radio without a pairing.                *)
(*                                                                         *)
(* Flash is an array of words.  A word is <<tag, i>>: word i of an image,  *)
(* a word of the installed firmware ("old"), erased, or garbled by a       *)
(* program operation on a word that was not erased ("bad").                *)
(***************************************************************************)
EXTENDS Integers, Sequences

CONSTANTS
  PageSize,      \* OTA_FLASH_PAGE_SIZE, in words
  FlashBase,     \* OTA_FLASH_BASE: where the running firmware starts
  FlashEnd,      \* OTA_FLASH_END: first word after the application partition
  RunningSize,   \* words the running firmware occupies from FlashBase
  Images,        \* the images a receiver may send; stands for their CRC-32 too
  ImageSize,     \* [Images -> size in words]
  NoImage,       \* image_crc32 after memset: the CRC-32 of nothing
  Bases,         \* flash_base values BEGIN may carry (0: not given)
  MaxPayload,    \* OTA_DATA_MAX_PAYLOAD, in words
  Failures       \* flash operations that may report an error

Tags == {"old", "erased", "bad"}
ErasedWord == <<"erased", 0>>
BadWord == <<"bad", 0>>

Aligned(addr) == \E k \in 0..addr : addr = k * PageSize

ASSUME SizesAssumption ==
  /\ PageSize \in Nat \ {0}
  /\ MaxPayload \in 1..PageSize
  /\ FlashBase \in Nat /\ FlashEnd \in Nat /\ FlashBase < FlashEnd
  /\ Aligned(FlashBase) /\ Aligned(FlashEnd) /\ PageSize <= FlashBase
  /\ RunningSize \in 1..(FlashEnd - FlashBase)
  /\ Failures \subseteq {"erase", "write", "erase_next", "read"}

ASSUME ImagesAssumption ==
  /\ ImageSize \in [Images -> Nat \ {0}]
  /\ NoImage \notin Images
  /\ Images \cap Tags = {}
  /\ Bases \subseteq Nat
  /\ \A b \in Bases : Aligned(b)

VARIABLES
  flash,               \* [0..FlashEnd-1 -> word]
  settings,            \* the bootloader settings page: see NoSettings
  mode,                \* which program runs: "app" or "bootloader"
  gpregret,            \* GPREGRET asks for the UF2 bootloader
  ready,               \* esb_ready(), as the connection thread's turn found it
  state,               \* ota.state
  error_code,          \* ota.error_code
  image_size,          \* ota.image_size
  image_crc32,         \* ota.image_crc32
  next_expected_seq,   \* ota.next_expected_seq
  bytes_written,       \* ota.bytes_written
  last_page_erased,    \* ota.last_page_erased
  page_buf,            \* ota.page_buf[0 .. page_buf_offset-1]
  page_buf_flash_addr, \* ota.page_buf_flash_addr
  staging_base,        \* ota.staging_base
  target_flash_base,   \* ota.target_flash_base
  last_data_time,      \* ota.last_data_time: "zero", or set within OTA_TIMEOUT_MS or before
  prepared,            \* prepared_bl_settings, NoSettings until prepared
  conn,                \* where the connection thread is
  esb,                 \* where the ESB thread is in OTA_ABORT
  copy,                \* flash_copy_params and the words copied so far
  reboot_requested     \* a reboot waits for the power thread

session == <<state, error_code, image_size, image_crc32, next_expected_seq,
             bytes_written, last_page_erased, page_buf, page_buf_flash_addr,
             staging_base, target_flash_base, last_data_time>>
persistent == <<flash, settings, gpregret>>
vars == <<persistent, mode, ready, session, prepared, conn, esb, copy, reboot_requested>>

States == {"IDLE", "READY", "RECEIVING", "VERIFYING", "ACTIVATING", "COMPLETE", "ERROR"}
ErrorCodes == {"NONE", "VERIFY_OK", "VERIFY_FAIL", "ERROR", "BOARD_MISMATCH",
               "FLASH_ERROR", "SIZE_ERROR", "TIMEOUT"}
Rejections == {"ERROR", "BOARD_MISMATCH", "SIZE_ERROR", "FLASH_ERROR"}

Words == (Images \X Nat) \cup ({"old"} \X Nat) \cup {ErasedWord, BadWord}
Region(base, size) == base .. (base + size - 1)

(* struct bootloader_settings: "check" is "none" on a page that marks no   *)
(* application valid, "crc" when the bootloader is to compare bank_0_crc,  *)
(* "skip" when bank_0_crc is 0.                                            *)
NoSettings == [check |-> "none", size |-> 0, crc |-> <<>>]
Unchecked(size) == [check |-> "skip", size |-> size, crc |-> <<>>]
NoCopy == [src |-> 0, dst |-> 0, size |-> 0, settings |-> NoSettings, done |-> 0]

-----------------------------------------------------------------------------
(* Flash operations.  Erasing and programming work on the array f; a       *)
(* program operation can only clear bits, so a word that is neither erased *)
(* nor already equal ends up garbled.                                      *)

Program(old, new) == IF old = ErasedWord \/ old = new THEN new ELSE BadWord

EraseAt(f, addr) ==
  [a \in DOMAIN f |-> IF a \in Region(addr, PageSize) THEN ErasedWord ELSE f[a]]

WriteAt(f, addr, ws) ==
  [a \in DOMAIN f |-> IF a \in Region(addr, Len(ws))
                      THEN Program(f[a], ws[a - addr + 1]) ELSE f[a]]

(* What ota_compute_crc16_nordic and ota_compute_crc32 stand for: the      *)
(* contents of a region, and whether they are those of the image announced.*)
Contents(f, base, size) == [i \in 1..size |-> f[base + i - 1]]
HoldsImage(f, base, img) ==
  \A i \in 0..(ImageSize[img] - 1) : f[base + i] = <<img, i>>
CrcMatches(f, base, size, crc) ==
  IF crc = NoImage THEN size = 0
  ELSE size = ImageSize[crc] /\ HoldsImage(f, base, crc)

PagesOf(size) == (size + PageSize - 1) \div PageSize

(* ota_flush_page_buf: erase the page unless the previous flush already    *)
(* did, program it, and erase the next page of the staging area ahead.     *)
(* "failed" is the set of flash operations that report an error: the code  *)
(* logs the error and goes on.                                             *)
Flush(st, failed) ==
  LET erase_now == st.addr > st.erased
      f1 == IF erase_now /\ "erase" \notin failed THEN EraseAt(st.flash, st.addr) ELSE st.flash
      f2 == IF "write" \in failed THEN f1 ELSE WriteAt(f1, st.addr, st.buf)
      next_page == st.addr + PageSize
      ahead == next_page < staging_base + image_size
  IN  [flash |-> IF ahead /\ "erase_next" \notin failed THEN EraseAt(f2, next_page) ELSE f2,
       addr |-> next_page,
       buf |-> <<>>,
       erased |-> IF ahead THEN next_page ELSE IF erase_now THEN st.addr ELSE st.erased]

-----------------------------------------------------------------------------
OldFirmware == [a \in 0..(FlashEnd - 1) |-> <<"old", a>>]

(* The state the C runtime gives the statics at boot.                      *)
ResetSession ==
  /\ state' = "IDLE" /\ error_code' = "NONE"
  /\ image_size' = 0 /\ image_crc32' = NoImage
  /\ next_expected_seq' = 0 /\ bytes_written' = 0
  /\ last_page_erased' = 0 /\ page_buf' = <<>> /\ page_buf_flash_addr' = 0
  /\ staging_base' = 0 /\ target_flash_base' = 0 /\ last_data_time' = "zero"

(* What the page may say of the firmware that runs: an earlier update left *)
(* its checksum, or the bootloader installed it and left none.             *)
OldSettings ==
  [check |-> "crc", size |-> RunningSize, crc |-> Contents(OldFirmware, FlashBase, RunningSize)]

Init ==
  /\ flash = OldFirmware
  /\ settings \in {OldSettings, Unchecked(RunningSize)}
  /\ mode = "app" /\ gpregret = FALSE /\ ready = FALSE
  /\ state = "IDLE" /\ error_code = "NONE"
  /\ image_size = 0 /\ image_crc32 = NoImage
  /\ next_expected_seq = 0 /\ bytes_written = 0
  /\ last_page_erased = 0 /\ page_buf = <<>> /\ page_buf_flash_addr = 0
  /\ staging_base = 0 /\ target_flash_base = 0 /\ last_data_time = "zero"
  /\ prepared = NoSettings
  /\ conn = "loop" /\ esb = "loop" /\ copy = NoCopy
  /\ reboot_requested = FALSE

-----------------------------------------------------------------------------
(* A turn of the connection thread goes on only if the radio is ready: it  *)
(* takes packets off the queue, and then looks at the timeout.             *)
Turn == mode = "app" /\ conn = "loop" /\ ready

(* The pairing is reset, or found again, before the next turn.             *)
PairingChanges ==
  /\ mode = "app" /\ conn = "loop" /\ ready' = ~ready
  /\ UNCHANGED <<persistent, mode, session, prepared, conn, esb, copy, reboot_requested>>

(* BEGIN.                                                                  *)

MbrEnd == PageSize   \* the MBR is the first page, 0x0 - 0x1000

(* Why BEGIN is refused before the session is set up.  "fault" is the      *)
(* check whose outcome the packet or the hardware decides: protocol        *)
(* version, board target, flash device.                                    *)
Refusal(img, base, fault) ==
  IF fault = "ERROR" THEN "ERROR"
  ELSE IF ImageSize[img] > FlashEnd - MbrEnd THEN "SIZE_ERROR"
  ELSE IF fault = "BOARD_MISMATCH" THEN "BOARD_MISMATCH"
  ELSE IF base # 0 /\ (base < MbrEnd \/ base > FlashBase \/ base + ImageSize[img] > FlashEnd)
       THEN "SIZE_ERROR"
  ELSE IF fault = "FLASH_ERROR" THEN "FLASH_ERROR" ELSE "NONE"

Staging(img) == FlashEnd - PagesOf(ImageSize[img]) * PageSize

(* "Verify staging area doesn't overlap with running firmware": the code   *)
(* compares with the size of the new image.                                *)
StagingTooLow(img) == Staging(img) < FlashBase + ImageSize[img]

Target(base) == IF base # 0 THEN base ELSE FlashBase

(* memset clears last_page_erased.                                         *)
ErasedAtBegin_Kept == last_page_erased
ErasedAtBegin == 0

BeginAccepted == state \in {"IDLE", "ERROR", "COMPLETE"}

RejectBegin(img, base, fault) ==
  /\ Turn /\ BeginAccepted
  /\ Refusal(img, base, fault) # "NONE"
  /\ state' = "ERROR" /\ error_code' = Refusal(img, base, fault)
  /\ UNCHANGED <<image_size, image_crc32, next_expected_seq, bytes_written, last_page_erased,
                 page_buf, page_buf_flash_addr, staging_base, target_flash_base, last_data_time>>
  /\ UNCHANGED <<persistent, mode, ready, prepared, conn, esb, copy, reboot_requested>>

(* memset(&ota), the fields of the announced image, then either the        *)
(* staging area does not fit or the session is ready.                      *)
HandleBegin(img, base, fault) ==
  /\ Turn /\ BeginAccepted
  /\ Refusal(img, base, fault) = "NONE"
  /\ image_size' = ImageSize[img] /\ image_crc32' = img
  /\ next_expected_seq' = 0 /\ bytes_written' = 0
  /\ last_page_erased' = ErasedAtBegin /\ page_buf' = <<>>
  /\ target_flash_base' = Target(base)
  /\ staging_base' = Staging(img) /\ page_buf_flash_addr' = Staging(img)
  /\ IF StagingTooLow(img)
     THEN state' = "ERROR" /\ error_code' = "SIZE_ERROR" /\ last_data_time' = "zero"
     ELSE state' = "READY" /\ error_code' = "NONE" /\ last_data_time' = "recent"
  /\ UNCHANGED <<persistent, mode, ready, prepared, conn, esb, copy, reboot_requested>>

-----------------------------------------------------------------------------
(* DATA: packet seq of image img.                                          *)

Packets(img) == (ImageSize[img] + MaxPayload - 1) \div MaxPayload
PayloadLen(img, seq) ==
  IF (seq + 1) * MaxPayload <= ImageSize[img] THEN MaxPayload
  ELSE ImageSize[img] - seq * MaxPayload

(* The payload, clamped to what the announced image still lacks.           *)
Accepted(img, seq) ==
  LET remaining == image_size - bytes_written
      len == IF PayloadLen(img, seq) > remaining THEN remaining ELSE PayloadLen(img, seq)
  IN  [i \in 1..len |-> <<img, seq * MaxPayload + i - 1>>]

(* The buffer, flash and addresses after the payload went in: the page is  *)
(* flushed when full, and whatever is left once the image is complete.     *)
Append2Page(payload, failed) ==
  LET all == page_buf \o payload
      st0 == [flash |-> flash, addr |-> page_buf_flash_addr, buf |-> all,
              erased |-> last_page_erased]
      st1 == IF Len(all) < PageSize THEN st0
             ELSE [Flush([st0 EXCEPT !.buf = SubSeq(all, 1, PageSize)], failed)
                     EXCEPT !.buf = SubSeq(all, PageSize + 1, Len(all))]
  IN  IF bytes_written + Len(payload) >= image_size /\ st1.buf # <<>>
      THEN Flush(st1, failed) ELSE st1

HandleData(img, seq, failed) ==
  /\ Turn
  /\ state \in {"READY", "RECEIVING"}
  /\ seq = next_expected_seq    \* a duplicate or a gap changes nothing here
  /\ LET payload == Accepted(img, seq)
         st == Append2Page(payload, failed)
     IN  /\ flash' = st.flash
         /\ page_buf' = st.buf
         /\ page_buf_flash_addr' = st.addr
         /\ last_page_erased' = st.erased
         /\ bytes_written' = bytes_written + Len(payload)
  /\ next_expected_seq' = seq + 1
  /\ state' = "RECEIVING" /\ last_data_time' = "recent"
  /\ UNCHANGED <<error_code, image_size, image_crc32, staging_base, target_flash_base>>
  /\ UNCHANGED <<settings, gpregret, mode, ready, prepared, conn, esb, copy, reboot_requested>>

-----------------------------------------------------------------------------
(* VERIFY: the status transmission between the two halves lets the ESB     *)
(* thread run.                                                             *)

HandleVerify ==
  /\ Turn
  /\ bytes_written >= image_size
  /\ state' = "VERIFYING" /\ conn' = "verify"
  /\ UNCHANGED <<error_code, image_size, image_crc32, next_expected_seq, bytes_written,
                 last_page_erased, page_buf, page_buf_flash_addr, staging_base,
                 target_flash_base, last_data_time>>
  /\ UNCHANGED <<persistent, mode, ready, prepared, esb, copy, reboot_requested>>

VerifyPasses_ReadErrorPasses(read_fails) ==
  read_fails \/ CrcMatches(flash, staging_base, image_size, image_crc32)

(* ota_compute_crc32 returns 0 when the flash cannot be read.              *)
VerifyPasses(read_fails) ==
  IF read_fails /\ image_size > 0 THEN image_crc32 = NoImage
  ELSE CrcMatches(flash, staging_base, image_size, image_crc32)

FinishVerify(read_fails) ==
  /\ mode = "app" /\ conn = "verify" /\ conn' = "loop"
  /\ LET ok == VerifyPasses(read_fails)
     IN  /\ state' = IF ok THEN "VERIFYING" ELSE "ERROR"
         /\ error_code' = IF ok THEN "VERIFY_OK" ELSE "VERIFY_FAIL"
         /\ last_data_time' = IF ok THEN "recent" ELSE last_data_time
  /\ UNCHANGED <<image_size, image_crc32, next_expected_seq, bytes_written, last_page_erased,
                 page_buf, page_buf_flash_addr, staging_base, target_flash_base>>
  /\ UNCHANGED <<persistent, mode, ready, prepared, esb, copy, reboot_requested>>

-----------------------------------------------------------------------------
(* ACTIVATE: four stretches of code between sleeps.                        *)

ConnStep(from, to) == mode = "app" /\ conn = from /\ conn' = to

Verified_Unchecked == TRUE
Verified == error_code = "VERIFY_OK"

HandleActivate ==
  /\ Turn /\ conn' = "activating"
  /\ Verified
  /\ state' = "ACTIVATING"
  /\ UNCHANGED <<error_code, image_size, image_crc32, next_expected_seq, bytes_written,
                 last_page_erased, page_buf, page_buf_flash_addr, staging_base,
                 target_flash_base, last_data_time>>
  /\ UNCHANGED <<persistent, mode, ready, prepared, esb, copy, reboot_requested>>

(* ota_compute_crc16_nordic returns 0 when the flash cannot be read, and   *)
(* ACTIVATE goes on: "bootloader will skip CRC check".  An image whose own *)
(* CRC-16 is 0 has the same outcome, and stands under the same step.       *)
PrepareSettings(read_fails) ==
  /\ ConnStep("activating", "prepared")
  /\ prepared' = IF read_fails /\ image_size > 0 THEN Unchecked(image_size)
                 ELSE [check |-> "crc", size |-> image_size,
                       crc |-> Contents(flash, staging_base, image_size)]
  /\ UNCHANGED <<persistent, mode, ready, session, esb, copy, reboot_requested>>

Complete ==
  /\ ConnStep("prepared", "complete")
  /\ state' = "COMPLETE"
  /\ UNCHANGED <<error_code, image_size, image_crc32, next_expected_seq, bytes_written,
                 last_page_erased, page_buf, page_buf_flash_addr, staging_base,
                 target_flash_base, last_data_time>>
  /\ UNCHANGED <<persistent, mode, ready, prepared, esb, copy, reboot_requested>>

(* ota_write_first_page_and_reset: interrupts are off from here on.  The   *)
(* 1.2 s of sleeps before it outlast the 200 ms an abort waits, so only an *)
(* abort taken during those sleeps can still be waiting now.               *)
StartCopy ==
  /\ ConnStep("complete", "copy")
  /\ esb # "aborting"
  /\ copy' = [src |-> staging_base, dst |-> target_flash_base, size |-> image_size,
              settings |-> prepared, done |-> 0]
  /\ UNCHANGED <<persistent, mode, ready, session, prepared, esb, reboot_requested>>

(* ota_flash_copy_from_ram, page by page.                                  *)
CopyLen == IF copy.size - copy.done < PageSize THEN copy.size - copy.done ELSE PageSize
CopySource == [i \in 1..CopyLen |-> flash[copy.src + copy.done + i - 1]]
PageMatches == Contents(flash, copy.dst + copy.done, CopyLen) = CopySource

CopyPending_WholePages == copy.done + PageSize <= copy.size
CopyPending == copy.done < copy.size

CopySkipPage ==
  /\ ConnStep("copy", "copy")
  /\ CopyPending /\ PageMatches
  /\ copy' = [copy EXCEPT !.done = @ + PageSize]
  /\ UNCHANGED <<persistent, mode, ready, session, prepared, esb, reboot_requested>>

CopyErasePage ==
  /\ ConnStep("copy", "copy_write")
  /\ CopyPending /\ ~PageMatches
  /\ flash' = EraseAt(flash, copy.dst + copy.done)
  /\ UNCHANGED <<settings, gpregret, mode, ready, session, prepared, esb, copy, reboot_requested>>

CopyWritePage ==
  /\ ConnStep("copy_write", "copy")
  /\ flash' = WriteAt(flash, copy.dst + copy.done, CopySource)
  /\ copy' = [copy EXCEPT !.done = @ + PageSize]
  /\ UNCHANGED <<settings, gpregret, mode, ready, session, prepared, esb, reboot_requested>>

(* The settings page is erased, then written; then the core is reset.      *)
EraseSettings ==
  /\ ConnStep("copy", "settings")
  /\ ~CopyPending
  /\ settings' = NoSettings
  /\ UNCHANGED <<flash, gpregret, mode, ready, session, prepared, esb, copy, reboot_requested>>

WriteSettings ==
  /\ ConnStep("settings", "reset")
  /\ settings' = copy.settings
  /\ UNCHANGED <<flash, gpregret, mode, ready, session, prepared, esb, copy, reboot_requested>>

-----------------------------------------------------------------------------
(* The other threads, time, and resets.                                    *)

IrqsOff == conn \in {"copy", "copy_write", "settings", "reset"}

(* esb_ota_handle_abort: clear the session, report it, and 200 ms later    *)
(* ask for a reboot into the UF2 bootloader.  "aborting_late" is an abort  *)
(* that the connection thread may overtake: see StartCopy.                 *)
HandleAbort ==
  /\ mode = "app" /\ ~IrqsOff /\ esb = "loop"
  /\ esb' = IF conn = "complete" THEN "aborting_late" ELSE "aborting"
  /\ state # "IDLE"
  /\ ResetSession
  /\ UNCHANGED <<persistent, mode, ready, prepared, conn, copy, reboot_requested>>

AbortReboot ==
  /\ mode = "app" /\ ~IrqsOff /\ esb # "loop" /\ esb' = "loop"
  /\ gpregret' = TRUE /\ reboot_requested' = TRUE
  /\ UNCHANGED <<flash, settings, mode, ready, session, prepared, conn, copy>>

(* esb_ota_check_timeout, run between two rounds of the receive queue.     *)
TimedOut_ErrorExempt ==
  state \notin {"IDLE", "COMPLETE", "ERROR"} /\ last_data_time # "recent"
TimedOut == state \notin {"IDLE", "COMPLETE"} /\ last_data_time # "recent"

CheckTimeout ==
  /\ Turn /\ conn' = "timeout"
  /\ TimedOut
  /\ state' = "ERROR" /\ error_code' = "TIMEOUT"
  /\ UNCHANGED <<image_size, image_crc32, next_expected_seq, bytes_written, last_page_erased,
                 page_buf, page_buf_flash_addr, staging_base, target_flash_base, last_data_time>>
  /\ UNCHANGED <<persistent, mode, ready, prepared, esb, copy, reboot_requested>>

TimeoutReboot ==
  /\ ConnStep("timeout", "loop")
  /\ gpregret' = TRUE /\ reboot_requested' = TRUE
  /\ UNCHANGED <<flash, settings, mode, ready, session, prepared, esb, copy>>

(* OTA_TIMEOUT_MS pass without last_data_time being set.                   *)
SilencePasses ==
  /\ mode = "app" /\ last_data_time = "recent" /\ last_data_time' = "old"
  /\ UNCHANGED <<persistent, mode, ready, prepared, conn, esb, copy, reboot_requested, state,
                 error_code, image_size, image_crc32, next_expected_seq, bytes_written,
                 last_page_erased, page_buf, page_buf_flash_addr, staging_base,
                 target_flash_base>>

(* The bootloader looks for the application behind the SoftDevice if the   *)
(* pages after the MBR begin with one, right after the MBR otherwise, and  *)
(* starts what is there when the settings page's checksum matches it, or   *)
(* when the page says that there is nothing to compare.                    *)
AppBase == IF flash[MbrEnd] = <<"old", MbrEnd>> THEN FlashBase ELSE MbrEnd
AppValid ==
  \/ settings.check = "skip"
  \/ /\ settings.check = "crc" /\ AppBase + settings.size <= FlashEnd
     /\ Contents(flash, AppBase, settings.size) = settings.crc

RunsOldFirmware ==
  Contents(flash, AppBase, RunningSize) = Contents(OldFirmware, FlashBase, RunningSize)
RunsImage(img) == AppBase + ImageSize[img] <= FlashEnd /\ HoldsImage(flash, AppBase, img)

(* "broken": the bootloader started something that is no whole firmware.   *)
Started ==
  IF RunsOldFirmware THEN "app"
  ELSE IF \E img \in Images : RunsImage(img) THEN "updated" ELSE "broken"

Boot(to_bootloader) ==
  /\ ResetSession
  /\ prepared' = NoSettings /\ conn' = "loop" /\ esb' = "loop" /\ copy' = NoCopy
  /\ reboot_requested' = FALSE /\ gpregret' = FALSE /\ ready' = FALSE
  /\ mode' = IF to_bootloader \/ ~AppValid THEN "bootloader" ELSE Started
  /\ UNCHANGED <<flash, settings>>

PowerThreadReboot == mode = "app" /\ reboot_requested /\ ~IrqsOff /\ Boot(gpregret)
ResetAfterCopy == mode = "app" /\ conn = "reset" /\ Boot(gpregret)
PowerLoss == mode = "app" /\ Boot(FALSE)

-----------------------------------------------------------------------------
Packet ==
  \/ \E img \in Images, base \in Bases, fault \in Rejections \cup {"NONE"} :
       RejectBegin(img, base, fault) \/ HandleBegin(img, base, fault)
  \/ \E img \in Images : \E seq \in 0..(Packets(img) - 1) :
       \E failed \in SUBSET (Failures \ {"read"}) : HandleData(img, seq, failed)
  \/ HandleVerify
  \/ HandleActivate

ConnectionThread ==
  \/ \E read_fails \in {FALSE, "read" \in Failures} :
       FinishVerify(read_fails) \/ PrepareSettings(read_fails)
  \/ Complete \/ StartCopy
  \/ CopySkipPage \/ CopyErasePage \/ CopyWritePage
  \/ EraseSettings \/ WriteSettings \/ ResetAfterCopy
  \/ CheckTimeout \/ TimeoutReboot

Next ==
  \/ Packet
  \/ ConnectionThread
  \/ HandleAbort \/ AbortReboot
  \/ PowerThreadReboot
  \/ SilencePasses
  \/ PairingChanges
  \/ PowerLoss

Spec == Init /\ [][Next]_vars

(* The threads run, the clock advances and the power thread gets to the    *)
(* reboot it was asked for; nothing is assumed of packets, aborts and      *)
(* power.                                                                  *)
Fairness ==
  /\ WF_vars(ConnectionThread)
  /\ WF_vars(SilencePasses)
  /\ WF_vars(AbortReboot)
  /\ WF_vars(PowerThreadReboot)

FairSpec == Spec /\ Fairness

-----------------------------------------------------------------------------
(* Properties.                                                             *)

IsSettings(s) == s.size \in Nat /\ s.check \in {"none", "crc", "skip"}

TypeOK ==
  /\ flash \in [0..(FlashEnd - 1) -> Words]
  /\ IsSettings(settings) /\ IsSettings(prepared) /\ IsSettings(copy.settings)
  /\ mode \in {"app", "bootloader", "updated", "broken"}
  /\ gpregret \in BOOLEAN /\ ready \in BOOLEAN
  /\ state \in States /\ error_code \in ErrorCodes
  /\ image_size \in Nat /\ image_crc32 \in Images \cup {NoImage}
  /\ next_expected_seq \in Nat /\ bytes_written \in 0..image_size
  /\ last_page_erased \in Nat
  /\ page_buf \in Seq(Words)
  /\ page_buf_flash_addr \in Nat /\ staging_base \in Nat /\ target_flash_base \in Nat
  /\ last_data_time \in {"zero", "recent", "old"}
  /\ conn \in {"loop", "verify", "activating", "prepared", "complete", "copy",
               "copy_write", "settings", "reset", "timeout"}
  /\ esb \in {"loop", "aborting", "aborting_late"}
  /\ copy.src \in Nat /\ copy.dst \in Nat /\ copy.size \in Nat /\ copy.done \in Nat
  /\ reboot_requested \in BOOLEAN

(* What ties the session, the flash layout and the copier together: the    *)
(* inductive invariant behind the theorems of EsbOtaProofs.                *)

(* A session is either cleared or set up for one announced image.          *)
SessionShape ==
  IF image_size = 0
  THEN image_crc32 = NoImage /\ bytes_written = 0
  ELSE /\ image_crc32 \in Images /\ image_size = ImageSize[image_crc32]
       /\ image_size <= FlashEnd - MbrEnd
       /\ staging_base = Staging(image_crc32)
       /\ target_flash_base \in MbrEnd..FlashBase /\ Aligned(target_flash_base)
       /\ page_buf_flash_addr >= staging_base

(* Only a session whose staging area lies above the new image's place may  *)
(* receive.                                                                *)
StagingFits ==
  state \in {"READY", "RECEIVING"} \/ bytes_written > 0 =>
    image_size > 0 /\ FlashBase + image_size <= staging_base

(* A verified session is complete, and no longer receives.                 *)
VerifiedComplete ==
  /\ conn = "verify" => bytes_written = image_size /\ state \notin {"READY", "RECEIVING"}
  /\ error_code = "VERIFY_OK" =>
       state \in {"VERIFYING", "ACTIVATING", "COMPLETE"} /\ bytes_written = image_size

(* The copier works for the session that was verified, or for the empty    *)
(* one an abort left behind.                                               *)
CopyOfSession ==
  /\ conn \in {"activating", "prepared", "complete"} \/ IrqsOff =>
       error_code = "VERIFY_OK" \/ image_size = 0
  /\ IrqsOff =>
       copy.src = staging_base /\ copy.dst = target_flash_base /\ copy.size = image_size
  /\ Aligned(copy.done)
  /\ conn = "copy_write" => CopyPending

(* A verified image is installed from where it was staged, whatever steps  *)
(* of the three threads came between: the conjunction of the above.        *)
SessionConsistent == SessionShape /\ StagingFits /\ VerifiedComplete /\ CopyOfSession

(* Whatever the link and the flash did, and although DATA, VERIFY and      *)
(* ACTIVATE may arrive in any order and from any earlier session, a        *)
(* session that reports VERIFY_OK has in its staging area exactly the      *)
(* image announced, up to and during the copy (handle_data,                *)
(* handle_verify, ota_flash_copy_from_ram).                                *)
VerifiedImageStaged ==
  error_code = "VERIFY_OK" => CrcMatches(flash, staging_base, image_size, image_crc32)

(* When the copier resets the core, the image stands whole at its target   *)
(* address, and the bootloader settings carry its size and its checksum;   *)
(* they carry none only if the staged image could not be read again after  *)
(* it was verified (ota_flash_copy_from_ram,                               *)
(* ota_prepare_bootloader_settings).                                       *)
InstalledImage ==
  conn = "reset" /\ copy.size > 0 =>
    /\ HoldsImage(flash, copy.dst, image_crc32)
    /\ \/ settings = [check |-> "crc", size |-> copy.size,
                      crc |-> Contents(flash, copy.dst, copy.size)]
       \/ "read" \in Failures /\ settings = Unchecked(copy.size)

(* "Verify staging area doesn't overlap with running firmware": until the  *)
(* copy starts, no BEGIN, DATA or failed session touches the firmware the  *)
(* tracker is executing and would boot again.                              *)
RunningFirmwareIntact ==
  mode = "app" /\ ~IrqsOff =>
    \A a \in Region(FlashBase, RunningSize) : flash[a] = <<"old", a>>

(* "MBR occupies 0x0-0x1000 and must not be overwritten via OTA".          *)
MbrIntact == \A a \in Region(0, MbrEnd) : flash[a] = <<"old", a>>

(* When no flash operation fails, the packets accepted are reassembled in  *)
(* order, whatever was lost or repeated and wherever a packet straddles a  *)
(* page: nothing skipped, nothing twice, no word programmed without an     *)
(* erase, and nothing left in the buffer of a complete image (handle_data, *)
(* ota_flush_page_buf).                                                    *)
StagedInOrder ==
  state \in {"READY", "RECEIVING", "VERIFYING"} =>
    LET flushed == bytes_written - Len(page_buf)
        Word(i) == {<<img, i>> : img \in Images}
    IN  /\ \A i \in 0..(flushed - 1) : flash[staging_base + i] \in Word(i)
        /\ \A j \in 1..Len(page_buf) : page_buf[j] \in Word(flushed + j - 1)
        /\ bytes_written = image_size => page_buf = <<>>

(* Once the receiver falls silent, every session of a tracker that is, in  *)
(* the end, paired ends: the tracker reboots or the session is gone ("OTA  *)
(* always ends with reboot").  Without a pairing nobody looks at the       *)
(* timeout, and the session lasts (connection_thread).                     *)
ReceiverGone == <>[][~Packet]_vars
PairedInTheEnd == <>[](mode = "app" => ready)
SessionEnds ==
  ReceiverGone /\ PairedInTheEnd =>
    [](mode = "app" /\ state # "IDLE" => <>(mode # "app" \/ state = "IDLE"))

(* The detailed protocol keeps the abstract promise.                       *)
Runs ==
  CASE mode = "app" -> "old"
    [] mode = "updated" -> CHOOSE img \in Images : RunsImage(img)
    [] mode \in {"bootloader", "broken"} -> mode
Staged ==
  IF mode = "app" /\ error_code = "VERIFY_OK" /\ image_size > 0 THEN image_crc32 ELSE NoImage

(* A page that makes the bootloader compare nothing: no checksum, or that  *)
(* of no word.                                                             *)
Vouches(s) == s.check = "none" \/ (s.check = "crc" /\ s.size > 0)
Promise == INSTANCE OtaPromise WITH
             runs <- Runs, staged <- Staged, checked <- Vouches(settings),
             ReadsFail <- "read" \in Failures
KeepsPromise == Promise!Spec

(* Statements of the sources that the code does not keep; see README.      *)

(* "Written to BOOTLOADER_SETTINGS_ADDRESS after successful firmware       *)
(* update to mark the new app as valid": the settings page changes only    *)
(* when there was an image to install.                                     *)
SettingsOnlyAfterUpdate == [][settings' # settings => copy.size > 0]_vars

(* "The bootloader settings page has NOT been updated": an abort that      *)
(* found a session prepared for activation leaves the settings alone.      *)
AbortKeepsSettings ==
  [][esb # "loop" /\ prepared.size > 0 => UNCHANGED settings]_vars

(* "Abort if no data for 30 seconds": a timeout is measured from data or   *)
(* from BEGIN, never from a time stamp that was not set.                   *)
TimeoutMeasuresSilence ==
  [][conn' = "timeout" /\ conn # "timeout" => last_data_time = "old"]_vars
=============================================================================
