---------------------------- MODULE EsbOtaProofs ----------------------------
(***************************************************************************)
(* Proofs about the staged OTA update, for every flash layout, packet size *)
(* and set of images.                                                      *)
(***************************************************************************)
EXTENDS EsbOta, TLAPS

FlashType == [0..(FlashEnd - 1) -> Words]
ImageWords == Images \X Nat

-----------------------------------------------------------------------------
(* Arithmetic of pages.                                                    *)

LEMMA DivBound ==
  ASSUME NEW n \in Nat, NEW p \in Nat \ {0}
  PROVE  n \div p \in Nat /\ (n \div p) * p <= n /\ n < (n \div p) * p + p
  BY SMT

LEMMA TimesMonotone ==
  ASSUME NEW j \in Nat, NEW k \in Nat, NEW p \in Nat, j <= k
  PROVE  j * p <= k * p
<1> DEFINE d == k - j
<1>1. d \in Nat /\ k = j + d OBVIOUS
<1>2. (j + d) * p = j * p + d * p /\ d * p \in Nat /\ j * p \in Nat BY <1>1
<1> QED BY <1>1, <1>2

LEMMA PageArithmetic ==
  ASSUME NEW j \in Nat, NEW k \in Nat, NEW p \in Nat \ {0}, j * p < k * p
  PROVE  j * p + p <= k * p
<1>1. j < k
  <2>1. SUFFICES ASSUME k <= j PROVE FALSE OBVIOUS
  <2>2. k * p <= j * p BY <2>1, TimesMonotone
  <2>3. k * p \in Nat /\ j * p \in Nat OBVIOUS
  <2> QED BY <2>2, <2>3
<1>2. (j + 1) * p <= k * p BY <1>1, TimesMonotone
<1>3. (j + 1) * p = j * p + p OBVIOUS
<1> QED BY <1>2, <1>3

(* Two pages that start at different addresses do not overlap.             *)
LEMMA AlignedStep ==
  ASSUME NEW a \in Nat, NEW b \in Nat, Aligned(a), Aligned(b), a < b
  PROVE  a + PageSize <= b
<1>1. PICK j \in 0..a : a = j * PageSize BY DEF Aligned
<1>2. PICK k \in 0..b : b = k * PageSize BY DEF Aligned
<1>3. PageSize \in Nat \ {0} BY SizesAssumption
<1> QED BY <1>1, <1>2, <1>3, PageArithmetic

LEMMA AlignedIntro ==
  ASSUME NEW k \in Nat PROVE k * PageSize \in Nat /\ Aligned(k * PageSize)
<1>1. PageSize \in Nat \ {0} BY SizesAssumption
<1> DEFINE d == PageSize - 1
<1>2. d \in Nat /\ PageSize = d + 1 BY <1>1
<1>3. k * PageSize = k * d + k /\ k * d \in Nat BY <1>2
<1>4. k \in 0..(k * PageSize) BY <1>3
<1> QED BY <1>4, <1>3 DEF Aligned

LEMMA AlignedSum ==
  ASSUME NEW a \in Nat, NEW b \in Nat, Aligned(a), Aligned(b)
  PROVE  Aligned(a + b)
<1>1. PICK j \in 0..a : a = j * PageSize BY DEF Aligned
<1>2. PICK k \in 0..b : b = k * PageSize BY DEF Aligned
<1>3. PageSize \in Nat BY SizesAssumption
<1>4. a + b = (j + k) * PageSize BY <1>1, <1>2, <1>3
<1>5. j + k \in Nat OBVIOUS
<1>6. Aligned((j + k) * PageSize) BY <1>5, AlignedIntro
<1> QED BY <1>4, <1>6

LEMMA AlignedPage == Aligned(PageSize) /\ Aligned(0)
<1>1. PageSize = 1 * PageSize /\ 0 = 0 * PageSize BY SizesAssumption
<1>2. Aligned(1 * PageSize) /\ Aligned(0 * PageSize) BY AlignedIntro
<1> QED BY <1>1, <1>2

(* A distance between two page boundaries is a whole number of pages.      *)
LEMMA AlignedDifference ==
  ASSUME NEW e \in Nat, NEW n \in Nat, Aligned(e), n * PageSize < e
  PROVE  e - n * PageSize \in Nat /\ Aligned(e - n * PageSize)
<1>1. PICK k \in 0..e : e = k * PageSize BY DEF Aligned
<1>2. PageSize \in Nat \ {0} BY SizesAssumption
<1>3. n <= k
  <2>1. SUFFICES ASSUME k <= n PROVE FALSE BY <1>1
  <2>2. k * PageSize <= n * PageSize BY <2>1, <1>2, TimesMonotone
  <2>3. n * PageSize \in Nat BY <1>2
  <2> QED BY <2>2, <2>3, <1>1
<1> DEFINE d == k - n
<1>4. d \in Nat /\ k = n + d BY <1>3
<1>5. (n + d) * PageSize = n * PageSize + d * PageSize /\ n * PageSize \in Nat
  BY <1>4, <1>2
<1>6. d * PageSize \in Nat /\ Aligned(d * PageSize) BY <1>4, AlignedIntro
<1>7. e - n * PageSize = d * PageSize BY <1>1, <1>4, <1>5, <1>6
<1> QED BY <1>6, <1>7

(* The staging area of an image that BEGIN accepts starts on a page        *)
(* boundary and is large enough.                                           *)
LEMMA StagingBounds ==
  ASSUME NEW img \in Images, ImageSize[img] <= FlashEnd - MbrEnd
  PROVE  /\ Staging(img) \in Nat
         /\ Aligned(Staging(img))
         /\ Staging(img) + ImageSize[img] <= FlashEnd
<1> DEFINE size == ImageSize[img]
<1> DEFINE n == PagesOf(size)
<1>1. size \in Nat \ {0} BY ImagesAssumption
<1>2. PageSize \in Nat \ {0} /\ FlashEnd \in Nat /\ Aligned(FlashEnd) BY SizesAssumption
<1>3. size + PageSize - 1 \in Nat BY <1>1, <1>2
<1>4. /\ n \in Nat
      /\ n * PageSize <= size + PageSize - 1
      /\ size + PageSize - 1 < n * PageSize + PageSize
  BY <1>2, <1>3, DivBound DEF PagesOf
<1>5. Staging(img) = FlashEnd - n * PageSize BY DEF Staging
<1>6. size <= FlashEnd - PageSize BY DEF MbrEnd
<1> HIDE DEF n, size
<1>7. n * PageSize \in Nat BY <1>2, <1>4
<1>8. n * PageSize < FlashEnd BY <1>1, <1>2, <1>4, <1>6, <1>7
<1>9. Staging(img) \in Nat /\ Aligned(Staging(img))
  BY <1>2, <1>4, <1>5, <1>8, AlignedDifference
<1>10. Staging(img) + size <= FlashEnd BY <1>1, <1>2, <1>4, <1>5, <1>7
<1> QED BY <1>9, <1>10 DEF size

-----------------------------------------------------------------------------
(* Flash operations keep the flash well formed and stay where they belong. *)

LEMMA ErasedIsWord == ErasedWord \in Words /\ BadWord \in Words
  BY DEF Words

LEMMA EraseFacts ==
  ASSUME NEW f \in FlashType, NEW addr \in Nat
  PROVE  /\ EraseAt(f, addr) \in FlashType
         /\ \A a \in 0..(FlashEnd - 1) :
              a < addr \/ a >= addr + PageSize => EraseAt(f, addr)[a] = f[a]
  BY ErasedIsWord, SizesAssumption DEF EraseAt, FlashType, Region

LEMMA WriteFacts ==
  ASSUME NEW f \in FlashType, NEW addr \in Nat, NEW ws \in Seq(Words)
  PROVE  /\ WriteAt(f, addr, ws) \in FlashType
         /\ \A a \in 0..(FlashEnd - 1) :
              a < addr \/ a >= addr + Len(ws) => WriteAt(f, addr, ws)[a] = f[a]
<1>2. ASSUME NEW a \in 0..(FlashEnd - 1), a \in Region(addr, Len(ws))
      PROVE  Program(f[a], ws[a - addr + 1]) \in Words
  <2>1. a - addr + 1 \in 1..Len(ws) BY <1>2, SizesAssumption DEF Region
  <2>2. ws[a - addr + 1] \in Words BY <2>1
  <2> QED BY <2>2, ErasedIsWord DEF Program
<1>3. WriteAt(f, addr, ws) \in FlashType BY <1>2 DEF WriteAt, FlashType
<1>4. \A a \in 0..(FlashEnd - 1) :
        a < addr \/ a >= addr + Len(ws) => WriteAt(f, addr, ws)[a] = f[a]
  BY SizesAssumption DEF WriteAt, FlashType, Region
<1> QED BY <1>3, <1>4

BufferType == [flash : FlashType, addr : Nat, buf : Seq(Words), erased : Nat]

(* A flush writes at its page or above, never below.                       *)
LEMMA FlushFacts ==
  ASSUME NEW st \in BufferType, NEW failed
  PROVE  /\ Flush(st, failed) \in BufferType
         /\ Flush(st, failed).addr = st.addr + PageSize
         /\ Flush(st, failed).buf = <<>>
         /\ \A a \in 0..(FlashEnd - 1) :
              a < st.addr => Flush(st, failed).flash[a] = st.flash[a]
<1> DEFINE f1 == IF st.addr > st.erased /\ "erase" \notin failed
                 THEN EraseAt(st.flash, st.addr) ELSE st.flash
           f2 == IF "write" \in failed THEN f1 ELSE WriteAt(f1, st.addr, st.buf)
           next_page == st.addr + PageSize
           ahead == next_page < staging_base + image_size
           f3 == IF ahead /\ "erase_next" \notin failed THEN EraseAt(f2, next_page) ELSE f2
<1>1. /\ st.flash \in FlashType /\ st.addr \in Nat /\ st.buf \in Seq(Words)
      /\ st.erased \in Nat /\ next_page \in Nat
  BY SizesAssumption DEF BufferType
<1>2. /\ f1 \in FlashType
      /\ \A a \in 0..(FlashEnd - 1) : a < st.addr => f1[a] = st.flash[a]
  BY <1>1, EraseFacts
<1> HIDE DEF f1
<1>3. /\ f2 \in FlashType
      /\ \A a \in 0..(FlashEnd - 1) : a < st.addr => f2[a] = st.flash[a]
  BY <1>1, <1>2, WriteFacts
<1> HIDE DEF f2
<1>4. /\ f3 \in FlashType
      /\ \A a \in 0..(FlashEnd - 1) : a < st.addr => f3[a] = st.flash[a]
  <2>1. \A a \in 0..(FlashEnd - 1) : a < st.addr => a < next_page
    BY <1>1, SizesAssumption
  <2> QED BY <1>1, <1>3, <2>1, EraseFacts
<1>5. Flush(st, failed) =
        [flash |-> f3, addr |-> next_page, buf |-> <<>>,
         erased |-> IF ahead THEN next_page
                    ELSE IF st.addr > st.erased THEN st.addr ELSE st.erased]
  BY DEF Flush, f1, f2
<1> HIDE DEF f3, next_page, ahead
<1>6. Flush(st, failed) \in BufferType BY <1>1, <1>4, <1>5 DEF BufferType
<1> QED BY <1>4, <1>5, <1>6 DEF next_page

(* What DATA adds is never more than the image still lacks.                *)
LEMMA PayloadFacts ==
  ASSUME TypeOK, NEW img \in Images, NEW seq \in 0..(Packets(img) - 1)
  PROVE  /\ Accepted(img, seq) \in Seq(Words) /\ Accepted(img, seq) \in Seq(ImageWords)
         /\ Len(Accepted(img, seq)) \in 0..(image_size - bytes_written)
<1> DEFINE size == ImageSize[img]
           remaining == image_size - bytes_written
           len == IF PayloadLen(img, seq) > remaining THEN remaining ELSE PayloadLen(img, seq)
           n == Packets(img)
<1>1. size \in Nat \ {0} /\ MaxPayload \in Nat \ {0}
  BY ImagesAssumption, SizesAssumption
<1>2. remaining \in Nat BY DEF TypeOK
<1>3. size + MaxPayload - 1 \in Nat BY <1>1
<1>4. n \in Nat /\ n * MaxPayload <= size + MaxPayload - 1
  BY <1>1, <1>3, DivBound DEF Packets
<1> HIDE DEF n
<1>5. seq \in Nat /\ seq + 1 <= n BY <1>4 DEF n
<1>6. (seq + 1) * MaxPayload <= n * MaxPayload BY <1>5, <1>4, <1>1, TimesMonotone
<1>7. (seq + 1) * MaxPayload = seq * MaxPayload + MaxPayload /\ seq * MaxPayload \in Nat
  BY <1>5, <1>1
<1>8. n * MaxPayload \in Nat BY <1>4, <1>1
<1>9. seq * MaxPayload < size BY <1>1, <1>4, <1>6, <1>7, <1>8
<1>10. PayloadLen(img, seq) \in Nat BY <1>1, <1>7, <1>9 DEF PayloadLen
<1>11. len \in 0..remaining BY <1>2, <1>10
<1>12. Accepted(img, seq) = [i \in 1..len |-> <<img, seq * MaxPayload + i - 1>>]
  BY DEF Accepted
<1> HIDE DEF len, remaining
<1>13. \A i \in 1..len : <<img, seq * MaxPayload + i - 1>> \in ImageWords
  <2> SUFFICES ASSUME NEW i \in 1..len PROVE <<img, seq * MaxPayload + i - 1>> \in ImageWords
    OBVIOUS
  <2>1. len \in Nat BY <1>11, <1>2
  <2>2. seq * MaxPayload + i - 1 \in Nat BY <1>7, <2>1
  <2> QED BY <2>2 DEF ImageWords
<1>14. len \in Nat BY <1>11, <1>2
<1>15. Accepted(img, seq) \in Seq(ImageWords) /\ Len(Accepted(img, seq)) = len
  BY <1>12, <1>13, <1>14
<1>16. Accepted(img, seq) \in Seq(Words) BY <1>12, <1>13, <1>14 DEF ImageWords, Words
<1> QED BY <1>11, <1>15, <1>16 DEF remaining

(* The buffer after a payload went in: nothing below its page changed.     *)
LEMMA AppendFacts ==
  ASSUME TypeOK, NEW payload \in Seq(Words), NEW failed
  PROVE  /\ Append2Page(payload, failed) \in BufferType
         /\ Append2Page(payload, failed).addr >= page_buf_flash_addr
         /\ \A a \in 0..(FlashEnd - 1) :
              a < page_buf_flash_addr => Append2Page(payload, failed).flash[a] = flash[a]
<1> DEFINE all == page_buf \o payload
           st0 == [flash |-> flash, addr |-> page_buf_flash_addr, buf |-> all,
                   erased |-> last_page_erased]
           full == [st0 EXCEPT !.buf = SubSeq(all, 1, PageSize)]
           rest == SubSeq(all, PageSize + 1, Len(all))
           st1 == IF Len(all) < PageSize THEN st0
                  ELSE [Flush(full, failed) EXCEPT !.buf = rest]
           Keeps(st) == /\ st \in BufferType /\ st.addr >= page_buf_flash_addr
                        /\ \A a \in 0..(FlashEnd - 1) :
                             a < page_buf_flash_addr => st.flash[a] = flash[a]
<1>1. flash \in FlashType /\ page_buf_flash_addr \in Nat /\ last_page_erased \in Nat
      /\ page_buf \in Seq(Words) /\ PageSize \in Nat \ {0}
  BY SizesAssumption DEF TypeOK, FlashType
<1>2. all \in Seq(Words) BY <1>1
<1> HIDE DEF all
<1>3. Keeps(st0) BY <1>1, <1>2 DEF BufferType
<1>4. ASSUME NEW st \in BufferType, Keeps(st) PROVE Keeps(Flush(st, failed))
  <2>1. /\ Flush(st, failed) \in BufferType
        /\ Flush(st, failed).addr = st.addr + PageSize
        /\ \A a \in 0..(FlashEnd - 1) :
             a < st.addr => Flush(st, failed).flash[a] = st.flash[a]
    BY FlushFacts
  <2>2. st.addr \in Nat BY DEF BufferType
  <2>3. \A a \in 0..(FlashEnd - 1) : a < page_buf_flash_addr => a < st.addr
    BY <1>1, <1>4, <2>2, SizesAssumption
  <2> HIDE DEF BufferType
  <2> QED BY <1>1, <1>4, <2>1, <2>2, <2>3
<1>5. Keeps(st1)
  <2>1. CASE Len(all) < PageSize BY <2>1, <1>3
  <2>2. CASE ~(Len(all) < PageSize)
    <3>1. Len(all) \in Nat /\ PageSize <= Len(all) BY <1>1, <1>2, <2>2
    <3>2. SubSeq(all, 1, PageSize) \in Seq(Words)
      BY <1>1, <1>2, <3>1
    <3>3. rest \in Seq(Words) BY <1>1, <1>2, <3>1
    <3>4. Keeps(full) BY <1>1, <3>2, <1>3 DEF BufferType
    <3>5. Keeps(Flush(full, failed)) BY <1>4, <3>4
    <3> HIDE DEF rest, full
    <3>6. Keeps([Flush(full, failed) EXCEPT !.buf = rest])
      BY <3>3, <3>5 DEF BufferType
    <3> QED BY <2>2, <3>6
  <2> QED BY <2>1, <2>2
<1>6. Append2Page(payload, failed) =
        IF bytes_written + Len(payload) >= image_size /\ st1.buf # <<>>
        THEN Flush(st1, failed) ELSE st1
  BY DEF Append2Page, all
<1> HIDE DEF st1
<1>7. Keeps(Append2Page(payload, failed)) BY <1>4, <1>5, <1>6
<1> QED BY <1>7

-----------------------------------------------------------------------------
(* The inductive invariant.  VerifiedImageStaged and MbrIntact are not     *)
(* inductive alone: that neither the copier nor a later DATA reaches the   *)
(* verified image, or the MBR, needs the shape of the session, the place   *)
(* of its staging area, and that the copier works for that session.        *)

CopyShape ==
  copy = [src |-> copy.src, dst |-> copy.dst, size |-> copy.size,
          settings |-> copy.settings, done |-> copy.done]

IInv == TypeOK /\ CopyShape /\ SessionConsistent /\ VerifiedImageStaged /\ MbrIntact

LEMMA Constants ==
  /\ PageSize \in Nat \ {0} /\ FlashBase \in Nat /\ FlashEnd \in Nat
  /\ FlashBase < FlashEnd /\ PageSize <= FlashBase /\ MbrEnd = PageSize
  /\ Aligned(FlashBase) /\ Aligned(MbrEnd) /\ Aligned(0)
  /\ NoImage \notin Images /\ RunningSize \in Nat \ {0} /\ FlashBase + RunningSize <= FlashEnd
  /\ \A img \in Images : ImageSize[img] \in Nat \ {0}
  BY SizesAssumption, ImagesAssumption, AlignedPage DEF MbrEnd

LEMMA SettingsFacts ==
  /\ IsSettings(NoSettings) /\ IsSettings(OldSettings)
  /\ \A n \in Nat : IsSettings(Unchecked(n))
  BY Constants DEF IsSettings, NoSettings, OldSettings, Unchecked

LEMMA InitIInv == Init => IInv
<1> SUFFICES ASSUME Init PROVE IInv OBVIOUS
<1> USE DEF Init, NoSettings, NoCopy
<1>1. TypeOK
  <2>1. flash \in [0..(FlashEnd - 1) -> Words]
    <3>1. \A a \in 0..(FlashEnd - 1) : <<"old", a>> \in Words
      BY Constants DEF Words
    <3> QED BY <3>1 DEF OldFirmware
  <2>2. IsSettings(settings) /\ IsSettings(prepared) /\ IsSettings(copy.settings)
    BY SettingsFacts, Constants
  <2>3. page_buf \in Seq(Words) OBVIOUS
  <2>4. /\ copy.src \in Nat /\ copy.dst \in Nat /\ copy.size \in Nat /\ copy.done \in Nat
    OBVIOUS
  <2>5. /\ mode = "app" /\ gpregret \in BOOLEAN /\ ready \in BOOLEAN
        /\ reboot_requested \in BOOLEAN
        /\ state = "IDLE" /\ error_code = "NONE"
        /\ image_size = 0 /\ image_crc32 = NoImage /\ next_expected_seq = 0
        /\ bytes_written = 0 /\ last_page_erased = 0 /\ page_buf_flash_addr = 0
        /\ staging_base = 0 /\ target_flash_base = 0 /\ last_data_time = "zero"
        /\ conn = "loop" /\ esb = "loop"
    BY Zenon
  <2> HIDE DEF Init, NoCopy, NoSettings
  <2> QED BY <2>1, <2>2, <2>3, <2>4, <2>5 DEF TypeOK, States, ErrorCodes
<1>2. CopyShape BY DEF CopyShape
<1>3. SessionConsistent
  BY Constants DEF SessionConsistent, SessionShape, StagingFits, VerifiedComplete,
                   CopyOfSession, IrqsOff
<1>4. VerifiedImageStaged BY DEF VerifiedImageStaged
<1>5. MbrIntact BY Constants DEF MbrIntact, OldFirmware, Region
<1> QED BY <1>1, <1>2, <1>3, <1>4, <1>5 DEF IInv

(* Clearing the session keeps the invariant, provided the copier is idle.  *)
LEMMA RejectBeginIInv ==
  ASSUME IInv, NEW img \in Images, NEW base \in Bases, NEW fault \in Rejections \cup {"NONE"},
         RejectBegin(img, base, fault)
  PROVE  IInv'
<1> USE DEF RejectBegin, Turn, IInv, SessionConsistent, persistent
<1>1. error_code' \in {"ERROR", "SIZE_ERROR", "BOARD_MISMATCH", "FLASH_ERROR", "NONE"}
  BY DEF Refusal
<1>2. error_code' # "NONE" /\ state' = "ERROR" OBVIOUS
<1>3. TypeOK' BY <1>1, <1>2 DEF TypeOK, States, ErrorCodes
<1>4. CopyShape' BY DEF CopyShape
<1>5. SessionShape' BY DEF SessionShape
<1>6. StagingFits' BY <1>2 DEF StagingFits
<1>7. VerifiedComplete' BY <1>1, <1>2 DEF VerifiedComplete
<1>8. CopyOfSession' BY DEF CopyOfSession, IrqsOff, CopyPending
<1>9. VerifiedImageStaged' BY <1>1 DEF VerifiedImageStaged
<1>10. MbrIntact' BY DEF MbrIntact
<1> QED BY <1>3, <1>4, <1>5, <1>6, <1>7, <1>8, <1>9, <1>10

LEMMA HandleBeginIInv ==
  ASSUME IInv, NEW img \in Images, NEW base \in Bases, NEW fault \in Rejections \cup {"NONE"},
         HandleBegin(img, base, fault)
  PROVE  IInv'
<1> USE DEF HandleBegin, Turn, persistent
<1>1. TypeOK /\ CopyShape /\ VerifiedComplete /\ CopyOfSession /\ MbrIntact
  BY DEF IInv, SessionConsistent
<1>2. /\ ImageSize[img] \in Nat \ {0} /\ ImageSize[img] <= FlashEnd - MbrEnd
      /\ ~(base # 0 /\ (base < MbrEnd \/ base > FlashBase))
  <2>1. ImageSize[img] \in Nat \ {0} BY Constants
  <2>2. FlashEnd \in Nat /\ MbrEnd \in Nat /\ FlashBase \in Nat /\ base \in Nat
    BY Constants, ImagesAssumption
  <2>3. Refusal(img, base, fault) = "NONE" OBVIOUS
  <2> HIDE DEF HandleBegin
  <2> QED BY <2>1, <2>2, <2>3 DEF Refusal, Rejections
<1>3. /\ Staging(img) \in Nat /\ Staging(img) + ImageSize[img] <= FlashEnd
  BY <1>2, StagingBounds
<1>4. Target(base) \in MbrEnd..FlashBase /\ Aligned(Target(base))
  BY <1>2, Constants, ImagesAssumption DEF Target
<1>5. /\ error_code' \in {"NONE", "SIZE_ERROR"} /\ state' \in {"READY", "ERROR"}
      /\ last_data_time' \in {"zero", "recent"}
      /\ state' = "READY" => FlashBase + image_size' <= staging_base'
  BY <1>2, <1>3, Constants DEF StagingTooLow
<1>6. TypeOK'
  <2>1. target_flash_base' \in Nat BY <1>4, Constants
  <2>2. page_buf' \in Seq(Words) OBVIOUS
  <2> QED BY <1>1, <1>2, <1>3, <1>5, <2>1, <2>2
          DEF TypeOK, States, ErrorCodes, ErasedAtBegin
<1>7. CopyShape' BY <1>1 DEF CopyShape
<1>8. SessionShape' BY <1>2, <1>3, <1>4 DEF SessionShape
<1>9. StagingFits' BY <1>2, <1>5 DEF StagingFits
<1>10. VerifiedComplete' BY <1>1, <1>5 DEF VerifiedComplete
<1>11. CopyOfSession' BY <1>1 DEF CopyOfSession, IrqsOff, CopyPending
<1>12. VerifiedImageStaged' BY <1>5 DEF VerifiedImageStaged
<1>13. MbrIntact' BY <1>1 DEF MbrIntact
<1> QED BY <1>6, <1>7, <1>8, <1>9, <1>10, <1>11, <1>12, <1>13 DEF IInv, SessionConsistent

(* DATA writes at or above the page it buffers, which is in the staging    *)
(* area and so above the MBR.                                              *)
LEMMA HandleDataIInv ==
  ASSUME IInv, NEW img \in Images, NEW seq \in 0..(Packets(img) - 1), NEW failed,
         HandleData(img, seq, failed)
  PROVE  IInv'
<1> DEFINE payload == Accepted(img, seq)
           st == Append2Page(payload, failed)
<1>1. /\ TypeOK /\ CopyShape /\ SessionShape /\ StagingFits /\ VerifiedComplete
      /\ CopyOfSession /\ MbrIntact
  BY DEF IInv, SessionConsistent
<1>2. payload \in Seq(Words) /\ Len(payload) \in 0..(image_size - bytes_written)
  BY <1>1, PayloadFacts
<1>3. /\ st \in BufferType /\ st.addr >= page_buf_flash_addr
      /\ \A a \in 0..(FlashEnd - 1) : a < page_buf_flash_addr => st.flash[a] = flash[a]
  BY <1>1, <1>2, AppendFacts
<1>4. /\ st.flash \in FlashType /\ st.addr \in Nat /\ st.buf \in Seq(Words)
      /\ st.erased \in Nat
  BY <1>3 DEF BufferType
<1>5. /\ flash' = st.flash /\ page_buf' = st.buf /\ page_buf_flash_addr' = st.addr
      /\ last_page_erased' = st.erased /\ bytes_written' = bytes_written + Len(payload)
      /\ conn = "loop" /\ state \in {"READY", "RECEIVING"} /\ state' = "RECEIVING"
      /\ next_expected_seq' = seq + 1 /\ last_data_time' = "recent"
      /\ UNCHANGED <<error_code, image_size, image_crc32, staging_base, target_flash_base>>
      /\ UNCHANGED <<settings, gpregret, mode, ready, prepared, conn, esb, copy, reboot_requested>>
  BY DEF HandleData, Turn
<1> HIDE DEF payload, st
<1>6. seq \in Nat OBVIOUS
<1>7. bytes_written' \in 0..image_size BY <1>1, <1>2, <1>5 DEF TypeOK
<1>8. TypeOK'
  BY <1>1, <1>4, <1>5, <1>6, <1>7 DEF TypeOK, States, FlashType
<1>9. CopyShape' BY <1>1, <1>5 DEF CopyShape
<1>10. image_size > 0 /\ FlashBase + image_size <= staging_base
  BY <1>1, <1>5 DEF StagingFits
<1>11. SessionShape'
  <2>1. st.addr >= staging_base
    BY <1>1, <1>3, <1>4, <1>10 DEF SessionShape, TypeOK
  <2> QED BY <1>1, <1>5, <1>10, <2>1 DEF SessionShape
<1>12. StagingFits' BY <1>5, <1>10 DEF StagingFits
<1>13. error_code # "VERIFY_OK" BY <1>1, <1>5 DEF VerifiedComplete
<1>14. VerifiedComplete' BY <1>5, <1>13 DEF VerifiedComplete
<1>15. CopyOfSession' BY <1>1, <1>5 DEF CopyOfSession, IrqsOff, CopyPending
<1>16. VerifiedImageStaged' BY <1>5, <1>13 DEF VerifiedImageStaged
<1>17. MbrIntact'
  <2>1. \A a \in Region(0, MbrEnd) : a \in 0..(FlashEnd - 1) /\ a < page_buf_flash_addr
    BY <1>1, <1>10, Constants DEF Region, SessionShape, TypeOK
  <2> QED BY <1>1, <1>3, <1>5, <2>1 DEF MbrIntact
<1> QED BY <1>8, <1>9, <1>11, <1>12, <1>14, <1>15, <1>16, <1>17 DEF IInv, SessionConsistent

(* Steps that leave flash and what the session says about it alone.        *)
Placement == <<flash, image_size, image_crc32, bytes_written, page_buf_flash_addr,
               staging_base, target_flash_base>>

LEMMA HandleVerifyIInv == ASSUME IInv, HandleVerify PROVE IInv'
<1> USE DEF HandleVerify, Turn, persistent
<1>1. TypeOK /\ CopyShape /\ SessionShape /\ StagingFits /\ VerifiedComplete
      /\ CopyOfSession /\ VerifiedImageStaged /\ MbrIntact
  BY DEF IInv, SessionConsistent
<1>2. bytes_written = image_size BY <1>1 DEF TypeOK
<1>3. TypeOK' BY <1>1 DEF TypeOK, States
<1>4. CopyShape' BY <1>1 DEF CopyShape
<1>5. SessionShape' BY <1>1 DEF SessionShape
<1>6. StagingFits' BY <1>1 DEF StagingFits
<1>7. VerifiedComplete' BY <1>1, <1>2 DEF VerifiedComplete
<1>8. CopyOfSession' BY <1>1 DEF CopyOfSession, IrqsOff, CopyPending
<1>9. VerifiedImageStaged' BY <1>1 DEF VerifiedImageStaged
<1>10. MbrIntact' BY <1>1 DEF MbrIntact
<1> QED BY <1>3, <1>4, <1>5, <1>6, <1>7, <1>8, <1>9, <1>10 DEF IInv, SessionConsistent

LEMMA FinishVerifyIInv ==
  ASSUME IInv, NEW read_fails, FinishVerify(read_fails) PROVE IInv'
<1> USE DEF FinishVerify, persistent
<1>1. TypeOK /\ CopyShape /\ SessionShape /\ StagingFits /\ VerifiedComplete
      /\ CopyOfSession /\ VerifiedImageStaged /\ MbrIntact
  BY DEF IInv, SessionConsistent
<1>2. /\ state' \in {"VERIFYING", "ERROR"} /\ error_code' \in {"VERIFY_OK", "VERIFY_FAIL"}
      /\ error_code' = "VERIFY_OK" => state' = "VERIFYING" /\ VerifyPasses(read_fails)
      /\ last_data_time' \in {"recent", last_data_time}
  OBVIOUS
<1>3. TypeOK' BY <1>1, <1>2 DEF TypeOK, States, ErrorCodes
<1>4. CopyShape' BY <1>1 DEF CopyShape
<1>5. SessionShape' BY <1>1 DEF SessionShape
<1>6. StagingFits' BY <1>1, <1>2 DEF StagingFits
<1>7. VerifiedComplete' BY <1>1, <1>2 DEF VerifiedComplete
<1>8. CopyOfSession' BY <1>1 DEF CopyOfSession, IrqsOff, CopyPending
<1>9. VerifiedImageStaged'
  <2>1. VerifyPasses(read_fails) => CrcMatches(flash, staging_base, image_size, image_crc32)
    BY <1>1, Constants DEF VerifyPasses, SessionShape
  <2> QED BY <1>2, <2>1 DEF VerifiedImageStaged
<1>10. MbrIntact' BY <1>1 DEF MbrIntact
<1> QED BY <1>3, <1>4, <1>5, <1>6, <1>7, <1>8, <1>9, <1>10 DEF IInv, SessionConsistent

(* The sleeps of ACTIVATE, the start of the copy, and the settings page.   *)
ActivateSteps ==
  \/ \E read_fails \in {FALSE, "read" \in Failures} : PrepareSettings(read_fails)
  \/ HandleActivate \/ Complete \/ StartCopy \/ CopySkipPage \/ EraseSettings \/ WriteSettings

LEMMA ActivateIInv == ASSUME IInv, ActivateSteps PROVE IInv'
<1> USE DEF HandleActivate, PrepareSettings, Complete, StartCopy, CopySkipPage,
            EraseSettings, WriteSettings, Turn, ConnStep, persistent, session
<1>1. TypeOK /\ CopyShape /\ SessionShape /\ StagingFits /\ VerifiedComplete
      /\ CopyOfSession /\ VerifiedImageStaged /\ MbrIntact
  BY DEF IInv, SessionConsistent
<1>2. /\ UNCHANGED Placement
      /\ UNCHANGED <<mode, ready, gpregret, error_code, next_expected_seq, last_page_erased,
                     page_buf, last_data_time, esb, reboot_requested>>
      /\ state' \in {state, "ACTIVATING", "COMPLETE"}
      /\ conn' \in {"activating", "prepared", "complete", "copy", "settings", "reset"}
  BY DEF ActivateSteps, Placement
<1>3. /\ IsSettings(settings') /\ IsSettings(prepared')
      /\ copy'.src \in Nat /\ copy'.dst \in Nat /\ copy'.size \in Nat /\ copy'.done \in Nat
      /\ IsSettings(copy'.settings) /\ CopyShape' /\ Aligned(copy'.done)
  <2>1. Aligned(0) BY Constants
  <2>2. copy.done \in Nat => copy.done + PageSize \in Nat BY Constants
  <2>3. copy.done \in Nat /\ Aligned(copy.done) => Aligned(copy.done + PageSize)
    BY AlignedSum, AlignedPage, Constants
  <2>4. CASE HandleActivate \/ Complete \/ EraseSettings
    <3>1. UNCHANGED <<prepared, copy>> /\ settings' \in {settings, NoSettings} BY <2>4
    <3>2. IsSettings(NoSettings) BY SettingsFacts
    <3>3. IsSettings(settings') /\ IsSettings(prepared') BY <1>1, <3>1, <3>2 DEF TypeOK
    <3>4. copy' = copy BY <3>1
    <3> HIDE DEF HandleActivate, Complete, EraseSettings
    <3> QED BY <1>1, <3>3, <3>4 DEF TypeOK, CopyShape, CopyOfSession
  <2>5. CASE \E read_fails \in {FALSE, "read" \in Failures} : PrepareSettings(read_fails)
    <3>1. UNCHANGED <<settings, copy>> BY <2>5
    <3>2. image_size \in Nat BY <1>1 DEF TypeOK
    <3>3. \/ prepared' = Unchecked(image_size)
          \/ prepared' = [check |-> "crc", size |-> image_size,
                          crc |-> Contents(flash, staging_base, image_size)]
      BY <2>5
    <3>4. IsSettings(prepared') BY <3>2, <3>3, SettingsFacts DEF IsSettings
    <3>5. copy' = copy /\ settings' = settings BY <3>1
    <3> HIDE DEF PrepareSettings
    <3> QED BY <1>1, <3>4, <3>5 DEF TypeOK, CopyShape, CopyOfSession
  <2>6. CASE StartCopy BY <1>1, <2>1, <2>6 DEF TypeOK, CopyShape
  <2>7. CASE CopySkipPage
    <3>1. copy' = [copy EXCEPT !.done = @ + PageSize] BY <2>7
    <3>2. UNCHANGED <<settings, prepared>> BY <2>7
    <3>3. copy' = [src |-> copy.src, dst |-> copy.dst, size |-> copy.size,
                   settings |-> copy.settings, done |-> copy.done + PageSize]
      BY <1>1, <3>1 DEF CopyShape
    <3> QED BY <1>1, <2>2, <2>3, <3>2, <3>3 DEF TypeOK, CopyShape, CopyOfSession
  <2>8. CASE WriteSettings BY <1>1, <2>8 DEF TypeOK, CopyShape, CopyOfSession
  <2> QED BY <2>4, <2>5, <2>6, <2>7, <2>8 DEF ActivateSteps
<1>4. IrqsOff' => /\ copy'.src = staging_base /\ copy'.dst = target_flash_base
                  /\ copy'.size = image_size
  <2>1. CASE StartCopy BY <2>1
  <2>2. CASE CopySkipPage
    <3>1. copy' = [copy EXCEPT !.done = @ + PageSize] BY <2>2
    <3>2. copy'.src = copy.src /\ copy'.dst = copy.dst /\ copy'.size = copy.size
      BY <1>1, <3>1 DEF CopyShape
    <3> QED BY <1>1, <2>2, <3>2 DEF CopyOfSession, IrqsOff
  <2>3. CASE EraseSettings \/ WriteSettings BY <1>1, <2>3 DEF CopyOfSession, IrqsOff
  <2>4. CASE HandleActivate \/ Complete
             \/ \E read_fails \in {FALSE, "read" \in Failures} : PrepareSettings(read_fails)
    BY <2>4 DEF IrqsOff
  <2> QED BY <2>1, <2>2, <2>3, <2>4 DEF ActivateSteps
<1>5. error_code = "VERIFY_OK" \/ image_size = 0
  BY <1>1 DEF ActivateSteps, CopyOfSession, IrqsOff, Verified
<1> HIDE DEF HandleActivate, PrepareSettings, Complete, StartCopy, CopySkipPage,
            EraseSettings, WriteSettings, Turn, ConnStep, persistent, session
<1> USE DEF Placement
<1>6. TypeOK' BY <1>1, <1>2, <1>3 DEF TypeOK, States
<1>7. SessionShape' BY <1>1, <1>2 DEF SessionShape
<1>8. StagingFits' BY <1>1, <1>2 DEF StagingFits
<1>9. VerifiedComplete' BY <1>1, <1>2 DEF VerifiedComplete
<1>10. CopyOfSession' BY <1>2, <1>3, <1>4, <1>5 DEF CopyOfSession
<1>11. VerifiedImageStaged' BY <1>1, <1>2 DEF VerifiedImageStaged
<1>12. MbrIntact' BY <1>1, <1>2 DEF MbrIntact
<1> QED BY <1>3, <1>6, <1>7, <1>8, <1>9, <1>10, <1>11, <1>12 DEF IInv, SessionConsistent

(* The page being copied lies above the MBR and below the staged image.    *)
LEMMA CopyFacts ==
  ASSUME IInv, IrqsOff, CopyPending
  PROVE  /\ image_size > 0 /\ copy.dst + copy.done \in Nat
         /\ MbrEnd <= copy.dst + copy.done
         /\ copy.dst + copy.done + PageSize <= staging_base
         /\ CopySource \in Seq(Words) /\ Len(CopySource) <= PageSize
         /\ Aligned(copy.done + PageSize)
<1>1. TypeOK /\ SessionShape /\ StagingFits /\ VerifiedComplete /\ CopyOfSession
  BY DEF IInv, SessionConsistent
<1>2. /\ copy.src = staging_base /\ copy.dst = target_flash_base /\ copy.size = image_size
      /\ copy.done \in Nat /\ copy.done < image_size /\ image_size \in Nat
      /\ Aligned(copy.done) /\ error_code = "VERIFY_OK"
  BY <1>1 DEF CopyOfSession, TypeOK, CopyPending
<1>3. bytes_written > 0 BY <1>1, <1>2 DEF VerifiedComplete
<1>4. image_size > 0 /\ FlashBase + image_size <= staging_base
  BY <1>1, <1>3 DEF StagingFits
<1>5. /\ image_crc32 \in Images /\ image_size = ImageSize[image_crc32]
      /\ image_size <= FlashEnd - MbrEnd /\ staging_base = Staging(image_crc32)
      /\ target_flash_base \in MbrEnd..FlashBase /\ Aligned(target_flash_base)
  BY <1>1, <1>4 DEF SessionShape
<1>6. /\ staging_base \in Nat /\ Aligned(staging_base)
      /\ staging_base + image_size <= FlashEnd
  BY <1>5, StagingBounds
<1> DEFINE p == target_flash_base + copy.done
<1>7. p \in Nat /\ MbrEnd <= p /\ p < staging_base
  BY <1>2, <1>4, <1>5, <1>6, Constants
<1>8. Aligned(p)
  <2>1. target_flash_base \in Nat BY <1>5, Constants
  <2> QED BY <1>2, <1>5, <2>1, AlignedSum
<1>9. p + PageSize <= staging_base BY <1>6, <1>7, <1>8, AlignedStep
<1>10. CopyLen \in 1..PageSize /\ copy.done + CopyLen <= image_size
  BY <1>2, Constants DEF CopyLen
<1>11. \A i \in 1..CopyLen : flash[copy.src + copy.done + i - 1] \in Words
  <2> SUFFICES ASSUME NEW i \in 1..CopyLen
               PROVE  flash[copy.src + copy.done + i - 1] \in Words
    OBVIOUS
  <2>1. copy.src + copy.done + i - 1 \in 0..(FlashEnd - 1)
    BY <1>2, <1>6, <1>10, Constants
  <2> QED BY <1>1, <2>1 DEF TypeOK
<1>12. CopySource \in Seq(Words) /\ Len(CopySource) <= PageSize
  <2>1. CopyLen \in Nat /\ CopyLen <= PageSize BY <1>10, Constants
  <2> HIDE DEF CopyLen
  <2> QED BY <1>11, <2>1, Constants DEF CopySource
<1>13. Aligned(copy.done + PageSize) BY <1>2, AlignedSum, AlignedPage, Constants
<1> QED BY <1>2, <1>4, <1>7, <1>9, <1>12, <1>13

(* Flash changes between the MBR and the staging area disturb neither.     *)
LEMMA StagedKept ==
  ASSUME IInv, image_size > 0, NEW f,
         \A a \in 0..(FlashEnd - 1) : a < MbrEnd \/ a >= staging_base => f[a] = flash[a]
  PROVE  /\ CrcMatches(flash, staging_base, image_size, image_crc32)
              => CrcMatches(f, staging_base, image_size, image_crc32)
         /\ \A a \in Region(0, MbrEnd) : f[a] = <<"old", a>>
<1>1. TypeOK /\ SessionShape /\ MbrIntact BY DEF IInv, SessionConsistent
<1>2. /\ image_crc32 \in Images /\ image_size = ImageSize[image_crc32]
      /\ image_size <= FlashEnd - MbrEnd /\ staging_base = Staging(image_crc32)
      /\ image_size \in Nat
  BY <1>1 DEF SessionShape, TypeOK
<1>3. staging_base \in Nat /\ staging_base + image_size <= FlashEnd BY <1>2, StagingBounds
<1>4. \A i \in 0..(ImageSize[image_crc32] - 1) : f[staging_base + i] = flash[staging_base + i]
  BY <1>2, <1>3, Constants
<1>5. \A a \in Region(0, MbrEnd) : a \in 0..(FlashEnd - 1) /\ a < MbrEnd
  BY Constants DEF Region
<1>6. HoldsImage(flash, staging_base, image_crc32) => HoldsImage(f, staging_base, image_crc32)
  BY <1>4 DEF HoldsImage
<1> QED BY <1>1, <1>2, <1>5, <1>6 DEF MbrIntact, CrcMatches

LEMMA CopyWriteIInv == ASSUME IInv, CopyErasePage \/ CopyWritePage PROVE IInv'
<1>1. TypeOK /\ CopyShape /\ SessionShape /\ StagingFits /\ VerifiedComplete
      /\ CopyOfSession /\ VerifiedImageStaged /\ MbrIntact
  BY DEF IInv, SessionConsistent
<1>2. IrqsOff /\ CopyPending
  BY <1>1 DEF CopyErasePage, CopyWritePage, ConnStep, IrqsOff, CopyOfSession
<1> DEFINE p == copy.dst + copy.done
<1>3. /\ image_size > 0 /\ p \in Nat /\ MbrEnd <= p /\ p + PageSize <= staging_base
      /\ CopySource \in Seq(Words) /\ Len(CopySource) <= PageSize
      /\ Aligned(copy.done + PageSize)
  BY <1>2, CopyFacts
<1>4. /\ flash' \in FlashType
      /\ \A a \in 0..(FlashEnd - 1) : a < p \/ a >= p + PageSize => flash'[a] = flash[a]
  <2>1. flash \in FlashType BY <1>1 DEF TypeOK, FlashType
  <2>2. CASE CopyErasePage BY <1>3, <2>1, <2>2, EraseFacts DEF CopyErasePage
  <2>3. CASE CopyWritePage
    <3>1. flash' = WriteAt(flash, p, CopySource) BY <2>3 DEF CopyWritePage
    <3>2. Len(CopySource) \in Nat BY <1>3
    <3>3. \A a \in 0..(FlashEnd - 1) : a >= p + PageSize => a >= p + Len(CopySource)
      BY <1>3, <3>2, Constants
    <3> QED BY <1>3, <2>1, <3>1, <3>3, WriteFacts
  <2> QED BY <2>2, <2>3
<1>5. \A a \in 0..(FlashEnd - 1) : a < MbrEnd \/ a >= staging_base => flash'[a] = flash[a]
  <2>1. staging_base \in Nat /\ MbrEnd \in Nat BY <1>1, Constants DEF TypeOK
  <2> HIDE DEF p
  <2> QED BY <1>3, <1>4, <2>1, Constants
<1>6. /\ UNCHANGED <<settings, gpregret, mode, ready, session, prepared, esb, reboot_requested>>
      /\ conn' \in {"copy", "copy_write"} /\ (conn' = "copy_write" => CopyPending')
  BY <1>2 DEF CopyErasePage, CopyWritePage, ConnStep, CopyPending
<1>7. /\ copy' = [src |-> copy.src, dst |-> copy.dst, size |-> copy.size,
                  settings |-> copy.settings, done |-> copy'.done]
      /\ copy'.done \in {copy.done, copy.done + PageSize}
  <2>1. CASE CopyErasePage BY <1>1, <2>1 DEF CopyErasePage, CopyShape
  <2>2. CASE CopyWritePage BY <1>1, <2>2 DEF CopyWritePage, CopyShape
  <2> QED BY <2>1, <2>2
<1>8. /\ copy'.done \in Nat /\ Aligned(copy'.done)
      /\ copy'.src = copy.src /\ copy'.dst = copy.dst /\ copy'.size = copy.size
      /\ copy'.settings = copy.settings
  <2>1. copy.done \in Nat /\ copy.done + PageSize \in Nat BY <1>1, Constants DEF TypeOK
  <2>2. Aligned(copy.done) /\ Aligned(copy.done + PageSize) BY <1>1, <1>3 DEF CopyOfSession
  <2>3. copy'.done \in Nat /\ Aligned(copy'.done) BY <1>7, <2>1, <2>2
  <2>4. /\ copy'.src = copy.src /\ copy'.dst = copy.dst /\ copy'.size = copy.size
        /\ copy'.settings = copy.settings
    BY <1>7
  <2> QED BY <2>3, <2>4
<1> USE DEF session
<1>9. TypeOK' BY <1>1, <1>4, <1>6, <1>8 DEF TypeOK, FlashType, IsSettings
<1>10. CopyShape' BY <1>7, <1>8 DEF CopyShape
<1>11. SessionShape' BY <1>1, <1>6 DEF SessionShape
<1>12. StagingFits' BY <1>1, <1>6 DEF StagingFits
<1>13. VerifiedComplete' BY <1>1, <1>6 DEF VerifiedComplete
<1>14. CopyOfSession' BY <1>1, <1>2, <1>6, <1>8 DEF CopyOfSession
<1>15. /\ VerifiedImageStaged' /\ MbrIntact'
  BY <1>1, <1>3, <1>5, <1>6, StagedKept DEF VerifiedImageStaged, MbrIntact
<1> QED BY <1>9, <1>10, <1>11, <1>12, <1>13, <1>14, <1>15 DEF IInv, SessionConsistent

(* A reset and an abort clear the session.                                 *)
LEMMA ClearedIInv ==
  ASSUME IInv, ResetSession, conn' \in {conn, "loop"}, ~IrqsOff',
         UNCHANGED <<flash, settings>>,
         mode' \in {"app", "bootloader", "updated", "broken"}, gpregret' \in BOOLEAN,
         esb' \in {"loop", "aborting", "aborting_late"}, reboot_requested' \in BOOLEAN,
         ready' \in BOOLEAN,
         prepared' \in {prepared, NoSettings}, copy' \in {copy, NoCopy}
  PROVE  IInv'
<1>1. TypeOK /\ CopyShape /\ CopyOfSession /\ MbrIntact BY DEF IInv, SessionConsistent
<1>2. /\ state' = "IDLE" /\ error_code' = "NONE" /\ image_size' = 0
      /\ image_crc32' = NoImage /\ next_expected_seq' = 0 /\ bytes_written' = 0
      /\ last_page_erased' = 0 /\ page_buf' = <<>> /\ page_buf_flash_addr' = 0
      /\ staging_base' = 0 /\ target_flash_base' = 0 /\ last_data_time' = "zero"
  BY DEF ResetSession
<1>3. /\ CopyShape' /\ copy'.src \in Nat /\ copy'.dst \in Nat /\ copy'.size \in Nat
      /\ copy'.done \in Nat /\ IsSettings(copy'.settings) /\ Aligned(copy'.done)
  <2>1. CASE copy' = copy BY <1>1, <2>1 DEF TypeOK, CopyShape, CopyOfSession
  <2>2. CASE copy' = NoCopy BY <2>2, Constants, SettingsFacts DEF NoCopy, CopyShape
  <2> QED BY <2>1, <2>2
<1>4. IsSettings(prepared') BY <1>1, SettingsFacts DEF TypeOK
<1>5. page_buf' \in Seq(Words) BY <1>2
<1>6. TypeOK' BY <1>1, <1>2, <1>3, <1>4, <1>5 DEF TypeOK, States, ErrorCodes
<1>7. SessionConsistent'
  BY <1>2, <1>3 DEF SessionConsistent, SessionShape, StagingFits, VerifiedComplete,
                    CopyOfSession, IrqsOff
<1>8. VerifiedImageStaged' BY <1>2 DEF VerifiedImageStaged
<1>9. MbrIntact' BY <1>1 DEF MbrIntact
<1> QED BY <1>3, <1>6, <1>7, <1>8, <1>9 DEF IInv

LEMMA BootIInv == ASSUME IInv, NEW to_bootloader, Boot(to_bootloader) PROVE IInv'
<1>1. /\ ResetSession /\ UNCHANGED <<flash, settings>> /\ conn' = "loop" /\ esb' = "loop"
      /\ prepared' = NoSettings /\ copy' = NoCopy
      /\ mode' \in {"app", "bootloader", "updated", "broken"} /\ ready' \in BOOLEAN
  BY DEF Boot, Started
<1>2. gpregret' \in BOOLEAN /\ reboot_requested' \in BOOLEAN BY Zenon DEF Boot
<1> QED BY <1>1, <1>2, ClearedIInv DEF IrqsOff

LEMMA HandleAbortIInv == ASSUME IInv, HandleAbort PROVE IInv'
<1>1. /\ ResetSession /\ UNCHANGED <<flash, settings, mode, ready, gpregret, prepared, conn, copy>>
      /\ UNCHANGED reboot_requested /\ ~IrqsOff /\ esb' \in {"aborting", "aborting_late"}
  BY DEF HandleAbort, persistent
<1>2. ~IrqsOff' BY <1>1 DEF IrqsOff
<1> QED BY <1>1, <1>2, ClearedIInv DEF IInv, TypeOK

(* Steps that ask for a reboot or let time pass.                           *)
Waiting == AbortReboot \/ CheckTimeout \/ TimeoutReboot \/ SilencePasses \/ PairingChanges

LEMMA WaitingIInv == ASSUME IInv, Waiting PROVE IInv'
<1>1. TypeOK /\ CopyShape /\ SessionShape /\ StagingFits /\ VerifiedComplete
      /\ CopyOfSession /\ VerifiedImageStaged /\ MbrIntact
  BY DEF IInv, SessionConsistent
<1> USE DEF AbortReboot, CheckTimeout, TimeoutReboot, SilencePasses,
            PairingChanges, Turn, ConnStep,
            persistent, session
<1>2. /\ UNCHANGED Placement
      /\ UNCHANGED <<settings, mode, next_expected_seq, last_page_erased, page_buf,
                     prepared, copy>>
      /\ \/ UNCHANGED <<state, error_code>> /\ conn' \in {conn, "loop"}
         \/ state' = "ERROR" /\ error_code' = "TIMEOUT" /\ conn' = "timeout"
      /\ last_data_time' \in {last_data_time, "old"} /\ esb' \in {esb, "loop"}
  BY DEF Waiting, Placement
<1>3. gpregret' \in BOOLEAN /\ reboot_requested' \in BOOLEAN /\ ready' \in BOOLEAN
  <2>1. gpregret \in BOOLEAN /\ reboot_requested \in BOOLEAN /\ ready \in BOOLEAN
    BY <1>1 DEF TypeOK
  <2>2. (gpregret' = TRUE \/ gpregret' = gpregret)
        /\ (reboot_requested' = TRUE \/ reboot_requested' = reboot_requested)
        /\ (ready' = ready \/ ready' = ~ready)
    BY Zenon DEF Waiting
  <2> QED BY <2>1, <2>2, Zenon
<1> HIDE DEF AbortReboot, CheckTimeout, TimeoutReboot, SilencePasses,
            PairingChanges, Turn, ConnStep,
             persistent, session
<1> USE DEF Placement
<1>4. TypeOK' BY <1>1, <1>2, <1>3 DEF TypeOK, States, ErrorCodes
<1>5. CopyShape' BY <1>1, <1>2 DEF CopyShape
<1>6. SessionShape' BY <1>1, <1>2 DEF SessionShape
<1>7. StagingFits' BY <1>1, <1>2 DEF StagingFits
<1>8. VerifiedComplete' BY <1>1, <1>2 DEF VerifiedComplete
<1>9. CopyOfSession' BY <1>1, <1>2 DEF CopyOfSession, IrqsOff, CopyPending
<1>10. VerifiedImageStaged' BY <1>1, <1>2 DEF VerifiedImageStaged
<1>11. MbrIntact' BY <1>1, <1>2 DEF MbrIntact
<1> QED BY <1>4, <1>5, <1>6, <1>7, <1>8, <1>9, <1>10, <1>11 DEF IInv, SessionConsistent

LEMMA StutterIInv == ASSUME IInv, UNCHANGED vars PROVE IInv'
  BY DEF IInv, vars, persistent, session, TypeOK, CopyShape, SessionConsistent,
         SessionShape, StagingFits, VerifiedComplete, CopyOfSession, CopyPending, IrqsOff,
         VerifiedImageStaged, MbrIntact

LEMMA NextIInv == IInv /\ [Next]_vars => IInv'
<1> SUFFICES ASSUME IInv, [Next]_vars PROVE IInv' OBVIOUS
<1>1. CASE Packet
  <2>1. CASE \E img \in Images, base \in Bases, fault \in Rejections \cup {"NONE"} :
               RejectBegin(img, base, fault) \/ HandleBegin(img, base, fault)
    BY <2>1, RejectBeginIInv, HandleBeginIInv
  <2>2. CASE \E img \in Images : \E seq \in 0..(Packets(img) - 1) :
               \E failed \in SUBSET (Failures \ {"read"}) : HandleData(img, seq, failed)
    BY <2>2, HandleDataIInv
  <2>3. CASE HandleVerify BY <2>3, HandleVerifyIInv
  <2>4. CASE HandleActivate BY <2>4, ActivateIInv DEF ActivateSteps
  <2> QED BY <1>1, <2>1, <2>2, <2>3, <2>4 DEF Packet
<1>2. CASE ConnectionThread
  <2>1. CASE \E read_fails \in {FALSE, "read" \in Failures} : FinishVerify(read_fails)
    BY <2>1, FinishVerifyIInv
  <2>6. CASE \E read_fails \in {FALSE, "read" \in Failures} : PrepareSettings(read_fails)
    BY <2>6, ActivateIInv DEF ActivateSteps
  <2>2. CASE Complete \/ StartCopy \/ CopySkipPage
             \/ EraseSettings \/ WriteSettings
    BY <2>2, ActivateIInv DEF ActivateSteps
  <2>3. CASE CopyErasePage \/ CopyWritePage BY <2>3, CopyWriteIInv
  <2>4. CASE ResetAfterCopy BY <2>4, BootIInv DEF ResetAfterCopy
  <2>5. CASE CheckTimeout \/ TimeoutReboot BY <2>5, WaitingIInv DEF Waiting
  <2> QED BY <1>2, <2>1, <2>2, <2>3, <2>4, <2>5, <2>6 DEF ConnectionThread
<1>3. CASE HandleAbort BY <1>3, HandleAbortIInv
<1>4. CASE AbortReboot \/ SilencePasses \/ PairingChanges BY <1>4, WaitingIInv DEF Waiting
<1>5. CASE PowerThreadReboot \/ PowerLoss
  BY <1>5, BootIInv DEF PowerThreadReboot, PowerLoss
<1>6. CASE UNCHANGED vars BY <1>6, StutterIInv
<1> QED BY <1>1, <1>2, <1>3, <1>4, <1>5, <1>6 DEF Next

-----------------------------------------------------------------------------
(* The session, the flash and the copier always fit together.              *)
THEOREM SpecIInv == Spec => []IInv
  BY InitIInv, NextIInv, PTL DEF Spec

(* Every variable keeps its type, and no session ever counts more words    *)
(* than its image has (the clamp in esb_ota_handle_data).                  *)
THEOREM TypeCorrect == Spec => []TypeOK
<1>1. IInv => TypeOK BY DEF IInv
<1> QED BY <1>1, SpecIInv, PTL

(* The session, its staging area and the copier stay consistent through    *)
(* every interleaving of the threads (esb_ota_handle_abort and             *)
(* esb_ota_handle_activate).                                               *)
THEOREM AlwaysConsistent == Spec => []SessionConsistent
<1>1. IInv => SessionConsistent BY DEF IInv
<1> QED BY <1>1, SpecIInv, PTL

(* A session that reports VERIFY_OK holds exactly the image announced, for *)
(* every flash layout, packet size, image and sequence of packets          *)
(* (esb_ota_handle_verify).                                                *)
THEOREM VerifiedIsStaged == Spec => []VerifiedImageStaged
<1>1. IInv => VerifiedImageStaged BY DEF IInv
<1> QED BY <1>1, SpecIInv, PTL

(* No update writes the MBR page (esb_ota_handle_begin's bounds, the page  *)
(* arithmetic of ota_flush_page_buf and of the copier).                    *)
THEOREM MbrNeverWritten == Spec => []MbrIntact
<1>1. IInv => MbrIntact BY DEF IInv
<1> QED BY <1>1, SpecIInv, PTL

-----------------------------------------------------------------------------
(* Installing: from the verified image to the firmware that runs.          *)

(* The settings page that vouches for an image, and those that may be      *)
(* prepared for it.                                                        *)
ImageSettings(img) ==
  [check |-> "crc", size |-> ImageSize[img],
   crc |-> [i \in 1..ImageSize[img] |-> <<img, i - 1>>]]
PreparedFor(s, img) ==
  s = ImageSettings(img) \/ ("read" \in Failures /\ s = Unchecked(ImageSize[img]))
DescribesImage(s) ==
  s.check = "crc" /\ s.size > 0 => \E img \in Images : s = ImageSettings(img)

(* What ACTIVATE prepares describes the verified image, or no session.     *)
PreparedForSession ==
  /\ DescribesImage(prepared) /\ DescribesImage(copy.settings)
  /\ conn \in {"prepared", "complete"} /\ image_size > 0 =>
       PreparedFor(prepared, image_crc32)
  /\ IrqsOff /\ image_size > 0 => PreparedFor(copy.settings, image_crc32)

(* The copier has copied what it has passed, and erased what it writes.    *)
CopiedSoFar ==
  IrqsOff /\ image_size > 0 =>
    /\ \A i \in 0..(image_size - 1) :
         i < copy.done => flash[copy.dst + i] = <<image_crc32, i>>
    /\ conn = "copy_write" =>
         \A i \in 0..(image_size - 1) :
           copy.done <= i /\ i < copy.done + PageSize => flash[copy.dst + i] = ErasedWord
    /\ conn \in {"settings", "reset"} => copy.done >= image_size

(* The settings page is that of the running firmware, or makes the         *)
(* bootloader compare nothing, until the copier erases it and writes the   *)
(* one prepared.                                                           *)
OfRunning(s) == s = OldSettings \/ ~Vouches(s)
SettingsInUse ==
  /\ conn # "loop" => mode = "app"
  /\ mode = "app" =>
       CASE conn = "settings" -> settings = NoSettings
         [] conn = "reset"    -> settings = copy.settings
         [] OTHER             -> OfRunning(settings)

(* Words of the running firmware stay where they were, and the page buffer *)
(* holds none.                                                             *)
OldInPlace ==
  /\ page_buf \in Seq(ImageWords)
  /\ \A a \in 0..(FlashEnd - 1) : \A b \in Nat : flash[a] = <<"old", b>> => a = b

(* At the two places where the bootloader would start an application, the  *)
(* old one stands until a copy erases it, and then only the image copied.  *)
Stood(a) == {<<"old", a>>, ErasedWord} \cup ({image_crc32} \X Nat)
OldAtBase ==
  /\ mode = "app" /\ ~(IrqsOff /\ image_size > 0) =>
       \A a \in {MbrEnd, FlashBase} : flash[a] = <<"old", a>>
  /\ IrqsOff /\ image_size > 0 =>
       \A a \in {MbrEnd, FlashBase} : flash[a] \in Stood(a)

Installing == PreparedForSession /\ CopiedSoFar /\ SettingsInUse /\ OldInPlace /\ OldAtBase

-----------------------------------------------------------------------------
(* No flash operation of an update writes a word of the old firmware.      *)
Fresh(f, g) ==
  \A a \in 0..(FlashEnd - 1) : g[a] = f[a] \/ g[a] \in ImageWords \cup {ErasedWord, BadWord}

LEMMA FreshKeepsOld ==
  ASSUME OldInPlace, NEW f, Fresh(flash, f)
  PROVE  \A a \in 0..(FlashEnd - 1) : \A b \in Nat : f[a] = <<"old", b>> => a = b
<1>1. \A b \in Nat : <<"old", b>> \notin ImageWords \cup {ErasedWord, BadWord}
  BY ImagesAssumption DEF ImageWords, ErasedWord, BadWord, Tags
<1> QED BY <1>1 DEF Fresh, OldInPlace

LEMMA FreshTransitive ==
  ASSUME NEW f, NEW g, NEW h, Fresh(f, g), Fresh(g, h) PROVE Fresh(f, h)
  BY DEF Fresh

LEMMA EraseFresh ==
  ASSUME NEW f \in FlashType, NEW addr \in Nat PROVE Fresh(f, EraseAt(f, addr))
  BY DEF Fresh, EraseAt, FlashType

LEMMA WriteFresh ==
  ASSUME NEW f \in FlashType, NEW addr \in Nat, NEW ws \in Seq(ImageWords)
  PROVE  Fresh(f, WriteAt(f, addr, ws))
<1> SUFFICES ASSUME NEW a \in 0..(FlashEnd - 1), a \in Region(addr, Len(ws))
             PROVE  Program(f[a], ws[a - addr + 1]) \in ImageWords \cup {BadWord}
  BY DEF Fresh, WriteAt, FlashType
<1>1. a - addr + 1 \in 1..Len(ws) BY SizesAssumption DEF Region
<1>2. ws[a - addr + 1] \in ImageWords BY <1>1
<1> QED BY <1>2 DEF Program

LEMMA ImageWordsAreWords == \A ws \in Seq(ImageWords) : ws \in Seq(Words)
<1>1. ImageWords \subseteq Words BY DEF ImageWords, Words
<1> QED BY <1>1

LEMMA FlushFresh ==
  ASSUME NEW st \in BufferType, st.buf \in Seq(ImageWords), NEW failed
  PROVE  Fresh(st.flash, Flush(st, failed).flash)
<1> DEFINE f1 == IF st.addr > st.erased /\ "erase" \notin failed
                 THEN EraseAt(st.flash, st.addr) ELSE st.flash
           f2 == IF "write" \in failed THEN f1 ELSE WriteAt(f1, st.addr, st.buf)
           next_page == st.addr + PageSize
           ahead == next_page < staging_base + image_size
           f3 == IF ahead /\ "erase_next" \notin failed THEN EraseAt(f2, next_page) ELSE f2
<1>1. st.flash \in FlashType /\ st.addr \in Nat /\ next_page \in Nat
  BY SizesAssumption DEF BufferType
<1>2. f1 \in FlashType /\ Fresh(st.flash, f1)
  <2>1. Fresh(st.flash, st.flash) BY DEF Fresh
  <2> QED BY <1>1, <2>1, EraseFacts, EraseFresh
<1> HIDE DEF f1
<1>3. f2 \in FlashType /\ Fresh(st.flash, f2)
  <2>1. WriteAt(f1, st.addr, st.buf) \in FlashType
    BY <1>1, <1>2, WriteFacts, ImageWordsAreWords
  <2>2. Fresh(f1, WriteAt(f1, st.addr, st.buf)) BY <1>1, <1>2, WriteFresh
  <2> QED BY <1>2, <2>1, <2>2, FreshTransitive
<1> HIDE DEF f2
<1>4. Fresh(st.flash, f3)
  <2>1. Fresh(f2, EraseAt(f2, next_page)) BY <1>1, <1>3, EraseFresh
  <2> QED BY <1>3, <2>1, FreshTransitive
<1>5. Flush(st, failed).flash = f3 BY DEF Flush, f1, f2
<1> QED BY <1>4, <1>5

LEMMA AppendFresh ==
  ASSUME TypeOK, page_buf \in Seq(ImageWords), NEW payload \in Seq(ImageWords), NEW failed
  PROVE  /\ Append2Page(payload, failed).buf \in Seq(ImageWords)
         /\ Fresh(flash, Append2Page(payload, failed).flash)
<1> DEFINE all == page_buf \o payload
           st0 == [flash |-> flash, addr |-> page_buf_flash_addr, buf |-> all,
                   erased |-> last_page_erased]
           full == [st0 EXCEPT !.buf = SubSeq(all, 1, PageSize)]
           rest == SubSeq(all, PageSize + 1, Len(all))
           st1 == IF Len(all) < PageSize THEN st0
                  ELSE [Flush(full, failed) EXCEPT !.buf = rest]
           Good(st) == st \in BufferType /\ st.buf \in Seq(ImageWords) /\ Fresh(flash, st.flash)
<1>1. flash \in FlashType /\ page_buf_flash_addr \in Nat /\ last_page_erased \in Nat
      /\ PageSize \in Nat \ {0}
  BY SizesAssumption DEF TypeOK, FlashType
<1>2. all \in Seq(ImageWords) /\ all \in Seq(Words) BY ImageWordsAreWords
<1> HIDE DEF all
<1>3. Good(st0)
  <2>1. Fresh(flash, flash) BY DEF Fresh
  <2> QED BY <1>1, <1>2, <2>1 DEF BufferType
<1>4. ASSUME NEW st, Good(st) PROVE Good(Flush(st, failed))
  <2>1. Flush(st, failed) \in BufferType /\ Flush(st, failed).buf = <<>> BY <1>4, FlushFacts
  <2>2. Fresh(flash, Flush(st, failed).flash) BY <1>4, FlushFresh, FreshTransitive
  <2> QED BY <2>1, <2>2
<1>5. Good(st1)
  <2>1. CASE Len(all) < PageSize BY <2>1, <1>3
  <2>2. CASE ~(Len(all) < PageSize)
    <3>1. Len(all) \in Nat /\ PageSize <= Len(all) BY <1>1, <1>2, <2>2
    <3>2. SubSeq(all, 1, PageSize) \in Seq(ImageWords) BY <1>1, <1>2, <3>1
    <3>3. rest \in Seq(ImageWords) BY <1>1, <1>2, <3>1
    <3>4. Good(full)
      <4>1. full.buf \in Seq(Words) BY <3>2, ImageWordsAreWords
      <4> QED BY <1>1, <3>2, <4>1, <1>3 DEF BufferType
    <3>5. Good(Flush(full, failed)) BY <1>4, <3>4
    <3>6. rest \in Seq(Words) BY <3>3, ImageWordsAreWords
    <3> HIDE DEF rest, full
    <3>7. Good([Flush(full, failed) EXCEPT !.buf = rest])
      BY <3>3, <3>5, <3>6 DEF BufferType
    <3> QED BY <2>2, <3>7
  <2> QED BY <2>1, <2>2
<1>6. Append2Page(payload, failed) =
        IF bytes_written + Len(payload) >= image_size /\ st1.buf # <<>>
        THEN Flush(st1, failed) ELSE st1
  BY DEF Append2Page, all
<1> HIDE DEF st1
<1>7. Good(Append2Page(payload, failed)) BY <1>4, <1>5, <1>6
<1> QED BY <1>7

-----------------------------------------------------------------------------
(* Every step keeps Installing.                                            *)

(* Steps that leave alone everything Installing speaks of.                 *)
LEMMA SameInstalling ==
  ASSUME Installing, UNCHANGED <<flash, settings, mode, prepared, copy, conn, page_buf>>,
         UNCHANGED <<image_size, image_crc32>>
  PROVE  Installing'
<1>1. IrqsOff' = IrqsOff BY DEF IrqsOff
<1>2. PreparedForSession' BY <1>1 DEF Installing, PreparedForSession
<1>3. CopiedSoFar' BY <1>1 DEF Installing, CopiedSoFar
<1>4. SettingsInUse' BY DEF Installing, SettingsInUse
<1>5. OldInPlace' BY DEF Installing, OldInPlace
<1>6. OldAtBase' BY <1>1 DEF Installing, OldAtBase, Stood
<1> QED BY <1>2, <1>3, <1>4, <1>5, <1>6 DEF Installing

(* Steps outside the copy that neither prepare settings nor write flash.   *)
LEMMA OutsideCopy ==
  ASSUME Installing, mode = "app", ~IrqsOff, ~IrqsOff', page_buf' \in {page_buf, <<>>},
         UNCHANGED <<flash, settings, mode, prepared, copy>>,
         \/ conn' \in {"loop", "verify", "activating", "timeout"}
         \/ conn' = "complete" /\ conn = "prepared" /\ UNCHANGED <<image_size, image_crc32>>
         \/ conn' = conn /\ image_size' = 0
         \/ conn' = conn /\ UNCHANGED <<image_size, image_crc32>>
  PROVE  Installing'
<1>1. PreparedForSession' BY DEF Installing, PreparedForSession
<1>2. CopiedSoFar' BY DEF CopiedSoFar
<1>3. SettingsInUse'
  <2>1. conn \notin {"settings", "reset"} /\ conn' \notin {"settings", "reset"} BY DEF IrqsOff
  <2>2. mode = "app" => OfRunning(settings) BY <2>1 DEF Installing, SettingsInUse
  <2>3. mode' = mode /\ settings' = settings OBVIOUS
  <2> QED BY <2>1, <2>2, <2>3 DEF SettingsInUse
<1>4. OldInPlace'
  <2>1. page_buf' \in Seq(ImageWords)
    <3>1. page_buf \in Seq(ImageWords) /\ <<>> \in Seq(ImageWords) BY DEF Installing, OldInPlace
    <3> QED BY <3>1
  <2> QED BY <2>1 DEF Installing, OldInPlace
<1>5. OldAtBase' BY DEF Installing, OldAtBase
<1> QED BY <1>1, <1>2, <1>3, <1>4, <1>5 DEF Installing

LEMMA HandleDataInstalling ==
  ASSUME IInv, Installing, NEW img \in Images, NEW seq \in 0..(Packets(img) - 1), NEW failed,
         HandleData(img, seq, failed)
  PROVE  Installing'
<1> DEFINE payload == Accepted(img, seq)
           st == Append2Page(payload, failed)
<1>1. TypeOK /\ SessionShape /\ StagingFits /\ OldInPlace
  BY DEF IInv, SessionConsistent, Installing
<1>2. payload \in Seq(Words) /\ payload \in Seq(ImageWords) BY <1>1, PayloadFacts
<1>3. st.buf \in Seq(ImageWords) /\ Fresh(flash, st.flash)
  BY <1>1, <1>2, AppendFresh DEF OldInPlace
<1>4. \A a \in 0..(FlashEnd - 1) : a < page_buf_flash_addr => st.flash[a] = flash[a]
  BY <1>1, <1>2, AppendFacts
<1>5. /\ flash' = st.flash /\ page_buf' = st.buf /\ state \in {"READY", "RECEIVING"}
      /\ conn = "loop" /\ UNCHANGED <<settings, mode, prepared, conn, copy>>
      /\ UNCHANGED <<image_size, image_crc32>>
  BY DEF HandleData, Turn
<1> HIDE DEF payload, st
<1>6. PreparedForSession' BY <1>5 DEF Installing, PreparedForSession, IrqsOff
<1>7. CopiedSoFar' BY <1>5 DEF CopiedSoFar, IrqsOff
<1>8. SettingsInUse' BY <1>5 DEF Installing, SettingsInUse
<1>9. OldInPlace'
  <2>1. \A a \in 0..(FlashEnd - 1) : \A b \in Nat : st.flash[a] = <<"old", b>> => a = b
    BY <1>1, <1>3, FreshKeepsOld
  <2> QED BY <1>3, <1>5, <2>1 DEF OldInPlace
<1>10. OldAtBase'
  <2>1. \A a \in {MbrEnd, FlashBase} : flash'[a] = flash[a]
    <3>1. image_size > 0 /\ FlashBase + image_size <= staging_base
      BY <1>1, <1>5 DEF StagingFits
    <3>2. /\ image_size \in Nat /\ staging_base \in Nat /\ page_buf_flash_addr \in Nat
          /\ page_buf_flash_addr >= staging_base
      BY <1>1, <3>1 DEF TypeOK, SessionShape
    <3>3. \A a \in {MbrEnd, FlashBase} : a \in 0..(FlashEnd - 1) /\ a < page_buf_flash_addr
      BY <3>1, <3>2, Constants
    <3> QED BY <1>4, <1>5, <3>3
  <2> QED BY <1>5, <2>1 DEF Installing, OldAtBase, IrqsOff
<1> QED BY <1>6, <1>7, <1>8, <1>9, <1>10 DEF Installing

(* ACTIVATE prepares the settings of the verified image.                   *)
LEMMA VerifiedContents ==
  ASSUME IInv, error_code = "VERIFY_OK", image_size > 0
  PROVE  /\ image_crc32 \in Images /\ image_size = ImageSize[image_crc32]
         /\ \A i \in 0..(image_size - 1) : flash[staging_base + i] = <<image_crc32, i>>
<1>1. SessionShape /\ VerifiedImageStaged BY DEF IInv, SessionConsistent
<1>2. image_crc32 \in Images /\ image_size = ImageSize[image_crc32]
  BY <1>1 DEF SessionShape
<1>3. image_crc32 # NoImage BY <1>2, Constants
<1>4. HoldsImage(flash, staging_base, image_crc32)
  BY <1>1, <1>3 DEF VerifiedImageStaged, CrcMatches
<1> QED BY <1>2, <1>4 DEF HoldsImage

LEMMA PrepareInstalling ==
  ASSUME IInv, Installing, NEW read_fails \in {FALSE, "read" \in Failures},
         PrepareSettings(read_fails)
  PROVE  Installing'
<1>1. TypeOK /\ CopyOfSession BY DEF IInv, SessionConsistent
<1>2. /\ conn = "activating" /\ conn' = "prepared"
      /\ \/ "read" \in Failures /\ prepared' = Unchecked(image_size)
         \/ prepared' = [check |-> "crc", size |-> image_size,
                         crc |-> Contents(flash, staging_base, image_size)]
      /\ UNCHANGED <<flash, settings, mode, copy, page_buf, image_size, image_crc32>>
  BY DEF PrepareSettings, ConnStep, persistent, session
<1>3. image_size > 0 =>
        image_crc32 \in Images /\ PreparedFor(prepared', image_crc32)
  <2> SUFFICES ASSUME image_size > 0
               PROVE  image_crc32 \in Images /\ PreparedFor(prepared', image_crc32)
    OBVIOUS
  <2>1. error_code = "VERIFY_OK" BY <1>1, <1>2 DEF CopyOfSession
  <2>2. /\ image_crc32 \in Images /\ image_size = ImageSize[image_crc32]
        /\ \A i \in 0..(image_size - 1) : flash[staging_base + i] = <<image_crc32, i>>
    BY <2>1, VerifiedContents
  <2>3. staging_base \in Nat /\ image_size \in Nat BY <1>1 DEF TypeOK
  <2>4. \A i \in 1..image_size : flash[staging_base + i - 1] = <<image_crc32, i - 1>>
    <3> TAKE i \in 1..image_size
    <3>1. i - 1 \in 0..(image_size - 1) /\ staging_base + (i - 1) = staging_base + i - 1
      BY <2>3
    <3> QED BY <2>2, <3>1
  <2>5. Contents(flash, staging_base, image_size)
          = [i \in 1..image_size |-> <<image_crc32, i - 1>>]
    BY <2>4 DEF Contents
  <2> QED BY <1>2, <2>2, <2>5 DEF ImageSettings, PreparedFor
<1>4. DescribesImage(prepared')
  <2>1. image_size \in Nat BY <1>1 DEF TypeOK
  <2>2. \A n \in Nat : Unchecked(n).check = "skip" BY DEF Unchecked
  <2>3. CASE image_size > 0 BY <1>3, <2>1, <2>2, <2>3, Constants DEF DescribesImage, PreparedFor
  <2>4. CASE image_size = 0 BY <1>2, <2>2, <2>4 DEF DescribesImage
  <2> QED BY <2>1, <2>3, <2>4
<1>5. PreparedForSession'
  BY <1>2, <1>3, <1>4 DEF Installing, PreparedForSession, IrqsOff, DescribesImage
<1>6. CopiedSoFar' BY <1>2 DEF CopiedSoFar, IrqsOff
<1>7. SettingsInUse' BY <1>2 DEF Installing, SettingsInUse
<1>8. OldInPlace' BY <1>2 DEF Installing, OldInPlace
<1>9. OldAtBase' BY <1>2 DEF Installing, OldAtBase, IrqsOff
<1> QED BY <1>5, <1>6, <1>7, <1>8, <1>9 DEF Installing

LEMMA StartCopyInstalling == ASSUME IInv, Installing, StartCopy PROVE Installing'
<1>1. /\ conn = "complete" /\ conn' = "copy"
      /\ copy'.settings = prepared /\ copy'.done = 0 /\ copy'.dst = target_flash_base
      /\ UNCHANGED <<flash, settings, mode, prepared, page_buf, image_size, image_crc32>>
  BY DEF StartCopy, ConnStep, persistent, session
<1>2. PreparedForSession' BY <1>1 DEF Installing, PreparedForSession, DescribesImage
<1>3. CopiedSoFar' BY <1>1 DEF CopiedSoFar
<1>4. SettingsInUse' BY <1>1 DEF Installing, SettingsInUse
<1>5. OldInPlace' BY <1>1 DEF Installing, OldInPlace
<1>6. OldAtBase'
  <2>1. \A a \in {MbrEnd, FlashBase} : <<"old", a>> \in Stood(a)' BY DEF Stood
  <2>2. ~IrqsOff /\ IrqsOff' BY <1>1 DEF IrqsOff
  <2>3. OldAtBase BY DEF Installing
  <2>4. mode = "app" => \A a \in {MbrEnd, FlashBase} : flash'[a] = <<"old", a>>
    BY <1>1, <2>2, <2>3 DEF OldAtBase
  <2>5. mode = "app" BY DEF StartCopy, ConnStep
  <2>6. \A a \in {MbrEnd, FlashBase} : flash'[a] \in Stood(a)'
    BY <2>1, <2>4, <2>5
  <2> QED BY <2>2, <2>4, <2>5, <2>6 DEF OldAtBase
<1> QED BY <1>2, <1>3, <1>4, <1>5, <1>6 DEF Installing

(* The copier passes a page when it holds what is staged for it.           *)
LEMMA CopyRange ==
  ASSUME IInv, IrqsOff, image_size > 0
  PROVE  /\ copy.src = staging_base /\ copy.size = image_size
         /\ copy.dst \in Nat /\ copy.done \in Nat /\ image_size \in Nat /\ staging_base \in Nat
         /\ FlashBase + image_size <= staging_base /\ copy.dst <= FlashBase
         /\ staging_base + image_size <= FlashEnd
         /\ image_crc32 \in Images
         /\ \A i \in 0..(image_size - 1) : flash[staging_base + i] = <<image_crc32, i>>
<1>1. TypeOK /\ SessionShape /\ StagingFits /\ VerifiedComplete /\ CopyOfSession
  BY DEF IInv, SessionConsistent
<1>2. /\ copy.src = staging_base /\ copy.dst = target_flash_base /\ copy.size = image_size
      /\ error_code = "VERIFY_OK"
  BY <1>1 DEF CopyOfSession
<1>3. bytes_written > 0 BY <1>1, <1>2 DEF VerifiedComplete
<1>4. FlashBase + image_size <= staging_base BY <1>1, <1>3 DEF StagingFits
<1>5. /\ image_crc32 \in Images /\ image_size = ImageSize[image_crc32]
      /\ image_size <= FlashEnd - MbrEnd /\ staging_base = Staging(image_crc32)
      /\ target_flash_base \in MbrEnd..FlashBase
  BY <1>1 DEF SessionShape
<1>6. staging_base + image_size <= FlashEnd BY <1>5, StagingBounds
<1>7. copy.dst \in Nat /\ copy.dst <= FlashBase BY <1>2, <1>5, Constants
<1>8. copy.done \in Nat /\ image_size \in Nat /\ staging_base \in Nat BY <1>1 DEF TypeOK
<1>9. \A i \in 0..(image_size - 1) : flash[staging_base + i] = <<image_crc32, i>>
  BY <1>2, VerifiedContents
<1> QED BY <1>2, <1>4, <1>5, <1>6, <1>7, <1>8, <1>9

LEMMA CopySourceWords ==
  ASSUME IInv, IrqsOff, CopyPending
  PROVE  /\ CopyLen \in Nat /\ Len(CopySource) = CopyLen /\ CopySource \in Seq(ImageWords)
         /\ CopyLen <= PageSize /\ copy.done + CopyLen <= image_size
         /\ CopyLen = PageSize \/ copy.done + CopyLen = image_size
         /\ \A i \in 0..(image_size - 1) :
              copy.done <= i /\ i < copy.done + CopyLen
                => i - copy.done + 1 \in 1..CopyLen
                   /\ CopySource[i - copy.done + 1] = <<image_crc32, i>>
<1>1. image_size > 0 BY CopyFacts
<1>2. /\ copy.src = staging_base /\ copy.size = image_size
      /\ copy.done \in Nat /\ image_size \in Nat /\ staging_base \in Nat
      /\ image_crc32 \in Images
      /\ \A i \in 0..(image_size - 1) : flash[staging_base + i] = <<image_crc32, i>>
  BY <1>1, CopyRange
<1>3. /\ CopyLen \in Nat /\ CopyLen <= PageSize /\ copy.done + CopyLen <= image_size
      /\ CopyLen = PageSize \/ copy.done + CopyLen = image_size
  BY <1>2, Constants DEF CopyLen, CopyPending
<1> HIDE DEF CopyLen
<1>4. \A j \in 1..CopyLen :
        flash[copy.src + copy.done + j - 1] = <<image_crc32, copy.done + j - 1>>
        /\ copy.done + j - 1 \in Nat
  <2> TAKE j \in 1..CopyLen
  <2>1. copy.done + j - 1 \in 0..(image_size - 1) BY <1>2, <1>3
  <2>2. copy.src + copy.done + j - 1 = staging_base + (copy.done + j - 1) BY <1>2, <1>3
  <2> QED BY <1>2, <2>1, <2>2
<1>5. CopySource = [j \in 1..CopyLen |-> <<image_crc32, copy.done + j - 1>>]
  BY <1>4 DEF CopySource
<1>6. \A j \in 1..CopyLen : <<image_crc32, copy.done + j - 1>> \in ImageWords
  BY <1>2, <1>4 DEF ImageWords
<1>7. CopySource \in Seq(ImageWords) /\ Len(CopySource) = CopyLen BY <1>3, <1>5, <1>6
<1>8. \A i \in 0..(image_size - 1) :
        copy.done <= i /\ i < copy.done + CopyLen
          => i - copy.done + 1 \in 1..CopyLen
             /\ CopySource[i - copy.done + 1] = <<image_crc32, i>>
  <2> SUFFICES ASSUME NEW i \in 0..(image_size - 1), copy.done <= i, i < copy.done + CopyLen
               PROVE  i - copy.done + 1 \in 1..CopyLen
                      /\ CopySource[i - copy.done + 1] = <<image_crc32, i>>
    OBVIOUS
  <2>1. i \in Nat BY <1>2
  <2>2. i - copy.done + 1 \in 1..CopyLen /\ copy.done + (i - copy.done + 1) - 1 = i
    BY <1>2, <1>3, <2>1
  <2> QED BY <1>5, <2>2
<1> QED BY <1>3, <1>7, <1>8

LEMMA SkipInstalling == ASSUME IInv, Installing, CopySkipPage PROVE Installing'
<1>1. /\ conn = "copy" /\ conn' = "copy" /\ CopyPending /\ PageMatches
      /\ copy' = [copy EXCEPT !.done = @ + PageSize]
      /\ UNCHANGED <<flash, settings, mode, prepared, page_buf, image_size, image_crc32>>
  BY DEF CopySkipPage, ConnStep, persistent, session
<1>2. IrqsOff /\ IrqsOff' BY <1>1 DEF IrqsOff
<1>3. image_size > 0 BY <1>1, <1>2, CopyFacts
<1>4. /\ copy'.done = copy.done + PageSize /\ copy'.dst = copy.dst
      /\ copy'.settings = copy.settings
  <2>1. CopyShape BY DEF IInv
  <2>2. copy' = [src |-> copy.src, dst |-> copy.dst, size |-> copy.size,
                 settings |-> copy.settings, done |-> copy.done + PageSize]
    BY <1>1, <2>1 DEF CopyShape
  <2> QED BY <2>2
<1>5. PreparedForSession'
  BY <1>1, <1>2, <1>4 DEF Installing, PreparedForSession, DescribesImage
<1>6. CopiedSoFar'
  <2> SUFFICES ASSUME NEW i \in 0..(image_size - 1), i < copy.done + PageSize
               PROVE  flash[copy.dst + i] = <<image_crc32, i>>
    BY <1>1, <1>3, <1>4 DEF CopiedSoFar
  <2>1. copy.done \in Nat /\ image_size \in Nat /\ copy.dst \in Nat BY <1>2, <1>3, CopyRange
  <2>2. CASE i < copy.done BY <1>2, <1>3, <2>2 DEF Installing, CopiedSoFar
  <2>3. CASE copy.done <= i
    <3>1. /\ CopyLen \in Nat
          /\ CopyLen = PageSize \/ copy.done + CopyLen = image_size
          /\ copy.done <= i /\ i < copy.done + CopyLen
               => i - copy.done + 1 \in 1..CopyLen
                  /\ CopySource[i - copy.done + 1] = <<image_crc32, i>>
      BY <1>1, <1>2, CopySourceWords
    <3> HIDE DEF CopyLen, CopySource
    <3>2. i < copy.done + CopyLen BY <2>1, <2>3, <3>1, Constants
    <3>3. /\ i - copy.done + 1 \in 1..CopyLen
          /\ CopySource[i - copy.done + 1] = <<image_crc32, i>>
      BY <2>3, <3>1, <3>2
    <3>4. Contents(flash, copy.dst + copy.done, CopyLen)[i - copy.done + 1]
            = flash[copy.dst + copy.done + (i - copy.done + 1) - 1]
      BY <3>3 DEF Contents
    <3>5. copy.dst + copy.done + (i - copy.done + 1) - 1 = copy.dst + i BY <2>1
    <3> QED BY <1>1, <3>3, <3>4, <3>5 DEF PageMatches
  <2> QED BY <2>1, <2>2, <2>3
<1>7. SettingsInUse' BY <1>1 DEF Installing, SettingsInUse
<1>8. OldInPlace' BY <1>1 DEF Installing, OldInPlace
<1>9. OldAtBase' BY <1>1, <1>2, <1>3 DEF Installing, OldAtBase, Stood
<1> QED BY <1>5, <1>6, <1>7, <1>8, <1>9 DEF Installing

LEMMA EraseInstalling == ASSUME IInv, Installing, CopyErasePage PROVE Installing'
<1>1. /\ conn = "copy" /\ conn' = "copy_write" /\ CopyPending
      /\ flash' = EraseAt(flash, copy.dst + copy.done)
      /\ UNCHANGED <<settings, mode, prepared, copy, page_buf, image_size, image_crc32>>
  BY DEF CopyErasePage, ConnStep, session
<1>2. IrqsOff /\ IrqsOff' BY <1>1 DEF IrqsOff
<1>3. image_size > 0 BY <1>1, <1>2, CopyFacts
<1>4. /\ copy.dst \in Nat /\ copy.done \in Nat /\ image_size \in Nat /\ staging_base \in Nat
      /\ FlashBase + image_size <= staging_base /\ copy.dst <= FlashBase
      /\ staging_base + image_size <= FlashEnd
  BY <1>2, <1>3, CopyRange
<1>5. flash \in FlashType BY DEF IInv, TypeOK, FlashType
<1>6. PreparedForSession' BY <1>1, <1>2 DEF Installing, PreparedForSession, DescribesImage
<1>7. CopiedSoFar'
  <2>1. ASSUME NEW i \in 0..(image_size - 1), i < copy.done
        PROVE  flash'[copy.dst + i] = <<image_crc32, i>>
    <3>1. copy.dst + i \in 0..(FlashEnd - 1) /\ copy.dst + i < copy.dst + copy.done
      BY <1>4, <2>1, Constants
    <3>2. copy.dst + copy.done \in Nat BY <1>4
    <3>3. flash'[copy.dst + i] = flash[copy.dst + i]
      BY <1>1, <1>5, <3>1, <3>2, EraseFacts
    <3> QED BY <1>2, <1>3, <2>1, <3>3 DEF Installing, CopiedSoFar
  <2>2. ASSUME NEW i \in 0..(image_size - 1), copy.done <= i, i < copy.done + PageSize
        PROVE  flash'[copy.dst + i] = ErasedWord
    <3>1. copy.dst + i \in 0..(FlashEnd - 1)
          /\ copy.dst + i \in Region(copy.dst + copy.done, PageSize)
      BY <1>4, <2>2, Constants DEF Region
    <3> QED BY <1>1, <1>5, <3>1 DEF EraseAt, FlashType
  <2> QED BY <1>1, <2>1, <2>2 DEF CopiedSoFar
<1>8. SettingsInUse' BY <1>1 DEF Installing, SettingsInUse
<1>9. OldInPlace'
  <2>1. Fresh(flash, flash') BY <1>1, <1>4, <1>5, EraseFresh
  <2>2. \A a \in 0..(FlashEnd - 1) : \A b \in Nat : flash'[a] = <<"old", b>> => a = b
    BY <2>1, FreshKeepsOld DEF Installing
  <2> QED BY <1>1, <2>2 DEF Installing, OldInPlace
<1>10. OldAtBase'
  <2>1. \A a \in {MbrEnd, FlashBase} : a \in 0..(FlashEnd - 1) BY Constants
  <2>2. \A a \in {MbrEnd, FlashBase} : flash'[a] \in {flash[a], ErasedWord}
    BY <1>1, <1>5, <2>1 DEF EraseAt, FlashType
  <2>3. \A a \in {MbrEnd, FlashBase} : flash[a] \in Stood(a)
    BY <1>2, <1>3 DEF Installing, OldAtBase
  <2>4. \A a \in {MbrEnd, FlashBase} : flash'[a] \in Stood(a) BY <2>2, <2>3 DEF Stood
  <2> QED BY <1>1, <1>2, <1>3, <2>4 DEF OldAtBase, Stood
<1> QED BY <1>6, <1>7, <1>8, <1>9, <1>10 DEF Installing

LEMMA WritePageInstalling == ASSUME IInv, Installing, CopyWritePage PROVE Installing'
<1>1. /\ conn = "copy_write" /\ conn' = "copy"
      /\ flash' = WriteAt(flash, copy.dst + copy.done, CopySource)
      /\ copy' = [copy EXCEPT !.done = @ + PageSize]
      /\ UNCHANGED <<settings, mode, prepared, page_buf, image_size, image_crc32>>
  BY DEF CopyWritePage, ConnStep, session
<1>2. IrqsOff /\ IrqsOff' /\ CopyPending
  BY <1>1 DEF IrqsOff, IInv, SessionConsistent, CopyOfSession
<1>3. image_size > 0 BY <1>2, CopyFacts
<1>4. /\ copy.dst \in Nat /\ copy.done \in Nat /\ image_size \in Nat /\ staging_base \in Nat
      /\ FlashBase + image_size <= staging_base /\ copy.dst <= FlashBase
      /\ staging_base + image_size <= FlashEnd
  BY <1>2, <1>3, CopyRange
<1>5. flash \in FlashType BY DEF IInv, TypeOK, FlashType
<1>6. /\ copy'.done = copy.done + PageSize /\ copy'.dst = copy.dst
      /\ copy'.settings = copy.settings
  <2>1. CopyShape BY DEF IInv
  <2>2. copy' = [src |-> copy.src, dst |-> copy.dst, size |-> copy.size,
                 settings |-> copy.settings, done |-> copy.done + PageSize]
    BY <1>1, <2>1 DEF CopyShape
  <2> QED BY <2>2
<1>7. /\ CopyLen \in Nat /\ Len(CopySource) = CopyLen /\ CopySource \in Seq(ImageWords)
      /\ CopyLen = PageSize \/ copy.done + CopyLen = image_size
      /\ \A i \in 0..(image_size - 1) :
           copy.done <= i /\ i < copy.done + CopyLen
             => i - copy.done + 1 \in 1..CopyLen
                /\ CopySource[i - copy.done + 1] = <<image_crc32, i>>
  BY <1>2, CopySourceWords
<1> HIDE DEF CopyLen, CopySource
<1>8. PreparedForSession'
  BY <1>1, <1>2, <1>6 DEF Installing, PreparedForSession, DescribesImage
<1>9. CopiedSoFar'
  <2> SUFFICES ASSUME NEW i \in 0..(image_size - 1), i < copy.done + PageSize
               PROVE  flash'[copy.dst + i] = <<image_crc32, i>>
    BY <1>1, <1>3, <1>6 DEF CopiedSoFar
  <2>1. copy.dst + i \in 0..(FlashEnd - 1) /\ copy.dst + i \in Nat /\ i \in Nat
    BY <1>4, Constants
  <2>2. CASE i < copy.done
    <3>1. copy.dst + i < copy.dst + copy.done BY <1>4, <2>1, <2>2
    <3>2. flash'[copy.dst + i] = flash[copy.dst + i]
      <4>1. CopySource \in Seq(Words) BY <1>7, ImageWordsAreWords
      <4>2. copy.dst + copy.done \in Nat BY <1>4
      <4> QED BY <1>1, <1>5, <2>1, <3>1, <4>1, <4>2, WriteFacts
    <3> QED BY <1>2, <1>3, <2>2, <3>2 DEF Installing, CopiedSoFar
  <2>3. CASE copy.done <= i
    <3>1. i < copy.done + CopyLen BY <1>4, <1>7, <2>1, Constants
    <3>2. CopySource[i - copy.done + 1] = <<image_crc32, i>> BY <1>7, <2>3, <3>1
    <3>3. flash[copy.dst + i] = ErasedWord
      BY <1>1, <1>2, <1>3, <2>3 DEF Installing, CopiedSoFar
    <3>4. Len(CopySource) \in Nat /\ i < copy.done + Len(CopySource) BY <1>7, <3>1
    <3>5. copy.dst + i \in Region(copy.dst + copy.done, Len(CopySource))
      BY <1>4, <2>1, <2>3, <3>4 DEF Region
    <3>6. (copy.dst + i) - (copy.dst + copy.done) + 1 = i - copy.done + 1 BY <1>4, <2>1
    <3>7. flash'[copy.dst + i]
            = Program(flash[copy.dst + i],
                      CopySource[(copy.dst + i) - (copy.dst + copy.done) + 1])
      BY <1>1, <1>5, <2>1, <3>5 DEF WriteAt, FlashType
    <3> QED BY <3>2, <3>3, <3>6, <3>7 DEF Program
  <2> QED BY <1>4, <2>1, <2>2, <2>3
<1>10. SettingsInUse' BY <1>1 DEF Installing, SettingsInUse
<1>11. OldInPlace'
  <2>1. Fresh(flash, flash')
    <3>1. copy.dst + copy.done \in Nat BY <1>4
    <3> QED BY <1>1, <1>5, <1>7, <3>1, WriteFresh
  <2>2. \A a \in 0..(FlashEnd - 1) : \A b \in Nat : flash'[a] = <<"old", b>> => a = b
    BY <2>1, FreshKeepsOld DEF Installing
  <2> QED BY <1>1, <2>2 DEF Installing, OldInPlace
<1>12. OldAtBase'
  <2>1. ASSUME NEW a \in {MbrEnd, FlashBase} PROVE flash'[a] \in Stood(a)
    <3>1. a \in 0..(FlashEnd - 1) /\ a \in Nat BY Constants
    <3>2. flash[a] \in Stood(a) BY <1>2, <1>3 DEF Installing, OldAtBase
    <3>3. CASE a \in Region(copy.dst + copy.done, Len(CopySource))
      <4>1. /\ copy.done + CopyLen <= image_size /\ CopyLen \in Nat
            /\ Len(CopySource) = CopyLen /\ CopyLen <= PageSize
        BY <1>2, CopySourceWords
      <4>2. /\ a - copy.dst \in 0..(image_size - 1) /\ a - copy.dst < copy.done + PageSize
            /\ copy.dst + (a - copy.dst) = a /\ a - copy.dst \in Nat
        <5>1. /\ copy.dst + copy.done <= a
              /\ a <= copy.dst + copy.done + Len(CopySource) - 1
          BY <3>3 DEF Region
        <5>2. a < copy.dst + copy.done + CopyLen BY <1>4, <3>1, <4>1, <5>1
        <5>3. PageSize \in Nat BY Constants
        <5> DEFINE dst == copy.dst
                   done == copy.done
        <5>4. dst \in Nat /\ done \in Nat /\ image_size \in Nat BY <1>4
        <5>5. dst + done <= a /\ a < dst + done + CopyLen /\ done + CopyLen <= image_size
              /\ CopyLen \in Nat /\ CopyLen <= PageSize /\ a \in Nat
          BY <3>1, <4>1, <5>1, <5>2
        <5> HIDE DEF dst, done
        <5>6. /\ a - dst \in Nat /\ a - dst < image_size /\ a - dst < done + PageSize
              /\ dst + (a - dst) = a
          BY <5>3, <5>4, <5>5
        <5>7. a - dst \in 0..(image_size - 1) BY <5>4, <5>6
        <5> QED BY <5>6, <5>7 DEF dst, done
      <4>3. flash'[copy.dst + (a - copy.dst)] = <<image_crc32, a - copy.dst>>
        BY <1>1, <1>2, <1>3, <1>6, <1>9, <4>2 DEF CopiedSoFar
      <4>4. flash'[a] = <<image_crc32, a - copy.dst>> BY <4>2, <4>3
      <4>5. <<image_crc32, a - copy.dst>> \in {image_crc32} \X Nat BY <4>2
      <4> QED BY <4>4, <4>5 DEF Stood
    <3>4. CASE a \notin Region(copy.dst + copy.done, Len(CopySource))
      <4>1. flash'[a] = flash[a] BY <1>1, <1>5, <3>1, <3>4 DEF WriteAt, FlashType
      <4> QED BY <3>2, <4>1
    <3> QED BY <3>3, <3>4
  <2> QED BY <1>1, <1>2, <1>3, <2>1 DEF OldAtBase, Stood
<1> QED BY <1>8, <1>9, <1>10, <1>11, <1>12 DEF Installing

(* The settings page: erased once everything is copied, then written.      *)
LEMMA SettingsInstalling ==
  ASSUME IInv, Installing, EraseSettings \/ WriteSettings PROVE Installing'
<1>1. /\ \/ conn = "copy" /\ conn' = "settings" /\ ~CopyPending /\ settings' = NoSettings
         \/ conn = "settings" /\ conn' = "reset" /\ settings' = copy.settings
      /\ UNCHANGED <<flash, mode, prepared, copy, page_buf, image_size, image_crc32>>
  BY DEF EraseSettings, WriteSettings, ConnStep, session
<1>2. IrqsOff /\ IrqsOff' BY <1>1 DEF IrqsOff
<1>3. PreparedForSession' BY <1>1, <1>2 DEF Installing, PreparedForSession, DescribesImage
<1>4. CopiedSoFar'
  <2>1. /\ copy.size = image_size /\ image_size \in Nat /\ copy.done \in Nat
    BY <1>2 DEF IInv, SessionConsistent, CopyOfSession, TypeOK
  <2>2. ~CopyPending => copy.done >= image_size BY <2>1 DEF CopyPending
  <2> QED BY <1>1, <1>2, <2>2 DEF Installing, CopiedSoFar
<1>5. SettingsInUse' BY <1>1 DEF Installing, SettingsInUse, NoSettings
<1>6. OldInPlace' BY <1>1 DEF Installing, OldInPlace
<1>7. OldAtBase' BY <1>1, <1>2 DEF Installing, OldAtBase, Stood
<1> QED BY <1>3, <1>4, <1>5, <1>6, <1>7 DEF Installing

(* What the bootloader finds first at the place where it starts an         *)
(* application.                                                            *)
LEMMA FirstWords ==
  ASSUME IInv
  PROVE  /\ AppBase \in {MbrEnd, FlashBase} /\ AppBase \in 0..(FlashEnd - 1)
         /\ RunsOldFirmware => flash[AppBase] = <<"old", FlashBase>>
         /\ \A img \in Images : RunsImage(img) => flash[AppBase] = <<img, 0>>
<1>1. AppBase \in {MbrEnd, FlashBase} BY DEF AppBase
<1>2. AppBase \in 0..(FlashEnd - 1) BY <1>1, Constants
<1>3. RunsOldFirmware => flash[AppBase] = <<"old", FlashBase>>
  <2> SUFFICES ASSUME RunsOldFirmware PROVE flash[AppBase] = <<"old", FlashBase>>
    OBVIOUS
  <2>1. 1 \in 1..RunningSize BY Constants
  <2>2. Contents(flash, AppBase, RunningSize)[1] = flash[AppBase + 1 - 1]
        /\ Contents(OldFirmware, FlashBase, RunningSize)[1] = OldFirmware[FlashBase + 1 - 1]
    BY <2>1 DEF Contents
  <2>3. AppBase + 1 - 1 = AppBase /\ FlashBase + 1 - 1 = FlashBase BY <1>2, Constants
  <2>4. FlashBase \in 0..(FlashEnd - 1) BY Constants
  <2> QED BY <2>2, <2>3, <2>4 DEF RunsOldFirmware, OldFirmware
<1>4. ASSUME NEW img \in Images, RunsImage(img) PROVE flash[AppBase] = <<img, 0>>
  <2>1. 0 \in 0..(ImageSize[img] - 1) BY Constants
  <2>2. flash[AppBase + 0] = <<img, 0>> BY <1>4, <2>1 DEF RunsImage, HoldsImage
  <2>3. AppBase + 0 = AppBase BY <1>2
  <2> QED BY <2>2, <2>3
<1> QED BY <1>1, <1>2, <1>3, <1>4

LEMMA NoImageIsOld == \A img \in Images : \A a, b : <<img, a>> # <<"old", b>>
<1>1. "old" \notin Images BY ImagesAssumption DEF Tags
<1> QED BY <1>1

(* Settings that vouch for an image match nothing but the whole image.     *)
LEMMA VouchedImage ==
  ASSUME IInv, AppValid, NEW img \in Images, settings = ImageSettings(img)
  PROVE  RunsImage(img)
<1>1. /\ settings.check = "crc" /\ settings.size = ImageSize[img]
      /\ settings.crc = [i \in 1..ImageSize[img] |-> <<img, i - 1>>]
  BY DEF ImageSettings
<1>2. /\ AppBase + ImageSize[img] <= FlashEnd
      /\ Contents(flash, AppBase, ImageSize[img]) = [i \in 1..ImageSize[img] |-> <<img, i - 1>>]
  BY <1>1 DEF AppValid
<1>3. AppBase \in Nat /\ ImageSize[img] \in Nat BY FirstWords, Constants
<1>4. ASSUME NEW i \in 0..(ImageSize[img] - 1) PROVE flash[AppBase + i] = <<img, i>>
  <2>1. i + 1 \in 1..ImageSize[img] /\ AppBase + (i + 1) - 1 = AppBase + i /\ (i + 1) - 1 = i
    BY <1>3
  <2>2. Contents(flash, AppBase, ImageSize[img])[i + 1] = flash[AppBase + (i + 1) - 1]
    BY <2>1 DEF Contents
  <2>3. [k \in 1..ImageSize[img] |-> <<img, k - 1>>][i + 1] = <<img, (i + 1) - 1>> BY <2>1
  <2> QED BY <1>2, <2>1, <2>2, <2>3
<1> QED BY <1>2, <1>4 DEF RunsImage, HoldsImage

(* The bootloader starts the old firmware again, where it was; the image   *)
(* that was being copied; or something else, if it compared nothing.       *)
LEMMA BootFacts ==
  ASSUME IInv, Installing, mode = "app", AppValid
  PROVE  /\ Started = "app" =>
              OfRunning(settings) /\ \A a \in {MbrEnd, FlashBase} : flash[a] = <<"old", a>>
         /\ Started = "updated" =>
              /\ IrqsOff /\ image_size > 0 /\ RunsImage(image_crc32)
              /\ \A img \in Images : RunsImage(img) => img = image_crc32
         /\ Started = "broken" => ~Vouches(settings)
<1>1. conn # "settings"
  <2> SUFFICES ASSUME conn = "settings" PROVE FALSE OBVIOUS
  <2>1. settings.check = "none" BY DEF Installing, SettingsInUse, NoSettings
  <2> QED BY <2>1 DEF AppValid
<1>2. OfRunning(settings) \/ \E img \in Images : settings = ImageSettings(img)
  <2>1. CASE conn = "reset"
    <3>1. DescribesImage(settings)
      BY <2>1 DEF Installing, SettingsInUse, PreparedForSession
    <3>2. settings.check # "none" BY DEF AppValid
    <3> QED BY <3>1, <3>2 DEF DescribesImage, OfRunning, Vouches
  <2>2. CASE conn # "reset" BY <1>1, <2>2 DEF Installing, SettingsInUse
  <2> QED BY <2>1, <2>2
<1>3. ASSUME RunsOldFirmware
      PROVE  OfRunning(settings) /\ \A a \in {MbrEnd, FlashBase} : flash[a] = <<"old", a>>
  <2>1. flash[AppBase] = <<"old", FlashBase>> /\ AppBase \in 0..(FlashEnd - 1)
    BY <1>3, FirstWords
  <2>2. AppBase = FlashBase BY <2>1, Constants DEF Installing, OldInPlace
  <2>3. flash[FlashBase] = <<"old", FlashBase>> BY <2>1, <2>2
  <2>4. flash[MbrEnd] = <<"old", MbrEnd>> BY <2>2, <2>3 DEF AppBase
  <2>5. ASSUME NEW img \in Images, settings = ImageSettings(img) PROVE FALSE
    <3>1. RunsImage(img) BY <2>5, VouchedImage
    <3>2. flash[AppBase] = <<img, 0>> BY <3>1, FirstWords
    <3> QED BY <2>1, <3>2, NoImageIsOld
  <2> QED BY <1>2, <2>3, <2>4, <2>5
<1>4. ASSUME NEW i \in Images, RunsImage(i)
      PROVE  /\ IrqsOff /\ image_size > 0 /\ RunsImage(image_crc32)
             /\ \A img \in Images : RunsImage(img) => img = image_crc32
  <2>1. AppBase \in {MbrEnd, FlashBase}
        /\ \A img \in Images : RunsImage(img) => flash[AppBase] = <<img, 0>>
    BY FirstWords
  <2>2. IrqsOff /\ image_size > 0
    <3> SUFFICES ASSUME ~(IrqsOff /\ image_size > 0) PROVE FALSE OBVIOUS
    <3>1. flash[AppBase] = <<"old", AppBase>> BY <2>1 DEF Installing, OldAtBase
    <3> QED BY <1>4, <2>1, <3>1, NoImageIsOld
  <2>3. flash[AppBase] \in Stood(AppBase) BY <2>1, <2>2 DEF Installing, OldAtBase
  <2>4. ASSUME NEW img \in Images, RunsImage(img) PROVE img = image_crc32
    <3>1. flash[AppBase] = <<img, 0>> BY <2>1, <2>4
    <3>2. <<img, 0>> # <<"old", AppBase>> BY NoImageIsOld
    <3>3. <<img, 0>> # ErasedWord BY ImagesAssumption DEF ErasedWord, Tags
    <3> QED BY <2>3, <3>1, <3>2, <3>3 DEF Stood
  <2> QED BY <1>4, <2>2, <2>4
<1>5. ASSUME ~RunsOldFirmware, ~\E img \in Images : RunsImage(img) PROVE ~Vouches(settings)
  <2>1. settings # OldSettings
    <3> SUFFICES ASSUME settings = OldSettings PROVE FALSE OBVIOUS
    <3>1. /\ settings.check = "crc" /\ settings.size = RunningSize
          /\ settings.crc = Contents(OldFirmware, FlashBase, RunningSize)
      BY DEF OldSettings
    <3> QED BY <1>5, <3>1 DEF AppValid, RunsOldFirmware
  <2>2. ASSUME NEW img \in Images, settings = ImageSettings(img) PROVE FALSE
    BY <1>5, <2>2, VouchedImage
  <2> QED BY <1>2, <2>1, <2>2 DEF OfRunning
<1>6. /\ Started = "app" => RunsOldFirmware
      /\ Started = "updated" => \E img \in Images : RunsImage(img)
      /\ Started = "broken" => ~RunsOldFirmware /\ ~\E img \in Images : RunsImage(img)
  BY DEF Started
<1> QED BY <1>3, <1>4, <1>5, <1>6

LEMMA BootInstalling ==
  ASSUME IInv, Installing, mode = "app", NEW to_bootloader, Boot(to_bootloader)
  PROVE  Installing'
<1>1. /\ prepared' = NoSettings /\ conn' = "loop" /\ copy' = NoCopy
      /\ UNCHANGED <<flash, settings>> /\ page_buf' = <<>> /\ image_size' = 0
      /\ mode' = "app" => AppValid /\ Started = "app"
  BY DEF Boot, ResetSession
<1>2. PreparedForSession'
  BY <1>1 DEF PreparedForSession, DescribesImage, NoCopy, NoSettings, IrqsOff
<1>3. CopiedSoFar' BY <1>1 DEF CopiedSoFar
<1>4. SettingsInUse' BY <1>1, BootFacts DEF SettingsInUse
<1>5. OldInPlace'
  <2>1. page_buf' \in Seq(ImageWords) BY <1>1
  <2> QED BY <1>1, <2>1 DEF Installing, OldInPlace
<1>6. OldAtBase' BY <1>1, BootFacts DEF OldAtBase, IrqsOff
<1> QED BY <1>2, <1>3, <1>4, <1>5, <1>6 DEF Installing

LEMMA InitInstalling == Init => Installing
<1> SUFFICES ASSUME Init PROVE Installing OBVIOUS
<1>1. /\ flash = OldFirmware /\ settings \in {OldSettings, Unchecked(RunningSize)}
      /\ prepared = NoSettings
      /\ conn = "loop" /\ copy = NoCopy /\ page_buf = <<>> /\ image_size = 0
  BY DEF Init
<1>2. PreparedForSession
  BY <1>1 DEF PreparedForSession, DescribesImage, NoCopy, NoSettings, IrqsOff
<1>3. CopiedSoFar BY <1>1 DEF CopiedSoFar
<1>4. SettingsInUse
  <2>1. OfRunning(settings) BY <1>1 DEF OfRunning, Vouches, Unchecked
  <2>2. mode = "app" BY DEF Init
  <2> QED BY <1>1, <2>1, <2>2 DEF SettingsInUse
<1>5. OldInPlace
  <2>1. page_buf \in Seq(ImageWords) BY <1>1
  <2>2. \A a \in 0..(FlashEnd - 1) : flash[a] = <<"old", a>> BY <1>1 DEF OldFirmware
  <2> QED BY <2>1, <2>2 DEF OldInPlace
<1>6. OldAtBase
  <2>1. MbrEnd \in 0..(FlashEnd - 1) /\ FlashBase \in 0..(FlashEnd - 1) BY Constants
  <2> QED BY <1>1, <2>1 DEF OldAtBase, OldFirmware, IrqsOff
<1> QED BY <1>2, <1>3, <1>4, <1>5, <1>6 DEF Installing

LEMMA NextInstalling == IInv /\ Installing /\ [Next]_vars => Installing'
<1> SUFFICES ASSUME IInv, Installing, [Next]_vars PROVE Installing' OBVIOUS
<1>1. CASE Packet
  <2>1. CASE \E img \in Images, base \in Bases, fault \in Rejections \cup {"NONE"} :
               RejectBegin(img, base, fault) \/ HandleBegin(img, base, fault)
    <3>1. /\ mode = "app" /\ ~IrqsOff /\ ~IrqsOff' /\ page_buf' \in {page_buf, <<>>} /\ conn' = "loop"
          /\ UNCHANGED <<flash, settings, mode, prepared, copy>>
      BY <2>1 DEF RejectBegin, HandleBegin, Turn, persistent, IrqsOff
    <3> QED BY <3>1, OutsideCopy
  <2>2. CASE \E img \in Images : \E seq \in 0..(Packets(img) - 1) :
               \E failed \in SUBSET (Failures \ {"read"}) : HandleData(img, seq, failed)
    BY <2>2, HandleDataInstalling
  <2>3. CASE HandleVerify \/ HandleActivate
    <3>1. /\ mode = "app" /\ ~IrqsOff /\ ~IrqsOff' /\ page_buf' = page_buf /\ conn' \in {"verify", "activating"}
          /\ UNCHANGED <<flash, settings, mode, prepared, copy>>
      BY <2>3 DEF HandleVerify, HandleActivate, Turn, persistent, IrqsOff
    <3> QED BY <3>1, OutsideCopy
  <2> QED BY <1>1, <2>1, <2>2, <2>3 DEF Packet
<1>2. CASE ConnectionThread
  <2>1. CASE \E read_fails \in {FALSE, "read" \in Failures} : FinishVerify(read_fails)
    <3>1. /\ mode = "app" /\ ~IrqsOff /\ ~IrqsOff' /\ page_buf' = page_buf /\ conn' = "loop"
          /\ UNCHANGED <<flash, settings, mode, prepared, copy>>
      BY <2>1 DEF FinishVerify, persistent, IrqsOff
    <3> QED BY <3>1, OutsideCopy
  <2>2. CASE \E read_fails \in {FALSE, "read" \in Failures} : PrepareSettings(read_fails)
    BY <2>2, PrepareInstalling
  <2>3. CASE Complete
    <3>1. /\ mode = "app" /\ ~IrqsOff /\ ~IrqsOff' /\ page_buf' = page_buf
          /\ conn' = "complete" /\ conn = "prepared" /\ UNCHANGED <<image_size, image_crc32>>
          /\ UNCHANGED <<flash, settings, mode, prepared, copy>>
      BY <2>3 DEF Complete, ConnStep, persistent, IrqsOff
    <3> QED BY <3>1, OutsideCopy
  <2>4. CASE StartCopy BY <2>4, StartCopyInstalling
  <2>5. CASE CopySkipPage BY <2>5, SkipInstalling
  <2>6. CASE CopyErasePage BY <2>6, EraseInstalling
  <2>7. CASE CopyWritePage BY <2>7, WritePageInstalling
  <2>8. CASE EraseSettings \/ WriteSettings BY <2>8, SettingsInstalling
  <2>9. CASE ResetAfterCopy BY <2>9, BootInstalling DEF ResetAfterCopy
  <2>10. CASE CheckTimeout \/ TimeoutReboot
    <3>1. /\ mode = "app" /\ ~IrqsOff /\ ~IrqsOff' /\ page_buf' = page_buf /\ conn' \in {"timeout", "loop"}
          /\ UNCHANGED <<flash, settings, mode, prepared, copy>>
      BY <2>10 DEF CheckTimeout, TimeoutReboot, Turn, ConnStep, persistent, session, IrqsOff
    <3> QED BY <3>1, OutsideCopy
  <2> QED BY <1>2, <2>1, <2>2, <2>3, <2>4, <2>5, <2>6, <2>7, <2>8, <2>9, <2>10
          DEF ConnectionThread
<1>3. CASE HandleAbort
  <2>1. /\ mode = "app" /\ ~IrqsOff /\ ~IrqsOff' /\ page_buf' = <<>> /\ conn' = conn /\ image_size' = 0
        /\ UNCHANGED <<flash, settings, mode, prepared, copy>>
    BY <1>3 DEF HandleAbort, ResetSession, persistent, IrqsOff
  <2> QED BY <2>1, OutsideCopy
<1>4. CASE AbortReboot \/ SilencePasses \/ PairingChanges \/ UNCHANGED vars
  BY <1>4, SameInstalling DEF AbortReboot, SilencePasses, PairingChanges, vars, persistent,
                              session
<1>5. CASE PowerThreadReboot \/ PowerLoss
  BY <1>5, BootInstalling DEF PowerThreadReboot, PowerLoss
<1> QED BY <1>1, <1>2, <1>3, <1>4, <1>5 DEF Next

-----------------------------------------------------------------------------
(* The installed image, and the promise.                                   *)

LEMMA InstalledWhenReset == IInv /\ Installing => InstalledImage
<1> SUFFICES ASSUME IInv, Installing, conn = "reset", copy.size > 0
             PROVE  /\ HoldsImage(flash, copy.dst, image_crc32)
                    /\ \/ settings = [check |-> "crc", size |-> copy.size,
                                      crc |-> Contents(flash, copy.dst, copy.size)]
                       \/ "read" \in Failures /\ settings = Unchecked(copy.size)
  BY DEF InstalledImage
<1>1. IrqsOff BY DEF IrqsOff
<1>2. copy.size = image_size /\ image_size > 0
  BY <1>1 DEF IInv, SessionConsistent, CopyOfSession
<1>3. copy.dst \in Nat /\ image_size \in Nat BY <1>1, <1>2, CopyRange
<1>4. image_crc32 \in Images /\ image_size = ImageSize[image_crc32]
  BY <1>2 DEF IInv, SessionConsistent, SessionShape
<1>5. copy.done \in Nat /\ copy.done >= image_size
  BY <1>1, <1>2, CopyRange DEF Installing, CopiedSoFar
<1>6. \A i \in 0..(image_size - 1) : flash[copy.dst + i] = <<image_crc32, i>>
  BY <1>1, <1>2, <1>3, <1>5 DEF Installing, CopiedSoFar
<1>7. PreparedFor(settings, image_crc32)
  BY <1>1, <1>2 DEF Installing, PreparedForSession, SettingsInUse
<1>8. Contents(flash, copy.dst, image_size) = [i \in 1..image_size |-> <<image_crc32, i - 1>>]
  <2>1. \A i \in 1..image_size : flash[copy.dst + i - 1] = <<image_crc32, i - 1>>
    <3> TAKE i \in 1..image_size
    <3>1. i - 1 \in 0..(image_size - 1) /\ copy.dst + (i - 1) = copy.dst + i - 1 BY <1>3
    <3> QED BY <1>6, <3>1
  <2> QED BY <2>1 DEF Contents
<1> QED BY <1>2, <1>4, <1>6, <1>7, <1>8 DEF HoldsImage, ImageSettings, PreparedFor

(* Steps of the running tracker that do not reset it.                      *)
LEMMA SessionStep ==
  ASSUME IInv, IInv', mode = "app", mode' = "app", UNCHANGED settings,
         UNCHANGED <<image_size, image_crc32>> \/ error_code' # "VERIFY_OK"
  PROVE  [Promise!Next]_(Promise!vars)
<1>1. Runs = "old" /\ Runs' = "old" /\ Vouches(settings)' = Vouches(settings)
  BY DEF Runs, Vouches
<1>2. CASE Staged' = Staged BY <1>1, <1>2 DEF Promise!vars
<1>3. CASE Staged' # Staged /\ Staged # NoImage
  <2>1. Staged' = NoImage BY <1>3 DEF Staged
  <2> QED BY <1>1, <1>3, <2>1 DEF Promise!Next, Promise!Drop
<1>4. CASE Staged' # Staged /\ Staged = NoImage
  <2>1. image_size' > 0 /\ Staged' = image_crc32' BY <1>4 DEF Staged
  <2>2. image_crc32' \in Images BY <2>1 DEF IInv, SessionConsistent, SessionShape
  <2> QED BY <1>1, <1>4, <2>1, <2>2 DEF Promise!Next, Promise!Stage
<1> QED BY <1>2, <1>3, <1>4

(* The copier erases and writes the settings page.                         *)
LEMMA SettingsStep ==
  ASSUME IInv, Installing, mode = "app", EraseSettings \/ WriteSettings
  PROVE  [Promise!Next]_(Promise!vars)
<1>1. /\ mode' = "app" /\ UNCHANGED <<error_code, image_size, image_crc32>>
      /\ \/ settings' = NoSettings
         \/ settings' = copy.settings /\ IrqsOff
  BY DEF EraseSettings, WriteSettings, ConnStep, session, IrqsOff
<1>2. Runs = "old" /\ Runs' = "old" /\ Staged' = Staged BY <1>1 DEF Runs, Staged
<1>3. Vouches(settings)' \in BOOLEAN BY DEF Vouches
<1>4. Vouches(settings)' \/ "read" \in Failures \/ Staged = NoImage
  <2>1. CASE settings' = NoSettings BY <2>1 DEF Vouches, NoSettings
  <2>2. CASE settings' = copy.settings /\ IrqsOff /\ image_size > 0
    <3>1. PreparedFor(settings', image_crc32) BY <2>2 DEF Installing, PreparedForSession
    <3>2. image_crc32 \in Images BY <2>2, CopyRange
    <3>3. ImageSettings(image_crc32).check = "crc" /\ ImageSettings(image_crc32).size > 0
      BY <3>2, Constants DEF ImageSettings
    <3> QED BY <3>1, <3>3 DEF PreparedFor, Vouches
  <2>3. CASE ~(image_size > 0) BY <2>3 DEF Staged
  <2> QED BY <1>1, <2>1, <2>2, <2>3
<1> QED BY <1>2, <1>3, <1>4 DEF Promise!Next, Promise!Describe

(* What starts after a reset is the old firmware, the verified image, the  *)
(* bootloader, or anything when nothing was compared.                      *)
LEMMA BootStep ==
  ASSUME IInv, Installing, mode = "app", NEW to_bootloader, Boot(to_bootloader)
  PROVE  [Promise!Next]_(Promise!vars)
<1>1. error_code' = "NONE" /\ UNCHANGED <<flash, settings>> BY DEF Boot, ResetSession
<1>2. /\ Runs = "old" /\ Staged' = NoImage
      /\ Vouches(settings)' = Vouches(settings)
  BY <1>1 DEF Runs, Staged, Vouches
<1>3. CASE mode' = "bootloader"
  <2>1. Runs' = "bootloader" BY <1>3 DEF Runs
  <2> QED BY <1>2, <2>1 DEF Promise!Next, Promise!Recover, Promise!Starts
<1>4. CASE mode' = "app"
  <2>1. Runs' = "old" BY <1>4 DEF Runs
  <2> QED BY <1>2, <2>1 DEF Promise!Next, Promise!Drop, Promise!vars
<1>5. CASE mode' = "updated"
  <2>1. AppValid /\ Started = "updated" BY <1>5 DEF Boot
  <2>2. /\ IrqsOff /\ image_size > 0 /\ RunsImage(image_crc32)
        /\ \A img \in Images : RunsImage(img) => img = image_crc32
    BY <2>1, BootFacts
  <2>3. error_code = "VERIFY_OK" BY <2>2 DEF IInv, SessionConsistent, CopyOfSession, IrqsOff
  <2>4. Staged = image_crc32 /\ image_crc32 \in Images
    BY <2>2, <2>3, CopyRange DEF Staged
  <2>5. \A img \in Images : RunsImage(img)' = RunsImage(img)
    BY <1>1 DEF RunsImage, AppBase, HoldsImage
  <2>6. Runs' = CHOOSE img \in Images : RunsImage(img)' BY <1>5 DEF Runs
  <2>7. (CHOOSE img \in Images : RunsImage(img)') = image_crc32 BY <2>2, <2>4, <2>5
  <2>8. Runs' = Staged BY <2>4, <2>6, <2>7
  <2> QED BY <1>2, <2>4, <2>8 DEF Promise!Next, Promise!Install, Promise!Starts
<1>6. CASE mode' = "broken"
  <2>1. AppValid /\ Started = "broken" BY <1>6 DEF Boot
  <2>2. ~Vouches(settings) BY <2>1, BootFacts
  <2>3. Runs' = "broken" BY <1>6 DEF Runs
  <2> QED BY <1>2, <2>2, <2>3 DEF Promise!Next, Promise!Break, Promise!Starts
<1>7. mode' \in {"app", "bootloader", "updated", "broken"} BY DEF Boot, Started
<1> QED BY <1>3, <1>4, <1>5, <1>6, <1>7

LEMMA NextKeepsPromise ==
  IInv /\ IInv' /\ Installing /\ [Next]_vars => [Promise!Next]_(Promise!vars)
<1> SUFFICES ASSUME IInv, IInv', Installing, [Next]_vars
             PROVE  [Promise!Next]_(Promise!vars)
  OBVIOUS
<1> DEFINE Quiet == /\ mode = "app" /\ mode' = "app" /\ UNCHANGED settings
                    /\ UNCHANGED <<image_size, image_crc32>> \/ error_code' # "VERIFY_OK"
<1>1. CASE Packet
  <2>1. CASE \E img \in Images, base \in Bases, fault \in Rejections \cup {"NONE"} :
               RejectBegin(img, base, fault) \/ HandleBegin(img, base, fault)
    <3>1. Quiet BY <2>1 DEF RejectBegin, HandleBegin, Turn, persistent
    <3> QED BY <3>1, SessionStep
  <2>2. CASE \E img \in Images : \E seq \in 0..(Packets(img) - 1) :
               \E failed \in SUBSET (Failures \ {"read"}) : HandleData(img, seq, failed)
    <3>1. Quiet BY <2>2 DEF HandleData, Turn
    <3> QED BY <3>1, SessionStep
  <2>3. CASE HandleVerify \/ HandleActivate
    <3>1. Quiet BY <2>3 DEF HandleVerify, HandleActivate, Turn, persistent
    <3> QED BY <3>1, SessionStep
  <2> QED BY <1>1, <2>1, <2>2, <2>3 DEF Packet
<1>2. CASE ConnectionThread
  <2>1. CASE \E read_fails \in {FALSE, "read" \in Failures} : FinishVerify(read_fails)
    <3>1. Quiet BY <2>1 DEF FinishVerify, persistent
    <3> QED BY <3>1, SessionStep
  <2>2. CASE \/ \E read_fails \in {FALSE, "read" \in Failures} : PrepareSettings(read_fails)
             \/ Complete \/ StartCopy \/ CopySkipPage \/ CopyErasePage \/ CopyWritePage
    <3>1. Quiet
      BY <2>2 DEF PrepareSettings, Complete, StartCopy, CopySkipPage, CopyErasePage,
                  CopyWritePage, ConnStep, session, persistent
    <3> QED BY <3>1, SessionStep
  <2>5. CASE EraseSettings \/ WriteSettings
    BY <2>5, SettingsStep DEF EraseSettings, WriteSettings, ConnStep
  <2>3. CASE ResetAfterCopy BY <2>3, BootStep DEF ResetAfterCopy
  <2>4. CASE CheckTimeout \/ TimeoutReboot
    <3>1. Quiet BY <2>4 DEF CheckTimeout, TimeoutReboot, Turn, ConnStep, session, persistent
    <3> QED BY <3>1, SessionStep
  <2> QED BY <1>2, <2>1, <2>2, <2>3, <2>4, <2>5 DEF ConnectionThread
<1>3. CASE HandleAbort \/ AbortReboot \/ SilencePasses \/ PairingChanges
  <2>1. Quiet
    BY <1>3 DEF HandleAbort, ResetSession, AbortReboot, SilencePasses, PairingChanges,
                session, persistent
  <2> QED BY <2>1, SessionStep
<1>4. CASE PowerThreadReboot \/ PowerLoss
  BY <1>4, BootStep DEF PowerThreadReboot, PowerLoss
<1>5. CASE UNCHANGED vars
  BY <1>5 DEF vars, persistent, session, Runs, Staged, RunsImage, AppBase, HoldsImage, Vouches,
              Promise!vars
<1> QED BY <1>1, <1>2, <1>3, <1>4, <1>5 DEF Next

LEMMA SpecInstalling == Spec => [](IInv /\ Installing)
<1>1. Init => IInv /\ Installing BY InitIInv, InitInstalling
<1>2. IInv /\ Installing /\ [Next]_vars => (IInv /\ Installing)' BY NextIInv, NextInstalling
<1> QED BY <1>1, <1>2, PTL DEF Spec

(* Whatever interleaved, when the copier resets the core the image stands  *)
(* whole at its target address, and the settings page carries its          *)
(* checksum unless the staged image could not be read, for every flash     *)
(* layout and image (ota_flash_copy_from_ram,                              *)
(* ota_prepare_bootloader_settings).                                       *)
THEOREM AlwaysInstalled == Spec => []InstalledImage
  BY SpecInstalling, InstalledWhenReset, PTL

(* The protocol implements OtaPromise: with packets lost, repeated and     *)
(* reordered, flash operations failing, aborts and power failures at any   *)
(* time, the tracker runs its old firmware, then only ever the image it    *)
(* verified, or stays recoverable in the bootloader; it runs anything else *)
(* only off a settings page that makes the bootloader compare nothing, and *)
(* gets such a page only from a failed read or an aborted activation.      *)
THEOREM PromiseKept == Spec => KeepsPromise
<1>1. Init => Promise!Init
  BY DEF Init, Promise!Init, Runs, Staged, Vouches
<1>2. IInv /\ Installing /\ [Next]_vars => [Promise!Next]_(Promise!vars)
  BY NextIInv, NextKeepsPromise
<1> QED BY <1>1, <1>2, SpecInstalling, PTL DEF Spec, KeepsPromise, Promise!Spec

-----------------------------------------------------------------------------
(* Packets in order: what the flash and the page buffer hold of an image.  *)

(* A packet that is shorter than the others ends its image; no other image *)
(* goes on behind it.                                                      *)
NoneEndsInside ==
  \A i, j \in Images :
    ImageSize[i] >= ImageSize[j] \/ \E k \in Nat : ImageSize[i] = k * MaxPayload

AsImage(i) == {<<img, i>> : img \in Images}

(* The first n words are in the flash, those that follow in the buffer;    *)
(* the page they go to is erased, or will be.                              *)
InOrder(st, n) ==
  /\ n \in Nat /\ st.addr = staging_base + n /\ n + Len(st.buf) <= image_size
  /\ \A i \in 0..(n - 1) : st.flash[staging_base + i] \in AsImage(i)
  /\ \A j \in 1..Len(st.buf) : st.buf[j] \in AsImage(n + j - 1)
  /\ n < image_size =>
       \/ st.erased < st.addr
       \/ /\ st.erased = st.addr
          /\ \A a \in 0..(FlashEnd - 1) :
               st.addr <= a /\ a < st.addr + PageSize => st.flash[a] = ErasedWord

Reassembled(st, bytes) ==
  IF bytes = image_size
  THEN st.buf = <<>> /\ \A i \in 0..(image_size - 1) : st.flash[staging_base + i] \in AsImage(i)
  ELSE Len(st.buf) < PageSize /\ InOrder(st, bytes - Len(st.buf))

Session == [flash |-> flash, addr |-> page_buf_flash_addr, buf |-> page_buf,
            erased |-> last_page_erased]
Receives == state \in {"READY", "RECEIVING"}
Received(seq) == IF seq * MaxPayload < image_size THEN seq * MaxPayload ELSE image_size

StagingInv ==
  /\ conn \notin {"loop", "verify"} => ~Receives /\ state # "VERIFYING"
  /\ state = "VERIFYING" => bytes_written = image_size
  /\ image_size = 0 => page_buf = <<>>
  /\ Receives => bytes_written = Received(next_expected_seq)
  /\ ~IrqsOff /\ image_size > 0 /\ (Receives \/ bytes_written = image_size) =>
       Reassembled(Session, bytes_written)

(* The words of a page that is erased come out as they were written.       *)
LEMMA WriteErased ==
  ASSUME NEW f \in FlashType, NEW addr \in Nat, NEW ws \in Seq(Words),
         addr + Len(ws) <= FlashEnd,
         \A a \in 0..(FlashEnd - 1) : addr <= a /\ a < addr + Len(ws) => f[a] = ErasedWord
  PROVE  \A j \in 1..Len(ws) : WriteAt(f, addr, ws)[addr + j - 1] = ws[j]
<1> SUFFICES ASSUME NEW j \in 1..Len(ws) PROVE WriteAt(f, addr, ws)[addr + j - 1] = ws[j]
  OBVIOUS
<1> DEFINE a == addr + j - 1
<1>1. FlashEnd \in Nat /\ Len(ws) \in Nat BY SizesAssumption
<1>2. a \in 0..(FlashEnd - 1) /\ addr <= a /\ a < addr + Len(ws) /\ a - addr + 1 = j BY <1>1
<1>3. a \in Region(addr, Len(ws)) BY <1>1, <1>2 DEF Region
<1>4. DOMAIN f = 0..(FlashEnd - 1) BY DEF FlashType
<1> HIDE DEF a
<1>5. WriteAt(f, addr, ws)[a] = Program(f[a], ws[a - addr + 1])
  BY <1>2, <1>3, <1>4 DEF WriteAt
<1>6. WriteAt(f, addr, ws)[a] = ws[j] BY <1>2, <1>5 DEF Program
<1> QED BY <1>6 DEF a

LEMMA EraseErases ==
  ASSUME NEW f \in FlashType, NEW addr \in Nat
  PROVE  \A a \in 0..(FlashEnd - 1) :
           addr <= a /\ a < addr + PageSize => EraseAt(f, addr)[a] = ErasedWord
  BY SizesAssumption DEF EraseAt, FlashType, Region

LEMMA NonEmpty ==
  ASSUME NEW S, NEW ws \in Seq(S), ws # <<>> PROVE Len(ws) \in Nat \ {0}
<1>1. Len(ws) = 0 => ws = <<>> OBVIOUS
<1> QED BY <1>1

(* A flush that does not fail moves the buffer to its place in the flash.  *)
LEMMA FlushInOrder ==
  ASSUME NEW st \in BufferType, NEW n \in Nat, InOrder(st, n), st.buf # <<>>,
         Len(st.buf) <= PageSize, TypeOK, staging_base + image_size <= FlashEnd
  PROVE  /\ \A i \in 0..(n + Len(st.buf) - 1) :
              Flush(st, {}).flash[staging_base + i] \in AsImage(i)
         /\ n + PageSize < image_size =>
              /\ Flush(st, {}).erased = st.addr + PageSize
              /\ \A a \in 0..(FlashEnd - 1) :
                   st.addr + PageSize <= a /\ a < st.addr + PageSize + PageSize =>
                     Flush(st, {}).flash[a] = ErasedWord
<1> DEFINE f1 == IF st.addr > st.erased THEN EraseAt(st.flash, st.addr) ELSE st.flash
           f2 == WriteAt(f1, st.addr, st.buf)
           next_page == st.addr + PageSize
           ahead == next_page < staging_base + image_size
           f3 == IF ahead THEN EraseAt(f2, next_page) ELSE f2
           len == Len(st.buf)
<1>1. /\ st.flash \in FlashType /\ st.addr \in Nat /\ st.buf \in Seq(Words)
      /\ st.erased \in Nat /\ next_page \in Nat /\ PageSize \in Nat \ {0} /\ FlashEnd \in Nat
  BY SizesAssumption DEF BufferType
<1>0. staging_base \in Nat /\ image_size \in Nat BY DEF TypeOK
<1>2. len \in Nat \ {0} /\ len <= PageSize BY <1>1, NonEmpty
<1>3. /\ st.addr = staging_base + n /\ n + len <= image_size /\ n < image_size
      /\ \A i \in 0..(n - 1) : st.flash[staging_base + i] \in AsImage(i)
      /\ \A j \in 1..len : st.buf[j] \in AsImage(n + j - 1)
      /\ \/ st.erased < st.addr
         \/ /\ st.erased = st.addr
            /\ \A a \in 0..(FlashEnd - 1) :
                 st.addr <= a /\ a < st.addr + PageSize => st.flash[a] = ErasedWord
  BY <1>0, <1>1, <1>2 DEF InOrder
<1>4. /\ f1 \in FlashType
      /\ \A a \in 0..(FlashEnd - 1) : a < st.addr => f1[a] = st.flash[a]
      /\ \A a \in 0..(FlashEnd - 1) :
           st.addr <= a /\ a < st.addr + PageSize => f1[a] = ErasedWord
  BY <1>0, <1>1, <1>3, EraseFacts, EraseErases
<1> HIDE DEF f1
<1>5. /\ f2 \in FlashType
      /\ \A a \in 0..(FlashEnd - 1) : a < st.addr => f2[a] = f1[a]
  BY <1>1, <1>4, WriteFacts
<1>6. \A j \in 1..len : f2[st.addr + j - 1] = st.buf[j]
  <2>0. st.addr = staging_base + n /\ n + len <= image_size BY <1>3
  <2>1. st.addr + len <= FlashEnd
    <3>1. len \in Nat /\ FlashEnd \in Nat BY <1>1, <1>2
    <3> HIDE DEF len
    <3> QED BY <1>0, <2>0, <3>1
  <2>2. \A a \in 0..(FlashEnd - 1) : st.addr <= a /\ a < st.addr + len => f1[a] = ErasedWord
    BY <1>0, <1>1, <1>2, <1>4
  <2> QED BY <1>1, <1>4, <2>1, <2>2, WriteErased
<1> HIDE DEF f2
<1>7. \A i \in 0..(n + len - 1) : f2[staging_base + i] \in AsImage(i)
  <2> SUFFICES ASSUME NEW i \in 0..(n + len - 1) PROVE f2[staging_base + i] \in AsImage(i)
    OBVIOUS
  <2>1. CASE i < n
    <3>1. staging_base + i \in 0..(FlashEnd - 1) /\ staging_base + i < st.addr
      BY <1>0, <1>1, <1>2, <1>3, <2>1
    <3>2. f2[staging_base + i] = st.flash[staging_base + i] BY <1>4, <1>5, <3>1
    <3>3. i \in 0..(n - 1) BY <1>2, <2>1
    <3> QED BY <1>3, <3>2, <3>3
  <2>2. CASE i >= n
    <3> DEFINE j == i - n + 1
    <3>1. j \in 1..len /\ staging_base + i = st.addr + j - 1 /\ n + j - 1 = i
      BY <1>0, <1>1, <1>2, <1>3, <2>2
    <3> HIDE DEF j
    <3> QED BY <1>3, <1>6, <3>1
  <2> QED BY <1>2, <2>1, <2>2
<1>8. \A a \in 0..(FlashEnd - 1) : a < next_page => f3[a] = f2[a]
  BY <1>1, <1>5, EraseFacts
<1>9. ahead => \A a \in 0..(FlashEnd - 1) :
                 next_page <= a /\ a < next_page + PageSize => f3[a] = ErasedWord
  BY <1>1, <1>5, EraseErases
<1>10. Flush(st, {}) =
        [flash |-> f3, addr |-> next_page, buf |-> <<>>,
         erased |-> IF ahead THEN next_page
                    ELSE IF st.addr > st.erased THEN st.addr ELSE st.erased]
  BY DEF Flush, f1, f2
<1>11. \A i \in 0..(n + len - 1) :
         staging_base + i \in 0..(FlashEnd - 1) /\ staging_base + i < next_page
  BY <1>0, <1>1, <1>2, <1>3
<1>12. n + PageSize < image_size => ahead BY <1>0, <1>1, <1>3
<1> HIDE DEF f3, ahead, next_page, len
<1>13. \A i \in 0..(n + len - 1) : f3[staging_base + i] \in AsImage(i)
  BY <1>7, <1>8, <1>11
<1> QED BY <1>9, <1>10, <1>12, <1>13 DEF next_page, len

(* The last step of DATA: what completes the image is flushed.             *)
LEMMA FinishInOrder ==
  ASSUME NEW st \in BufferType, NEW n \in Nat, InOrder(st, n), Len(st.buf) < PageSize,
         TypeOK, staging_base + image_size <= FlashEnd
  PROVE  Reassembled(IF n + Len(st.buf) >= image_size /\ st.buf # <<>>
                     THEN Flush(st, {}) ELSE st, n + Len(st.buf))
<1> DEFINE len == Len(st.buf)
<1>1. /\ n + len <= image_size /\ \A i \in 0..(n - 1) : st.flash[staging_base + i] \in AsImage(i)
  BY DEF InOrder
<1>2. len \in Nat /\ image_size \in Nat /\ PageSize \in Nat
  BY SizesAssumption DEF BufferType, TypeOK
<1>3. CASE n + len = image_size /\ st.buf # <<>>
  <2>1. Flush(st, {}).buf = <<>> BY FlushFacts
  <2>2. \A i \in 0..(n + len - 1) : Flush(st, {}).flash[staging_base + i] \in AsImage(i)
    <3>1. len <= PageSize BY <1>2
    <3> QED BY <1>3, <3>1, FlushInOrder
  <2> QED BY <1>2, <1>3, <2>1, <2>2 DEF Reassembled
<1>4. CASE n + len = image_size /\ st.buf = <<>>
  <2>1. len = 0 BY <1>4
  <2>2. n = image_size BY <1>2, <1>4, <2>1
  <2> QED BY <1>1, <1>4, <2>1, <2>2 DEF Reassembled
<1>5. CASE n + len # image_size
  <2>1. ~(n + len >= image_size) /\ n + len - len = n BY <1>1, <1>2, <1>5
  <2>2. InOrder(st, n + len - len) BY <2>1
  <2>3. Reassembled(st, n + len) BY <1>5, <2>2 DEF Reassembled
  <2> QED BY <2>1, <2>3
<1> QED BY <1>3, <1>4, <1>5

LEMMA AppendInOrder ==
  ASSUME TypeOK, staging_base + image_size <= FlashEnd, Reassembled(Session, bytes_written),
         NEW payload \in Seq(Words), Len(payload) <= PageSize,
         Len(payload) <= image_size - bytes_written,
         \A j \in 1..Len(payload) : payload[j] \in AsImage(bytes_written + j - 1)
  PROVE  Reassembled(Append2Page(payload, {}), bytes_written + Len(payload))
<1> DEFINE all == page_buf \o payload
           st0 == [flash |-> flash, addr |-> page_buf_flash_addr, buf |-> all,
                   erased |-> last_page_erased]
           full == [st0 EXCEPT !.buf = SubSeq(all, 1, PageSize)]
           rest == SubSeq(all, PageSize + 1, Len(all))
           st1 == IF Len(all) < PageSize THEN st0 ELSE [Flush(full, {}) EXCEPT !.buf = rest]
           len == Len(payload)
           old == Len(page_buf)
           n == bytes_written - old
<1>1. flash \in FlashType /\ page_buf_flash_addr \in Nat /\ last_page_erased \in Nat
  BY DEF TypeOK, FlashType
<1>2. page_buf \in Seq(Words) /\ bytes_written \in 0..image_size /\ image_size \in Nat
      /\ staging_base \in Nat
  BY DEF TypeOK
<1>3. PageSize \in Nat \ {0} /\ old \in Nat /\ len \in Nat /\ bytes_written \in Nat
  BY <1>2, SizesAssumption
<1>4. all \in Seq(Words) /\ Len(all) = old + len BY <1>2
<1>5. \A j \in 1..(old + len) : all[j] = IF j <= old THEN page_buf[j] ELSE payload[j - old]
  BY <1>2
<1>6. Append2Page(payload, {}) =
        IF bytes_written + len >= image_size /\ st1.buf # <<>> THEN Flush(st1, {}) ELSE st1
  BY DEF Append2Page
<1>7. CASE bytes_written = image_size
  <2>1. len = 0 BY <1>2, <1>3, <1>7
  <2>2. /\ page_buf = <<>>
        /\ \A i \in 0..(image_size - 1) : flash[staging_base + i] \in AsImage(i)
    BY <1>7 DEF Reassembled, Session
  <2>3. old = 0 BY <2>2
  <2>4. Len(all) = 0 BY <1>4, <2>1, <2>3
  <2>5. all = <<>>
    <3>1. \A ws \in Seq(Words) : Len(ws) = 0 => ws = <<>> OBVIOUS
    <3> QED BY <1>4, <2>4, <3>1
  <2>6. st1 = st0 /\ st1.buf = <<>> BY <1>3, <2>4, <2>5
  <2>7. bytes_written + len = image_size BY <1>2, <1>7, <2>1
  <2>8. Append2Page(payload, {}) = st0 /\ st0.buf = <<>> /\ st0.flash = flash BY <1>6, <2>6
  <2>9. Reassembled(st0, bytes_written + len) BY <2>2, <2>7, <2>8 DEF Reassembled
  <2> HIDE DEF st0
  <2> QED BY <2>8, <2>9
<1>8. CASE bytes_written # image_size
  <2>1. old < PageSize /\ InOrder(Session, n) BY <1>8 DEF Reassembled, Session
  <2>2. /\ n \in Nat /\ page_buf_flash_addr = staging_base + n
        /\ \A i \in 0..(n - 1) : flash[staging_base + i] \in AsImage(i)
        /\ \A j \in 1..old : page_buf[j] \in AsImage(n + j - 1)
        /\ n < image_size =>
             \/ last_page_erased < page_buf_flash_addr
             \/ /\ last_page_erased = page_buf_flash_addr
                /\ \A a \in 0..(FlashEnd - 1) :
                     page_buf_flash_addr <= a /\ a < page_buf_flash_addr + PageSize =>
                       flash[a] = ErasedWord
    BY <2>1 DEF InOrder, Session
  <2>3. \A j \in 1..(old + len) : all[j] \in AsImage(n + j - 1)
    <3> SUFFICES ASSUME NEW j \in 1..(old + len) PROVE all[j] \in AsImage(n + j - 1) OBVIOUS
    <3>1. CASE j <= old
      <4>1. j \in 1..old BY <1>3, <3>1
      <4> QED BY <1>5, <2>2, <3>1, <4>1
    <3>2. CASE ~(j <= old)
      <4>1. j - old \in 1..len /\ bytes_written + (j - old) - 1 = n + j - 1
        BY <1>3, <3>2
      <4> QED BY <1>5, <3>2, <4>1
    <3> QED BY <3>1, <3>2
  <2>4. n + (old + len) = bytes_written + len BY <1>3
  <2>5. bytes_written + len <= image_size BY <1>2, <1>3
  <2>6. st0 \in BufferType /\ InOrder(st0, n)
    <3> HIDE DEF all, n, old, len
    <3>1. st0 \in BufferType BY <1>1, <1>4 DEF BufferType
    <3>2. n + Len(st0.buf) <= image_size BY <1>4, <2>4, <2>5
    <3> QED BY <1>4, <2>2, <2>3, <3>1, <3>2 DEF InOrder
  <2>7. CASE Len(all) < PageSize
    <3>1. st1 = st0 /\ n + Len(st1.buf) = bytes_written + len BY <1>4, <2>4, <2>7
    <3> HIDE DEF st1, st0, all, len, n, old
    <3>2. st1 \in BufferType /\ InOrder(st1, n) /\ Len(st1.buf) < PageSize BY <2>6, <2>7, <3>1 DEF st0
    <3> QED BY <1>6, <2>2, <3>1, <3>2, FinishInOrder DEF len
  <2>8. CASE ~(Len(all) < PageSize)
    <3>1. PageSize <= old + len /\ old + len - PageSize < PageSize
          /\ PageSize \in 1..Len(all) /\ Len(all) \in Nat
      BY <1>3, <1>4, <2>1, <2>8
    <3>2. /\ SubSeq(all, 1, PageSize) \in Seq(Words) /\ Len(SubSeq(all, 1, PageSize)) = PageSize
          /\ \A j \in 1..PageSize : SubSeq(all, 1, PageSize)[j] = all[j]
      BY <1>3, <1>4, <3>1
    <3>3. /\ rest \in Seq(Words) /\ Len(rest) = old + len - PageSize
          /\ \A j \in 1..(old + len - PageSize) : rest[j] = all[j + PageSize]
      BY <1>3, <1>4, <3>1
    <3>4. full \in BufferType /\ full.addr = page_buf_flash_addr /\ Len(full.buf) = PageSize
          /\ full.buf # <<>> /\ InOrder(full, n)
      <4>1. full.buf = SubSeq(all, 1, PageSize) /\ full.flash = flash
            /\ full.addr = page_buf_flash_addr /\ full.erased = last_page_erased
        OBVIOUS
      <4>2. full \in BufferType BY <1>1, <3>2 DEF BufferType
      <4>3. Len(full.buf) = PageSize /\ full.buf # <<>> BY <1>3, <3>2, <4>1
      <4>4. n + PageSize <= image_size BY <1>2, <1>3, <2>5, <2>4, <3>1
      <4>5. \A j \in 1..PageSize : full.buf[j] \in AsImage(n + j - 1)
        <5>1. \A j \in 1..PageSize : all[j] \in AsImage(n + j - 1) BY <1>3, <2>3, <3>1
        <5> HIDE DEF full, all, n
        <5> QED BY <3>2, <4>1, <5>1
      <4> HIDE DEF full, all, n, old, len, rest, st1
      <4> QED BY <2>2, <4>1, <4>2, <4>3, <4>4, <4>5 DEF InOrder
    <3> DEFINE page == Flush(full, {})
    <3>5. page \in BufferType /\ page.addr = page_buf_flash_addr + PageSize
      BY <3>4, FlushFacts
    <3>6. /\ \A i \in 0..(n + PageSize - 1) : page.flash[staging_base + i] \in AsImage(i)
          /\ n + PageSize < image_size =>
               /\ page.erased = page_buf_flash_addr + PageSize
               /\ \A a \in 0..(FlashEnd - 1) :
                    page_buf_flash_addr + PageSize <= a
                      /\ a < page_buf_flash_addr + PageSize + PageSize =>
                      page.flash[a] = ErasedWord
      <4>1. n \in Nat /\ Len(full.buf) <= PageSize BY <1>3, <2>2, <3>4
      <4> HIDE DEF full, n
      <4> QED BY <3>4, <4>1, FlushInOrder
    <3> HIDE DEF page, full
    <3>7. st1 = [page EXCEPT !.buf = rest] BY <2>8 DEF page
    <3> HIDE DEF st1, rest, all
    <3>8. /\ st1 \in BufferType /\ st1.flash = page.flash /\ st1.addr = page.addr
          /\ st1.buf = rest /\ st1.erased = page.erased
      BY <3>3, <3>5, <3>7 DEF BufferType
    <3>9. n + PageSize \in Nat /\ page_buf_flash_addr + PageSize = staging_base + (n + PageSize)
      BY <1>2, <1>3, <2>2
    <3>10. (n + PageSize) + Len(rest) = bytes_written + len BY <1>3, <3>3
    <3>11. \A j \in 1..Len(rest) : rest[j] \in AsImage(n + PageSize + j - 1)
      <4> SUFFICES ASSUME NEW j \in 1..Len(rest) PROVE rest[j] \in AsImage(n + PageSize + j - 1)
        OBVIOUS
      <4>1. j + PageSize \in 1..(old + len) /\ n + (j + PageSize) - 1 = n + PageSize + j - 1
        BY <1>3, <2>2, <3>3
      <4> QED BY <2>3, <3>3, <4>1
    <3> HIDE DEF n, len, old
    <3>12. InOrder(st1, n + PageSize)
      <4> DEFINE m == n + PageSize
      <4>1. m + Len(st1.buf) <= image_size BY <2>5, <3>8, <3>10
      <4>2. st1.addr = staging_base + m BY <3>5, <3>8, <3>9
      <4>3. \A i \in 0..(m - 1) : st1.flash[staging_base + i] \in AsImage(i)
        <5>1. \A i \in 0..(m - 1) : page.flash[staging_base + i] \in AsImage(i)
          <6>1. m - 1 = n + PageSize - 1 BY <1>3, <2>2
          <6> QED BY <3>6, <6>1
        <5>2. st1.flash = page.flash BY <3>8
        <5> HIDE DEF m
        <5> QED BY <5>1, <5>2, Zenon
      <4>4. \A j \in 1..Len(st1.buf) : st1.buf[j] \in AsImage(m + j - 1)
        BY <3>8, <3>11
      <4>5. m < image_size =>
              /\ st1.erased = st1.addr
              /\ \A a \in 0..(FlashEnd - 1) :
                   st1.addr <= a /\ a < st1.addr + PageSize => st1.flash[a] = ErasedWord
        BY <3>5, <3>6, <3>8
      <4>6. m \in Nat BY <3>9
      <4> HIDE DEF m, page, rest
      <4>7. InOrder(st1, m) BY <4>1, <4>2, <4>3, <4>4, <4>5, <4>6, SMT DEF InOrder
      <4> QED BY <4>7 DEF m
    <3>13. Len(st1.buf) < PageSize BY <3>1, <3>3, <3>8
    <3>14. (n + PageSize) + Len(st1.buf) = bytes_written + len BY <3>8, <3>10
    <3> QED BY <1>6, <3>8, <3>9, <3>12, <3>13, <3>14, FinishInOrder DEF len
  <2> QED BY <2>7, <2>8
<1> QED BY <1>7, <1>8

(* A packet of the right number holds the words that come next, whichever  *)
(* image it belongs to.                                                    *)
LEMMA PayloadInOrder ==
  ASSUME TypeOK, NoneEndsInside, image_crc32 \in Images, image_size = ImageSize[image_crc32],
         NEW img \in Images, NEW seq \in 0..(Packets(img) - 1), bytes_written = Received(seq)
  PROVE  /\ Len(Accepted(img, seq)) <= PageSize
         /\ bytes_written + Len(Accepted(img, seq)) = Received(seq + 1)
         /\ \A j \in 1..Len(Accepted(img, seq)) :
              Accepted(img, seq)[j] \in AsImage(bytes_written + j - 1)
<1> DEFINE size == ImageSize[img]
           remaining == image_size - bytes_written
           start == seq * MaxPayload
           paid == PayloadLen(img, seq)
           len == IF paid > remaining THEN remaining ELSE paid
           n == Packets(img)
<1>1. size \in Nat \ {0} /\ MaxPayload \in Nat \ {0} /\ PageSize \in Nat /\ MaxPayload <= PageSize
      /\ image_size \in Nat \ {0}
  BY ImagesAssumption, SizesAssumption
<1>2. size + MaxPayload - 1 \in Nat BY <1>1
<1>3. n \in Nat /\ n * MaxPayload <= size + MaxPayload - 1
  BY <1>1, <1>2, DivBound DEF Packets
<1> HIDE DEF n
<1>4. seq \in Nat /\ seq + 1 <= n BY <1>3 DEF n
<1>5. (seq + 1) * MaxPayload <= n * MaxPayload /\ n * MaxPayload \in Nat
  BY <1>1, <1>3, <1>4, TimesMonotone
<1>6. (seq + 1) * MaxPayload = start + MaxPayload /\ start \in Nat BY <1>1, <1>4
<1>7. start < size BY <1>1, <1>3, <1>5, <1>6
<1>8. paid = IF start + MaxPayload <= size THEN MaxPayload ELSE size - start
  BY <1>6 DEF PayloadLen
<1>9. bytes_written = IF start < image_size THEN start ELSE image_size BY DEF Received
<1>10. Received(seq + 1) = IF start + MaxPayload < image_size THEN start + MaxPayload
                           ELSE image_size
  BY <1>6 DEF Received
<1>11. size >= image_size \/ start + MaxPayload <= size
  <2>1. size >= image_size \/ \E k \in Nat : size = k * MaxPayload BY DEF NoneEndsInside
  <2>2. ASSUME NEW k \in Nat, size = k * MaxPayload PROVE start + MaxPayload <= size
    BY <1>1, <1>4, <1>7, <2>2, PageArithmetic
  <2> QED BY <2>1, <2>2
<1>12. Accepted(img, seq) = [i \in 1..len |-> <<img, seq * MaxPayload + i - 1>>]
  BY DEF Accepted
<1> HIDE DEF start, size, paid
<1>13. len \in Nat /\ len <= PageSize /\ bytes_written + len = Received(seq + 1)
       /\ (len > 0 => bytes_written = start)
  BY <1>1, <1>6, <1>7, <1>8, <1>9, <1>10, <1>11
<1> HIDE DEF len
<1>14. Len(Accepted(img, seq)) = len BY <1>12, <1>13
<1>15. ASSUME NEW j \in 1..len PROVE Accepted(img, seq)[j] \in AsImage(bytes_written + j - 1)
  <2>1. bytes_written = start BY <1>13, <1>15
  <2>2. Accepted(img, seq)[j] = <<img, start + j - 1>> BY <1>12 DEF start
  <2> QED BY <2>1, <2>2 DEF AsImage
<1> QED BY <1>13, <1>14, <1>15

LEMMA HandleDataInOrder ==
  ASSUME IInv, StagingInv, NoneEndsInside, NEW img \in Images,
         NEW seq \in 0..(Packets(img) - 1), HandleData(img, seq, {})
  PROVE  StagingInv'
<1> DEFINE payload == Accepted(img, seq)
           st == Append2Page(payload, {})
           bytes == bytes_written + Len(payload)
<1>1. TypeOK /\ SessionShape /\ StagingFits BY DEF IInv, SessionConsistent
<1>2. /\ flash' = st.flash /\ page_buf' = st.buf /\ page_buf_flash_addr' = st.addr
      /\ last_page_erased' = st.erased /\ bytes_written' = bytes
      /\ conn = "loop" /\ Receives /\ state' = "RECEIVING"
      /\ next_expected_seq' = seq + 1 /\ seq = next_expected_seq
      /\ UNCHANGED <<image_size, image_crc32, staging_base, conn>>
  BY DEF HandleData, Turn, Receives
<1>3. image_size > 0 BY <1>1, <1>2 DEF StagingFits, Receives
<1>4. /\ image_crc32 \in Images /\ image_size = ImageSize[image_crc32]
      /\ staging_base + image_size <= FlashEnd
  <2>1. image_size # 0 BY <1>1, <1>3 DEF TypeOK
  <2>2. /\ image_crc32 \in Images /\ image_size = ImageSize[image_crc32]
        /\ image_size <= FlashEnd - MbrEnd /\ staging_base = Staging(image_crc32)
    BY <1>1, <2>1 DEF SessionShape
  <2> QED BY <2>2, StagingBounds
<1>5. bytes_written = Received(seq) /\ Reassembled(Session, bytes_written)
  BY <1>2, <1>3 DEF StagingInv, IrqsOff
<1>6. payload \in Seq(Words) /\ Len(payload) \in 0..(image_size - bytes_written)
  BY <1>1, PayloadFacts
<1>7. /\ Len(payload) <= PageSize /\ bytes = Received(seq + 1)
      /\ \A j \in 1..Len(payload) : payload[j] \in AsImage(bytes_written + j - 1)
  BY <1>1, <1>4, <1>5, PayloadInOrder
<1>8. Len(payload) <= image_size - bytes_written BY <1>6
<1>9. st \in BufferType BY <1>1, <1>6, AppendFacts
<1> HIDE DEF payload
<1>10. Reassembled(st, bytes)
  BY <1>1, <1>4, <1>5, <1>6, <1>7, <1>8, AppendInOrder
<1> HIDE DEF st, bytes
<1>11. st = [flash |-> st.flash, addr |-> st.addr, buf |-> st.buf, erased |-> st.erased]
  BY <1>9 DEF BufferType
<1>12. Session' = st BY <1>2, <1>11 DEF Session
<1>13. Reassembled(Session, bytes_written)'
  BY <1>2, <1>10, <1>12 DEF Reassembled, InOrder
<1>14. (bytes_written = Received(next_expected_seq))' BY <1>2, <1>7 DEF Received
<1> QED BY <1>2, <1>3, <1>13, <1>14 DEF StagingInv, Receives

LEMMA HandleBeginInOrder ==
  ASSUME IInv, StagingInv, NEW img \in Images, NEW base \in Bases,
         NEW fault \in Rejections \cup {"NONE"}, HandleBegin(img, base, fault)
  PROVE  StagingInv'
<1>1. /\ next_expected_seq' = 0 /\ bytes_written' = 0 /\ page_buf' = <<>>
      /\ last_page_erased' = 0 /\ image_size' = ImageSize[img]
      /\ staging_base' = Staging(img) /\ page_buf_flash_addr' = staging_base'
      /\ state' \in {"READY", "ERROR"} /\ conn' = "loop"
      /\ state' = "READY" => ~StagingTooLow(img)
  BY DEF HandleBegin, Turn, ErasedAtBegin
<1>2. ImageSize[img] \in Nat \ {0} /\ FlashBase \in Nat \ {0} /\ PageSize \in Nat \ {0}
      /\ MaxPayload \in Nat
  BY Constants, SizesAssumption
<1>3. Receives' => state' = "READY" BY <1>1 DEF Receives
<1>4. Received(0)' = 0 BY <1>1, <1>2 DEF Received
<1>5. IInv' BY HandleBeginIInv
<1>6. Reassembled(Session, bytes_written)' \/ ~Receives'
  <2> SUFFICES ASSUME Receives' PROVE Reassembled(Session, bytes_written)' OBVIOUS
  <2>1. staging_base' \in Nat BY <1>5 DEF IInv, TypeOK
  <2>2. staging_base' >= FlashBase + ImageSize[img]
    BY <1>1, <1>2, <1>3, <2>1 DEF StagingTooLow
  <2>3. Session' = [flash |-> flash', addr |-> staging_base', buf |-> <<>>, erased |-> 0]
    BY <1>1 DEF Session
  <2>4. staging_base' > 0 /\ 0 # image_size' BY <1>1, <1>2, <2>1, <2>2
  <2>5. InOrder(Session, 0)' BY <1>1, <1>2, <2>1, <2>3, <2>4 DEF InOrder
  <2> QED BY <1>1, <1>2, <2>3, <2>4, <2>5 DEF Reassembled
<1>7. bytes_written' # image_size' /\ image_size' # 0 BY <1>1, <1>2
<1> QED BY <1>1, <1>3, <1>4, <1>6, <1>7 DEF StagingInv

(* Steps after which no session is left.                                   *)
LEMMA ClearedInOrder ==
  ASSUME StagingInv, ResetSession
  PROVE  StagingInv'
  BY DEF StagingInv, ResetSession, Receives

(* Steps that leave alone what has been received.                          *)
Reception == <<image_size, staging_base, bytes_written, page_buf, page_buf_flash_addr,
               last_page_erased, next_expected_seq>>

LEMMA SameInOrder ==
  ASSUME StagingInv, UNCHANGED <<flash, Reception>>, ~IrqsOff,
         \/ state' \notin {"READY", "RECEIVING", "VERIFYING"}
         \/ conn' \in {"loop", "verify"} /\ state' = "VERIFYING" /\ bytes_written = image_size
         \/ state' = state /\ (conn' = conn \/ conn \notin {"loop", "verify"} \/ conn' = "loop")
  PROVE  StagingInv'
<1> USE DEF Reception
<1>1. Session' = Session BY DEF Session
<1>2. Receives' => Receives BY DEF Receives
<1>3. (conn \notin {"loop", "verify"} => ~Receives /\ state # "VERIFYING")'
  BY DEF StagingInv, Receives
<1>4. (state = "VERIFYING" => bytes_written = image_size)'
  BY DEF StagingInv
<1>5. (Receives => bytes_written = Received(next_expected_seq))'
  BY <1>2 DEF StagingInv, Received
<1>6. Reassembled(Session, bytes_written) => Reassembled(Session, bytes_written)'
  BY <1>1 DEF Reassembled, InOrder
<1>7. (image_size = 0 => page_buf = <<>>)' BY DEF StagingInv
<1>8. image_size > 0 /\ (Receives \/ bytes_written = image_size) =>
        Reassembled(Session, bytes_written)
  BY DEF StagingInv
<1> QED BY <1>2, <1>3, <1>4, <1>5, <1>6, <1>7, <1>8 DEF StagingInv

(* The copier.                                                             *)
LEMMA CopierInOrder ==
  ASSUME StagingInv, UNCHANGED <<state, Reception>>, conn \notin {"loop", "verify"}, IrqsOff'
  PROVE  StagingInv'
  BY DEF StagingInv, Receives, Reception

LEMMA NextInOrder ==
  ASSUME Failures = {}, NoneEndsInside, IInv, StagingInv, [Next]_vars
  PROVE  StagingInv'
<1> USE DEF persistent, session
<1>1. CASE Packet
  <2>1. CASE \E img \in Images, base \in Bases, fault \in Rejections \cup {"NONE"} :
               HandleBegin(img, base, fault)
    BY <2>1, HandleBeginInOrder
  <2>2. CASE \E img \in Images, base \in Bases, fault \in Rejections \cup {"NONE"} :
               RejectBegin(img, base, fault)
    <3>1. UNCHANGED <<flash, Reception>> /\ state' = "ERROR" /\ ~IrqsOff
      BY <2>2 DEF RejectBegin, Turn, Reception, IrqsOff
    <3> QED BY <3>1, SameInOrder
  <2>3. CASE \E img \in Images : \E seq \in 0..(Packets(img) - 1) :
               \E failed \in SUBSET (Failures \ {"read"}) : HandleData(img, seq, failed)
    <3>1. \A failed \in SUBSET (Failures \ {"read"}) : failed = {} OBVIOUS
    <3> QED BY <2>3, <3>1, HandleDataInOrder
  <2>4. CASE HandleVerify
    <3>1. bytes_written = image_size BY <2>4 DEF HandleVerify, Turn, IInv, TypeOK
    <3>2. /\ UNCHANGED <<flash, Reception>> /\ ~IrqsOff
          /\ state' = "VERIFYING" /\ conn' = "verify"
      BY <2>4 DEF HandleVerify, Turn, Reception, IrqsOff
    <3> QED BY <3>1, <3>2, SameInOrder
  <2>5. CASE HandleActivate
    <3>1. UNCHANGED <<flash, Reception>> /\ state' = "ACTIVATING" /\ ~IrqsOff
      BY <2>5 DEF HandleActivate, Turn, Reception, IrqsOff
    <3> QED BY <3>1, SameInOrder
  <2> QED BY <1>1, <2>1, <2>2, <2>3, <2>4, <2>5 DEF Packet
<1>2. CASE ConnectionThread
  <2>1. CASE \E read_fails \in {FALSE, "read" \in Failures} : FinishVerify(read_fails)
    <3>1. conn = "verify" => bytes_written = image_size
      BY DEF IInv, SessionConsistent, VerifiedComplete
    <3>2. /\ UNCHANGED <<flash, Reception>> /\ ~IrqsOff /\ conn = "verify"
          /\ state' \in {"VERIFYING", "ERROR"} /\ conn' = "loop"
      BY <2>1 DEF FinishVerify, Reception, IrqsOff
    <3> QED BY <3>1, <3>2, SameInOrder
  <2>2. CASE \E read_fails \in {FALSE, "read" \in Failures} : PrepareSettings(read_fails)
    <3>1. UNCHANGED <<flash, Reception, state>> /\ ~IrqsOff /\ conn = "activating"
      BY <2>2 DEF PrepareSettings, ConnStep, Reception, IrqsOff
    <3> QED BY <3>1, SameInOrder
  <2>3. CASE Complete
    <3>1. UNCHANGED <<flash, Reception>> /\ state' = "COMPLETE" /\ ~IrqsOff
      BY <2>3 DEF Complete, ConnStep, Reception, IrqsOff
    <3> QED BY <3>1, SameInOrder
  <2>4. CASE \/ StartCopy \/ CopySkipPage \/ CopyErasePage \/ CopyWritePage
             \/ EraseSettings \/ WriteSettings
    <3>1. UNCHANGED <<state, Reception>> /\ conn \notin {"loop", "verify"} /\ IrqsOff'
      BY <2>4 DEF StartCopy, CopySkipPage, CopyErasePage, CopyWritePage, EraseSettings,
                  WriteSettings, ConnStep, Reception, IrqsOff
    <3> QED BY <3>1, CopierInOrder
  <2>7. CASE ResetAfterCopy BY <2>7, ClearedInOrder DEF ResetAfterCopy, Boot
  <2>8. CASE CheckTimeout
    <3>1. UNCHANGED <<flash, Reception>> /\ state' = "ERROR" /\ ~IrqsOff
      BY <2>8 DEF CheckTimeout, Turn, Reception, IrqsOff
    <3> QED BY <3>1, SameInOrder
  <2>9. CASE TimeoutReboot
    <3>1. UNCHANGED <<flash, Reception, state>> /\ conn' = "loop" /\ ~IrqsOff
      BY <2>9 DEF TimeoutReboot, ConnStep, Reception, IrqsOff
    <3> QED BY <3>1, SameInOrder
  <2> QED BY <1>2, <2>1, <2>2, <2>3, <2>4, <2>7, <2>8, <2>9 DEF ConnectionThread
<1>3. CASE HandleAbort BY <1>3, ClearedInOrder DEF HandleAbort
<1>4. CASE AbortReboot
  <2>1. UNCHANGED <<flash, Reception, state, conn>> /\ ~IrqsOff
    BY <1>4 DEF AbortReboot, Reception
  <2> QED BY <2>1, SameInOrder
<1>5. CASE SilencePasses
  <2>1. UNCHANGED <<flash, Reception, state, conn>>
    BY <1>5 DEF SilencePasses, Reception
  <2>2. CASE IrqsOff
    <3>1. conn \notin {"loop", "verify"} /\ IrqsOff' BY <2>1, <2>2 DEF IrqsOff
    <3> QED BY <2>1, <3>1, CopierInOrder
  <2>3. CASE ~IrqsOff BY <2>1, <2>3, SameInOrder
  <2> QED BY <2>2, <2>3
<1>6. CASE PowerThreadReboot \/ PowerLoss
  BY <1>6, ClearedInOrder DEF PowerThreadReboot, PowerLoss, Boot
<1>7. CASE UNCHANGED vars
  BY <1>7 DEF vars, StagingInv, Receives, Received, Session, Reassembled, InOrder, IrqsOff
<1>8. CASE PairingChanges
  <2>1. UNCHANGED <<flash, Reception, state, conn>> /\ ~IrqsOff
    BY <1>8 DEF PairingChanges, Reception, IrqsOff
  <2> QED BY <2>1, SameInOrder
<1> QED BY <1>1, <1>2, <1>3, <1>4, <1>5, <1>6, <1>7, <1>8 DEF Next

\* When no flash operation fails and no image ends inside another: for every size of page,
\* packet and image, what is received is reassembled in order, whatever was lost, repeated
\* or left of another session (handle_data, ota_flush_page_buf).
THEOREM ReassembledInOrder == Failures = {} /\ NoneEndsInside /\ Spec => []StagedInOrder
<1> SUFFICES ASSUME Failures = {}, NoneEndsInside PROVE Spec => []StagedInOrder OBVIOUS
<1>1. Init => StagingInv BY DEF Init, StagingInv, Receives
<1>2. IInv /\ StagingInv /\ [Next]_vars => StagingInv' BY NextInOrder
<1>3. IInv /\ StagingInv => StagedInOrder
  <2> SUFFICES ASSUME IInv, StagingInv, state \in {"READY", "RECEIVING", "VERIFYING"}
               PROVE  LET flushed == bytes_written - Len(page_buf)
                      IN  /\ \A i \in 0..(flushed - 1) : flash[staging_base + i] \in AsImage(i)
                          /\ \A j \in 1..Len(page_buf) : page_buf[j] \in AsImage(flushed + j - 1)
                          /\ bytes_written = image_size => page_buf = <<>>
    BY DEF StagedInOrder, AsImage
  <2>1. /\ bytes_written \in 0..image_size /\ image_size \in Nat /\ Len(page_buf) \in Nat
        /\ ~IrqsOff /\ (Receives \/ bytes_written = image_size)
    BY DEF IInv, TypeOK, StagingInv, Receives, IrqsOff
  <2>2. CASE image_size = 0
    <3>1. page_buf = <<>> /\ bytes_written = 0 BY <2>1, <2>2 DEF StagingInv
    <3>2. Len(page_buf) = 0 BY <3>1
    <3>3. bytes_written - Len(page_buf) = 0
      <4>1. 0 - 0 = 0 OBVIOUS
      <4> QED BY <3>1, <3>2, <4>1
    <3> QED BY <3>1, <3>2, <3>3
  <2>3. CASE image_size # 0
    <3>1. Reassembled(Session, bytes_written) BY <2>1, <2>3 DEF StagingInv
    <3>2. CASE bytes_written = image_size
      <4>1. /\ page_buf = <<>>
            /\ \A i \in 0..(image_size - 1) : flash[staging_base + i] \in AsImage(i)
        BY <3>1, <3>2 DEF Reassembled, Session
      <4>2. Len(page_buf) = 0 BY <4>1
      <4>3. bytes_written - Len(page_buf) = image_size BY <2>1, <3>2, <4>2
      <4> QED BY <4>1, <4>2, <4>3
    <3>3. CASE bytes_written # image_size
      <4>1. InOrder(Session, bytes_written - Len(page_buf))
        BY <3>1, <3>3 DEF Reassembled, Session
      <4> QED BY <3>3, <4>1 DEF InOrder, Session
    <3> QED BY <3>2, <3>3
  <2> QED BY <2>2, <2>3
<1> QED BY <1>1, <1>2, <1>3, SpecIInv, PTL DEF Spec
=============================================================================
