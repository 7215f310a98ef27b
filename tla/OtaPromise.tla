----------------------------- MODULE OtaPromise -----------------------------
(***************************************************************************)
(* What an OTA update promises the owner of a tracker: it keeps running    *)
(* the firmware it has, until it runs a complete image whose checksum was  *)
(* verified; otherwise it stops in the bootloader, from which it can be    *)
(* recovered.  It runs something else only if the settings page makes the  *)
(* bootloader compare nothing -- as it was found, because the flash could  *)
(* not be read, or because the update was aborted while it was activated.  *)
(***************************************************************************)
CONSTANTS Images, NoImage,
          ReadsFail   \* reading the flash may fail

VARIABLES
  runs,     \* what the tracker executes: "old", an image, "bootloader", "broken"
  staged,   \* the verified image waiting to be activated, or NoImage
  checked   \* the bootloader compares a checksum before it starts anything

vars == <<runs, staged, checked>>

Init == runs = "old" /\ staged = NoImage /\ checked \in BOOLEAN

Stage == runs = "old" /\ staged = NoImage /\ staged' \in Images /\ UNCHANGED <<runs, checked>>
Drop == staged # NoImage /\ staged' = NoImage /\ UNCHANGED <<runs, checked>>

(* The settings page is erased or written.                                 *)
Describe ==
  /\ runs = "old" /\ checked' \in BOOLEAN /\ UNCHANGED <<runs, staged>>
  /\ checked' \/ ReadsFail \/ staged = NoImage

Starts(what) == runs = "old" /\ runs' = what /\ staged' = NoImage /\ UNCHANGED checked
Install == staged \in Images /\ Starts(staged)
Recover == Starts("bootloader")
Break == ~checked /\ Starts("broken")

Next == Stage \/ Drop \/ Describe \/ Install \/ Recover \/ Break
Spec == Init /\ [][Next]_vars
=============================================================================
