-------------------------------- MODULE Settings --------------------------------
(***************************************************************************)
(* The settings (retained.c, system/system.c): they live in memory that    *)
(* keeps its content through a reset, covered by a checksum, and are       *)
(* written through to the flash; a boot trusts the memory if its checksum  *)
(* and its build stamp fit and reads everything from the flash otherwise.  *)
(*                                                                         *)
(* A value has two halves, because copying it can be interrupted.  Any      *)
(* writer may write any setting: the ESB thread, the console and the button *)
(* all write the pairing.  Their steps interleave anywhere, since threads   *)
(* of one priority share the processor and others interrupt them.  The      *)
(* checksum is the content it was computed over.                            *)
(***************************************************************************)
EXTENDS Naturals

CONSTANTS
    Names,           \* the settings
    Writers,         \* the threads that write them
    Values,          \* what is written
    SettingEvents,   \* bound: writes, clears and resets
    FlashFailures    \* bound: failures of the flash

ASSUME SettingsAssumption ==
    Values \subseteq Nat \ {0, 100} /\ {SettingEvents, FlashFailures} \subseteq Nat

VARIABLES
    ram,       \* the settings in struct retained_data
    checksum,  \* retained->crc: the content it was computed over
    nvs,       \* the settings in the flash
    older,     \* replaced values that the flash may still hold
    mounted,   \* nvs_init
    ready,     \* fs.ready
    job,       \* where each writer is
    possible,  \* history: what each setting may be, given what was written to it
    settingEvents, failures

settingVars == <<ram, checksum, nvs, older, mounted, ready, job, possible, settingEvents, failures>>

Unset == <<0, 0>>
Garbage == <<0, 100>>   \* memory without power
NoSum == <<100, 0>>     \* a checksum that fits nothing
Whole(v) == <<v, v>>
NoJob == [at |-> "idle"]

SettingsInit ==
    /\ ram = [s \in Names |-> Unset] /\ checksum = ram
    /\ nvs = ram /\ older = [s \in Names |-> {}] /\ mounted = TRUE /\ ready = TRUE
    /\ job = [w \in Writers |-> NoJob]
    /\ possible = [s \in Names |-> {Unset}]
    /\ settingEvents = 0 /\ failures = 0

SettingEvent == settingEvents < SettingEvents /\ settingEvents' = settingEvents + 1
MayFail == failures < FlashFailures
Failure == MayFail /\ failures' = failures + 1

\* sys_nvs_init
Mount(ok) ==
    \/ mounted /\ ok /\ UNCHANGED <<mounted, ready, failures>>
    \/ ~mounted /\ ok /\ mounted' = TRUE /\ ready' = TRUE /\ UNCHANGED failures
    \/ ~mounted /\ ~ok /\ Failure /\ UNCHANGED <<mounted, ready>>

\* What becomes of a setting with this first half when those who copy into it
\* go on.
Written(s) == {w \in Writers : job[w].at = "copy" /\ job[w].name = s}
Late(s, half) == {<<half, job[w].value>> : w \in Written(s)}

\* What a setting may be once the flash has changed.
Settled(s, flash) == {flash, ram[s]} \cup Late(s, ram[s][1])

-----------------------------------------------------------------------------
(* sys_write                                                               *)

\* A value that is being copied may be cut by a reset or another writer, and
\* the old one comes back if it is not trusted.
Write(w) ==
    /\ SettingEvent /\ job[w].at = "idle"
    /\ \E s \in Names, v \in Values, ok \in BOOLEAN :
          /\ Mount(ok)
          /\ ram' = [ram EXCEPT ![s] = <<v, ram[s][2]>>]
          /\ job' = [job EXCEPT ![w] = [at |-> "copy", name |-> s, value |-> v, flash |-> ok]]
          /\ possible' = [possible EXCEPT ![s] = @ \cup {Whole(v), <<v, ram[s][2]>>} \cup Late(s, v)]
    /\ UNCHANGED <<checksum, nvs, older>>

Copy(w) ==
    /\ job[w].at = "copy"
    /\ LET s == job[w].name
       IN  ram' = [ram EXCEPT ![s] = <<ram[s][1], job[w].value>>]
    /\ job' = [job EXCEPT ![w] = IF job[w].flash
                                 THEN [at |-> "flash", name |-> job[w].name, value |-> job[w].value]
                                 ELSE [at |-> "sum"]]
    /\ UNCHANGED <<checksum, nvs, older, mounted, ready, possible, settingEvents, failures>>

\* The flash keeps the value; the memory may hold another by now.
ToFlash(w) ==
    /\ job[w].at = "flash" /\ ready
    /\ LET s == job[w].name
           value == Whole(job[w].value)
       IN  /\ nvs' = [nvs EXCEPT ![s] = value]
           /\ older' = [older EXCEPT ![s] = @ \cup {nvs[s]}]
           /\ possible' = [possible EXCEPT ![s] = Settled(s, value)]
    /\ job' = [job EXCEPT ![w] = [at |-> "sum"]]
    /\ UNCHANGED <<ram, checksum, mounted, ready, settingEvents, failures>>

\* It does not, always so if a clear has taken the file system away: the
\* checksum is kept as it is.
FlashFails(w) ==
    /\ job[w].at = "flash" /\ IF ready THEN Failure ELSE UNCHANGED failures
    /\ job' = [job EXCEPT ![w] = NoJob]
    /\ UNCHANGED <<ram, checksum, nvs, older, mounted, ready, possible, settingEvents>>

\* retained_update computes the checksum and then stores it.
Sum(w) ==
    /\ job[w].at = "sum"
    /\ job' = [job EXCEPT ![w] = [at |-> "store", sum |-> ram]]
    /\ UNCHANGED <<ram, checksum, nvs, older, mounted, ready, possible, settingEvents, failures>>

StoreSum(w) ==
    /\ job[w].at = "store"
    /\ checksum' = job[w].sum /\ job' = [job EXCEPT ![w] = NoJob]
    /\ UNCHANGED <<ram, nvs, older, mounted, ready, possible, settingEvents, failures>>

\* Anything else that is retained is written without the flash.
Retain(w) ==
    /\ SettingEvent /\ job[w].at = "idle"
    /\ job' = [job EXCEPT ![w] = [at |-> "sum"]]
    /\ UNCHANGED <<ram, checksum, nvs, older, mounted, ready, possible, failures>>

-----------------------------------------------------------------------------
(* sys_clear, confirmed: the memory, then the flash, then the checksum     *)

ClearRam(w) ==
    /\ SettingEvent /\ job[w].at = "idle"
    /\ \E ok \in BOOLEAN : Mount(ok)
    /\ ram' = [s \in Names |-> Unset] /\ checksum' = [s \in Names |-> NoSum]
    /\ possible' = [s \in Names |-> possible[s] \cup {Unset} \cup Late(s, 0)]
    /\ job' = [job EXCEPT ![w] = [at |-> "clear"]]
    /\ UNCHANGED <<nvs, older>>

\* A setting where the flash was erased half way: unset, what it was, or what it
\* was before.
Leftover(s) == {Unset, nvs[s]} \cup older[s]

\* Whether the flash was mounted and could be erased is not looked at.
ClearFlash(w) ==
    /\ job[w].at = "clear" /\ mounted' = FALSE
    /\ \/ /\ ready /\ ready' = FALSE /\ UNCHANGED failures
          /\ nvs' = [s \in Names |-> Unset] /\ older' = [s \in Names |-> {}]
       \/ /\ ready /\ Failure /\ UNCHANGED <<ready, older>>
          /\ \E kept \in [Names -> UNION {Leftover(s) : s \in Names}] :
                (\A s \in Names : kept[s] \in Leftover(s)) /\ nvs' = kept
       \/ ~ready /\ UNCHANGED <<nvs, older, ready, failures>>
    /\ possible' = [s \in Names |-> Settled(s, nvs'[s])]
    /\ job' = [job EXCEPT ![w] = [at |-> "sum"]]
    /\ UNCHANGED <<ram, checksum, settingEvents>>

-----------------------------------------------------------------------------
(* A reset, and sys_retained_init                                          *)

Valid_StampOnly(memory, updated) == ~updated

\* retained_validate: the checksum, and the build stamp.
Valid(memory, updated) == memory = checksum /\ ~updated

Restored == \E unread \in SUBSET Names :
    /\ IF unread = {} THEN UNCHANGED failures ELSE Failure
    /\ mounted' = (unread # Names) /\ ready' = mounted'
    /\ ram' = [s \in Names |-> IF s \in unread THEN Unset ELSE nvs[s]]
    /\ possible' = [s \in Names |-> IF s \in unread THEN possible[s] \cup {Unset} ELSE possible[s]]

\* The content survives a reset, is lost without power, and is of another
\* firmware after an update.
Restart ==
    /\ SettingEvent
    /\ \E memory \in {ram, [s \in Names |-> Garbage]}, updated \in BOOLEAN :
          IF Valid(memory, updated)
          THEN /\ ram' = memory
               /\ \/ mounted' = TRUE /\ ready' = TRUE /\ UNCHANGED failures
                  \/ Failure /\ mounted' = FALSE /\ ready' = FALSE
               /\ UNCHANGED <<checksum, possible>>
          ELSE Restored /\ checksum' = ram'
    /\ job' = [w \in Writers |-> NoJob]
    /\ UNCHANGED <<nvs, older>>

Writing(w) == Write(w) \/ Copy(w) \/ ToFlash(w) \/ FlashFails(w) \/ Sum(w) \/ StoreSum(w)
              \/ Retain(w) \/ ClearRam(w) \/ ClearFlash(w)
SettingsNext == Restart \/ \E w \in Writers : Writing(w)
SettingsSpec == SettingsInit /\ [][SettingsNext]_settingVars

-----------------------------------------------------------------------------
SettingContents == {Unset, Garbage, NoSum} \cup {<<a, b>> : a, b \in Values \cup {0}}

SettingsTypeOK ==
    /\ {ram, checksum} \subseteq [Names -> SettingContents] /\ nvs \in [Names -> SettingContents]
    /\ older \in [Names -> SUBSET SettingContents] /\ {mounted, ready} \subseteq BOOLEAN
    /\ \A w \in Writers :
          job[w].at \in {"idle", "copy", "flash", "sum", "store", "clear"}
    /\ possible \in [Names -> SUBSET SettingContents]
    /\ settingEvents \in 0 .. SettingEvents /\ failures \in 0 .. FlashFailures

\* Whatever is interrupted where, by a reset, another writer, lost memory, an
\* update of the firmware or a failure of the flash: a setting is a value that
\* was written to it and not replaced since for good, or was cleared from the
\* memory only, never what the memory held without power or for another firmware.
Durable == \A s \in Names : ram[s] \in possible[s]

\* A setting is never a mixture of two.
WholeValue == \A s \in Names : Written(s) = {} => ram[s][1] = ram[s][2]

\* What the flash holds is not lost by one boot that could not read it.
NotForgotten == \A s \in Names : nvs[s] # Unset => ram[s] # Unset \/ job # [w \in Writers |-> NoJob]
=============================================================================
