------------------------------- MODULE FlashLog -------------------------------
(***************************************************************************)
(* The log in flash sector 7 (saveFlashCycle.c) and what the saveFlash     *)
(* task restores from it at boot (main.c, SaveFlashMemory).                *)
(*                                                                         *)
(* A save is seven words: the watchdog counter and the date and time the   *)
(* RTC shows, each appended by a Flash_Write of its own with the scheduler *)
(* suspended.  A word is [save, field]: the save that wrote it and its     *)
(* place in that save.  Which save it is (the counter taken from the       *)
(* queue) is a member of Saves; the button and the queue are in MqttCycle  *)
(* and here only say that a save may begin at any time.                    *)
(***************************************************************************)
EXTENDS Integers, FiniteSets

CONSTANTS
    SectorWords,   \* FLASH_SECTOR_SIZE / 4
    Saves,         \* the values StartButtonTask may find in the queue
    Erased,        \* 0xFFFFFFFF
    Torn,          \* a word whose programming or erasing was cut short
    Uninit,        \* an element of counter[7] that Flash_Read did not write
    Midnight,      \* the date and time MX_RTC_Init sets at every boot
    Leftovers,     \* the sets of words a cut-short erase may leave written
    MaxFaults      \* bound on flash errors and power losses during a save

Words  == 0 .. SectorWords - 1
Fields == 0 .. 6       \* counter, year, month, day, sec, min, hour
Datum  == [save : Saves, field : Fields]

ASSUME SectorAssumption == SectorWords \in Nat /\ SectorWords >= 8
ASSUME WordsAssumption  == /\ Erased \notin Datum /\ Torn \notin Datum
                           /\ Uninit \notin Datum /\ Erased # Torn
ASSUME FaultsAssumption == Leftovers \subseteq SUBSET Words /\ MaxFaults \in Nat

VARIABLES
    sector,     \* the contents of sector 7
    pc,         \* "off", "ready" (StartButtonTask polls), "saving"
    field,      \* the field the next Flash_Write writes
    current,    \* counterToSave: the save in progress, or the last one
    rtc,        \* what set_rtc_manual gave the RTC at this boot
    course,     \* ghost: how `current' has gone: "none", "whole", "split", "faulty"
    holes,      \* ghost: an erase was cut short and none succeeded since
    faults      \* the faults so far, at most MaxFaults

vars == <<sector, pc, field, current, rtc, course, holes, faults>>

Registers == {"hours", "minutes", "seconds", "day", "month", "year"}

TypeOK ==
    /\ sector \in [Words -> Datum \cup {Erased, Torn}]
    /\ pc \in {"off", "ready", "saving"} /\ field \in Fields
    /\ current \in Saves
    /\ rtc \in [Registers -> Datum \cup {Torn, Uninit, Midnight}]
    /\ course \in {"none", "whole", "split", "faulty"}
    /\ holes \in BOOLEAN /\ faults \in 0 .. MaxFaults

BlankSector == [w \in Words |-> Erased]
AtMidnight  == [r \in Registers |-> Midnight]

Init ==
    /\ sector = BlankSector
    /\ pc = "off" /\ field = 0 /\ current \in Saves
    /\ rtc = AtMidnight
    /\ course = "none" /\ holes = FALSE /\ faults = 0

-----------------------------------------------------------------------------
(***************************************************************************)
(* Reading                                                                 *)
(***************************************************************************)
\* The search loop of Flash_Write and Flash_Read; SectorWords when it is full.
IsFirstErased(s, i) ==
    /\ i # SectorWords => s[i] = Erased
    /\ \A w \in 0 .. i - 1 : s[w] # Erased

FirstErased(s) == CHOOSE i \in 0 .. SectorWords : IsFirstErased(s, i)
IsFull(s) == FirstErased(s) = SectorWords

\* The seven words before word i.
Window(s, i) == [k \in Fields |-> s[i - 7 + k]]
Unread == [k \in Fields |-> Uninit]

\* Mutant: the window is filled only when more than seven words precede i.
FlashReadLate(s) ==
    IF FirstErased(s) <= 7 THEN Unread
    ELSE Window(s, IF IsFull(s) THEN SectorWords - 1 ELSE FirstErased(s))

\* The loop refills valuesArray at each i >= 7 up to the first erased word or,
\* in a full sector, up to the last word: what precedes the last word is read.
Flash_Read(s) ==
    IF FirstErased(s) < 7 THEN Unread
    ELSE Window(s, IF IsFull(s) THEN SectorWords - 1 ELSE FirstErased(s))

set_rtc_manual(a) ==
    [r \in Registers |-> CASE r = "hours" -> a[6] [] r = "minutes" -> a[5]
                           [] r = "seconds" -> a[4] [] r = "day" -> a[3]
                           [] r = "month" -> a[2] [] r = "year" -> a[1]]

\* The test `val != -1' compares a uint8_t with -1 and never fails, so the RTC
\* is set whether or not Flash_Read has found seven words.
Boot ==
    /\ pc = "off"
    /\ pc' = "ready"
    /\ rtc' = set_rtc_manual(Flash_Read(sector))
    /\ UNCHANGED <<sector, field, current, course, holes, faults>>

(***************************************************************************)
(* Saving                                                                  *)
(***************************************************************************)
\* The button goes down and the queue holds a value.
StartButtonTask ==
    /\ pc = "ready"
    /\ pc' = "saving" /\ field' = 0
    /\ current' \in Saves
    /\ course' = IF holes THEN "faulty" ELSE "whole"
    /\ UNCHANGED <<sector, rtc, holes, faults>>

\* Mutant: an eighth word is written.
NextFieldTooMany ==
    IF field = 7 THEN pc' = "ready" /\ field' = 0
                 ELSE pc' = pc /\ field' = field + 1

NextField ==
    IF field = 6 THEN pc' = "ready" /\ field' = 0
                 ELSE pc' = pc /\ field' = field + 1

\* Mutant: the address is advanced once more before it is used.
ProgramWordBeyond ==
    /\ pc = "saving" /\ ~IsFull(sector)
    /\ sector' = [sector EXCEPT ![FirstErased(sector) + 1] = [save |-> current, field |-> field]]
    /\ NextField
    /\ UNCHANGED <<current, rtc, course, holes, faults>>

ProgramWord ==
    /\ pc = "saving" /\ ~IsFull(sector)
    /\ sector' = [sector EXCEPT ![FirstErased(sector)] = [save |-> current, field |-> field]]
    /\ NextField
    /\ UNCHANGED <<current, rtc, course, holes, faults>>

\* The full sector is erased before the word is written to its start.
EraseSector ==
    /\ pc = "saving" /\ IsFull(sector)
    /\ sector' = BlankSector
    /\ course' = IF field = 0 THEN "whole" ELSE IF course = "faulty" THEN course ELSE "split"
    /\ holes' = FALSE
    /\ UNCHANGED <<pc, field, current, rtc, faults>>

Fault == faults < MaxFaults /\ faults' = faults + 1 /\ course' = "faulty"

\* Flash_Write does not report an error, so the save goes on without the word:
\* the erase fails and the function returns, or HAL_FLASH_Program fails.
FlashWriteFails ==
    /\ pc = "saving"
    /\ Fault
    /\ NextField
    /\ UNCHANGED <<sector, current, rtc, holes>>

-----------------------------------------------------------------------------
(***************************************************************************)
(* Power loss and reset                                                    *)
(***************************************************************************)
PowerGoes == pc' = "off" /\ field' = 0 /\ rtc' = AtMidnight /\ UNCHANGED current

PowerLostIdle ==
    /\ pc = "ready"
    /\ PowerGoes
    /\ UNCHANGED <<sector, course, holes, faults>>

PowerLostBetweenWords ==
    /\ pc = "saving"
    /\ Fault /\ PowerGoes
    /\ UNCHANGED <<sector, holes>>

PowerLostProgramming ==
    /\ pc = "saving" /\ ~IsFull(sector)
    /\ Fault /\ PowerGoes
    /\ sector' = [sector EXCEPT ![FirstErased(sector)] = Torn]
    /\ UNCHANGED holes

PowerLostErasing ==
    /\ pc = "saving" /\ IsFull(sector)
    /\ Fault /\ PowerGoes
    /\ \E L \in Leftovers : sector' = [w \in Words |-> IF w \in L THEN Torn ELSE Erased]
    /\ holes' = TRUE

-----------------------------------------------------------------------------
Next ==
    \/ Boot \/ StartButtonTask
    \/ ProgramWord \/ EraseSector \/ FlashWriteFails
    \/ PowerLostIdle \/ PowerLostBetweenWords
    \/ PowerLostProgramming \/ PowerLostErasing

Spec == Init /\ [][Next]_vars

-----------------------------------------------------------------------------
(***************************************************************************)
(* Properties                                                              *)
(***************************************************************************)
Record(v) == [k \in Fields |-> [save |-> v, field |-> k]]
Boots == pc = "off" /\ pc' = "ready"

\* Beyond an erased word lies no word of any save, so nothing that was saved
\* is hidden from the search loops, which stop there; only an erase that was
\* cut short leaves anything (Flash_Write, Flash_Read).
NothingBeyondAGap ==
    \A u, w \in Words : u < w /\ sector[u] = Erased => sector[w] \in {Erased, Torn}

\* After a save whose seven words were all written to the same erasure of the
\* sector, and before the next one begins, every boot gives the RTC exactly the
\* date and time of that save, however often the power failed in between; not
\* so while the sector is full (Flash_Read, SaveFlashMemory).
BootRestoresLastSave ==
    [][Boots /\ course = "whole" /\ ~IsFull(sector)
         => rtc' = set_rtc_manual(Record(current))]_vars

\* The save a boot would find, for the abstract store.
ReadableSave == {v \in Saves : Flash_Read(sector) = Record(v)}

Abstract == INSTANCE SaveStore WITH
              readable <- ReadableSave,
              writing  <- IF pc = "saving" THEN {current} ELSE {}

\* A save becomes readable all at once, when its last word is written, and no
\* boot ever finds a save that was not the one in progress at that moment.
ImplementsSaveStore == Abstract!Spec
=============================================================================
