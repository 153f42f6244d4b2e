------------------------------- MODULE RtcAccess -------------------------------
(***************************************************************************)
(* The tasks that set and read the RTC: tcpip_thread in the SNTP callback  *)
(* set_rtc_from_sntp (utils.c), saveFlash in set_rtc_manual at boot and in *)
(* StartButtonTask, mqtt_task in sendWatchdog and _gettimeofday.  Time and *)
(* date are two registers, set and read by two HAL calls each, and a task  *)
(* is preempted between and inside the calls by those above it.            *)
(*                                                                         *)
(* The contents of a register are a stamp [set, day]: the setting it comes *)
(* from (0 MX_RTC_Init, 1 the boot restore, 2.. the SNTP answers) and the  *)
(* day it shows.  A setting writes the same stamp to both registers.       *)
(***************************************************************************)
EXTENDS Integers

CONSTANTS
    MaxAnswers,      \* bound on the SNTP answers
    MaxMidnights     \* bound on the midnights

ASSUME BoundsAssumption == MaxAnswers \in Nat /\ MaxMidnights \in Nat

Writers == {"tcpip_thread", "saveFlash"}
Readers == {"saveFlash", "mqtt_task"}
Tasks   == Writers \cup Readers
Stamp   == [set : 0 .. MaxAnswers + 1, day : 0 .. MaxMidnights]

VARIABLES
    pc,         \* where each task is
    tr, dr,     \* the time and date registers
    latched,    \* the shadow registers hold a copy, until DR is read
    shTr, shDr, \* that copy
    locked,     \* hrtc.Lock
    given,      \* the stamp each writer has computed
    sntpOn,     \* sntp_init was called
    answers,    \* the SNTP answers so far
    midnights,  \* the midnights so far
    sem,        \* the count of sntpSyncSem
    partner,    \* ghost: the date that belongs to the time each reader got
    torn,       \* ghost: the reader's last date was another moment's
    refused,    \* ghost: a HAL_RTC_Set call found the lock taken
    struck      \* ghost: a midnight fell between the writes of the last setting

regVars   == <<tr, dr>>
shVars    == <<latched, shTr, shDr>>
sntpVars  == <<sntpOn, answers, sem>>
readVars  == <<partner, torn>>
vars == <<pc, regVars, shVars, locked, given, sntpVars, midnights, readVars, refused, struck>>

SettingPlaces == {"setTime", "inSetTime", "setDate", "inSetDate"}

TypeOK ==
    /\ pc \in [Tasks -> SettingPlaces \cup {"idle", "release", "poll", "getTime", "getDate",
                                            "start", "cycle"}]
    /\ tr \in Stamp /\ dr \in Stamp /\ shTr \in Stamp /\ shDr \in Stamp
    /\ latched \in BOOLEAN /\ locked \in BOOLEAN /\ given \in [Writers -> Stamp]
    /\ sntpOn \in BOOLEAN /\ sem \in 0..1
    /\ answers \in 0 .. MaxAnswers /\ midnights \in 0 .. MaxMidnights
    /\ partner \in [Readers -> Stamp] /\ torn \in [Readers -> BOOLEAN]
    /\ refused \in BOOLEAN /\ struck \in BOOLEAN

First == [set |-> 0, day |-> 0]      \* MX_RTC_Init
Restored == [set |-> 1, day |-> 0]   \* the date and time of the last save

Init ==
    /\ pc = [t \in Tasks |-> CASE t = "tcpip_thread" -> "idle"
                               [] t = "saveFlash"    -> "setTime"
                               [] t = "mqtt_task"    -> "start"]
    /\ tr = First /\ dr = First
    /\ latched = FALSE /\ shTr = First /\ shDr = First
    /\ locked = FALSE /\ given = [t \in Writers |-> Restored]
    /\ sntpOn = FALSE /\ answers = 0 /\ midnights = 0 /\ sem = 0
    /\ partner = [t \in Readers |-> First] /\ torn = [t \in Readers |-> FALSE]
    /\ refused = FALSE /\ struck = FALSE

-----------------------------------------------------------------------------
(***************************************************************************)
(* Scheduling.  A task runs when no ready task is above it; between        *)
(* vTaskSuspendAll and xTaskResumeAll, saveFlash runs alone.               *)
(***************************************************************************)
\* Mutant: mqtt_task at osPriorityNormal.
PriorityMqttNormal(t) ==
    CASE t = "tcpip_thread" -> 2 [] t = "saveFlash" -> -1 [] t = "mqtt_task" -> 0

\* osPriorityHigh, osPriorityBelowNormal, osPriorityLow.
Priority(t) ==
    CASE t = "tcpip_thread" -> 2 [] t = "saveFlash" -> -1 [] t = "mqtt_task" -> -2

\* A task may be blocked where it waits: tcpip_thread for a packet, saveFlash
\* between two polls, mqtt_task for the network or the period.
Ready(t) == pc[t] \notin {"idle", "poll", "start", "cycle"}

\* Mutant: the clock is read before vTaskSuspendAll.
NotSuspended == FALSE

Suspended == pc["saveFlash"] \in {"getTime", "getDate"}

Runs(t) == IF Suspended THEN t = "saveFlash"
           ELSE \A u \in Tasks : Ready(u) => Priority(u) <= Priority(t)

Goto(t, l) == pc' = [pc EXCEPT ![t] = l]

(***************************************************************************)
(* HAL_RTC_SetTime and HAL_RTC_SetDate.  A call that finds the lock taken  *)
(* returns HAL_BUSY, which both callers ignore.                            *)
(***************************************************************************)
\* Mutant: the restore ends with the time.
AfterWithoutDate(t, l) ==
    CASE l \in {"setTime", "inSetTime"} -> IF t = "saveFlash" THEN "poll" ELSE "setDate"
      [] l \in {"setDate", "inSetDate"} -> IF t = "saveFlash" THEN "poll" ELSE "release"

\* Mutant: the semaphore is released between time and date.
AfterReleasingEarly(t, l) ==
    CASE l \in {"setTime", "inSetTime"} -> IF t = "saveFlash" THEN "setDate" ELSE "release"
      [] l \in {"setDate", "inSetDate"} -> "poll"

\* The place after a call, when the task was at l.
After(t, l) ==
    CASE l \in {"setTime", "inSetTime"} -> "setDate"
      [] l \in {"setDate", "inSetDate"} -> IF t = "saveFlash" THEN "poll" ELSE "release"

HAL_RTC_SetLock(t) ==
    /\ Runs(t) /\ pc[t] \in {"setTime", "setDate"}
    /\ refused' = (refused \/ locked)
    /\ locked' = TRUE
    /\ Goto(t, IF locked THEN After(t, pc[t])
               ELSE IF pc[t] = "setTime" THEN "inSetTime" ELSE "inSetDate")
    /\ UNCHANGED <<regVars, shVars, given, sntpVars, midnights, readVars, struck>>

\* Leaving the initialization mode waits for a fresh copy in the shadow
\* registers; whether a latched one survives that, the hardware decides.
HAL_RTC_SetWrite(t) ==
    /\ Runs(t) /\ pc[t] \in {"inSetTime", "inSetDate"}
    /\ IF pc[t] = "inSetTime" THEN tr' = given[t] /\ dr' = dr /\ struck' = FALSE
                              ELSE dr' = given[t] /\ tr' = tr /\ struck' = struck
    /\ locked' = FALSE
    /\ latched' \in {latched, FALSE}
    /\ Goto(t, After(t, pc[t]))
    /\ UNCHANGED <<shTr, shDr, given, sntpVars, midnights, readVars, refused>>

(***************************************************************************)
(* HAL_RTC_GetTime and HAL_RTC_GetDate.  Reading TR latches both registers *)
(* in the shadow unless they are latched already; reading DR lets go.      *)
(***************************************************************************)
GetTime(t) ==
    /\ latched' = TRUE
    /\ IF latched THEN UNCHANGED <<shTr, shDr>> ELSE shTr' = tr /\ shDr' = dr
    /\ partner' = [partner EXCEPT ![t] = shDr']
    /\ UNCHANGED torn

GetDate(t) ==
    /\ torn' = [torn EXCEPT ![t] = (IF latched THEN shDr ELSE dr) # partner[t]]
    /\ latched' = FALSE
    /\ UNCHANGED <<shTr, shDr, partner>>

-----------------------------------------------------------------------------
(***************************************************************************)
(* tcpip_thread: the SNTP callback                                         *)
(***************************************************************************)
SntpAnswer ==
    /\ sntpOn /\ pc["tcpip_thread"] = "idle" /\ answers < MaxAnswers
    /\ answers' = answers + 1
    /\ given' = [given EXCEPT !["tcpip_thread"] = [set |-> answers + 2, day |-> midnights]]
    /\ Goto("tcpip_thread", "setTime")
    /\ UNCHANGED <<regVars, shVars, locked, sntpOn, sem, midnights, readVars, refused, struck>>

\* Mutant: a counting semaphore.
ReleaseCountingSem ==
    /\ Runs("tcpip_thread") /\ pc["tcpip_thread"] = "release"
    /\ sem' = sem + 1
    /\ Goto("tcpip_thread", "idle")
    /\ UNCHANGED <<regVars, shVars, locked, given, sntpOn, answers, midnights, readVars, refused, struck>>

\* osSemaphoreRelease on a binary semaphore.
ReleaseSyncSem ==
    /\ Runs("tcpip_thread") /\ pc["tcpip_thread"] = "release"
    /\ sem' = 1
    /\ Goto("tcpip_thread", "idle")
    /\ UNCHANGED <<regVars, shVars, locked, given, sntpOn, answers, midnights, readVars, refused, struck>>

(***************************************************************************)
(* saveFlash: after the boot restore it polls the button                   *)
(***************************************************************************)
ButtonSave ==
    /\ pc["saveFlash"] = "poll" /\ ~Ready("tcpip_thread")
    /\ Goto("saveFlash", "getTime")                \* vTaskSuspendAll
    /\ UNCHANGED <<regVars, shVars, locked, given, sntpVars, midnights, readVars, refused, struck>>

SaveGetsTime ==
    /\ pc["saveFlash"] = "getTime" /\ Runs("saveFlash")
    /\ GetTime("saveFlash")
    /\ Goto("saveFlash", "getDate")
    /\ UNCHANGED <<regVars, locked, given, sntpVars, midnights, refused, struck>>

SaveGetsDate ==
    /\ pc["saveFlash"] = "getDate" /\ Runs("saveFlash")
    /\ GetDate("saveFlash")
    /\ Goto("saveFlash", "poll")                   \* xTaskResumeAll
    /\ UNCHANGED <<regVars, locked, given, sntpVars, midnights, refused, struck>>

(***************************************************************************)
(* mqtt_task: SNTP is started once, the clock read again and again         *)
(***************************************************************************)
StartSntp ==
    /\ pc["mqtt_task"] = "start" /\ Runs("mqtt_task")
    /\ sntpOn' = TRUE
    /\ Goto("mqtt_task", "cycle")
    /\ UNCHANGED <<regVars, shVars, locked, given, answers, sem, midnights, readVars, refused, struck>>

MqttGetsTime ==
    /\ pc["mqtt_task"] = "cycle" /\ Runs("mqtt_task")
    /\ GetTime("mqtt_task")
    /\ Goto("mqtt_task", "getDate")
    /\ UNCHANGED <<regVars, locked, given, sntpVars, midnights, refused, struck>>

MqttGetsDate ==
    /\ pc["mqtt_task"] = "getDate" /\ Runs("mqtt_task")
    /\ GetDate("mqtt_task")
    /\ Goto("mqtt_task", "cycle")
    /\ UNCHANGED <<regVars, locked, given, sntpVars, midnights, refused, struck>>

\* The wait of mqtt_task for the semaphore.
TakeSyncSem ==
    /\ pc["mqtt_task"] = "cycle" /\ Runs("mqtt_task") /\ sem = 1
    /\ sem' = 0
    /\ UNCHANGED <<pc, regVars, shVars, locked, given, sntpOn, answers, midnights, readVars, refused, struck>>

\* Both registers go to the next day at once.
NextDay(s) == [s EXCEPT !.day = @ + 1]
Midnight ==
    /\ midnights < MaxMidnights
    /\ midnights' = midnights + 1
    /\ tr' = NextDay(tr) /\ dr' = NextDay(dr)
    /\ struck' = (struck \/ \E t \in Writers : pc[t] \in {"setDate", "inSetDate"})
    /\ UNCHANGED <<pc, shVars, locked, given, sntpVars, readVars, refused>>

-----------------------------------------------------------------------------
Next ==
    \/ \E t \in Writers : HAL_RTC_SetLock(t) \/ HAL_RTC_SetWrite(t)
    \/ SntpAnswer \/ ReleaseSyncSem
    \/ ButtonSave \/ SaveGetsTime \/ SaveGetsDate
    \/ StartSntp \/ MqttGetsTime \/ MqttGetsDate \/ TakeSyncSem
    \/ Midnight

Spec == Init /\ [][Next]_vars

-----------------------------------------------------------------------------
(***************************************************************************)
(* Properties                                                              *)
(***************************************************************************)
\* While no setting is under way, time and date come from the same setting and
\* show the same day; a midnight between the two writes of set_rtc_from_sntp
\* or set_rtc_manual leaves the date behind.
TimeAndDateAgree ==
    (\A t \in Writers : pc[t] \notin SettingPlaces) =>
        tr.set = dr.set /\ (~struck => tr.day = dr.day)

\* The boot restore never replaces what SNTP has set, nor an answer a later
\* one: mqtt_task, which starts SNTP, is below saveFlash.
NoSettingReplacesALater == [][tr'.set >= tr.set /\ dr'.set >= dr.set]_vars

\* That the results of HAL_RTC_SetTime and HAL_RTC_SetDate are ignored does no
\* harm: no two tasks are ever inside them together.
NoSettingRefused == ~refused

\* A token in sntpSyncSem means that SNTP has set both registers.
TokenMeansSynced == sem = 1 => tr.set >= 2 /\ dr.set >= 2

\* The date and time written to the flash are of one moment, though mqtt_task
\* may have been interrupted between its own two reads (vTaskSuspendAll).
SaveReadsOneMoment == ~torn["saveFlash"]

\* The time a save has read and the date it is about to read are of one setting, also
\* when it was mqtt_task that latched them: the clock is never saved half set.
SaveIsOfOneSetting == pc["saveFlash"] = "getDate" => latched /\ shTr.set = shDr.set

\* stm32f7xx_hal_rtc.c:816: reading the date after the time gives values that
\* are consistent; mqtt.c:85 relies on it.
WatchdogReadsOneMoment == ~torn["mqtt_task"]
=============================================================================
