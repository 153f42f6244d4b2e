---------------------------- MODULE RtcAccessProofs ----------------------------
(***************************************************************************)
(* Proofs about RtcAccess for any number of SNTP answers and midnights.    *)
(***************************************************************************)
EXTENDS RtcAccess, TLAPS

(***************************************************************************)
(* The inductive invariant.  The restore is over before SNTP can answer    *)
(* (PhaseInv), so one writer at a time is inside the HAL calls (LockInv),  *)
(* and the registers hold the latest setting or its first half (SetInv).   *)
(* The shadow registers are latched only between settings (ReadInv).       *)
(***************************************************************************)
Halfway == {"setDate", "inSetDate"}

PhaseInv ==
    /\ pc["tcpip_thread"] \in SettingPlaces \cup {"idle", "release"}
    /\ pc["saveFlash"] \in SettingPlaces \cup {"poll", "getTime", "getDate"}
    /\ pc["mqtt_task"] \in {"start", "cycle", "getDate"}
    /\ ~sntpOn => pc["tcpip_thread"] = "idle" /\ answers = 0
    /\ sntpOn => pc["saveFlash"] \notin SettingPlaces

LockInv ==
    /\ locked => \E t \in Writers : pc[t] \in {"inSetTime", "inSetDate"}
    /\ ~refused

SetInv ==
    /\ \A t \in Writers : pc[t] \in SettingPlaces =>
          /\ given[t].set = answers + 1
          /\ pc[t] \in Halfway => tr.set = answers + 1 /\ dr.set <= tr.set
          /\ pc[t] \notin Halfway => tr.set = dr.set /\ tr.set <= answers
    /\ pc["tcpip_thread"] \in SettingPlaces \cup {"release"} => answers >= 1
    /\ (\A t \in Writers : pc[t] \notin SettingPlaces) =>
          tr.set = dr.set /\ tr.set = answers + 1

DayInv ==
    /\ tr.day <= midnights /\ dr.day <= midnights
    /\ \A t \in Writers : given[t].day <= midnights
    /\ ~struck => \/ \E t \in Writers : pc[t] \in Halfway /\ tr = given[t]
                  \/ (\A t \in Writers : pc[t] \notin Halfway) /\ tr.day = dr.day

ReadInv ==
    /\ pc["saveFlash"] = "getDate" => latched /\ partner["saveFlash"] = shDr
    /\ pc["saveFlash"] \in {"getTime", "getDate"} => pc["tcpip_thread"] \notin Halfway
    /\ latched => shTr.set = shDr.set
    /\ ~torn["saveFlash"]

IInv == TypeOK /\ PhaseInv /\ LockInv /\ SetInv /\ DayInv /\ ReadInv /\ TokenMeansSynced

Places == SettingPlaces \cup {"idle", "release", "poll", "getTime", "getDate", "start", "cycle"}

\* The tasks, by name.
LEMMA TaskNames ==
    /\ "tcpip_thread" \in Writers /\ "saveFlash" \in Writers /\ "saveFlash" \in Readers
    /\ "mqtt_task" \in Readers /\ "mqtt_task" \notin Writers
    /\ Writers \subseteq Tasks /\ Readers \subseteq Tasks
    /\ \A t \in Writers : t = "tcpip_thread" \/ t = "saveFlash"
BY DEF Writers, Readers, Tasks

\* saveFlash is above mqtt_task, which therefore runs only while it polls.
LEMMA MqttBelowSave ==
    ASSUME PhaseInv, Runs("mqtt_task")
    PROVE  pc["saveFlash"] = "poll" /\ ~Suspended
<1>1. ~Suspended
  BY DEF Runs
<1>2. ~Ready("saveFlash")
  <2>1. Priority("saveFlash") = -1 /\ Priority("mqtt_task") = -2
    BY DEF Priority
  <2> QED
    BY <1>1, <2>1, TaskNames DEF Runs
<1> QED
  BY <1>1, <1>2 DEF PhaseInv, Ready, SettingPlaces, Suspended

\* The restore and an SNTP answer are never under way together.
LEMMA OneWriter ==
    ASSUME PhaseInv, NEW t \in Writers, NEW u \in Writers, t # u,
           pc[t] \in SettingPlaces
    PROVE  pc[u] \notin SettingPlaces
BY TaskNames DEF PhaseInv, SettingPlaces

\* Between settings, and before the first write of one, the registers agree.
LEMMA AtRest ==
    ASSUME IInv, pc["saveFlash"] \notin SettingPlaces, pc["tcpip_thread"] \notin Halfway
    PROVE  tr.set = dr.set
BY TaskNames DEF IInv, SetInv

\* The invariant holds when the scheduler starts.
LEMMA InitInv == Init => IInv
<1> SUFFICES ASSUME Init PROVE IInv
  OBVIOUS
<1>1. /\ pc["tcpip_thread"] = "idle" /\ pc["saveFlash"] = "setTime" /\ pc["mqtt_task"] = "start"
      /\ pc \in [Tasks -> {"idle", "setTime", "start"}]
  <2>1. \A t \in Tasks : t \in {"tcpip_thread", "saveFlash", "mqtt_task"}
    BY DEF Tasks, Writers, Readers
  <2> QED
    BY <2>1, TaskNames DEF Init
<1>2. First \in Stamp /\ Restored \in Stamp
  BY BoundsAssumption DEF First, Restored, Stamp
<1>3. TypeOK
  <2>1. pc \in [Tasks -> Places]
    BY <1>1 DEF Places, SettingPlaces
  <2>2. given \in [Writers -> Stamp] /\ partner \in [Readers -> Stamp]
        /\ torn \in [Readers -> BOOLEAN]
    BY <1>2 DEF Init
  <2>3. answers \in 0 .. MaxAnswers /\ midnights \in 0 .. MaxMidnights /\ sem \in 0..1
    BY BoundsAssumption DEF Init
  <2> QED
    BY <1>2, <2>1, <2>2, <2>3 DEF Init, TypeOK, Places
<1>4. PhaseInv /\ LockInv
  BY <1>1 DEF Init, PhaseInv, LockInv, SettingPlaces
<1>5. First.set = 0 /\ First.day = 0 /\ Restored.set = 1 /\ Restored.day = 0
  BY DEF First, Restored
<1>6. SetInv /\ DayInv
  <2>1. \A t \in Writers : given[t] = Restored
    BY DEF Init
  <2>2. SetInv
    <3>1. answers = 0 /\ tr.set = 0 /\ dr.set = 0
      BY <1>5 DEF Init
    <3>2. \A t \in Writers : /\ given[t].set = answers + 1 /\ pc[t] \notin Halfway
                             /\ tr.set = dr.set /\ tr.set <= answers
      BY <1>1, <1>5, <2>1, <3>1, TaskNames DEF Halfway
    <3>3. pc["saveFlash"] \in SettingPlaces /\ pc["tcpip_thread"] \notin SettingPlaces \cup {"release"}
      BY <1>1 DEF SettingPlaces
    <3> QED
      BY <3>2, <3>3, TaskNames DEF SetInv
  <2>3. DayInv
    BY <1>1, <1>5, <2>1, TaskNames DEF Init, DayInv, Halfway
  <2> QED
    BY <2>2, <2>3
<1>7. ReadInv /\ TokenMeansSynced
  BY <1>1, TaskNames DEF Init, ReadInv, TokenMeansSynced
<1> QED
  BY <1>3, <1>4, <1>6, <1>7 DEF IInv

\* A writer takes the lock, which is free.
LEMMA LockStep ==
    ASSUME IInv, NEW t \in Writers, HAL_RTC_SetLock(t)
    PROVE  IInv'
<1>1. pc[t] \in SettingPlaces /\ ~locked
  <2>1. pc[t] \in SettingPlaces
    BY DEF HAL_RTC_SetLock, SettingPlaces
  <2>2. ASSUME locked PROVE FALSE
    <3>1. PICK u \in Writers : pc[u] \in {"inSetTime", "inSetDate"}
      BY <2>2 DEF IInv, LockInv
    <3>2. u # t
      BY <3>1 DEF HAL_RTC_SetLock
    <3> QED
      BY <2>1, <3>1, <3>2, OneWriter DEF IInv, SettingPlaces
  <2> QED
    BY <2>1, <2>2
<1>2. /\ pc[t] = "setTime" => pc' = [pc EXCEPT ![t] = "inSetTime"]
      /\ pc[t] = "setDate" => pc' = [pc EXCEPT ![t] = "inSetDate"]
      /\ pc[t] \in {"setTime", "setDate"}
  BY <1>1 DEF HAL_RTC_SetLock, Goto
<1>3. t \in Tasks /\ pc \in [Tasks -> Places]
  BY TaskNames DEF IInv, TypeOK, Places
<1>4. pc' \in [Tasks -> Places]
  BY <1>2, <1>3 DEF Places, SettingPlaces
<1>5. locked' = TRUE /\ refused' = refused
  BY <1>1 DEF HAL_RTC_SetLock, IInv, TypeOK
<1>6. TypeOK'
  BY <1>4, <1>5 DEF IInv, TypeOK, HAL_RTC_SetLock, regVars, shVars, sntpVars, readVars, Places
<1>7. /\ pc'[t] \in SettingPlaces /\ (pc'[t] \in Halfway <=> pc[t] \in Halfway)
      /\ pc'[t] \in {"inSetTime", "inSetDate"}
      /\ \A u \in Tasks : u # t => pc'[u] = pc[u]
  BY <1>2, <1>3 DEF SettingPlaces, Halfway
<1>8. PhaseInv'
  BY <1>1, <1>7, TaskNames DEF IInv, PhaseInv, HAL_RTC_SetLock, SettingPlaces, sntpVars
<1>9. LockInv'
  BY <1>5, <1>7 DEF IInv, LockInv
<1>10. \A u \in Writers : /\ pc'[u] \in SettingPlaces <=> pc[u] \in SettingPlaces
                          /\ pc'[u] \in Halfway <=> pc[u] \in Halfway
                          /\ pc'[u] = "release" <=> pc[u] = "release"
  BY <1>1, <1>7, TaskNames DEF SettingPlaces
<1>11. SetInv'
  BY <1>10, TaskNames DEF IInv, SetInv, HAL_RTC_SetLock, regVars, sntpVars
<1>12. DayInv'
  BY <1>10, TaskNames DEF IInv, DayInv, HAL_RTC_SetLock, regVars
<1>13. ReadInv' /\ TokenMeansSynced'
  BY <1>1, <1>7, <1>10, TaskNames DEF IInv, ReadInv, TokenMeansSynced, HAL_RTC_SetLock,
     SettingPlaces, regVars, shVars, sntpVars, readVars
<1> QED
  BY <1>6, <1>8, <1>9, <1>11, <1>12, <1>13 DEF IInv

\* A writer writes its stamp to one register.
LEMMA WriteStep ==
    ASSUME IInv, NEW t \in Writers, HAL_RTC_SetWrite(t)
    PROVE  IInv'
<1>1. pc[t] \in SettingPlaces /\ t \in Tasks /\ pc \in [Tasks -> Places]
  BY TaskNames DEF IInv, TypeOK, HAL_RTC_SetWrite, SettingPlaces, Places
<1>2. \A u \in Writers : u # t => pc[u] \notin SettingPlaces
  BY <1>1, OneWriter DEF IInv
<1>3. /\ pc[t] = "inSetTime" => pc' = [pc EXCEPT ![t] = "setDate"]
      /\ pc[t] = "inSetDate" => pc' = [pc EXCEPT ![t] = IF t = "saveFlash" THEN "poll" ELSE "release"]
      /\ pc[t] \in {"inSetTime", "inSetDate"}
  BY DEF HAL_RTC_SetWrite, Goto, After
<1>4. /\ pc' \in [Tasks -> Places]
      /\ pc[t] = "inSetTime" => pc'[t] = "setDate"
      /\ pc[t] = "inSetDate" => pc'[t] = IF t = "saveFlash" THEN "poll" ELSE "release"
      /\ \A u \in Tasks : u # t => pc'[u] = pc[u]
  BY <1>1, <1>3 DEF Places, SettingPlaces
<1>5. given[t] \in Stamp
  BY DEF IInv, TypeOK
<1>6. tr' \in Stamp /\ dr' \in Stamp /\ latched' \in BOOLEAN /\ struck' \in BOOLEAN
  BY <1>3, <1>5 DEF IInv, TypeOK, HAL_RTC_SetWrite
<1>7. TypeOK'
  BY <1>4, <1>6 DEF IInv, TypeOK, HAL_RTC_SetWrite, sntpVars, readVars, Places
<1>8. PhaseInv'
  BY <1>1, <1>3, <1>4, TaskNames DEF IInv, PhaseInv, HAL_RTC_SetWrite, SettingPlaces, sntpVars
<1>9. LockInv'
  BY DEF IInv, LockInv, HAL_RTC_SetWrite
<1>10. answers \in Nat /\ tr.set \in Nat /\ dr.set \in Nat /\ given[t].set = answers + 1
  BY <1>1, BoundsAssumption DEF IInv, TypeOK, SetInv, Stamp
<1>11. ReadInv'
  <2>1. pc'["saveFlash"] \notin {"getTime", "getDate"}
    BY <1>3, <1>4, TaskNames DEF HAL_RTC_SetWrite, Runs, Suspended
  <2>2. latched' => latched
    BY DEF HAL_RTC_SetWrite, IInv, TypeOK
  <2> QED
    BY <2>1, <2>2, TaskNames DEF IInv, ReadInv, HAL_RTC_SetWrite, readVars
<1>12. CASE pc[t] = "inSetTime"
  <2>1. tr' = given[t] /\ dr' = dr /\ ~struck' /\ answers' = answers /\ given' = given
        /\ midnights' = midnights /\ sem' = sem
    BY <1>12 DEF HAL_RTC_SetWrite, sntpVars
  <2>2. tr.set = dr.set /\ tr.set <= answers /\ pc'[t] = "setDate"
    BY <1>1, <1>4, <1>12 DEF IInv, SetInv, Halfway
  <2>3. SetInv'
    BY <1>1, <1>2, <1>4, <1>10, <2>1, <2>2, TaskNames DEF IInv, SetInv, SettingPlaces, Halfway
  <2>4. DayInv'
    BY <1>4, <2>1, <2>2, TaskNames DEF IInv, DayInv, Halfway
  <2>5. TokenMeansSynced'
    BY <1>10, <2>1, <2>2 DEF IInv, TokenMeansSynced
  <2>6. ReadInv'
    BY <1>12, <1>11
  <2> QED
    BY <1>7, <1>8, <1>9, <2>3, <2>4, <2>5, <2>6 DEF IInv
<1>13. CASE pc[t] = "inSetDate"
  <2>1. dr' = given[t] /\ tr' = tr /\ struck' = struck /\ answers' = answers /\ given' = given
        /\ midnights' = midnights /\ sem' = sem
    BY <1>13 DEF HAL_RTC_SetWrite, sntpVars
  <2>2. tr.set = answers + 1 /\ dr.set <= tr.set
    BY <1>1, <1>13 DEF IInv, SetInv, Halfway
  <2>3. \A u \in Writers : pc'[u] \notin SettingPlaces
    BY <1>2, <1>4, <1>13, TaskNames DEF SettingPlaces
  <2>4. SetInv'
    BY <1>1, <1>4, <1>10, <1>13, <2>1, <2>2, <2>3, TaskNames DEF IInv, SetInv, PhaseInv, SettingPlaces
  <2>5. ~struck => tr = given[t]
    BY <1>2, <1>13, TaskNames DEF IInv, DayInv, Halfway, SettingPlaces
  <2>6. DayInv'
    BY <2>1, <2>3, <2>5, TaskNames DEF IInv, DayInv, Halfway, SettingPlaces
  <2>7. TokenMeansSynced'
    BY <1>10, <2>1, <2>2 DEF IInv, TokenMeansSynced
  <2>8. ReadInv'
    BY <1>13, <1>11
  <2> QED
    BY <1>7, <1>8, <1>9, <2>4, <2>6, <2>7, <2>8 DEF IInv
<1> QED
  BY <1>3, <1>12, <1>13

\* An answer of the SNTP server comes after the restore.
LEMMA AnswerStep ==
    ASSUME IInv, SntpAnswer
    PROVE  IInv'
<1> DEFINE stamp == [set |-> answers + 2, day |-> midnights]
<1>1. /\ answers \in 0 .. MaxAnswers /\ answers < MaxAnswers /\ midnights \in 0 .. MaxMidnights
      /\ answers' = answers + 1 /\ midnights' = midnights
  BY DEF IInv, TypeOK, SntpAnswer
<1>2. stamp \in Stamp /\ stamp.set = answers' + 1 /\ stamp.day = midnights
  BY <1>1, BoundsAssumption DEF Stamp
<1>3. /\ given' \in [Writers -> Stamp] /\ given'["tcpip_thread"] = stamp
      /\ given'["saveFlash"] = given["saveFlash"]
  BY <1>2, TaskNames DEF IInv, TypeOK, SntpAnswer
<1>4. /\ pc' \in [Tasks -> Places] /\ pc'["tcpip_thread"] = "setTime"
      /\ \A u \in Tasks : u # "tcpip_thread" => pc'[u] = pc[u]
      /\ pc["tcpip_thread"] = "idle"
  BY TaskNames DEF IInv, TypeOK, SntpAnswer, Goto, Places, SettingPlaces
<1>5. answers' \in 0 .. MaxAnswers
  BY <1>1, BoundsAssumption
<1>6. TypeOK'
  BY <1>3, <1>4, <1>5 DEF IInv, TypeOK, SntpAnswer, regVars, shVars, readVars, Places
<1>7. pc["saveFlash"] \notin SettingPlaces /\ sntpOn /\ sntpOn'
  BY DEF IInv, PhaseInv, SntpAnswer
<1>8. pc'["saveFlash"] = pc["saveFlash"] /\ pc'["mqtt_task"] = pc["mqtt_task"]
  BY <1>4, TaskNames
<1>9. PhaseInv'
  BY <1>4, <1>7, <1>8 DEF IInv, PhaseInv, SettingPlaces
<1>10. LockInv'
  BY <1>4, <1>7, <1>8, TaskNames DEF IInv, LockInv, SntpAnswer, SettingPlaces
<1>11. tr.set = dr.set /\ tr.set = answers + 1 /\ tr' = tr /\ dr' = dr
  BY <1>4, <1>7, TaskNames DEF IInv, SetInv, SntpAnswer, SettingPlaces, regVars
<1>12. SetInv'
  <2>1. /\ pc'["tcpip_thread"] \in SettingPlaces /\ pc'["tcpip_thread"] \notin Halfway
        /\ pc'["saveFlash"] \notin SettingPlaces
    BY <1>4, <1>7, <1>8 DEF SettingPlaces, Halfway
  <2>2. given'["tcpip_thread"].set = answers' + 1
    BY <1>2, <1>3
  <2>3. tr'.set = dr'.set /\ tr'.set = answers'
    BY <1>1, <1>11
  <2>4. answers' >= 1 /\ answers' <= answers'
    BY <1>1, BoundsAssumption
  <2> QED
    BY <2>1, <2>2, <2>3, <2>4, TaskNames DEF SetInv
<1>13. DayInv'
  <2>1. \A t \in Writers : given'[t].day <= midnights'
    BY <1>1, <1>2, <1>3, TaskNames DEF IInv, DayInv
  <2>2. \A t \in Writers : pc[t] \notin Halfway /\ pc'[t] \notin Halfway
    BY <1>4, <1>7, <1>8, TaskNames DEF Halfway, SettingPlaces
  <2> QED
    BY <1>1, <1>11, <2>1, <2>2 DEF IInv, DayInv, SntpAnswer
<1>14. ReadInv' /\ TokenMeansSynced'
  BY <1>4, <1>8, <1>11 DEF IInv, ReadInv, TokenMeansSynced, SntpAnswer, shVars, readVars, Halfway
<1> QED
  BY <1>6, <1>9, <1>10, <1>12, <1>13, <1>14 DEF IInv

\* The semaphore is released when both registers are set.
LEMMA ReleaseStep ==
    ASSUME IInv, ReleaseSyncSem
    PROVE  IInv'
<1>1. /\ pc' \in [Tasks -> Places] /\ pc'["tcpip_thread"] = "idle"
      /\ \A u \in Tasks : u # "tcpip_thread" => pc'[u] = pc[u]
      /\ pc["tcpip_thread"] = "release"
  BY TaskNames DEF IInv, TypeOK, ReleaseSyncSem, Goto, Places, SettingPlaces
<1>2. pc'["saveFlash"] = pc["saveFlash"] /\ pc'["mqtt_task"] = pc["mqtt_task"]
  BY <1>1, TaskNames
<1>3. TypeOK'
  BY <1>1 DEF IInv, TypeOK, ReleaseSyncSem, regVars, shVars, readVars, Places
<1>4. sntpOn /\ sntpOn'
  BY <1>1 DEF IInv, PhaseInv, ReleaseSyncSem
<1>5. \A t \in Writers : pc[t] \notin SettingPlaces /\ pc'[t] \notin SettingPlaces
  BY <1>1, <1>2, <1>4, TaskNames DEF IInv, PhaseInv, SettingPlaces
<1>6. PhaseInv'
  BY <1>1, <1>2, <1>4 DEF IInv, PhaseInv, SettingPlaces
<1>7. LockInv'
  BY <1>5, TaskNames DEF IInv, LockInv, ReleaseSyncSem, SettingPlaces
<1>8. answers >= 1 /\ answers \in Nat /\ tr.set = answers + 1 /\ dr.set = answers + 1
  BY <1>1, <1>5, BoundsAssumption DEF IInv, TypeOK, SetInv
<1>9. tr' = tr /\ dr' = dr /\ answers' = answers
  BY DEF ReleaseSyncSem, regVars
<1>10. SetInv'
  BY <1>1, <1>5, <1>8, <1>9 DEF SetInv, SettingPlaces
<1>11. DayInv'
  BY <1>5, <1>9 DEF IInv, DayInv, ReleaseSyncSem, Halfway, SettingPlaces
<1>12. ReadInv' /\ TokenMeansSynced'
  BY <1>1, <1>2, <1>8, <1>9 DEF IInv, ReadInv, TokenMeansSynced, ReleaseSyncSem, shVars, readVars,
     Halfway
<1> QED
  BY <1>3, <1>6, <1>7, <1>10, <1>11, <1>12 DEF IInv

\* A step that moves only tasks outside the HAL calls and leaves the registers.
LEMMA OutsideStep ==
    ASSUME IInv, PhaseInv', pc' \in [Tasks -> Places],
           \A t \in Writers : /\ pc'[t] \in SettingPlaces <=> pc[t] \in SettingPlaces
                              /\ pc[t] \in SettingPlaces \cup {"release"} => pc'[t] = pc[t]
                              /\ pc'[t] = "release" => pc[t] = "release",
           UNCHANGED <<regVars, locked, given, answers, midnights, refused, struck>>
    PROVE  LockInv' /\ SetInv' /\ DayInv'
<1>1. \A t \in Writers : pc'[t] \in Halfway <=> pc[t] \in Halfway
  BY DEF Halfway, SettingPlaces
<1>2. LockInv'
  BY DEF IInv, LockInv, SettingPlaces
<1>3. SetInv'
  BY <1>1, TaskNames DEF IInv, SetInv, regVars
<1>4. DayInv'
  BY <1>1 DEF IInv, DayInv, regVars
<1> QED
  BY <1>2, <1>3, <1>4

\* saveFlash begins a save, reads the time, reads the date.
LEMMA SaveStep ==
    ASSUME IInv, ButtonSave \/ SaveGetsTime \/ SaveGetsDate
    PROVE  IInv'
<1>1. PICK l \in {"getTime", "getDate", "poll"} : pc' = [pc EXCEPT !["saveFlash"] = l]
  BY DEF ButtonSave, SaveGetsTime, SaveGetsDate, Goto
<1>2. /\ pc' \in [Tasks -> Places] /\ pc'["saveFlash"] = l
      /\ \A u \in Tasks : u # "saveFlash" => pc'[u] = pc[u]
  BY <1>1, TaskNames DEF IInv, TypeOK, Places
<1>3. /\ pc["saveFlash"] \in {"getTime", "getDate", "poll"}
      /\ UNCHANGED <<regVars, locked, given, sntpVars, midnights, refused, struck>>
  BY DEF ButtonSave, SaveGetsTime, SaveGetsDate
<1>4. shTr' \in Stamp /\ shDr' \in Stamp /\ latched' \in BOOLEAN
      /\ partner' \in [Readers -> Stamp] /\ torn' \in [Readers -> BOOLEAN]
  <2>1. CASE ButtonSave
    BY <2>1 DEF IInv, TypeOK, ButtonSave, shVars, readVars
  <2>2. CASE SaveGetsTime
    <3>1. shTr' \in Stamp /\ shDr' \in Stamp
      BY <2>2 DEF IInv, TypeOK, SaveGetsTime, GetTime
    <3> QED
      BY <2>2, <3>1 DEF IInv, TypeOK, SaveGetsTime, GetTime
  <2>3. CASE SaveGetsDate
    <3>1. ((IF latched THEN shDr ELSE dr) # partner["saveFlash"]) \in BOOLEAN
      OBVIOUS
    <3> QED
      BY <2>3, <3>1 DEF IInv, TypeOK, SaveGetsDate, GetDate
  <2> QED
    BY <2>1, <2>2, <2>3
<1>5. TypeOK'
  BY <1>2, <1>3, <1>4 DEF IInv, TypeOK, regVars, sntpVars, Places
<1>6. pc'["tcpip_thread"] = pc["tcpip_thread"] /\ pc'["mqtt_task"] = pc["mqtt_task"]
  BY <1>2, TaskNames
<1>7. PhaseInv'
  BY <1>2, <1>3, <1>6 DEF IInv, PhaseInv, SettingPlaces, sntpVars
<1>8. LockInv' /\ SetInv' /\ DayInv'
  BY <1>2, <1>3, <1>6, <1>7, TaskNames, OutsideStep DEF SettingPlaces, sntpVars
<1>9. ReadInv'
  <2>1. CASE ButtonSave
    <3>1. pc["tcpip_thread"] = "idle"
      BY <2>1 DEF IInv, PhaseInv, SettingPlaces, ButtonSave, Ready
    <3>2. pc'["saveFlash"] = "getTime"
      BY <2>1, TaskNames DEF IInv, TypeOK, ButtonSave, Goto
    <3> QED
      BY <1>6, <2>1, <3>1, <3>2 DEF IInv, ReadInv, ButtonSave, shVars, readVars, Halfway
  <2>2. CASE SaveGetsTime
    <3>1. pc["tcpip_thread"] \notin Halfway /\ pc["saveFlash"] = "getTime"
      BY <2>2 DEF IInv, ReadInv, SaveGetsTime
    <3>2. tr.set = dr.set
      BY <3>1, AtRest DEF SettingPlaces
    <3>3. latched' /\ shTr'.set = shDr'.set /\ partner'["saveFlash"] = shDr'
      BY <2>2, <3>2, TaskNames DEF IInv, TypeOK, ReadInv, SaveGetsTime, GetTime
    <3> QED
      BY <1>6, <2>2, <3>1, <3>3 DEF IInv, ReadInv, SaveGetsTime, GetTime
  <2>3. CASE SaveGetsDate
    <3>1. pc'["saveFlash"] = "poll"
      BY <2>3, TaskNames DEF IInv, TypeOK, SaveGetsDate, Goto
    <3>2. latched /\ partner["saveFlash"] = shDr
      BY <2>3 DEF IInv, ReadInv, SaveGetsDate
    <3>3. ~torn'["saveFlash"]
      BY <2>3, <3>2, TaskNames DEF IInv, TypeOK, SaveGetsDate, GetDate
    <3>4. ~latched'
      BY <2>3 DEF SaveGetsDate, GetDate
    <3> QED
      BY <3>1, <3>3, <3>4 DEF ReadInv
  <2> QED
    BY <2>1, <2>2, <2>3
<1>10. TokenMeansSynced'
  BY <1>3 DEF IInv, TokenMeansSynced, regVars, sntpVars
<1> QED
  BY <1>5, <1>7, <1>8, <1>9, <1>10 DEF IInv

\* mqtt_task starts SNTP, reads the clock, takes the token: saveFlash polls.
LEMMA MqttStep ==
    ASSUME IInv, StartSntp \/ MqttGetsTime \/ MqttGetsDate \/ TakeSyncSem
    PROVE  IInv'
<1>1. Runs("mqtt_task")
  BY DEF StartSntp, MqttGetsTime, MqttGetsDate, TakeSyncSem
<1>2. pc["saveFlash"] = "poll"
  BY <1>1, MqttBelowSave DEF IInv
<1>3. PICK l \in {"start", "cycle", "getDate"} : pc' = [pc EXCEPT !["mqtt_task"] = l]
  <2>1. pc["mqtt_task"] \in {"start", "cycle", "getDate"} /\ pc \in [Tasks -> Places]
    BY DEF IInv, PhaseInv, TypeOK, Places
  <2>2. CASE TakeSyncSem
    BY <2>1, <2>2 DEF TakeSyncSem
  <2> QED
    BY <2>2 DEF StartSntp, MqttGetsTime, MqttGetsDate, Goto
<1>4. /\ pc' \in [Tasks -> Places] /\ pc'["mqtt_task"] = l
      /\ \A u \in Tasks : u # "mqtt_task" => pc'[u] = pc[u]
  BY <1>3, TaskNames DEF IInv, TypeOK, Places
<1>5. /\ UNCHANGED <<regVars, locked, given, answers, midnights, refused, struck>>
      /\ (sntpOn' = TRUE \/ sntpOn' = sntpOn) /\ (sem' = 0 \/ sem' = sem)
  BY DEF StartSntp, MqttGetsTime, MqttGetsDate, TakeSyncSem, sntpVars
<1>6. shTr' \in Stamp /\ shDr' \in Stamp /\ latched' \in BOOLEAN
      /\ partner' \in [Readers -> Stamp] /\ torn' \in [Readers -> BOOLEAN]
      /\ torn'["saveFlash"] = torn["saveFlash"]
  <2>1. CASE StartSntp \/ TakeSyncSem
    BY <2>1 DEF IInv, TypeOK, StartSntp, TakeSyncSem, shVars, readVars
  <2>2. CASE MqttGetsTime
    <3>1. shTr' \in Stamp /\ shDr' \in Stamp
      BY <2>2 DEF IInv, TypeOK, MqttGetsTime, GetTime
    <3> QED
      BY <2>2, <3>1 DEF IInv, TypeOK, MqttGetsTime, GetTime
  <2>3. CASE MqttGetsDate
    <3>1. ((IF latched THEN shDr ELSE dr) # partner["mqtt_task"]) \in BOOLEAN
      OBVIOUS
    <3> QED
      BY <2>3, <3>1, TaskNames DEF IInv, TypeOK, MqttGetsDate, GetDate
  <2> QED
    BY <2>1, <2>2, <2>3
<1>7. TypeOK'
  <2>1. sem' \in 0..1
    BY <1>5 DEF IInv, TypeOK
  <2>2. sntpOn' \in BOOLEAN
    <3>1. sntpOn \in BOOLEAN
      BY DEF IInv, TypeOK
    <3>2. sntpOn' = TRUE \/ sntpOn' = sntpOn
      BY <1>5
    <3> QED
      BY <3>1, <3>2
  <2> QED
    BY <1>4, <1>5, <1>6, <2>1, <2>2 DEF IInv, TypeOK, regVars, Places
<1>8. pc'["tcpip_thread"] = pc["tcpip_thread"] /\ pc'["saveFlash"] = pc["saveFlash"]
  BY <1>4, TaskNames
<1>9. PhaseInv'
  BY <1>2, <1>4, <1>5, <1>8 DEF IInv, PhaseInv, SettingPlaces
<1>10. LockInv' /\ SetInv' /\ DayInv'
  BY <1>4, <1>5, <1>8, <1>9, TaskNames, OutsideStep
<1>11. latched' => shTr'.set = shDr'.set
  <2>1. pc["tcpip_thread"] \notin Halfway
    <3>1. ~Ready("tcpip_thread")
      <4>1. Priority("tcpip_thread") = 2 /\ Priority("mqtt_task") = -2
        BY DEF Priority
      <4> QED
        BY <1>1, <1>2, <4>1, TaskNames DEF Runs, Suspended
    <3> QED
      BY <3>1 DEF Ready, Halfway
  <2>2. tr.set = dr.set
    BY <1>2, <2>1, AtRest DEF SettingPlaces
  <2>3. CASE MqttGetsTime
    BY <2>2, <2>3 DEF IInv, ReadInv, MqttGetsTime, GetTime
  <2> QED
    BY <2>3 DEF IInv, ReadInv, StartSntp, MqttGetsDate, TakeSyncSem, GetDate, shVars
<1>12. ReadInv' /\ TokenMeansSynced'
  BY <1>2, <1>5, <1>6, <1>8, <1>11 DEF IInv, ReadInv, TokenMeansSynced, regVars
<1> QED
  BY <1>7, <1>9, <1>10, <1>12 DEF IInv

\* Midnight moves both registers.
LEMMA MidnightStep ==
    ASSUME IInv, Midnight
    PROVE  IInv'
<1>1. /\ midnights \in 0 .. MaxMidnights /\ midnights < MaxMidnights
      /\ midnights' = midnights + 1 /\ tr \in Stamp /\ dr \in Stamp
      /\ tr.day <= midnights /\ dr.day <= midnights
  BY DEF IInv, TypeOK, DayInv, Midnight
<1>2. /\ tr' \in Stamp /\ tr'.set = tr.set /\ tr'.day = tr.day + 1
      /\ dr' \in Stamp /\ dr'.set = dr.set /\ dr'.day = dr.day + 1
  BY <1>1, BoundsAssumption DEF Midnight, NextDay, Stamp
<1>3. midnights' \in 0 .. MaxMidnights /\ struck' \in BOOLEAN
  BY <1>1, BoundsAssumption DEF Midnight, IInv, TypeOK
<1>4. TypeOK'
  BY <1>2, <1>3 DEF IInv, TypeOK, Midnight, shVars, sntpVars, readVars
<1>5. PhaseInv' /\ LockInv' /\ ReadInv'
  BY DEF IInv, PhaseInv, LockInv, ReadInv, Midnight, shVars, sntpVars, readVars
<1>6. SetInv' /\ TokenMeansSynced'
  BY <1>2 DEF IInv, SetInv, TokenMeansSynced, Midnight, sntpVars
<1>7. DayInv'
  <2>1. \A t \in Writers : given'[t].day <= midnights'
    <3>1. \A t \in Writers : given[t] \in Stamp
      BY DEF IInv, TypeOK
    <3> QED
      BY <1>1, <3>1, BoundsAssumption DEF IInv, DayInv, Midnight, Stamp
  <2>2. ~struck' => ~struck /\ \A t \in Writers : pc[t] \notin Halfway
    BY DEF Midnight, Halfway, IInv, TypeOK
  <2>3. ~struck' => tr'.day = dr'.day
    BY <1>2, <2>2 DEF IInv, DayInv
  <2> QED
    BY <1>1, <1>2, <2>1, <2>2, <2>3, BoundsAssumption DEF DayInv, Midnight, Stamp
<1> QED
  BY <1>4, <1>5, <1>6, <1>7 DEF IInv

\* The invariant holds in every reachable state.
THEOREM RtcInvariance == Spec => []IInv
<1>1. IInv /\ [Next]_vars => IInv'
  <2> SUFFICES ASSUME IInv, [Next]_vars PROVE IInv'
    OBVIOUS
  <2>1. CASE UNCHANGED vars
    BY <2>1 DEF vars, regVars, shVars, sntpVars, readVars, IInv, TypeOK, PhaseInv, LockInv,
       SetInv, DayInv, ReadInv, TokenMeansSynced
  <2> QED
    BY <2>1, LockStep, WriteStep, AnswerStep, ReleaseStep, SaveStep, MqttStep, MidnightStep
       DEF Next
<1> QED
  BY <1>1, InitInv, PTL DEF Spec

\* Time and date at rest are of one setting and one day.
THEOREM RtcAgrees == Spec => []TimeAndDateAgree
<1>1. IInv => TimeAndDateAgree
  BY DEF IInv, SetInv, DayInv, TimeAndDateAgree, SettingPlaces, Halfway
<1> QED
  BY <1>1, RtcInvariance, PTL

\* Every variable keeps its type.
THEOREM RtcTypes == Spec => []TypeOK
<1>1. IInv => TypeOK
  BY DEF IInv
<1> QED
  BY <1>1, RtcInvariance, PTL

\* No call of HAL_RTC_SetTime or HAL_RTC_SetDate ever returns HAL_BUSY.
THEOREM RtcNeverRefuses == Spec => []NoSettingRefused
<1>1. IInv => NoSettingRefused
  BY DEF IInv, LockInv, NoSettingRefused
<1> QED
  BY <1>1, RtcInvariance, PTL

\* sntpSyncSem is released only with both registers set.
THEOREM RtcTokens == Spec => []TokenMeansSynced
<1>1. IInv => TokenMeansSynced
  BY DEF IInv
<1> QED
  BY <1>1, RtcInvariance, PTL

\* The date and time of a save are of one moment.
THEOREM RtcSavesAgree == Spec => []SaveReadsOneMoment
<1>1. IInv => SaveReadsOneMoment
  BY DEF IInv, ReadInv, SaveReadsOneMoment
<1> QED
  BY <1>1, RtcInvariance, PTL

\* A save reads the date of the setting its time came from: the registers are latched
\* only between settings, whichever task reads them.
THEOREM RtcSavesOneSetting == Spec => []SaveIsOfOneSetting
<1>1. IInv => SaveIsOfOneSetting
  BY DEF IInv, ReadInv, SaveIsOfOneSetting
<1> QED
  BY <1>1, RtcInvariance, PTL

\* Settings replace each other in the order they are made.
THEOREM RtcMonotonic == Spec => NoSettingReplacesALater
<1>1. IInv /\ [Next]_vars => [tr'.set >= tr.set /\ dr'.set >= dr.set]_vars
  <2> SUFFICES ASSUME IInv, Next PROVE tr'.set >= tr.set /\ dr'.set >= dr.set
    OBVIOUS
  <2>1. tr.set \in Nat /\ dr.set \in Nat /\ answers \in Nat
    BY BoundsAssumption DEF IInv, TypeOK, Stamp
  <2>2. CASE UNCHANGED regVars
    BY <2>1, <2>2 DEF regVars
  <2>3. ASSUME NEW t \in Writers, HAL_RTC_SetWrite(t)
        PROVE  tr'.set >= tr.set /\ dr'.set >= dr.set
    <3>1. pc[t] \in SettingPlaces
      BY <2>3 DEF HAL_RTC_SetWrite, SettingPlaces
    <3>2. /\ pc[t] = "inSetTime" => tr.set <= answers
          /\ pc[t] = "inSetDate" => dr.set <= answers + 1
          /\ given[t].set = answers + 1
      BY <2>1, <3>1 DEF IInv, SetInv, Halfway
    <3> QED
      BY <2>1, <2>3, <3>2 DEF HAL_RTC_SetWrite
  <2>4. CASE Midnight
    <3>1. tr \in Stamp /\ dr \in Stamp
      BY DEF IInv, TypeOK
    <3>2. tr'.set = tr.set /\ dr'.set = dr.set
      BY <2>4, <3>1 DEF Midnight, NextDay, Stamp
    <3> QED
      BY <2>1, <3>2
  <2> QED
    BY <2>2, <2>3, <2>4 DEF Next, HAL_RTC_SetLock, SntpAnswer, ReleaseSyncSem, ButtonSave,
       SaveGetsTime, SaveGetsDate, StartSntp, MqttGetsTime, MqttGetsDate, TakeSyncSem
<1> QED
  BY <1>1, RtcInvariance, PTL DEF Spec, NoSettingReplacesALater
=============================================================================
