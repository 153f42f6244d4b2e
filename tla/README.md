# A verification development for Stm32RtosEthernet

The firmware of an STM32F756 board: a FreeRTOS application that keeps an MQTT
session with a broker over TLS (Paho, mbedTLS, lwIP), publishes a numbered
watchdog message every five seconds, sets the RTC from SNTP, and writes the last
number with the date and time into a flash sector when a button is pressed. The
repository has no tests and no document but its comments (in Italian), so the
code is the reference; the comments are what the `violation` runs hold it to.

The development consists of TLA+ modules, TLC configurations that check them on
small instances, and TLAPS proofs of what holds for every instance.

## 1. Inventory

### Tasks

The application runs on one core under the preemptive FreeRTOS scheduler.

| task | priority | code | what it does |
|---|---|---|---|
| `EthIf` | realtime | `ethernetif.c` `ethernetif_input` | takes frames from the DMA ring to lwIP |
| `RMII_Watchdog` | realtime | `ethernetif.c` `RMII_Thread` | resets the RMII until a good frame arrives |
| `tcpip_thread` | high | lwIP | the stack, its timers, the SNTP callback `set_rtc_from_sntp` |
| `InputTask` | normal | `cycle.c` `Cycle_HandleInput` | button PC9 and the LEDs |
| `networkTask` | normal | `NetworkCycle.c` | starts lwIP, then calls `sys_check_timeouts` every 10 ms |
| `EthLink` | normal | `ethernetif.c` `ethernet_link_thread` | follows the PHY, starts and stops the MAC |
| `defaultTask` | normal | `main.c` | idles |
| `saveFlash` | below normal | `main.c` `SaveFlashMemory`, `saveFlashCycle.c` | restores the RTC at boot, then saves on button PC11 |
| `mqtt_task` | low | `mqtt.c` `MQTT_Cycle` | connection, session, watchdog |

### Components

**MQTT cycle** (`mqtt.c`). State: `currentState`, `lastWatchdogTick`, `counter`,
`sntp_initialized`, the globals `network`, `client`. Operations: the five cases
of the switch, `sendWatchdog`, the callback `messageArrived`. It waits on
`sntpSyncSem`, reads the netif flags, overwrites the one-place `flashQueue`.
Hard: every call can fail half-way, and what it leaves behind is what the next
attempt starts from. Correct when a session exists only over a live tunnel,
nothing is used after it is closed, nothing is lost for ever, and a broken
connection is eventually replaced.

**TCP/TLS transport** (`NetworkInterface.c`). State: `my_socket`, the four static
mbedTLS contexts, `is_tls_initialized`, the read/write pointers. Operations:
`NetworkInit`, `NetworkConnect`, `TLS_NetworkConnect`, `TLS_NetworkRead`,
`TLS_NetworkWrite`, the two disconnects. Hard: partial failure between the TCP
connection and the end of the handshake; time-outs that look like "no data".

**Paho client** (`MQTTClient.c`, `Timer.c`, the `MQTT*Packet` serializers). State:
`isconnected`, `ping_outstanding`, the two keep-alive timers, the handlers, the
packet id. Operations: `cycle`, `keepalive`, `readPacket`, `waitfor`, connect,
subscribe, publish. Hard: partial reads that lose the packet boundary, the
keep-alive against the broker's answer, an answer that arrives after its wait.

**Flash log** (`saveFlashCycle.c`, the start of `SaveFlashMemory`). State: the
65536 words of sector 7. Operations: `Flash_Write` (append a word, erase when
full), `StartButtonTask` (seven words make a record), `Flash_Read` (the last seven
words before the first erased one). Hard: power can fail between any two words,
a word can fail to be programmed, and seven does not divide the sector.

**Clock** (`utils.c`, `time_syscall.c`, `main.c`). State: the RTC's time and date
registers and its HAL lock. Writers: SNTP (high priority), the boot restore (below
normal). Readers: the watchdog, the flash save, `_gettimeofday`. Hard: time and
date are written and read by two calls that a higher priority can come between.

**Ethernet driver** (`ethernetif.c` on `HAL_ETH`). State: the descriptor rings, the
12-buffer RX pool, `RxAllocStatus`, the RX and TX semaphores, the netif flags.
Operations: `HAL_ETH_ReadData` and the refill of the ring, `pbuf_free_custom`,
`low_level_output` and the release of what was sent, `HAL_ETH_Start_IT` and
`HAL_ETH_Stop_IT`. Hard: the interrupt, the link thread and the tasks that read,
free and send share the rings; the pool may be empty; the MAC is stopped and
started while frames and packets are queued. Correct when a buffer has one owner,
frames and packets keep their order, no reference to a packet is lost or given
back early, and reception and transmission go on after a full ring.

**lwIP timers** (`NetworkCycle.c`, `core/timeouts.c`): `networkTask` runs
`sys_check_timeouts` beside the `tcpip_thread` that runs the same timeouts, without
the core lock it asserts, and `mqtt_task` starts SNTP without it.

**Inputs** (`cycle.c`): edge detection and debouncing on a wrapping tick.

**Not the program's own logic**: HAL drivers, FreeRTOS, the lwIP core, the mbedTLS
library, generated start-up code and build output. Where an operation of theirs
decides what the application does (the socket table, `osSemaphoreWait`, the TLS
state machine), the modules model that operation.

## 2. Modules

| module | models | abstract specification | proofs |
|---|---|---|---|
| `MqttCycle` | `mqtt.c`, the transport of `NetworkInterface.c`, the outcomes of the Paho calls | `BrokerSession` | `MqttCycleProofs` |
| `FlashLog` | `saveFlashCycle.c`, the boot restore of `SaveFlashMemory` | `SaveStore` | `FlashLogProofs` |
| `RtcAccess` | the tasks that set and read the RTC, the HAL lock and shadow registers | | `RtcAccessProofs` |
| `PahoClient` | `MQTTClient.c` and `Timer.c` in time | | `PahoClientProofs` |
| `PacketFraming` | `readPacket`, `decodePacket`, `deliverMessage` over the bytes of `TLS_NetworkRead` | `PacketChannel` | `PacketFramingProofs` |
| `EthRx` | reception: `ethernetif.c` on the RX ring of `stm32f7xx_hal_eth.c` | `RxQueue` | `EthRxProofs` |
| `EthTx` | transmission: `low_level_output` on the TX ring | `TxQueue` | `EthTxProofs` |
| `TimeoutList` | the list of `core/timeouts.c` under the three tasks that change it | | `TimeoutListProofs` |

A module with `MC` before its name (`MCMqttCycle` and so on) is what TLC runs; the
`.cfg` files give the constants their values. Definitions whose comment
begins with "Mutant:" are plausible bugs of the code that break the property they
are paired with in `PROJECT.json`; no action uses them.

### MqttCycle

The switch of `MQTT_Cycle` is a state machine with two program counters: `state`
is `currentState`, `call` the blocking call the task is in. The task has the
lowest priority, so every other task may run while it is in a call and the actions
are the stretches between two of them. An action's name says the outcome of the
call: `TlsSetupFails`, `HandshakeFails` and `HandshakeCompletes` are the three ways
`TLS_NetworkConnect` can come back.

The transport is kept in detail because its failures are partial. `sock` is
`my_socket`, `open` the descriptors lwIP has not closed, `tls` the state of the
static `ssl` context: `mbedtls_ssl_setup` does not reset it, so a handshake that
stopped half-way (`"mid"`) is continued by the next attempt. `tlsBufs` counts the
record buffers on the heap. `NetworkInit` writes -1 into `my_socket` whatever it
held, so a socket can be lost.

The other tasks: `SntpAnswer` and `SntpPollDue` (the callback releases
`sntpSyncSem`), `LinkChanges` (the link thread moves the netif flags), `PeerDrops`,
`PeriodElapses` (five seconds of tick), `SaverReceives` (`saveFlash` takes the
number from `flashQueue`). `calm` is a ghost: once set, network and broker let no
call down; it exists to state the liveness properties. `tunnel`, `synced`,
`published`, `saved`, `wrapped` are ghosts too, read by properties only.

`BrokerSession` says what the rest of the machine may rely on: each session has a
tunnel of its own, a lost session is never resumed over the old tunnel, and
numbers leave only inside a session. `MqttCycle` implements it with `phase`
computed from `isconnected`, `tls` and `call`.

### FlashLog

`sector` maps each word to what it holds: erased, torn by a power loss, or a datum
`[save, field]`, the save that wrote it and its place in that save. The 32 bits of
a value are abstracted to that origin, which is what the properties are about;
a real value of 0xFFFFFFFF cannot be among them (the counter restarts above 2^31).
A save is seven `ProgramWord` steps, since each `Flash_Write` looks for the first
erased word anew. `EraseSector` is the erase of a full sector inside `Flash_Write`,
`FlashWriteFails` its silent errors, and `PowerLostIdle`, `PowerLostBetweenWords`,
`PowerLostProgramming`, `PowerLostErasing` the places where the power can go.
`Flash_Read` is the search loop as an operator, and `Boot` is `SaveFlashMemory` up
to its loop: the seven words become RTC registers in the order the code gives them.

`SaveStore` is the abstract promise: the save a boot would find changes only to
nothing, or to the save that has just ended.

### RtcAccess

`pc` holds a place per task; `Runs(t)` says that no ready task is above `t` in the
priorities of `main.c`, and that `saveFlash` runs alone while it has suspended the
scheduler. Tasks at a place where they block (`idle`, `poll`, `start`, `cycle`) do
not hold back the lower ones. `HAL_RTC_SetTime` is two steps, taking the lock and
writing with the release, so a task can be preempted inside it. Reading TR latches
the shadow registers until DR is read, whoever reads it. A register's content is a
stamp [set, day]: the setting it stems from and the day it shows.

### PahoClient

The unit of time is one empty read: `SO_RCVTIMEO` makes `TLS_NetworkRead` return 0
after 500 ms without a byte. Every timer holds the units it has left. `place` is
the call of `mqtt_task`; `c` is the part of `MQTTClient` that matters to it. One
action is one `cycle()`: it reads an answer, a PUBLISH, nothing (`ReadTimesOut`)
or an error (`ReadFails`), applies `keepalive()`, and gives the result to the
caller (`GoOn`). The broker answers each request after any delay. What is on its
way may be read in any order, which allows more than TCP does. The read of a
command waits for all the time the command has left; the model lets that pass as
several reads, which only adds calls of `keepalive()` that find no timer expired.
The two modules meet in one assumption: `MqttCycle` takes as fair that `MQTTYield`
fails on a dead connection, and `DeadPeerEndsRunning` of `PahoClient` is that
statement, checked.

### PacketFraming

The same client as in `PahoClient`, in bytes instead of time. A byte is its place
in the stream, `[packet, offset]`; `at` is the next one to be read and `end` the
end of the TLS record, because one `mbedtls_ssl_read` returns no more than what is
left of a record, and `TLS_NetworkRead` returns what one call has given. Each
`mqttread` of `readPacket` is an action: `ReadHeader`, `ReadLength` (one turn of
`decodePacket`), `ReadBody` with its short and astray forms, `ReadRefused`, the exit
with `MQTT_BUFFER_OVERFLOW` that leaves the body of a packet in the stream, and
`ReadComesBackEmpty`, the time-out that only the first read of a packet reports. Each
packet has a `layout` of its own, the bytes of its length and of its body; `Fits`
compares it with `readbuf`. The broker may send a PUBLISH that does not fit; the SUBACK
does.
What `cycle()` does with the packet, and what its caller does with the result, are
the `Cycle...` operators, part of the same action. A byte read at a wrong place
can mean anything (`Types`, `Lengths`), so everything that can follow a lost
boundary is in the model. The ghost `lost` names the three causes: a record has ended
in a body, a read in a packet, or a body was refused and left to a client that reads
on. A refusal in `MQTTYield` is none, as `MQTT_Cycle` then closes the connection; one
in `MQTTSubscribe` is, as it goes on to RUNNING. The properties promise nothing
after `lost`, and TLC goes on through all that may come then.

`PacketChannel` is the promise to the application: packets are handled whole, once,
in their order, and only a SUBACK installs a handler, until the channel breaks.

### EthRx

`own`, `content`, `backup`, `addr` and `quiet` are the fields of a descriptor that
matter (OWN, what is in its buffer, BackupAddr0, DESC2, DIC); `where` is the holder
of each buffer of `RX_POOL`. `ethernetif_input` has the highest priority, so other
tasks run only while it waits (`OthersRun`) while the DMA and its interrupt come
between any two of its steps. `pbuf_free_custom` is two steps, `FreeBuffer` and
`CheckStatus`, as a task of a higher priority can come between the return of the
buffer and the test of `RxAllocStatus`; `HAL_ETH_Start_IT` is as many steps as it has
places where a higher priority finds something half done. `ETH_UpdateDescriptor`
hands over one descriptor per step.

Two ghosts name what the code does not handle. `untidy`: a start came while frames
were unread or descriptors had no buffer; `HAL_ETH_Start_IT` sets
`RxBuildDescCnt` to the whole ring without looking at `RxBuildDescIdx`, and the
indexes part. `missed`: one of the two races of a start, a token used up before
`gState` says started, or a pool found empty and reported empty after a buffer has
come back. The properties hold up to these and the run `ethrx_restart` shows the
first.

`RxQueue` is the promise to the stack: frames are a queue of buffers, read in the
order they arrived, and each buffer goes round from the pool to the ring, to a frame,
to `ethernetif_input`, to the stack and back, with one owner at any time. `ToRead` and
`Place` compute the queue and the owners from the ring. `ImplementsRxQueue` holds
until a start is untidy.

### EthTx

One task at a time is in `low_level_output` (the core lock; see section 6 for the
exception). `p` and `chain` are its packet and the number of descriptors it takes;
`held` are the packets with a `pbuf_ref` of the driver, `stack` those the stack keeps,
a TCP segment until it is acknowledged. `TransmitDone` is
`ETH_Prepare_Tx_Descriptors` with its roll-back taken as a whole: a chain either fits
or leaves nothing. `busy` is the bit of `ErrorCode` that nothing clears.
`HAL_ETH_ReleaseTxPacket` is its loop written as sets: the offsets from `releaseIndex`
it reaches, those of them that end a packet, and the last one. The link thread and
the DMA come between any two steps.

`BuffersInUse` counts the descriptors of a packet but a release may find the ring
reused before it has counted them, so it can exceed the ring and drift; `MaxInUse`
bounds how far TLC follows it, the proofs have no bound of their own.

`TxQueue` is the promise to the stack: a packet is taken when the ring has room for
all of its descriptors, is sent whole, once and in its turn, and its reference is given
back after all of it was sent. `ToSend` reads the queue off the descriptors the DMA
owns; the stops of the MAC, the counters of the release and the waits are stutters.

### TimeoutList

The list is kept as lwIP does, `head`, `next` per cell of the pool, and the free
cells in the order in which they are allocated again, because the error needs a cell
that comes back at another place of the list. A step of `tcpip_thread` is a whole
timeout, since it has the higher priority and the lock; `networkTask` and `mqtt_task`
have a step per access.

## 3. Runs

| run | checks | shows |
|---|---|---|
| `mqtt_safety` | `TypeOK`, `SessionOverLiveTunnel`, `NoDanglingSocket`, `HeapLossBounded`, `MailboxFresh`, `WorkingTunnelIsClosed`, `ImplementsBrokerSession`, `RecoversUnlessStranded` | whatever fails and in whatever order, a session is only over the tunnel of the open socket, no closed descriptor is kept, a working tunnel is closed before it is given up, and `flashQueue` is newer than what was saved; once the network is well the cycle reaches RUNNING for good, unless a broken handshake or lost sockets have stranded it |
| `mqtt_sntp` (violated) | `TlsAfterSntp` | TLS starts when the wait for the SNTP semaphore has timed out |
| `flash_safety` | `TypeOK`, `NothingBeyondAGap`, `BootRestoresLastSave`, `ImplementsSaveStore` | with power losses and flash errors in every place, no saved word is hidden from the searches, a boot after a whole save restores that save, and a save becomes readable only when it ends |
| `rtc_safety` | `TypeOK`, `TimeAndDateAgree`, `NoSettingRefused`, `TokenMeansSynced`, `SaveReadsOneMoment`, `NoSettingReplacesALater` | the priorities and the suspended scheduler protect every setting and the saved timestamp |
| `rtc_watchdog` (violated) | `WatchdogReadsOneMoment` | the watchdog's time and date can be of two moments |
| `paho_time` | `TypeOK`, `OutstandingPing`, `DeadPeerNoticed`, `NoFalseAlarm`, `DeadPeerEndsRunning` | with answers of any delay, `ping_outstanding` is right, a silent broker is given up two reads after the interval at the latest, and a living one only while it owes a PINGRESP |
| `framing_safety` | `TypeOK`, `BoundaryKept`, `DropsOnlyBeforeSuback`, `SessionSurvives`, `ImplementsPacketChannel` | however the stream is divided into records and time-outs, packets are read whole and in their order until a record ends in a body, a read in a packet, or a body too long for `readbuf` is left to a client that has lost its subscription; until then no PUBLISH behind the SUBACK misses its handler and only a failed subscription leaves the client without a session |
| `ethrx_safety` | `TypeOK`, `BuffersApart`, `NoBufferLeaks`, `NoFrameForgotten`, `ImplementsRxQueue`, `FramesAreRead` | no buffer has two owners or is lost, frames are read in their order, the ring implements `RxQueue`, and an empty pool stops reception only until the stack frees a buffer, up to an untidy start or its races |
| `ethrx_restart` (violated) | `ReadDescriptorsGoBack` | a start while descriptors wait for a buffer leaves one that was read with the CPU |
| `ethtx_safety` | `TypeOK`, `ReferencesFound`, `SentInOrder`, `RoomIsMade`, `ImplementsTxQueue`, `SenderComesBack` | however far `BuffersInUse` drifts and whenever the MAC stops, every reference of the driver is found again, none is given back while the DMA reads, packets keep their order, a full ring whose packets were all sent is emptied by one release, the ring implements `TxQueue`, and the sender leaves a full ring once the MAC stays started |
| `ethtx_resend` (violated) | `ResendPossible` | a packet that was sent stays referenced until the ring is full, so TCP does not send it again |
| `timeouts_race` (violated) | `NoTimerIsLost` | `tcpip_thread` comes between two accesses of `networkTask` to the list, and timers fall off it |

### Bounds, and why they are enough

- `NumSockets = 2`: one socket in use beside a leaked one, and a table that is full.
  The code never has more than one socket it knows of. `MaxCounter` = 2 (1 in
  `mqtt_sntp`, which does not look at the numbers) lets the counter restart while
  the queue is full, empty or in between.
- `SectorWords = 16` is 2 modulo 7, as the real 65536 is: two saves and two words
  fit, so that the third straddles the erase. `Saves` has two members to tell a
  save from the one before, and the log may be written for ever, wrapping as often
  as it likes. `MaxFaults = 1`: every fault in every place, and every run of the
  program after it; a boot that only meets an idle power loss costs no fault.
  `SomeLeftovers` is a choice of what an interrupted erase leaves.
- `MaxAnswers = 2`, `MaxMidnights = 2`: an answer after the boot restore and one on top of
  it, each at any place of the two readers; a midnight inside a setting and another
  inside a read, or both inside one.
- `PacketFraming`: `Packets = 3`, one before the SUBACK, the SUBACK and one behind it
  in every order; a layout with two bytes of length and two of body is the smallest at
  which a record can end inside the length and inside the body; the other layout has
  one byte more than `ReadbufSize = 5` takes. TLC has also checked them together with a
  third of one byte each. The theorems have no such bounds.
- `EthRx`: `Ring = 2`, three buffers, one task in `pbuf_free_custom`: the ring is
  full and empty, the pool is empty with a buffer to spare, and indexes wrap. The
  invariants were also checked with a ring of three, four buffers and two freers,
  and most are proved for every size.
- `EthTx`: `Ring = 3` and three packets of one to three descriptors, so that a
  packet waits behind two others and a chain wraps; `MaxInUse = 7` lets
  `BuffersInUse` drift past two turns of the ring (5 in `ethtx_resend`, which does
  not need the drift). The invariants are proved for every ring and bound.
- `TimeoutList`: two cyclic timers and SNTP, `MaxNow = 4`: the counterexample needs
  two timers and no more time than one period.
- `KeepAlive = 7`, `CommandTimeout = 3`, `Period = 3` in place of 120, 60 and 10
  reads: a command ends before a timer expires and several watchdogs fall in one
  interval, as in the code.

### Fairness

- `MqttCycle`: WF of the task's actions, because every higher task blocks in each
  round (`osDelay`, a queue, a semaphore); WF of `PeriodElapses`, because the tick
  goes on; SF of `YieldFails` while the peer is gone, because `keepalive()` finds a
  dead connection (shown by `paho_time`). Neither the network, the link, SNTP nor
  the broker is assumed to do anything.
- `PahoClient`: WF of the task's actions, because the receive time-out bounds every
  read. The broker is under no fairness.
- `EthRx`: WF of the interrupt while it is enabled and of `ethernetif_input`, the
  task of the highest priority; SF of `FreeBuffer` and `CheckStatus`, because the
  stack's tasks free what they hold in the end and are interrupted by every frame;
  `[]<>OthersRun`, because frames that never let `ethernetif_input` wait would stop
  every other task. Frames need not come, and the link thread need not move.
- `EthTx`: WF of the DMA on what it owns, and of the task in `low_level_output`, whose
  wait has a time-out. Nothing makes the stack send or the link stay up; that the
  MAC stays started is a premise of the properties.
- `FlashLog`, `RtcAccess`, `PacketFraming` and `TimeoutList` have safety properties
  only and no fairness.

## 4. Findings

Each is the counterexample of a `violation` run; `PROJECT.json` quotes the line
of the code or comment it contradicts.

1. The wait for SNTP is read the wrong way round: `osSemaphoreWait` returns 0 for a
   token, and the code starts TLS on any other result (`mqtt.c`; `mqtt_sntp`).
2. The watchdog reads the time and the date unprotected at the lowest priority
   (`rtc_watchdog`).
3. `networkTask` runs lwIP's timeouts without the core lock; between its read of the
   head of the list and its removal `tcpip_thread` can run that timeout and put its
   cell elsewhere, and the timers before it are off the list for ever
   (`timeouts_race`).
4. `HAL_ETH_Start_IT` after a stop with descriptors that wait for a buffer gives the
   DMA others than those, and the ones that were read stay with the CPU
   (`ethrx_restart`).
5. Sent packets are released only when the ring is full, so TCP takes a segment that
   left long ago for one the driver still has to send, and does not send it again
   (`ethtx_resend`).

In the models, but without a run of their own:

- `TLS_NetworkConnect` returns from a failed handshake without freeing its contexts
  or closing the socket, and `mbedtls_ssl_setup` does not reset the handshake state:
  the next attempt goes on in the middle (`tls = "mid"`), and each attempt costs a
  socket and a set of record buffers. `RecoversUnlessStranded` has this as its
  exception.
- When `MQTTSubscribe` fails, or a publish does, the session is closed but the cycle
  stays in RUNNING for as long as the broker keeps the connection.
- `Flash_Read` shifts its window before it looks at the word, so in a full sector
  the last word is not in it; a power loss inside a save shifts every later record
  against the window of seven until the sector is erased; and as seven does not
  divide 65536, the save that meets the full sector erases the words it has just
  written.
- An expired `last_received` stays expired after a PINGREQ, so a ping must be
  answered within one read of 500 ms and not within the keep-alive interval.
- `valueOK` is unsigned, so the test against -1 in `SaveFlashMemory` is always true
  and a boot that found no record sets the RTC from an array nobody wrote
  (`Uninit`).
- A PUBLISH that comes before the SUBACK is dropped, and after a read that times out
  inside a packet the rest of it is taken for the next one.
- A PUBLISH that `readbuf` cannot take (MQTTClient.c:128) makes `cycle()` fail without
  its body being read. When that happens in `MQTTSubscribe`, `MQTT_Cycle` keeps the
  connection, and the body is read as if packets began in it (`ReadRefused`).
- `BuffersInUse` of the transmit ring grows beyond the ring: a release that finds a
  packet behind freed descriptors has not counted them. Nothing depends on it, as
  `ReferencesFound` and `SenderComesBack` show.

## 5. Proofs

All theorems are of the form `Spec => ...` for every value of the constants that
the named assumptions allow; those about `TimeoutList` have one more hypothesis. TLC checked each inductive invariant before it was
proved.

**MqttCycleProofs** (any number of sockets, any counter limit). The invariant is
`TypeOK /\ TunnelInv /\ HeapInv /\ CounterInv`. `SessionOverLiveTunnel` is not
inductive: that a session's tunnel is the socket in use has to be known already
between the handshake and `MQTTConnect`, and that no other state keeps a finished
handshake; `TunnelInv` says for each case of the switch what socket, TLS state and
tunnel can be. `HeapInv` keeps one open socket to spare while a handshake is to
begin; it rests on the library's facts on the cardinality of finite sets.
`CounterInv` orders `saved`, `flashQueue`, `published` and `counter` at each place
between the publish and the overwrite, until the counter restarts. From it:
`TypeCorrectness`, `SessionSafe`, `SocketSafe`, `HeapSafe`, `MailboxSafe`,
`TunnelClosed`, and `Refinement`, that every step is one of `BrokerSession` or a
stutter.

**FlashLogProofs** (a sector of any size from 8 words, any number of faults).
`LeastElement` derives from well-foundedness that a search for the first erased
word finds it, `FirstErasedUnique` that it is the one. `NothingBeyondAGap` is
inductive beside the types (`NothingHidden`). `BootSafe` needs `WholeInv`: while a
save goes well, its words lie right before the first erased word, in order.
`StoreImplemented` adds that a window of seven that looks like a record is the
record that ended there (`RecordEnds`, `ProgramReveals`), whatever lies before it.

**RtcAccessProofs** (any number of answers and midnights). The invariant is
`TypeOK /\ PhaseInv /\ LockInv /\ SetInv /\ DayInv /\ ReadInv /\
TokenMeansSynced`. `PhaseInv` is the key: SNTP is started by `mqtt_task`, which
cannot run before `saveFlash` has finished the restore, so there is one writer at
a time; the lock is then always free for it (`RtcNeverRefuses`), the settings only
grow (`RtcMonotonic`), and `RtcAgrees`, `RtcTokens` and `RtcSavesAgree` follow.
`RtcSavesOneSetting` needs more than that one moment: the registers may have been
latched by a read of `mqtt_task` that a setting interrupted. `ReadInv` therefore
says that they are only ever latched between settings (`AtRest`), whoever reads.

**PahoClientProofs** (any keep-alive interval longer than the command time-out).
The invariant is `TypeOK /\ CommandInv /\ SilenceInv /\ OutstandingPing`. `CommandInv`:
a command ends before any timer expires, so `keepalive()` pings in `MQTTYield`
only. `SilenceInv`: `last_received` is what is left of the interval since a packet
was read; beyond it only two more reads are possible, one when a ping goes out and
one when a failed publish has cleared `ping_outstanding`, which also ends the
session and therefore cannot happen twice. `PahoTypes`, `PahoPings`,
`PahoDeadPeer` and `PahoNoFalseAlarm` follow.

**PacketFramingProofs** (any number of packets, any layout of each, any size of
`readbuf` that takes the SUBACK). The invariant is
`TypeOK /\ OrderInv /\ FrameInv /\ SettledInv /\ SubInv`. `OrderInv`: what is read is
within the record. `FrameInv`, the strengthening of `BoundaryKept`: before `lost`, the
place in `readPacket` says at which offset of the packet the stream is. `SettledInv`
says that the packets before it, and no others, have their fate (`RefusedEnds`: a
refused one never gets any, the connection or the boundary goes first),
`SubInv` how far the subscription is: who waits for the SUBACK, whether
the handler is installed and what may have been dropped. `FramingTypes`, `FramingKept`, `FramingDrops` and `FramingSession` follow,
and `FramingRefines`, that every step is one of `PacketChannel` or a stutter.

**EthRxProofs** (a ring of any length, any finite pool with a buffer for each
descriptor, any number of freers). `NoBufferLeaks` needs only `AddrInv`, that a
descriptor's BackupAddr0 is its DESC2, and holds after an untidy start too. The
rest is `TidyInv`. `Layout(n)` cuts the ring, from `RxDescIdx` on, into n frames to
read, the descriptors of the DMA, and the `RxBuildDescCnt` ones that wait for a
buffer; each action moves one border by one. `ApartInv` is ownership, `Backed` that
every descriptor the DMA has or has filled has a buffer; it fails only before and
during the first start, where `Fresh` holds instead. That the first start cannot
find the pool empty (`PoolSuffices`) is a count: as no buffer is lost, all would be
at the other descriptors, and an injection of the buffers into one descriptor less
than the ring contradicts the assumption on the pool. `EthRxTypes`, `NoBufferIsLost`,
`BuffersStayApart` and `FramesStayInOrder` follow. `NoFrameIsForgotten` cannot stand
on `TidyInv`, as it speaks of untidy starts too; it has an invariant of its own,
`WakeInv`. `BuildInv`: a descriptor that would take a frame without an interrupt
(DIC, set by a stop) is one that `ETH_UpdateDescriptor` has still to go through.
`TokenInv`: a frame at `RxDescIdx` has its interrupt or the token on the way, or
`ethernetif_input` looks at it again before it waits. `HolderInv`: while the status is
`RX_ALLOC_ERROR` a buffer is with somebody who comes to the status, by the same count
as above, since at a failed allocation the pool is empty and a descriptor has none.
`WrittenInv` is there because a frame without an address would be read as no packet.
`RingIsAQueue` is the refinement of `RxQueue`: one lemma per kind of step (`FrameIsQueued`,
`FirstIsRead`, `BuildPosts`, `OwnerChanges`), each from `Layout`, which makes the frames
from `RxDescIdx` on a sequence, and `ApartInv`, which makes the owner of a buffer unique.
It is proved up to an untidy start, as the code promises nothing behind one.
`TidyRingGivesBack` shows that such a start is the only cause of the violation
`ethrx_restart`: with `CpuInv`, that what was read is with the CPU, `Layout` leaves no
descriptor that was read once the count is 0.

**EthTxProofs** (a ring of any length, any packets, any bound). `OwnedInv`: what the
DMA owns is one stretch that ends at `CurTxDesc`. `SpanInv`: for each descriptor of
the DMA the one at which its packet ends is the DMA's too and does not lie before
it; this is why looking at the last descriptor alone is enough to free a packet.
`CountInv`: `BuffersInUse` is the distance from `releaseIndex` to `CurTxDesc` plus
whole turns of the ring, which makes the drift harmless; `FoundInv`, `OnceInv` and
`HeldInv` are the parts of `ReferencesFound`. `LastElement` derives from
well-foundedness that the release has a last packet. `EthTxTypes`,
`ReferencesStayFound`, `NothingIsFreedEarly` and `PacketsStayInOrder` follow.
`SentRingIsEmptied` is `RoomIsMade`: with nothing left to send, the release passes every
descriptor `BuffersInUse` counts, and `FoundInv` has each packet within that count.
`RingIsAQueue` is the refinement of `TxQueue`: a transmission appends the stretch
that `SpanInv` gives to its packet, the DMA takes its first descriptor, and a
release gives back packets of which, by `SpanInv` again, nothing is left to send. It
has no exception: the drift of `BuffersInUse` and the stops of the MAC are invisible
in the queue.

**TimeoutListProofs** (any timers, periods and bound on the clock).
`NoTimerIsLost` is what the run refutes, so the theorems have a hypothesis on the
execution, `[][CoreLocked]_vars`: `tcpip_thread` and `networkTask` begin to work on the
list only while nobody is in the middle of it, as LOCK_TCPIP_CORE would make it. TLC
found the invariants to hold under this hypothesis and to fail without it, which makes the
missing lock the one cause of the finding. `TimersAssumption` asks for a
finite set of timers with SNTP among them, periods in Nat, and a NULL that is no cell. The
invariant says that for some m and s the list is a chain s of m cells without
repetition, in the order of the due times (`ListInv`), that every cell is on it, free
or in a task's hand (`CellsInv`), that every timer is on it, about to run or not started
(`TimersInv`), and that what a task has read is still true (`TaskInv`). The two counts,
of cells and of timers, together show that the pool suffices. `WalkIs` gives what the
recursive walk of the model computes on a chain, `BeforeFits` what the search of
`sys_timeout_abs` finds, `LinkIn` what its two assignments make of a chain. From it:
`TimersAreKept`, `ListStaysInOrder`, `PoolNeverRunsOut`, and, with `TimesInv`,
`TimersRunInTime`: no timeout on the list is further away than its period, which
fails in the race, because the time a handler starts from is a global.

Three theorems state what no run needs to check any more: `FramesStayInOrder` and
`NothingIsFreedEarly`, which the refinements of `RxQueue` and `TxQueue` rest on, and
`RtcSavesOneSetting`.

What is only model-checked: the liveness properties `RecoversUnlessStranded`,
`DeadPeerEndsRunning`, `FramesAreRead` and `SenderComesBack` (the provers do not
reach fairness), and the violations. Of the violated properties two have a theorem
that names the only cause, `TimersAreKept` and `TidyRingGivesBack`.

## 6. What is not modelled

- The fields of MQTT packets beyond what decides the course of the client, topic
  matching, QOS1 and QOS2 (the program uses QOS0) and the unused calls of the client.
- A second sender: `networkTask` (`sys_check_timeouts`) and `ethernet_link_thread`
  (`netif_set_up` and `netif_set_link_up` at the end of a pass, ethernetif.c:856) can
  reach `low_level_output` without the core lock, and `tcpip_thread` come between its
  writes to the global `TxConfig` and their use. `TimeoutList` has the missing lock of
  `networkTask`; `EthTx` takes one sender at a time, and so do its theorems.
- A hardware time-out of `RTC_EnterInitMode`, which would leave a register of the RTC
  unwritten.
- Packets too long for `readbuf` in `PahoClient`, which has no lengths; they are in
  `PacketFraming`.
- The PHY and the speed it negotiates, the RMII watchdog, cache maintenance and a
  fatal bus error of the MAC.
- The buttons and LEDs: edge and debounce of a contact for whose bounce the
  repository gives no times.
- `sys_untimeout`, and the TCP timer that is started on demand.
- Conversions of the clock (UTC+1, `gmtime`, `mktime`) and the wording of messages.
- The length of an erase with the scheduler suspended: no module has that clock.
- Vendor code, except where an operation decides what the application does; those
  definitions are marked external in the map or mapped to the vendor's lines. Nearly
  all of the repository's lines are vendor code (HAL headers and drivers, mbedTLS,
  lwIP, FreeRTOS), which is why the map covers a small share of them.

## 7. What could follow

1. Two senders in `EthTx`, with `TxConfig` and the steps of `HAL_ETH_Transmit_IT`.
2. `InputCycle`: the two buttons on a tick modulo 2^w, with a contact that bounces
   for a bounded time.
3. Topic matching, the remaining length and the timers on a wrapping tick against
   reference definitions over bounded inputs.
4. A composition of `MqttCycle` and `FlashLog` through the queue: what a boot
   restores is a number the broker has seen or was about to.
