# MediaTek vendor code: models, model checking and proofs

This directory holds TLA+ specifications of parts of the MediaTek vendor tree
(`src/`): the daemon that boots and restarts the modems, the power HAL that
arbitrates CPU, GPU and other boosts, the Bluetooth HAL with its vendor driver,
and the records and backups of NVRAM. Every definition is translated from the
source; `PROJECT.json` maps each one to the lines it stands for.

## 1. Inventory

### The repository

Most of the tree is data or thin glue: 929 of 1756 files are generated tables
under `custom/`; `libudf` and `opencl_icd_loader` are third-party code; many
libraries wrap one ioctl. Components with control logic of their own:

| Component | State | Operations | Interacts with | What is hard |
|---|---|---|---|---|
| `ccci_mdinit` v2 (`md_init_fsm.c`, `platform/mdinit_relate.c`), one process per modem | FSM state, `need_silent_reboot`, `mdlogger_cnt`, status fd | boot, stop, start, reset, flight mode, exception | the other daemon through two system properties, the kernel (two devices, ioctls), `init` (services) | two processes, two writers per property, unbounded waits, stale events, kills |
| `ccci_mdinit` v1 (`platform/md_init.c`) | eight-state FSM, `ignore_time_out_msg` | the same, with boot timeouts | kernel, `init` | timeout against exception |
| boot environment (`env_setting.c`, `mdinit_platform.c`) | static caches | choice of modem type, RAT, SBP code | properties | priorities, bit masks |
| `libpowerhal` (`perfservice.cpp`) | scenario table, settings in force | enable, disable, update, acquire, release, configure, sports mode | sysfs, the daemon | incremental recomputation, clamping that is not invertible |
| power HAL daemon (`powerd_core.cpp`, `powerd.cpp`) | timers, customer hint table, on/off | 12 requests, 4 kinds of timers | clients over a socket, `libpowerhal` | timers against renewals, stale handles, dead clients, full tables |
| Bluetooth HAL (`bluetooth_hci.cc`, `vendor_interface.cc`, `async_fd_watcher.cc`, `hci_hal_state_machine.cc`) and driver (`radiomod.c`, `radiomgr.c`, `mtk.c`) | state of the looper, one vendor interface, watcher and worker threads, low-power flags | initialize, close, send, death of the stack, replies, timeouts | chip, HIDL client | five threads and no common lock, joins, late replies |
| Wi-Fi HAL (`wifi_chip.cpp`) | chip mode, interfaces | configure, create, remove | legacy HAL | combinations of interfaces |
| `netdagent` | firewall and throughput tables | commands | iptables, `ip` | monitor thread |
| NVRAM (`libnvram.cpp`, `libfile_op.c`, `nvram_daemon.c`, `Nvram.cpp`) | record files with check bytes, restore flag, backup partition | read, write, reset, back up, restore at boot | file system, HIDL clients, the daemon's property | power loss between any two writes |
| USB HAL, frame rate policy | role, client table | switch, register | sysfs, uevents | uevent thread |

### What makes the modelled components correct

* **ccci_mdinit.** The two daemons restart their modems in lockstep; the handshake
  can neither lose nor double a grant, nor wait for itself; a published status
  is true; services match the modem's state; a reset brings both daemons back.
* **libpowerhal.** The settings in force are, after any sequence of calls, a
  function of the scenarios that are on: no boost outlives its scenario and
  none is lost, although the code recomputes only what it thinks changed. (A
  request that changes under a scenario that is on is the exception.)
* **power HAL daemon.** Every timed boost keeps the timer that ends it and no old
  timer ends a newer boost; handles of locks that ended hit nobody else's lock;
  what dead clients held is released.
* **Bluetooth HAL.** A stack is answered, and about its own session; the interface
  exists exactly while the state machine says so; closing ends, whatever the
  other threads are doing, and leaves no thread, library or descriptor behind.
* **NVRAM.** What a client reads passed the check of its file, whatever write,
  restore, reset or backup was cut off before, and is what was saved last unless
  such a cut, a failure or a restore came in between.

The hazards of each are listed in `PROJECT.json` at the line where they bite.

## 2. Modules

| Module | Models | Notes |
|---|---|---|
| `RestartBarrier` | what the handshake promises | abstract specification, implemented by `MdInit` |
| `MdInit` | `ccci_mdinit` v2, both processes, kernel and modem | `MCMdInit` instantiates it; proofs in `MdInitProofs`, `MdInitHandshakeProofs`, `MdInitServiceProofs` |
| `PerfService` | arbitration in `perfservice.cpp` | settings as functions over clusters, bands and knobs; proofs in `PerfServiceProofs` |
| `PerfCommands` | `cmdSetting`, `LegacyCmdSetting`: commands to requests | builds the requests of `MCPerfService`; proofs in `PerfCommandsProofs` |
| `Powerd` | `powerd_req`, the timers, and the scenario table as they see it | `MCPowerd` instantiates it; proofs in `PowerdProofs` |
| `BtSession` | what the Bluetooth HAL promises to a stack | abstract specification, implemented by `BtHal` |
| `BtHal` | the HIDL, looper, watcher and worker threads of the Bluetooth HAL and its driver | `MCBtHal` instantiates it; proofs in `BtHalProofs` |
| `Nvram` | one NVRAM record, its file, its backup, the service and the boot restore | `MCNvram` instantiates it; proofs in `NvramProofs` |

### MdInit

`pc[d]` is the place in daemon `d`'s code; a step ends where state that others
can see is read or written: the properties `vendor.mtk.md{1,3}.status`
(`status`), the modem, the messages on the monitor device (`queue`) and the
events on `mdN_sta` (`events`).

| Code | Actions |
|---|---|
| `main_v2` up to the loop | `Launch`, `OpenPort`, `OpenPortFails`, `EnterLoop`, `EnterLoopFails` |
| `trigger_modem_to_run`, `check_to_restart_md_v2` | `Trigger`, `SeeOther`, `BootAlone`, `Grant`, `SeeOwn`, `BootUp`, `StartMd`, `StartMdFails`, `StartMdUnobserved` |
| `is_md_command_finish` | `AwaitReady`, `AwaitStop` |
| rest of `trigger_modem_to_run`, `notify_md_status` | `CheckState`, `CheckStateFails`, `PublishReady` |
| message loop | `Ignore`, `HandleException`, `HandleStart`, `HandleStop`, `StopMd`, `StopMdFails`, `StopMdUnobserved`, `EnterFlightMode`, `TearDown` |
| kernel, modem, `init` (external) | `PostRequest`, `PostCommon`, `ModemBoots`, `ModemCrashes`, `ModemStops`, `Kill` |

`entered` and `passed` are history variables: restarts entered and left. Waits
whose result the code ignores (`wait_for_property`, `delay_to_reset_md`, the
service checks with their timeouts) are just the freedom to take the next step
later.

Assumed of what is not in the tree: `CCCI_IOC_DO_START_MD` succeeds only for a
modem that is off and `CCCI_IOC_DO_STOP_MD` only for one that is not; what is
queued on a device is dropped when its holder ends, and nothing is queued while
no process holds it; events are buffered while the process runs. MD1's `rild`
and `ril-proxy`, which the daemon only stops, are not tracked.

### PerfService and PerfCommands

All entry points hold `sMutex`, so each is one action. `perfScnEnable` merges a
request into the current settings (`Merge`); `perfScnUpdate` withdraws one
(`Withdraw`), or recomputes everything when a lock's request is replaced
(`ForceUpdate`). The `Asked...` operators are the loops of `perfScnUpdate` over
the table. `Band` unifies the soft and the hard frequency limits, which the
code treats alike; `Knob` the settings of `tConTable` and `RscCfgTbl`, where
`Less` tells which direction is stricter. `entry` is what was last written to
the file of a knob, so that defaults are checked as well. `SPORTS` stands for
the predefined hints; the other scenarios are slots of clients, which the runs
treat as symmetric.

`lock_rsc_list` is the list a lock was last acquired with, known by the request it
stands for. `Reacquire` recomputes if the new list differs from it, or if one of its
resources has `force_update`, and not because the request differs: a lock that was
configured while suspended, restored, and is acquired again with its old list gets
its old request back, and the settings stay. `outdated` is history: it says that a
request in force changed in this way, or by `Configure` of a scenario that is on, and
that nothing was computed anew since. `perfUserUnregScn` (and the part of
`perfUserScnResetAll` that scenarios not on go through) resets a scenario without
unsetting its one-shot value; `lost` records those that had one. `applied` is the set of
values set for a scenario, so a value unset twice looks like one unset once.

`Apply` is the loop of `perfLockAcq` over the pairs of a
lock; `LegacyCmdSetting` adds one command to what a scenario asks for already.

### Powerd

The select loop is single threaded: a request or an expired timer is one action.
A scenario is here only on, off or waiting for the screen. A running timer may
fire at any time, which covers every deadline and delay; a client may die at any
time, and requests it had sent may still be served. `hint[h].for` records how
long a hint was last asked for; `known`, `issued` and `served` are history.

### BtHal

Each thread has a place: `lp` the looper, `watcher`, `worker`, and `snd[t]` a HIDL
or worker thread in `VendorInterface::Send`. A step ends where state that
another thread uses is read or written.

| Code | Actions |
|---|---|
| `BluetoothHci` and its death recipient | `initialize`, `close`, `serviceDied`, `sendDataToController` |
| `MtkStateController`, states Idle, On, Off | `handleMessage`, which goes on into the next two rows |
| `VendorInterface::Initialize`, `Open`, `mtk_fw_cfg`, `BT_InitDevice` | `Open`, `OpenFails`, `FwCfg`, `FwCfgFails`, `FwRun` |
| `VendorInterface::Shutdown`, `Close`, `stopThread`, `BT_Cleanup` | `StopWatching`, `JoinWatcher`, `DropHci`, `CloseDriver`, `NotifyThreadExit`, `JoinWorker`, `DeleteInterface` |
| `VendorInterface::Send` and `H4Protocol::Send` | `SendTest`, `SendArm`, `SendAssert`, `SendLook`, `SendWrite`, `SendFreed` |
| `GORM_FW_Init_Thread`, `process_cmd_rsp` | `CmdStart`, `transmit_cb`, `CmdDone`, `CmdTimeout`, `ScriptDone`, `WorkerExit`, `OnFirmwareConfigured`, `StartLowPower` |
| `AsyncFdWatcher::ThreadRoutine`, `OnTimeout`, `HandleIncomingEvent` | `ThreadRoutine`, `Notified`, `TimedOut`, `Timeout...`, `HandleIncomingEvent`, `CommonComplete` |
| the chip (external) | `Chip`: answers, reports an error, or stays mute |

Sessions are named by the number of their `initialize()`; a pointer that belongs
to a session (`vi`, `icb`, `cb`) holds that number. A call through a pointer that
another thread just cleared, and `LOG_ALWAYS_FATAL`, set `alive` to FALSE: the
process is gone and `init` starts another. `CloseDriver` is one step, because what
it clears is read only by the worker at `CmdStart`, `transmit_cb` and its end. A
stack may initialise at any moment, also while the session before is being opened
or closed. Two history variables tell what this leads to: `told` is the session that
the last SUCCESS was about, and `calm` says whether the last `initialize()` found
the queue empty, the looper at rest and no worker at work (`Quiet`).

### Nvram

`file` is the bytes of the file: two records of two bytes, then the mark and the
check number, or as many of them as are there. `bin` is the backup partition (map with
size and checksum, bad block bitmap, data), `all` the files AllMap and AllFile on
nvdata, through which every backup and every restore goes. Every write, truncation
or creation is a step, so `PowerLoss` and `ServiceDies` can come between any two.

| Code | Actions |
|---|---|
| `FileOp_RecoveryData` at boot | `BootChecksFlag`, `BootLoads`, `BootTruncates`, `BootRefills`, `BootOpensFlag`, `BootSetsFlag` |
| the HIDL methods | `Serve`, `Read`, `WriteFirst`, `WriteNext`, `SeekFails`, `WriteFails`, `Done` |
| `NVM_GetFileDesc`, `NVM_ProtectDataFile`, `NVM_CloseFileDesc` | the actions of these names |
| `NVM_RestoreFromBinRegion_OneFile`, `NVM_CheckData_OneFile` | `Restore`, `RestoreLoads`, `RestoreTruncates`, `RestoreWrites` |
| `NVM_ResetFileToDefault`, `NVM_SetCheckNo` | `Reset`, `WriteDefault`, `SetCheckFlag`, `SetCheckNo` |
| `FileOp_BackupData_Special`, `FileOp_BackupAll_NvRam`, `FileOp_BackupToBinRegion_All` | `BackupTruncates`, `BackupCopies`; the last goes on with `BackupErases`, `BackupWritesMap`, `BackupWritesBitmap`, `BackupWritesData` |
| `RestoreAll_NvRam` | `RestoreAllTruncates`, `RestoreAllRefills` |

A write is what the client asks for: `writeFileByNamevec` writes bytes of any number
once per record (the comparison with the record size is compiled out), and
`writeFileBylid` writes one record at any index, before the file (`SeekFails`), inside
it, over its check bytes or past its end. A file that thereby got too long is
restored or reset by the close, and the client is told of success.

`NVM_ComputeCheckNo` and `FileOp_ComputeCheckSum` are computed, not assumed to tell
files apart. The former is one byte: 0 0 and 1 1 have the same number, and a write
that was cut off, or whose check number was not yet set, is handed out if the old
number agrees with the new bytes.

`want`, `expect` and `saved` are history: what the write under way should leave,
what the next open may hand out, and what a restore may end with. They say exactly
when the code may depart from what was saved; `Taken`, `Kept` and `Confused` are the
contributions of cuts, closes and checksums that agree by chance.

Assumed: the HIDL service has one thread (`service.cpp:34` takes the default), clients
wait for `vendor.service.nvram_init` as those in the tree do, one `write()` is one
step, and writes reach the storage in their order. Of the other files in AllFile only
that there are some is known: the checksum is that of this file's bytes.

## 3. Runs

| Run | Instance | Shows |
|---|---|---|
| `mdinit_restart` | both daemons, every request, unpaired; normal mode; 2 requests, 1 crash, 2 failing ioctls or opens | the handshake invariant `HandshakeInv`, `ReadyIsReal`, services (`QuietRestart`, `ServedWhenReady`), refinement of `RestartBarrier` |
| `mdinit_live` | every request, to one or both modems; all four boot modes; 2 requests, 1 crash, fair | `PccifResetQuiet`, `ComesBack` |
| `mdinit_loss` | FORCE_STOP and RESET racing the first boots, 1 crash, 1 lost daemon | `NoMutualWait`, `StoppedIsStopped` |
| `perf_settings` | two clients' slots and the sports hint, two clusters, five requests that mix all kinds of settings | `FloorsExact`, `CeilingsExact`, `CoreLimitsJustified`, `GpuExact`, `KnobsExact`, `OneshotBalanced` |
| `perf_config` | the same, with scenarios configured while on | violation: `FloorsBelowCeilings` |
| `perf_oneoff` | as `perf_settings` | violation: `OneClusterOff` |
| `powerd_timers` | three hints (one with a hold time, one followed by another, the launch boost), two clients and a customer hint on two slots, handles that wrap after 3; 4 requests | `TimedHintEnds`, `AlwaysHintStays`, `TimersMatchLocks`, `StaleHandlesHarmless` |
| `powerd_ends` | one client, one customer hint, two slots, fair; 4 requests | `DeadLocksReleased`, `TimedLocksEnd` |
| `bt_sessions` | two sessions, one packet, chip and open may fail; the second stack may come at any time | `ReadyHasInterface`, `RepliesReachWorker`, refinement of `BtSession` (`ImplementsSession`) |
| `bt_overlap` | two sessions, fair | `InterfaceFollowsState`, `NothingLeftBehind`, `WorkerReports`, `LooperReturns` |
| `bt_fwcfg` | one session, fair | violation: `Answered` |
| `nvram_record` | 4 requests, 2 failures, payloads of one to four bytes, on eMMC and NAND, with and without a backup | `HandsOutChecked`, `KeepsWhatWasSaved` |

### Bounds

* `Budget` bounds the environment of `MdInit` by kind. Two requests to each
  daemon are two overlapping restarts in each, the first at which a grant can
  be mistaken for an earlier one; one crash can happen at every place, two leave
  an old EXCEPTION in `events` while a second one is due. Faults and losses are
  separate runs, because with a failing stop `StoppedIsStopped` is not claimed,
  and with a lost daemon the barrier is not: a relaunched daemon starts afresh
  while its peer may be in the middle of a handshake. `mdinit_loss` asks only
  for a stop and for a restart; starts after a loss come from the relaunch.
* `PerfService` is unbounded in the number of calls: TLC exhausts its state
  space. Three scenarios suffice for one that leaves, one that determined the
  setting and one hidden behind it; kinds of settings do not influence each
  other, so each of the five requests asks for several.
* `MaxRequests` bounds `Powerd`; timers and deaths are not counted. Four
  requests cover acquire, expiry, reuse of the slot by another client and a
  renewal with the stale handle, or a hint asked for a time, followed by another,
  made permanent and switched off with a hold. The timed ends need fairness and handles
  that do not wrap, hence `powerd_ends`.
* `BtHal`: two sessions are the first at which something of one can reach the next;
  one command in the script and one in the configuration file have every outcome;
  a packet of the stack is in `Send` at every place of the other threads.
* `Nvram`: a write, a backup, a second write and a read, with two failures among
  them: a failure during the recovery from another; or a backup, a write and
  `RestoreAll_NvRam`. The payloads: `<<200, 200>>` leaves the check number of the
  default as it is, and overflows a number that is not kept to one byte; `<<7>>` and
  `<<0, 7, 200>>`, written twice, fit the file, the latter over its check bytes;
  `<<7, 0, 0, 0>>` makes it too long. The size of the file is fixed in the module:
  two records of two bytes are the smallest with collisions inside a record and a cut
  between two records.

### Fairness

`MdInit`: weak fairness of launching, of each daemon's code, and of the modem
finishing a boot or a stop (or crashing instead). A runnable process is
scheduled, `init` restarts the service, and the kernel driver reports every boot
and stop it accepted. Requests, crashes, faults and kills are never forced.
`Powerd`: weak fairness of each timer. `_selectLoop` sleeps no longer than the
next timer and handles one expired timer per round, so an expired timer is
served however many requests arrive. Requests are bounded in the liveness run
also because endless renewal rightly prolongs a lock for ever.
`BtHal`: weak fairness of each thread (looper, worker, watcher, and the threads in
`Send`) while the process is alive, since a runnable thread is scheduled. Nothing
is assumed of the stack or of the chip: a command that is not answered ends by
the two seconds of `process_cmd_rsp`.

### Deadlock

`MdInit` runs with `CHECK_DEADLOCK FALSE`: daemons block on their devices when
the environment falls silent, and a daemon whose peer was not restarted stays in
the handshake. That the latter is no mutual wait is what `NoMutualWait` says.
`BtHal` does so because the service waits for ever once the stack is silent, and
`Nvram` because it is idle once the requests and failures are used up; that
the looper never stays in a join is `LooperReturns`.
In `PerfService` and `Powerd` some call or the periodic check is always enabled.

## 4. Proofs

Every safety property and every refinement that a run checks is also a theorem,
with TLAPS, for all values of the constants that the modules' assumptions allow,
under the hypotheses in this table. A hypothesis is a setting of the environment
in which the property is meant, and the one in which the run checks it;
without it TLC shows a counterexample, or the code makes no such promise.

| Module | Theorem | States | Hypothesis |
|---|---|---|---|
| `MdInitProofs` | `TypeCorrect` | `TypeOK` | |
| | `NeverMutualWait` | `NoMutualWait` | |
| `MdInitHandshakeProofs` | `HandshakeCorrect` | `HandshakeInv` | `Lockstep` |
| | `RestartIsBarrier` | `MdInit` implements `RestartBarrier` | `Lockstep` |
| `MdInitServiceProofs` | `ReadyIsTrue` | `ReadyIsReal` | |
| | `ReadyIsServed` | `ServedWhenReady` | |
| | `RestartIsQuiet` | `QuietRestart` | no daemon is lost |
| | `StopIsTrue` | `StoppedIsStopped` | no call fails |
| | `PccifIsQuiet` | `PccifResetQuiet`, an action property | `Lockstep`, no call fails |
| `PerfServiceProofs` | `TypeCorrect` | `TypeOK` | |
| | `ShotsAreBalanced` | `OneshotBalanced` | |
| | `NoFloorIsMissed`, `NoCeilingIsMissed` | `FloorsExact`, `CeilingsExact` | |
| | `GpuIsExact`, `KnobsAreExact` | `GpuExact`, `KnobsExact` | |
| | `MinimumAlwaysWins` | the first half of `CoreLimitsJustified` | |
| | `LimitsAreJustified` | `CoreLimitsJustified` | at most two clusters |
| `PerfCommandsProofs` | `LockRequestsAreSane` | the requests of locks are those `RequestsAssumption` allows | the cores of all clusters, once per command of the list, fit an int |
| | `ConfiguredIsSane` | the same of a request that a command configures | the total and all cores fit an int |
| `PowerdProofs` | `TypeCorrect` | `TypeOK` | |
| | `AlwaysIsKept` | `AlwaysHintStays` | |
| | `HandlesAreSafe` | `StaleHandlesHarmless` | |
| | `TimedIsEnded`, `TimersAreLocks` | `TimedHintEnds`, `TimersMatchLocks` | two timers are free at each request |
| | `LargeTableSuffices` | both of these | a table of twice the requests and three |
| | `CheckNeverStops` | the timer of the periodic check always runs | |
| | `DeadAreCollected` | an action property: the safety half of `DeadLocksReleased` | |
| `BtHalProofs` | `TypeCorrect` | `TypeOK` | |
| | `StateFollowsInterface` | `InterfaceFollowsState` | |
| | `ShutdownIsComplete` | `NothingLeftBehind` | |
| | `ReplyFindsWorker` | `RepliesReachWorker` | |
| | `ReadyIsOpen` | `ReadyHasInterface` | |
| | `SessionIsKept` | `BtHal` implements `BtSession` | |
| | `JoinNeverDeadlocks` | whom the looper waits for was told to end and is not blocked | |
| | `WorkerEnds`, `WatcherEnds` | action properties: the safety half of `LooperReturns` and `WorkerReports` | |
| `NvramProofs` | `TypeCorrect` | `TypeOK` | |
| | `OnlyCheckedFiles` | `HandsOutChecked` | |
| | `RecordsAreKept` | `KeepsWhatWasSaved` | |

### MdInit

* *No mutual wait.* The property is not inductive, since nothing in it says what a
  daemon's own status is while it waits. `WaitInv` speaks of `pc` and `status`
  only: a daemon in the handshake shows `reset` or `reset_start`; two daemons in
  the first loop were not both told to go on; of two daemons in the second loop
  one was told. Every other action leaves its daemon outside the handshake and
  its peer alone (`StaysOut`); the handshake steps are done one by one.
* *The barrier.* `Lockstep`: both daemons are launched, none is lost, and
  requests wait for the first boots, as in `mdinit_restart`. Then `HandshakeInv`
  itself is inductive. A step is a step of the handshake, done one by one, or
  `Plain`: between two places that have nothing to do with it. The refinement
  follows from the invariant; a refinement step
  maps `entered` and `passed` and is a stutter elsewhere. A relaunched daemon
  breaks it: it starts afresh while its peer may be in a handshake.
* *Each daemon alone.* `ReadyInv` (behind BOOT_READY the modem is ready, or crashed
  with the exception queued), `ServedInv` (`mdlogger_cnt` counts nothing that does
  not run), `QuietInv` (mdlogger runs only if it is counted, so stopping the
  services stops it) and `StoppedInv` (behind a stop the modem is down) hold at
  each place of the code. `QuietInv` needs a daemon that remembers its count:
  a relaunched one has forgotten it. `StoppedInv` needs stops that succeed: the
  handlers do not look at the result. `PccifIsQuiet` puts the handshake invariant
  and `StoppedInv` together.

### PerfService

* *Sets of ints have extrema.* The `Asked` operators are `Max` and `Min` of sets
  that need not be finite in the model; that these exist is proved from the
  32-bit range of the requests (`Extrema`, by the least element of a set of
  naturals). From it follows how they change when one request is added or
  dropped (`Adds`, `Drops`).
* *Four kinds of steps.* Every action merges a request (`Comes`), withdraws one
  (`Goes`), computes everything anew (`Anew`) or changes no setting (`Rests`);
  `StepKind` shows it once, and each setting is then done per kind.
* *Exactness.* `ExactInv` is the conjunction of the exactness properties and
  `CeilingsInRange`: a ceiling in force is within the cluster's frequencies or
  `FREQ_MAX`. A ceiling between the two would not be recognised by `perfScnUpdate`
  as one raised to the floor, and could hide a lower one for ever. The settings are claimed
  while `outdated` is FALSE: the finding `perf_config` shows what may happen after a
  request in force changed without an update. An update of all settings ends it.
  The claim about the entries of the knobs, and `MinimumWins`, hold throughout.
* *Core limits.* That the loop over the clusters in the fine tuning is a function is
  proved by a least counterexample (`LoopExists`, `ActualMinIs`). `LimitsAsked` adds
  that a limit given up to `PPM_IGNORE` belongs to a cluster without a minimum.
  On two clusters this holds because a minimum never exceeds the total; on three
  the middle cluster can take what is left, and the property fails (section 5).
* *One-shot resources.* `ShotInv` adds what may be set for a scenario that waits for
  the screen. A scenario that `perfUserUnregScn` removed with a value set stays in
  `lost`, and nothing is claimed of what else is set for it.

### PerfCommands

The theorems about `PerfService` assume of the requests that they are made of ints in
range and that a total is not below a minimum (`RequestsAssumption`). For the
requests the code makes this is proved, without that assumption, from the tables
alone (`PerfCommandsAssumption`: ranges of ints, and an initial value outside the
range, as `loadConTable` and `loadRscTable` choose it). The loops over clusters and
over the list are recursive functions; that they are functions, and bounds on what
they compute, are proved by a least counterexample (`CountUp`). The hypothesis on the length of the
list is needed because CPUFREQ_PERF_MODE adds to the total each time it is given; no
code limits the length, only the size of a binder transaction, which is far below.

### Powerd

`HintState` says that no hint has two timers, hence removing one removes all. Locks:
until handles wrap, `LockInv` says that handles in use lie below the counter, that
each is known to its owner only, that free slots have none, and that a handle has at
most one timer and none if its lock is asked for always. Timed hints and locks need room in the timer
table (`RoomForTimers`, in every state), since `start_scn_timer` does nothing when it
is full; `LargeTableSuffices` gives a size that guarantees it: `FewTimers` counts that
a request starts at most two. The code's table has 256 entries
(`powerd_core.cpp:104`) for any number of requests, so there the first form applies.
The periodic check needs no room: its timer is never stopped or displaced, even when
the table is full. What a dead process holds shrinks at every step but a request
served late in its name, and is empty after the check: together with the fairness of that timer this is
`DeadLocksReleased`, once no more such requests arrive.

### BtHal

`LooperInv` and `PartsInv` say, at each place of the looper, what of the session
exists: the shutdown frees each thing after what depends on it. They hold with
sessions that overlap. `ReplyInv`: the command of the worker is being sent, due at
the chip or answered, exactly one of them, and the callback set for it stays until
the watcher takes the answer, also after the worker's two seconds. `SessionInv`: the
On message of an active stack is queued (`Asked`), or the interface was opened for it
(`Opened`); and after an `initialize()` in a calm moment no other session is left that
could answer (`Settled`). `InitHciCallbacks` replaces the callbacks at
once, so the SUCCESS of the older session can reach the newer stack: `told` tells the
two apart.

*Joins end.* `JoinInv`: a watcher that is joined finds `running_` cleared, and in
`select` the byte that wakes it. `WorkRank` and `WatchRank` count the steps that the
worker (commands left, place, packet on its way) and a watcher that is joined have left
at most; each step of the thread lowers its rank, nobody else raises it. The
mutex, which a worker keeps after a timeout, is held only at its last three
places, where nothing blocks it. What remains to TLC is that a thread which
can step does.

### Nvram

`TypeInv` adds to `TypeOK` what the maps are and the shape of the file at the places
where it matters (`Shape`: the length and the mark while the check bytes are set, and
`Good` once it is handed out), so `HandsOutChecked` follows from it. `RecordInv` has a part for the file (`FileInv`: what an open would take as
it is, is in `expect`), for the partition and AllFile (`BackupInv`: what a restore
would take is in `saved`), for the daemon (`DaemonInv`), for an open under way
(`OpenInv`), a write (`WriteInv`) and a backup (`BackingUp`). Nothing is used of the
check number but that it is a byte, and nothing of the checksum at all: the theorem holds
because the code compares them, and admits what agrees by chance.

### Only model-checked

Liveness under fairness is out of the prover's reach: `ComesBack`,
`DeadLocksReleased`, `TimedLocksEnd`, `WorkerReports`, `LooperReturns`. Of
`DeadLocksReleased`, `WorkerReports` and `LooperReturns` the facts that need no fairness
are theorems, as said above. The three properties that runs
show violated (section 5) have no theorem.

## 5. Findings

1. `perf_config`: a scenario configured while on (as `power_legacy_test.cpp` does)
   can leave a frequency floor above its ceiling.
2. `perf_oneoff`: `perfScnUpdate` sets the core maximum of both clusters to zero,
   which `perfScnEnable` avoids with the comment "only one cluster can set max
   cpu = 0".
3. `bt_fwcfg`: when `mtk_fw_cfg` cannot start its worker, nobody calls `fwcfg_cb`, `Open`
   ignores the result of BT_VND_OP_FW_CFG (`vendor_interface.cc:285`) and the stack is
   never answered; `bt_vendor_lib.h:54` says "Must call fwcfg_cb to notify the stack".

Noticed while reading and modelling, without a run:

* `ccci_mdinit`: an exception sets `need_silent_reboot` in any state; the comment at
  `mdinit_relate.c:93` says "at boot ready state".
* Power HAL: with all timers in use a timed hint gets none and stays on, although
  "All power hint support timeout" (`powerd_core.cpp:513`). The integer form of
  EXT_HINT_HOLD_TIME in `cmdSetting` tests another command's id
  (`perfservice.cpp:1578`); performance mode adds all cores to the total without
  resetting it (`perfservice.cpp:1549`, `1715`), so a scenario configured with it twice
  asks for more cores than there are; `perfLockAcq` writes `lock_duration` through `i` instead
  of the index it found (`perfservice.cpp:2652`); `resetScenario` drops
  `lock_rsc_list` without freeing it on the paths that clean up after dead
  processes; the screen switches the GAMING hint off without resetting
  `nDisplayType`, so touch boosts stay ignored (`perfservice.cpp:2204`). A lock
  configured while suspended, restored and acquired again with its old list is not
  updated (`perfservice.cpp:2698`), so what was configured stays in force; a suspended
  lock acquired with a one-shot resource and then unregistered leaves it set
  (`perfservice.cpp:2577`).
* Power HAL, three clusters or more (`CLUSTER_MAX` is 8, `perfservice.cpp:79`):
  `perfScnEnable` gives up the limit of cluster 0 (`PPM_IGNORE`, line 855) while a
  higher cluster takes all the cores of the total; `perfScnUpdate` never recomputes
  a limit of -1 (line 1040), so when the higher cluster's minimum is withdrawn, the
  fine tuning (line 1061) makes the minimum of cluster 0 its limit, although nobody
  asks for one. TLC finds it on an instance of three clusters; the proof of
  `LimitsAreJustified` needs at most two for the same reason.
* Bluetooth: a packet sent while `OnTimeout` runs leaves the wake line off with
  `lpm_wake_deasserted` false (`vendor_interface.cc:370`), against the comment at
  line 47; the mt66xx driver ignores that operation. A stack that
  initialises while the last session is being opened is told SUCCESS about that
  session. `ConfigureTimeout` may write to a pipe already closed.
* NVRAM: the check number has eight bits, so a cut-off write can be handed out as good;
  a write of the wrong size or past the last record is followed by a restore or a
  reset, and its client told of success (`Nvram.cpp:196`); `RestoreAll_NvRam` restores
  whatever the last backup or restore of any kind left in AllFile; a failed `write` is followed by a close that makes the partial record
  valid, and `writeFileByNamevec` answers 0 either way; a backup does not check
  what it copies; the wait of `FileOp_BackupToBinRegion_All` ignores its timeout
  (`libfile_op.c:1611`); the first boot after the first backup rolls records back
  to it, as the restore flag is written only after a successful restore.

## 6. Not modelled

* `ccci_mdinit`: driver version 1, the time service, MD1's `rild`, contents of
  boot data, polling periods.
* `libpowerhal`: failures of sysfs writes, the platform variants behind
  `setClusterCores`, XML parsing, the package white list and benchmark detection
  (only their effect, the sports mode), configuration of predefined scenarios.
* power HAL daemon: deadlines, IPC framing, the reset of all scenarios by a test
  command, a process id that the kernel gives to a new process before the
  periodic check runs.
* Bluetooth: packet assembly, the MCT transport, the debugger, the firmware startup
  timer, `StopMessageLooper` (never called while serving), contents of commands.
* NVRAM: the other files of AllFile, `AddBackupFileNum`, `ReadFileVerInfo`,
  `BackupToBinRegion_All_Exx`, file versions and their conversion, encryption, files exempt from
  checking, records in proinfo, bad blocks, the DM region, defaults of several
  records, automatic backup, and several processes using the library at once
  (no lock of the code spans them).
* All other components: reasons in `PROJECT.json`.

## 7. Plan

Done: `MdInit` with `RestartBarrier` and the first theorems, `PerfService`,
`PerfCommands`, `Powerd`, `BtHal` with `BtSession`, `Nvram`. In order:

1. `BootEnv`: the pure choices of `env_setting.c` and `mdinit_platform.c` (RAT map,
   modem type, SBP code), against the priorities their comments give.
2. `MdInitV1`: the version 1 FSM, with boot timeouts against exceptions and stop
   requests during a reset.
3. Packet assembly of the Bluetooth HAL over partial reads, against a parser of the
   whole stream; `Ptimer`, the timer set below `Powerd`; then candidates: Wi-Fi chip
   modes, USB role switch, frame rate clients.
4. Composition of `Powerd` with `PerfService`: a hint or lock that ends withdraws
   its request, so every setting returns to its default.

Theorems to come: those of the modules above, and the steps behind `ComesBack` (a rank
of both daemons' places), as for the joins of `BtHal`.
