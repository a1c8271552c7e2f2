# Verification of meatpi-components

TLA+ models of the concurrent and crash-sensitive core of the meatpi-components
library (ESP-IDF components of the WiCAN firmware), model-checked with TLC and
proved with TLAPS. The modules are written from the C sources under
`src/components/`; `PROJECT.json` maps every definition to the lines it models.

## 1. Inventory

The library has 76 component directories. Seven are third-party (`sqlite3`,
`cherryusb`, `berry`, `microlink`, `wireguard_lwip`, `esp_wireguard`,
`esp_isotp`) and many of the rest are codecs, drivers, route tables and
formatting. `PROJECT.json` lists all of them. The parts that carry state several
tasks share, or that must survive a reset, are these.

| Component | State | Operations | What is hard |
|---|---|---|---|
| `flash_jobs` | one-slot mailbox (`s_fn`, `s_arg`, `s_err`), two binary semaphores, `job_pending`, `worker_alive`, `s_worker` | `flash_jobs_run`, the ephemeral worker | idle timeout against publication, a worker that runs before its creator records it, arguments on the caller's stack |
| `settings_manager` | a JSON file per component, the mount, the registry with `current`, `applied`, `persisted_clean`, `degraded` | `init`, `register`, `start` (boot pass), `set`, `restore`, `factory_reset` | power failure between any two flash operations, failed saves, update and rollback, a skipped write that relies on a RAM copy |
| `obd_gate` | `og_core_t` (owner, deadline, waiter, reservation), `og_diag_t` (holders, acked) | acquire, release; diagnostics hold, wait, acknowledge | expiry, steal and reservation between polls; holders that come and go while the poller loops |
| `obd_chip` | claim, open transaction, prompts owed by the chip, reset interception | `obd_chip_send`, `obd_chip_request`, RX fan-out, claims, firmware update | prompts carry no owner; claims are stolen; checks before long waits |
| `uds_manager` | `s_exclusive`, `s_holding`, `s_session`, idle timer | requests, sessions, the option | flags shared with the esp_timer task without a lock |
| `j2534_server` | `s_exclusive`, `client_connected`, channels | session begin and end, the option | a session that ends while the option is switched |
| `autopid` | profiles, pauses, poll schedule, one chip job at a time | `poller_task`, DTC scans and other chip jobs in tasks of their own, outputs | pauses of several kinds that overlap; a job that runs on while the poller has paused |
| `script_engine` | runner, bus hold | host bindings | the hold must end with the script |
| `ota_manager` | session state, armed digest, two-slot pipe, writer task | begin, write, end, abort; the pipe | two transports on one session, a writer that answers after its producer gave up |
| `fw_update` | the job and its record in NVS, verify milestone | check, fetch, boot check, confirm, forget, roll back | a reset between two of its stores; attempts, timeouts and a foreign session |
| `api_http` | the upload request | the firmware upload handler (and many routes without state of their own) | runs beside the pull on the same session |
| `obd_chip_manager` | the chip firmware's update job | check, download, flash the chip | owns the wire for minutes |
| `bridge_manager` | bridges with two queues in a queue set | build, pump, teardown | both directions in one task, a batch that is collected while the other direction is due |
| `restart_tracker` | RTC-memory brake (`streak`, `parks`, flags), pending restart in PSRAM | boot, settle, park, retry, planned restart | long sequences of crashes and restarts; memories of different lifetimes |
| `interface_manager`, `sleep_manager` | arbitration target, policy timers | polls that actuate radios or sleep | one of several actuations fails |
| `partition_migrate` | the partition table | compare, rewrite, verify | a power failure inside the rewrite |
| `filesystem`, `data_logger`, `external_storage`, `config_backup` | open streams, rotation, mounts, restores | asynchronous reads and writes | removal of the card, partial restores |
| `wifi_manager`, `mqtt_manager`, `vpn_manager`, `ip4_routes`, `espnetlink_link`, `can_manager`, `j1939`, `ble_manager`, `ble_http`, `socket_manager`, `websocket_manager`, `event_manager` | connection and protocol machines | events, reconnection, transfers | lost and late events |

How they interact: nearly every component registers with `settings_manager` and
is configured by its boot pass; every flash write from a task on a PSRAM stack
(`settings_manager`'s saves, `ota_manager`'s writes) goes through
`flash_jobs_run`; `fw_update` pulls an image through `ota_manager`'s pipe while
`api_http` may push one through the same session, and after the restart
`restart_tracker`'s verdict and history decide, with `fw_update`'s record and the
bootloader's state, whether the image stays; everything that talks to the vehicle (`obd_chip`,
`uds_manager`, `j2534_server`) takes `obd_gate` first, and the interactive tools
among them take its diagnostics hold, which `autopid`'s poller obeys.

What makes each correct, in the order in which it was modelled:

- `flash_jobs`: each call runs its own job once, while the caller waits, and
  returns that job's result; no call blocks for ever.
- `settings_manager`: what was confirmed survives any reset; a file is never
  half written; the RAM copy that makes a write unnecessary is never wrong.
- `obd_gate`: one conversation at a time except by the documented fail-open
  paths; a refused owner gets the next turn; nobody waits for ever.
- the diagnostics hold: after the acknowledgement and until the tool's own
  release autopid keeps off the bus, its polls and its DTC scans (the code has the
  first, and of the second only that no scan is started); holds end with their use.
- `obd_chip`'s claims: one user of the chip at a time, nested requests included;
  no order of thefts and late releases leaves the chip claimed for ever.
- `ota_manager`: `ESP_OK` means that the whole image of the expected digest boots
  next; no chunk is lost, doubled or overwritten; handles, slots and the pipe
  itself always come back.
- the boot chain: a crash loop is braked; an image that was rolled back stays
  out; whatever is interrupted, what boots next is a whole image; a job is
  called VERIFIED only for an image that ran; every job gets its outcome.

## 2. Modules

| Module | Models | Proofs |
|---|---|---|
| `FlashJobs` | `flash_jobs.c`, `flash_jobs_core.c` | `FlashJobsProofs` |
| `SettingsManager` | `settings_manager*.c` | `SettingsManagerProofs` |
| `ConfigStore` | abstract specification: one file per component, replaced at one instant | (refined by `SettingsManager`) |
| `ObdGate` | `obd_gate.c`, `obd_gate_core.c`, `obd_gate_settings.c`, and the callers in `obd_chip_fanout.c`, `obd_chip_cmd.c`, `uds_transport_isotp.c`, `j2534_channel_iso.c` | `ObdGateProofs` |
| `DiagHold` | `obd_gate_diag.c`, `obd_gate.c`, and the users in `uds_manager.c`, `j2534_server.c`, `script_engine_bind.c`, `autopid_poller.c`, `autopid_dtc_job.c` | `DiagHoldProofs` |
| `ChipClaim` | `obd_chip_claim.c`, and its users in `obd_chip_cmd.c`, `obd_chip_fanout.c`, `obd_chip_fw*.c`, `obd_chip_uart.c`, `uds_transport_obd.c`, `j2534_channel_legacy.c`, `autopid_filter.c` | `ChipClaimProofs` |
| `OtaPipe` | `ota_pipe.c`, `ota_session.c`, `ota_manager.c`, `fw_update_fetch.c`, `api_http_ota.c` | `OtaPipeProofs` |
| `ChunkPipe` | abstract specification: a bounded channel that is opened, written, drained and closed | (refined by `OtaPipe`) |
| `BootGuard` | `restart_tracker_brake_core.c`, `restart_tracker.c`, `fw_update_boot.c`, `fw_update_record.c`, `fw_update.c`, `fw_update_api.c`, `fw_update_job.c`, `ota_manager.c` | `BootGuardProofs` |
| `MCFlashJobs`, `MCSettingsManager`, `MCDiagHold` | small instances (the other modules are instantiated by their cfg) | |

`ObdGate`, `DiagHold`, `ChipClaim`, `OtaPipe` and `BootGuard` are compositions:
each holds the shared object and every task of the other components that touches
it. `OtaPipe` ends where an image is named for the next boot, `BootGuard` starts
there: its sessions are one begin and one end, with any image.

**FlashJobs.** One program counter per caller and per worker task; one step per
semaphore call, critical section on `s_mux`, `xTaskCreate` and job. `Psram` and
`Internal` are the two kinds of callers that `flash_jobs_on_internal_stack`
tells apart. A job is named by its caller, because `fn` and `arg` live on its
stack. `ran` and `truth` record what really ran. A task handle may be reused
after its task was deleted. `Starvation = FALSE` says that a worker's idle wait
(`FLASH_JOBS_IDLE_MS`) does not run out while a caller is between two
consecutive statements of `flash_jobs_run`.

**SettingsManager.** The flash (`json`, `tmp`, the two superblock blocks) and the
RAM. A call is a record `op` that moves through the stages of
`sm_storage_save` (encode, open the temporary file, write and sync, rename), of
the boot pass (load, migrate, fill, validate, persist, apply, fall back) and of
the factory reset (unmount, erase block by block); `Reset(f)` may come between
any two stages and starts firmware `f`, so updates and rollbacks are resets too.
The API lock makes calls sequential, so one `op` is enough. A document is a
function from keys to values; a descriptor gives a schema version, the values a
key may have, the required keys, the defaults, the `on_validate` rule and the
migration. Every fallible operation has a failing action. External assumption:
LittleFS makes `rename` atomic, and a file that was synced stays; a file that
was not is whole or torn after a reset.

**ObdGate.** The core's four fields, the `enabled` flag, and one program counter
per task through `obd_gate_acquire` (try, look at the time, delay, force), the
write and the conversation. Deadlines are kept as the time left, in poll
periods. Engines have a token each; all tasks on the chip share one. `pending`
is the queue of commands the chip still has to answer with a prompt; a
requester that timed out or a client that went away leaves its entry there.
`s_inject` is the interception of an app's reset (the fan-out's own `ATM0`).
External assumption: the chip answers commands in order, one prompt each; the
interception's failsafes may run out at any time.

**DiagHold.** The hold as a set of owners with its limit, the poller's loop with
its pauses, the one chip job at a time with its task (the DTC scan that the poller
starts, or a job that the web or a rule asks for: it pauses the poller, uses the
bus for as long as it likes, resumes the poller, and looks at no hold), the UDS tool with its idle timer and the esp_timer task, the
J2534 session, the task that switches the options and a script's hold. Each
access to a flag that is shared without a lock is a step. The 700 ms wait may
run out at any poll, because one chip request of the poller may take longer;
the 10 s of the idle timer pass only while every task is idle or in a
transaction. The raw-frame path of `uds_transport_isotp.c` that also touches the
hold is not modelled.

**ChipClaim.** `s_claim`, `s_txn_task` and whether the transaction's 12 s are
over; one program counter per task. Requests, monitor windows and exclusive jobs
claim, use and release; a transaction claims, becomes the owner in a second
critical section, makes nested requests and ends. One poll of `obd_core_claim`
under the lock is one step, in the code's order of branches: the owner's own
request, the theft, the free chip. A claim that fails leaves a task where it was,
so only the nested request of a robbed transaction has a failing action. A send
tests for EXCLUSIVE and writes in two steps. `robbed` records a theft until every
task has left the chip.

**OtaPipe.** The session of `ota_manager` (state, announced size, expected
digest), what it has written, the open `esp_ota` handles, the image named for the
next boot and the armed digest; the pipe's queues, semaphore, error cells and
slots; the ephemeral writer, the download task and the HTTP task with a program
counter each. Each call under `s_lock` and each queue or semaphore operation is a
step. An image is a sequence of slot-sized chunks tagged with their source; a
chunk may be damaged on the way, in which case neither head nor digest fits. The
downloader's waits may run out whenever their semaphore or queue is empty, and
the fetch is tried again where `image_attempt` asks for it (an abort during the
wait between two attempts has the effect of a failure without a retry). External:
`esp_ota_end` accepts a whole image only and gives the handle back either way.

**ChunkPipe.** What `ota_pipe.c` promises its producer, without slots, queues or
tasks: a channel of at most `PIPE_SLOTS` chunks that is opened empty, takes chunks
while it is open, delivers them in turn and is closed by its reader, only when
nothing is under way. `OtaPipe` implements it with `open` as
`s_active`, `chan` as the chunks on their way through both queues and the
writer's hands (`InFlight`) and `delivered` as what the writer has taken out.

**BootGuard.** Four memories with four lifetimes: `otadata` and the record in NVS
survive everything, the brake's count (RTC memory) all but a power cut, the
pending restart (PSRAM) may be lost at any reset, the run itself always is. A
boot goes through the bootloader, `restart_tracker_init`, the boot check with its
rollback (mark, record, restart: three steps) and `main`; a run settles,
is confirmed, installs, restarts on purpose, or crashes. A crash, a reset or a
power cut may come at any step after the tracker; a power cut and a reset also
before it. An image may be bad, that is, crash before it settles. `quick` counts
in the history what the brake should count; `proved` collects the images that
settled, were operated or were confirmed. External: the bootloader, with and
without its rollback option, and `main`, which obeys the verdict. `fw_update`'s
hook and the mark of a planned restart are one step. Any task may restart the
device whenever an image runs, from safe mode and in the delay between a job's
record and the job's own restart too; `raced` records a restart for a milestone
reason that was marked in that delay.

## 3. Runs

Deadlock is checked by the passing runs except `flash_jobs`, `ota_pull` and
`boot_guard`, where the bounded tasks may have finished, or a parked device waits.

| Run | Instance | Checks |
|---|---|---|
| `flash_jobs` | two PSRAM callers, one internal, two handles, two results | `TypeOK`, `JobArgumentValid`, `ExactlyOnce`, `BoostTargetLive`, `AnswerOwed`, `CallReturns` |
| `settings_durability` | one component, two firmware images, two saves, two resets | `TypeOK`, `NeverTorn`, `ConfirmedSurvives`, `GetTellsNextBoot`, `NoRedundantWrite`, `ImplementsConfigStore` |
| `obd_gate` | an engine, a sender, a requester, punctual polls; times 2/2/2/1 polls | `TypeOK`, `ReservedTurn`, `Serialized`, `RefusedIsNext`, `AcquireReturns` |
| `diag_hold_tools` | a tester, a script, the switching task, an app on the chip, periodic scans and other chip jobs | `TypeOK`, `PollerStaysOff`, `AckComes` |
| `diag_hold_uds` | two UDS tasks, the switching task, no chip jobs | `AckMeansPollerOff` |
| `chip_claim` | two requesters, three transactions, a monitor, an exclusive job, a sender | `TypeOK`, `OneUser`, `UserKeepsClaim`, `QuietMeansFree` |
| `ota_pull` | two slots, three chunks, two attempts, one fetch, one upload | `TypeOK`, `SlotInOnePlace`, `ChunksInOrder`, `OneHandle`, `PullOkMeansImage`, `WaitsServed`, `ImplementsChunkPipe`, `PullReturns`, `PipeFreed` |
| `boot_guard` | streak limit 3, counter to 4, two installations, three upsets, both bootloaders | `TypeOK`, `LoopIsBraked`, `RolledBackStaysOut`, `BootsWholeImage`, `VerifiedUnlessRaced`, `OutcomeComes` |
| `settings_flush_ignored` | violated, `FlushMayFail = TRUE` | `NeverTorn` |
| `diag_hold_uds_leak` | violated, with fairness | `UdsHoldEnds` |
| `ota_foreign_abort` | violated | `UploadNeverAbortsPull` |
| `boot_restart_race` | violated, one installation, one upset | `VerifiedMeansItRan` |

Why the bounds are enough for what is asked. The mailbox is guarded by one
mutex, so two PSRAM callers give every race between a caller, the worker of the
call before it and the next one: two jobs are enough for a worker to be reused,
to leave and be replaced, and for a signal or a handle to be stale; the third
caller works beside them in line. In the settings, two saves and two resets give
a save that fails after one that succeeded, and update followed by rollback; two
keys and two values give documents that are partial, valid for one firmware
only, or cannot be migrated. At the gate the chip's two tasks share a token and
the engine has its own: one holds, one waits, and the third poll finds the
reservation taken. The four times keep the order of the code (poll < reservation
<= hold) and are larger than one poll, so that a deadline can pass between two
polls of the same task; the wait, 3000 ms in the code against a hold of 2000 ms,
is as long as the hold here, so that steals and expiries happen in the same
polls. `TurnKept` and `GateSerializes` are proved for any tasks and times,
`RefusedNotPassed` for any two owners and all times in the order of the code. The
settings' files share nothing but the partition, so one component is enough for
TLC; `Implements` is proved for any set of them. The two UDS tasks are one that
has the claim and one that finds it taken. `RefusedIsNext` is stated
between two owners: with three, the gate remembers only one waiter. The
theorems of section 4 do not depend on any of these bounds.

Three transactions are one that was robbed, its thief, and one that robs the
thief; two requesters are one whose claim a robbed task clears and one that then
finds the chip free. Three chunks over two slots make a slot be reused while the
other is in flight; two attempts give a writer that is still leaving when the
next one is created; one upload may interfere at every step of the pull with
each of its five calls. Two installations let an image be written over the
running job's, or over one that was rolled back; three upsets are enough for a
crash during a rollback, of the image rolled back to, or of a retry out of a
park; the counter saturates one above the limit, which a park, a retry and one
more crash reach.

Fairness. `flash_jobs`: every step of a caller and of a worker that is enabled
is taken, and a worker's idle wait ends; FreeRTOS schedules both and the code
blocks only on semaphores. `obd_gate`: a task in `obd_gate_acquire` takes
its next step, and the clock advances (under `Punctual` each tick waits for the
tasks that are due, and goes on once they have polled); nothing obliges a conversation to end, a
prompt to come or the gate to be released. `ota_pull`: the writer and the
download task take their next step when they have one (the HTTP client ends a
silent stream by its own timeout, which the download task sees as a failure); no
timeout, no failure and no step of an upload is obliged to happen, so
`PullReturns` does not rest on the waits running out. `boot_guard`: a boot goes
on; the run, the milestone tick and the job are tasks of their own and go on
independently; crashes, resets, restarts and confirmations by the user are not
obliged to happen. `diag_hold_*`: the poller loops, the
timer task dispatches and a call that was begun is finished; nobody is obliged
to begin a call, and nobody to acknowledge except by the poller's loop.

`NoRedundantWrite` concerns flash wear: at boot a file is rewritten only if the
load changed its contents.

## 4. Proofs

Each theorem is stated for every value of the constants that satisfies the named
assumption of its module, and its inductive invariant is checked by the provers
action by action.

- `FlashJobsProofs`: `TypeCorrect`, `JobArgumentSafe`, `RunsExactlyOnce` and
  `CountersAccount` for any callers, handles and scheduling. None of them is
  inductive but the types; `HandoffInv` follows the one published job through
  pending, run, give and `s_done`, says that its caller stays between publication
  and return all that time, and that at most one worker is active. `CountInv`
  ties spawns and exits to the worker tasks there are, the one included that is
  not recorded yet. `WorkerAvailable` (`AliveHasWorker`), `BoostSafe`
  (`BoostTargetLive`) and `NobodyStranded` (`AnswerOwed`) assume `~Starvation`;
  their invariant `AvailableInv` adds where the worker is while its creator
  records it. `NobodyStranded` is the safety half of `CallReturns`: a caller on
  `s_done`, which has no timeout, is always owed the signal. It needs
  `CarriedInv`, that nothing drops a published job.
- `SettingsManagerProofs`: `TypeCorrect` and `WearBounded` whether or not a flush
  can fail; `FilesWhole`, `SettingsSurvive`, `BeliefSound` and `Implements`
  assuming `FlushMayFail = FALSE`, because the code drops the results of the
  flush and without them the three invariants are false (section 5). The
  invariant is `OpInv` (what each stage of a save has put on the flash, and that
  the document being saved loads as itself), `PartInv` (the superblocks and the
  mount), `BeliefInv` (when `persisted_clean` may be trusted, and what a file
  whose flush was lost holds) and `PromiseInv` (what the file must contain while
  a promise stands). `WearInv` says, for each stage of a boot pass and of a
  `set`, why the file differs from what is about to be written. `Implements` is
  the refinement of `ConfigStore`: the commit is the rename, all other stages of
  a save stutter, and a reset ends the call. It rests on lemmas about the pure
  operators: filling is idempotent, and what a save encodes is what a boot
  decodes.
- `ObdGateProofs`: `TypeCorrect`, `GateSerializes` and `TurnKept` for any number
  of tasks and any four times. `Serialized` needs `HeldOwns`: a hold that nobody
  ended is the gate's current one and has time left. `ReservedTurn` is inductive
  with the types. `RefusedNotPassed` (`RefusedIsNext`) is about two owners, at
  most one engine and the chip with any number of tasks, and assumes `Punctual`
  and `OG_POLL_MS < OG_RESERVE_MS` (10 and 500 ms in the code). `TurnInv` says
  that a task that was refused finds, at its next poll, a reservation of its own
  with more time left than the poll takes; `WaiterIsNotOwner` says that the
  owner is never its own waiter, and `TalkInv` that a chip task's open command is
  its only one.
- `DiagHoldProofs`: `TypeCorrect`, `AckIsHonest` (`AckMeansPollerOff`) and
  `PollerKeptOff` (`PollerStaysOff`) for any tools, any limit and chip jobs at any
  time. `AckInv` adds that an acknowledgement that is up stands for a hold that is
  on, stays up for every tool that saw it and still holds, and that the poller
  starts no scan meanwhile. Both are about `poller_task`: no theorem says that the
  bus is quiet, because a scan's task may be on it (section 5).
- `ChipClaimProofs`: `TypeCorrect`, `ChipHasOneUser`, `ClaimIsKept` and
  `NoClaimLeaks` for any sets of tasks. `OneUser` alone is not inductive (a
  second task could find a free claim beside a user): `HolderIsClaimant` ties the
  user to the claim and to the owner. `NoClaimLeaks` holds across thefts and
  needs `OwnerInside` (the owner is a task inside its transaction) and
  `ClaimHasUser` (a claim that is up has an owner, or a task past its claim that
  will release it).
- `OtaPipeProofs`: `TypeCorrect`, `HandleGivenBackOnce` and `OkMeansImage` for
  any number of slots, chunks, attempts, fetches and uploads. `OkMeansImage` is
  about `clean` attempts: begun while no earlier writer was between
  `s_active = false` and its last give, none of whose waits ran out, and during
  which no upload touched the session or the armed digest; it says nothing of the
  rest (section 5), only that no failure is reported as `ESP_OK`. The invariant
  `CleanAttempt` says, for each place of the download task in an undisturbed
  attempt, where the writer is, that no `s_done` of an earlier writer is in the
  air, that the session has the manifest's digest from the writer's begin on, and
  that the writer's result is there before `s_done` says so; `ActiveMeansWriter`
  is what makes `ota_pipe_begin`'s test of `s_active` enough. `SlotsNeverShared`
  and `OrderKept` count: the lemmas `Times...` say how often a slot occurs in a
  queue after each queue operation, and `SlotsHeld` adds the places up; `Feeding`
  and `EndLast` say who may still put something into the queue. `PipeIsChannel` is
  the refinement of `ChunkPipe`: `ota_pipe_begin` opens the channel, the write's
  queue operation accepts, the writer's take delivers, the writer's exit closes,
  and every other step of the pipe, the session and the upload stutters.
  `Settled` and `Fresh` say what is left in the queues of a closed pipe and of one
  that was just reset; `RoomForChunk` is why a slot in hand means room in the
  channel; the sequences are handled by the lemmas on concatenation.
  `NobodyWaitsInVain` (`WaitsServed`) is the safety half of `PullReturns` and
  `PipeFreed`: each wait of either task has a step of the other one ahead that
  ends it. `WaitInv` says who owes what to whom; that a producer without a free
  slot has a writer at work follows from where the slots are.
- `BootGuardProofs`: `TypeCorrect`, `LoopBraked`, `RolledBackOut` and
  `NeverBricked` for any limit, any number of installations and upsets and either
  bootloader; `VerifiedRan` (`VerifiedUnlessRaced`) likewise, with the exception
  that it states: another task's restart for a milestone reason in the delay of the
  job's own, where the claim is false (`boot_restart_race`). For the brake, `CountKeepsUp` says that the count covers
  the quick crashes of the history, in a run by `streak` and on the way up by
  what `rt_brake_boot` is about to compute, whether or not the planned reason is
  lost with PSRAM; `Announced` says when a restart or a retry may be pending;
  `VerdictBrakes` carries the verdict into the run. For the record,
  `RecordNamesImage` and `RunningIsRecorded` tie a job that is REBOOTING to the
  image in its slot, and `MilestoneWasReached` ties the planned reason that the
  next boot check will read to that image. For the slots, `SlotInv` says that one
  image is always there to fall back to, that only the slot to boot can hold an
  untried one, and what the running image may still become; `OutInv` says that
  a rolled-back image is given up in whichever slot it still lies.

Only model-checked: the six liveness properties `CallReturns`, `AcquireReturns`,
`AckComes`, `PullReturns`, `PipeFreed` and `OutcomeComes` (fairness is outside
this prover); the safety halves of the first and of the pipe's two are proved
as `NobodyStranded` and `NobodyWaitsInVain`. Every invariant and both refinements
that a passing run checks are theorems, and two more that no run lists:
`AliveHasWorker`, a part of `AnswerOwed`'s invariant, and `WorkersAccounted`, on
the counters of `flash_jobs_stats`. Where a theorem has hypotheses, they are
those of its run: `BoostTargetLive` and `AnswerOwed` fail with starvation, and
nothing is claimed of a third owner at the gate, of which the core's one waiter
field cannot keep track.

## 5. What disagrees

Runs that TLC must find violated, each against a sentence of the repository:

- `settings_flush_ignored`: the results of `fflush`, `fsync` and `fclose` are
  dropped before the rename, so a file that could not be written completely
  replaces a good one and the save reports success.
- `diag_hold_uds_leak`: the idle timer's callback can fall between
  `s_holding = true` and the hold itself; the hold then has no timer and no flag
  and keeps the pollers off the bus for ever.
- `ota_foreign_abort`: the upload handler's failure path aborts the one session
  without asking whose it is; a multipart request without an image part, sent
  while a pull is receiving, throws the pull's session away, against the
  handler's own "another session was receiving: never abort it".
- `boot_restart_race`: between a job's record and its own restart,
  `FWU_RESTART_DELAY_MS` later, another task's restart (a settings change) carries
  a milestone reason of the old image; the next boot check takes it for the new
  image's and records VERIFIED before that image ran, against
  `fw_update_record.c`'s "the previous run was operated".

### Further observations

Met while modelling and reachable in the models, without a run of their own:

- `flash_jobs.c`, `spawn_worker`: a creator starved for two idle periods records
  as alive a worker that has left, and the next PSRAM caller waits for ever
  (`Starvation = TRUE` violates `AnswerOwed`).
- `settings_manager_boot.c`: defaults that replace a document which cannot be
  migrated or validated do not set `degraded`, against the header.
- `autopid_poller.c`, `autopid_dtc_job.c`: the comment in `poller_task` says "stay
  off the chip (polls AND DTC scans)" of a held bus, so that the tool can wait "for
  us to be off the bus before its first request". The periodic scan is a task of
  its own that looks at no hold: one that began before the hold stays on the bus
  while `poller_task` sees the hold and acknowledges it (in the model `acked` with
  `jpc = "scan"`), and so does a job that the web or a rule asks for. What the code
  does have is `AckMeansPollerOff` and `PollerStaysOff`.
- `obd_chip_fanout.c`, `obd_chip_cmd.c`: the chip's tasks share one token, and
  whatever gives it back ends the turn of all of them: a prompt, whoever's command
  it ends (`obd_core_fanout`), or a request whose write failed
  (`cmd_engine_done`). An engine can then be granted the gate during another chip
  task's conversation although no hold ran out or was stolen, while `obd_gate.h`
  says "one holder at a time"; `Serialized` excludes it by counting such a hold as
  released.
- `obd_chip_fanout.c`: in the hiding state the prompt that ends it is whichever
  comes next; a request written behind an app's reset loses its answer.
- `uds_manager.c`: the idle timer is armed when a request starts and not again,
  so a transaction longer than 10 s loses its hold while it runs; and the result
  of the 700 ms wait is dropped, so a first request may go out while the poller
  is still on the bus.
- `j2534_server.c`, `set_exclusive`: `client_connected` is read before the hold
  is taken; if the session ends in between, the hold stays on without a tester.
- `autopid_poller.c`: the end of the app's pause restores the chip's baseline
  without looking at the diagnostics hold, so an acknowledged hold keeps the
  poller off the bus but not off the chip.
- `settings_manager.c`: the header promises that a save between a factory reset
  and the restart answers `ESP_ERR_INVALID_STATE`; a `set()` of the current
  document is skipped as unchanged and answers `ESP_OK` on a blank partition.
- `obd_chip_fanout.c`, `obd_chip_send`: the test for EXCLUSIVE comes before a
  wait of up to `OBD_GATE_WAIT_MS` and is not repeated, so a bridge's bytes may
  reach the chip during a firmware update that began meanwhile
  (`SendStart`, `SendWrite`), against the README's "rejected during EXCLUSIVE".
- `obd_chip_claim.c`: after a theft the robbed task's nested request finds no
  transaction of its own, and its release clears the thief's claim, an EXCLUSIVE
  one included; `OneUser` is therefore stated until a theft, and again once all
  have left.
- `ota_pipe.c`: a begin that gives up after 30 s leaves `s_active` set and a
  writer that nobody tells to leave, so no later pull can begin (`PipeFreed`
  excludes it by `lateBegin`); and the writer clears `s_active` before its last
  give, so a producer that begins in between may take that signal for its own
  (`clean` excludes attempts that begin there, and those whose waits ran out).
- `ota_manager.c`: the armed digest belongs to whichever session begins next; an
  upload's `?sha256=` may be consumed, or disarmed, by the pull, and the reverse.
- `api_http_ota.c`: a raw upload whose client stalls is retried without a limit
  and keeps the session for as long.
- `fw_update_boot.c`: an image that runs and has not settled when an upload
  replaces it is recorded BOOT_FAILED although it booted; a power cut between
  `esp_ota_set_boot_partition` and the record starts a new image without a job;
  and the result of writing the record is dropped.

## 6. Plan

Done: `FlashJobs`, `SettingsManager`, `ObdGate`, `DiagHold`, `ChipClaim`,
`OtaPipe` over `ChunkPipe`, `BootGuard`, each with its proofs. Next, in this order:

1. Proofs: an abstract specification of a call that runs elsewhere and returns
   its result, refined by `FlashJobs`; one of a lock with a limit and fail-open
   for `ObdGate`; the safety half of `OutcomeComes` (a record that is not final
   has a boot check or a job ahead of it).
2. `BridgePump` (`bridge_manager_pump.c`): no chunk lost, duplicated or
   reordered in either direction.
3. `PartitionMigrate`, `InterfaceManager`, `SleepPolicy`.
4. `ConfigRestore` (`config_backup` over `SettingsManager`), the `filesystem`
   streams, `data_logger` with `external_storage`.
5. The protocol machines: `j1939` transport, `can_isotp_esp`, `ble_http`,
   `wifi_manager`, `mqtt_manager`, `vpn_manager` with `ip4_routes`.

## 7. Not modelled

Third-party code; text, JSON, CRC and log formatting; statistics that nothing
reads; drivers and hardware; the HTTP routes and the command lines. In the
modelled components: the validator's check that a file named by a setting
exists, the generation of a schema from a field table
(`settings_manager_fields.c`), the subscriber queues of the chip's fan-out and
the payloads of all requests; manifests, release channels and layout checks of
`fw_update`; `restart_tracker`'s history ring, crash notes and stored report; a
crash before `restart_tracker_init`, which no component of the library sees.

Smaller simplifications inside the modelled operations, none of which a checked
property depends on:

- `SettingsManager`: the unmount in the factory reset that itself fails
  (`settings_manager.c:419`, `settings_manager_storage.c:208-211`).
- `OtaPipe`: `ota_pipe_write` tests `s_writer_err` before it waits for a slot, and
  the model tests it when it has the slot, so the code may send one chunk more after
  a write that failed meanwhile; a multipart request has one image part (the code
  tries to begin a session for each further part while none has started); a
  session that begins after READY leaves `boot` as it is, although it rewrites the
  slot that otadata names.
- `BootGuard`: after a session has ended in a run no second one begins in that run,
  the delay before the restart included, which `ota_manager` would allow from READY
  (it would rewrite the slot that a record already names; the record's `id`, the
  image meant, is history).

Most of the repository's C lines are third-party (`sqlite3` alone is close to
half) or tables and codecs, so the share of lines that the models stand for is
small by count; the shared state and the durable state of the library's own core
is what they cover.
