----------------------------- MODULE BootGuard -----------------------------
(***************************************************************************)
(* What happens to an update after it is installed: the crash-loop brake   *)
(* of restart_tracker, the job record and the boot check of fw_update, and *)
(* the two OTA slots with the bootloader's own rollback.                   *)
(*                                                                         *)
(* Four memories with four lifetimes: otadata and the NVS record survive   *)
(* everything; the brake's count (RTC memory) is lost with the power; the  *)
(* pending restart (PSRAM) is lost with the power and may be lost at any   *)
(* reset; the running job is lost at every reset.  The bootloader, esp_ota *)
(* and the application's main (which obeys the brake's verdict and         *)
(* declares park and safe mode) are external.                              *)
(***************************************************************************)
EXTENDS Integers

CONSTANTS
    RESTART_TRACKER_BRAKE_STREAK,
    STREAK_MAX,     \* where the streak's counter saturates (UINT8_MAX)
    MaxInstalls,    \* bound: images written
    MaxUpsets,      \* bound: power cuts, other resets, restarts on request
    NULL

ASSUME BrakeAssumption ==
    /\ RESTART_TRACKER_BRAKE_STREAK \in Nat \ {0}
    /\ STREAK_MAX \in Nat
    /\ RESTART_TRACKER_BRAKE_STREAK <= STREAK_MAX
ASSUME BootBounds == MaxInstalls \in Nat /\ MaxUpsets \in Nat

Slots == {"ota_0", "ota_1"}
Other(s) == CHOOSE o \in Slots : o # s

\* Planned reasons: CONFIG_APPLY stands for every reason that is a milestone.
Reasons == {"OTA_APPLY", "OTA_ROLLBACK", "PARK_RETRY", "SAFE_MODE", "CONFIG_APPLY"}
ASSUME NoReason == NULL \notin Reasons

\* mutant of milestone_reason: the restart into the image counts as its run
milestone_reason_apply(reason) == reason \in {"CONFIG_APPLY", "OTA_APPLY"}

milestone_reason(reason) == reason = "CONFIG_APPLY"

VARIABLES
    otadata,    \* the slot to boot and the image state of each slot
    image,      \* per slot: the image's number, whether it is whole, whether it crashes
    rollbackBl, \* the bootloader was built with the rollback option
    record,     \* the job record in NVS
    brake,      \* rt_brake_state_t in RTC memory
    pending,    \* pending_restart in PSRAM
    phase,      \* how far this boot is
    crashed,    \* the chip was reset by the panic handler or a watchdog
    running,    \* the running slot
    verdict,    \* this boot's brake verdict
    latest,     \* this boot's history record: the planned reason, or NULL
    job,        \* the pull job, or the upload, of this run
    confirming, \* fwu_verify_now is between the record and the bootloader
    installs,   \* images written so far
    upsets,     \* upsets so far
    proved,     \* history: images with a settled, operated or confirmed run
    raced,      \* history: see UserRestarts; of the job that recorded last
    quick,      \* history: runs in a row that crashed before they settled
    oneTry      \* history: this boot is the one try of a park

vars == <<otadata, image, rollbackBl, record, brake, pending, phase, crashed, running,
          verdict, latest, job, confirming, installs, upsets, proved, raced, quick, oneTry>>
flashVars == <<otadata, image, record>>
bootVars == <<phase, crashed, running, verdict, latest>>
work == <<job, confirming>>
bounds == <<installs, upsets, rollbackBl>>
history == <<proved, raced, quick, oneTry>>

Me == image[running].id

----------------------------------------------------------------------------
(* restart_tracker_brake_core.c                                             *)

rt_brake_reset == [mode |-> "NORMAL", settled |-> FALSE, retry |-> FALSE, streak |-> 0]

\* mutant of bump: the counter does not saturate
bump_unbounded(n) == n + 1

bump(n) == IF n < STREAK_MAX THEN n + 1 ELSE n

\* The streak and the verdict of a boot, from how the run before it ended.
CrashedQuickly(crash) == crash /\ brake.mode = "NORMAL" /\ ~brake.settled

\* mutant of BootStreak: the park's retry starts the count again
BootStreak_retry_clears(crash) ==
    CASE CrashedQuickly(crash) -> bump(brake.streak)
      [] crash /\ brake.mode = "SAFE" -> 0
      [] ~crash -> 0
      [] OTHER -> brake.streak

BootStreak(crash) ==
    CASE CrashedQuickly(crash) -> bump(brake.streak)
      [] crash /\ brake.mode = "SAFE" -> 0
      [] ~crash /\ ~brake.retry -> 0
      [] OTHER -> brake.streak

BootVerdict(crash) ==
    CASE crash /\ brake.mode \in {"PARK", "PARK_BARE"} -> "PARK_BARE"
      [] CrashedQuickly(crash) /\ BootStreak(crash) >= RESTART_TRACKER_BRAKE_STREAK -> "PARK"
      [] OTHER -> "NORMAL"

rt_brake_boot(crash) ==
    /\ verdict' = BootVerdict(crash)
    /\ brake' = [mode |-> "NORMAL", settled |-> FALSE, retry |-> FALSE,
                 streak |-> BootStreak(crash)]

----------------------------------------------------------------------------
(* A reset and the way up.                                                  *)

Resets(crash) ==
    phase' = "reset" /\ crashed' = crash /\ job' = "none" /\ confirming' = FALSE

\* External: the second-stage bootloader picks the slot.  Built with the
\* rollback option it boots a new image pending and gives up one that is
\* still pending at the next reset.
Bootable(s) == image[s].whole /\ otadata.state[s] \notin {"invalid", "aborted"}

Bootloader ==
    /\ phase = "reset"
    /\ LET s == otadata.boot
           fallsBack == rollbackBl /\ otadata.state[s] = "pending"
           state == IF fallsBack THEN "aborted"
                    ELSE IF rollbackBl /\ otadata.state[s] = "new" THEN "pending"
                    ELSE otadata.state[s]
           boots == IF fallsBack \/ ~Bootable(s) THEN Other(s) ELSE s
       IN  /\ otadata' = [boot |-> boots, state |-> [otadata.state EXCEPT ![s] = state]]
           /\ running' = boots
    /\ phase' = "tracker"
    /\ UNCHANGED <<image, record, brake, pending, crashed, verdict, latest, work, bounds, history>>

\* restart_tracker_init: the planned reason of the run before, unless PSRAM
\* lost it, and the brake.  A crash that a restart had announced is no crash.
restart_tracker_init(psramLost) ==
    /\ phase = "tracker"
    /\ latest' = IF psramLost THEN NULL ELSE pending
    /\ pending' = NULL
    /\ rt_brake_boot(crashed /\ latest' = NULL)
    /\ phase' = "check"
    /\ oneTry' = brake.retry
    /\ UNCHANGED <<flashVars, crashed, running, work, bounds, proved, raced, quick>>

\* mutant of fwu_boot_decide: an image that did not boot is not noticed
fwu_boot_decide_no_failure ==
    CASE record.state # "REBOOTING" -> "NOTHING"
      [] record.state = "REBOOTING" /\ running # record.slot ->
            IF otadata.state[record.slot] \in {"invalid", "aborted"}
            THEN "ROLLED_BACK_BL" ELSE "NOTHING"
      [] OTHER ->
            IF record.layout \/ (latest # NULL /\ milestone_reason(latest)) THEN "VERIFIED"
            ELSE IF verdict # "NORMAL" THEN "ROLLBACK_APP"
            ELSE "KEEP_PENDING"

\* fwu_boot_decide on the record, the running slot and this boot's history.
fwu_boot_decide ==
    CASE record.state # "REBOOTING" -> "NOTHING"
      [] record.state = "REBOOTING" /\ running # record.slot ->
            IF otadata.state[record.slot] \in {"invalid", "aborted"}
            THEN "ROLLED_BACK_BL" ELSE "BOOT_FAILED"
      [] OTHER ->
            IF record.layout \/ (latest # NULL /\ milestone_reason(latest)) THEN "VERIFIED"
            ELSE IF verdict # "NORMAL" THEN "ROLLBACK_APP"
            ELSE "KEEP_PENDING"

Recorded(state) == record' = [record EXCEPT !.state = state]
\* confirm_job and esp_ota_mark_app_valid_cancel_rollback.
MarkedValid(s) ==
    IF otadata.state[s] \in {"valid", "undefined"} THEN otadata
    ELSE [otadata EXCEPT !.state[s] = "valid"]

\* The check of a boot that does not roll back.
BootCheck ==
    /\ phase = "check"
    /\ CASE fwu_boot_decide = "ROLLED_BACK_BL" -> Recorded("ROLLED_BACK")
         [] fwu_boot_decide = "BOOT_FAILED" -> Recorded("BOOT_FAILED")
         [] fwu_boot_decide = "VERIFIED" -> Recorded("VERIFIED")
         [] OTHER -> UNCHANGED record
    /\ fwu_boot_decide = "ROLLBACK_APP" => ~Bootable(Other(running))
    /\ phase' = IF fwu_boot_decide = "VERIFIED" THEN "confirm" ELSE "decided"
    /\ UNCHANGED <<otadata, image, brake, pending, crashed, running, verdict, latest, work, bounds,
                   history>>

\* VERIFIED is told to the bootloader once it is recorded.
BootConfirm ==
    /\ phase = "confirm"
    /\ otadata' = MarkedValid(running)
    /\ phase' = "decided"
    /\ UNCHANGED <<image, record, brake, pending, crashed, running, verdict, latest, work, bounds,
                   history>>

\* mutant of RollbackMark: the rollback's error is not looked at
RollbackMark_unchecked ==
    /\ phase = "check"
    /\ fwu_boot_decide = "ROLLBACK_APP"
    /\ otadata' = IF Bootable(Other(running))
                  THEN [boot |-> Other(running),
                        state |-> [otadata.state EXCEPT ![running] = "invalid"]]
                  ELSE otadata
    /\ phase' = "marked"
    /\ UNCHANGED <<image, record, brake, pending, crashed, running, verdict, latest, work, bounds,
                   history>>

\* esp_ota_mark_app_invalid_rollback, then the record, then the restart.
RollbackMark ==
    /\ phase = "check"
    /\ fwu_boot_decide = "ROLLBACK_APP"
    /\ Bootable(Other(running))
    /\ otadata' = [boot |-> Other(running),
                   state |-> [otadata.state EXCEPT ![running] = "invalid"]]
    /\ phase' = "marked"
    /\ UNCHANGED <<image, record, brake, pending, crashed, running, verdict, latest, work, bounds,
                   history>>

RollbackRecord ==
    /\ phase = "marked"
    /\ Recorded("ROLLED_BACK")
    /\ phase' = "rolled"
    /\ UNCHANGED <<otadata, image, brake, pending, crashed, running, verdict, latest, work, bounds,
                   history>>

RollbackRestart ==
    /\ phase = "rolled"
    /\ pending' = "OTA_ROLLBACK"
    /\ phase' = "going"
    /\ UNCHANGED <<flashVars, brake, crashed, running, verdict, latest, work, bounds, history>>

\* External: main obeys the verdict and declares park or safe mode.
Declares(mode) ==
    brake' = [brake EXCEPT !.mode = mode]

MainStart ==
    /\ phase = "decided"
    /\ CASE verdict # "NORMAL" -> Declares(verdict) /\ phase' = "park"
         [] verdict = "NORMAL" /\ latest = "SAFE_MODE" -> Declares("SAFE") /\ phase' = "safe"
         [] OTHER -> UNCHANGED brake /\ phase' = "run"
    /\ UNCHANGED <<flashVars, pending, crashed, running, verdict, latest, work, bounds, proved, raced,
                   quick, oneTry>>

BootStep ==
    \/ Bootloader \/ (\E lost \in BOOLEAN : restart_tracker_init(lost))
    \/ BootCheck \/ BootConfirm \/ RollbackMark \/ RollbackRecord \/ RollbackRestart \/ MainStart

----------------------------------------------------------------------------
(* The run.                                                                 *)

\* restart_tracker_settle, from main's loop or the milestone tick.
rt_brake_settle ==
    /\ phase = "run"
    /\ ~image[running].bad
    /\ ~brake.settled
    /\ brake' = [brake EXCEPT !.settled = TRUE, !.streak = 0]
    /\ proved' = proved \union {Me}
    /\ quick' = 0
    /\ UNCHANGED <<flashVars, pending, bootVars, work, bounds, raced, oneTry>>

\* fwu_verify_now up to the record; fwu_confirm_fn tells the bootloader.
fwu_verify_now ==
    /\ IF record.state = "REBOOTING" /\ running = record.slot
       THEN Recorded("VERIFIED") ELSE UNCHANGED record
    /\ confirming' = TRUE
    /\ UNCHANGED <<otadata, image, brake, pending, bootVars, job, bounds, raced, quick, oneTry>>

\* The task's tick, between two jobs.
milestone_tick ==
    /\ phase = "run"
    /\ job \in {"none", "recorded", "upload", "uploaded"}
    /\ ~confirming
    /\ record.state = "REBOOTING"
    /\ brake.settled
    /\ fwu_verify_now
    /\ UNCHANGED proved

\* fw_update_confirm: the user's word counts as the milestone.
fw_update_confirm ==
    /\ phase = "run"
    /\ ~confirming
    /\ fwu_verify_now
    /\ proved' = proved \union {Me}

fwu_confirm_fn ==
    /\ phase = "run"
    /\ confirming
    /\ otadata' = MarkedValid(running)
    /\ confirming' = FALSE
    /\ UNCHANGED <<image, record, brake, pending, bootVars, job, bounds, history>>

fw_update_forget ==
    /\ phase = "run"
    /\ upsets < MaxUpsets
    /\ upsets' = upsets + 1
    /\ record.state # "none"
    /\ Recorded("none")
    /\ UNCHANGED <<otadata, image, brake, pending, bootVars, work, installs, rollbackBl, history>>

\* mutant of SessionBegins: the running image is not confirmed first
SessionBegins_unconfirmed(next) ==
    /\ phase = "run"
    /\ job = "none"
    /\ installs < MaxInstalls
    /\ installs' = installs + 1
    /\ job' = next
    /\ image' = [image EXCEPT ![Other(running)] = [id |-> installs + 1, whole |-> FALSE, bad |-> FALSE]]
    /\ UNCHANGED <<otadata, record, brake, pending, bootVars, confirming, upsets, rollbackBl, history>>

\* A session of ota_manager: begin confirms the running image and the writes
\* spoil the one in the other slot; end makes that slot the one to boot.
SessionBegins(next) ==
    /\ phase = "run"
    /\ job = "none"
    /\ installs < MaxInstalls
    /\ installs' = installs + 1
    /\ job' = next
    /\ otadata' = MarkedValid(running)
    /\ image' = [image EXCEPT ![Other(running)] = [id |-> installs + 1, whole |-> FALSE, bad |-> FALSE]]
    /\ UNCHANGED <<record, brake, pending, bootVars, confirming, upsets, rollbackBl, history>>

begin_job == SessionBegins("pull") \/ SessionBegins("upload")

end_job(bad) ==
    /\ phase = "run"
    /\ job \in {"pull", "upload"}
    /\ image' = [image EXCEPT ![Other(running)].whole = TRUE, ![Other(running)].bad = bad]
    /\ otadata' = [boot |-> Other(running), state |-> [otadata.state EXCEPT ![Other(running)] = "new"]]
    /\ job' = IF job = "pull" THEN "activated" ELSE "uploaded"
    /\ UNCHANGED <<record, brake, pending, bootVars, confirming, bounds, history>>

SessionFails ==
    /\ phase = "run"
    /\ job \in {"pull", "upload"}
    /\ job' = "none"
    /\ UNCHANGED <<flashVars, brake, pending, bootVars, confirming, bounds, history>>

\* `the record first, then the restart`
PullRecords(layout) ==
    /\ phase = "run"
    /\ job = "activated"
    /\ record' = [state |-> "REBOOTING", slot |-> Other(running), layout |-> layout,
                  id |-> image[Other(running)].id]
    /\ job' = "recorded"
    /\ raced' = FALSE
    /\ UNCHANGED <<otadata, image, brake, pending, bootVars, confirming, bounds, proved, quick, oneTry>>

\* restart_tracker_restart: the pre-restart hook confirms the running image
\* unless the restart is a park's retry, and the reason is marked.
Plans(reason) ==
    /\ pending' = reason
    /\ otadata' = IF reason = "PARK_RETRY" THEN otadata ELSE MarkedValid(running)
    /\ brake' = IF reason = "PARK_RETRY" THEN [brake EXCEPT !.retry = TRUE] ELSE brake
    /\ phase' = "going"
    /\ UNCHANGED <<image, record, crashed, running, verdict, latest, work, installs, rollbackBl, quick, oneTry>>

\* The restart of the job, or of the upload's answer.
JobRestarts ==
    /\ phase = "run"
    /\ job \in {"recorded", "uploaded"}
    /\ Plans("OTA_APPLY")
    /\ UNCHANGED <<upsets, proved, raced>>

\* A restart somebody else asks for, in a run or in safe mode; an operated run
\* of this image.  `raced`: the reason is a milestone and was marked in the delay
\* between a job's record and that job's own restart, so that the next boot
\* check will find it beside a record that names the other slot.
UserRestarts(reason) ==
    /\ phase \in {"run", "safe"}
    /\ reason \in {"CONFIG_APPLY", "SAFE_MODE"}
    /\ upsets < MaxUpsets
    /\ upsets' = upsets + 1
    /\ Plans(reason)
    /\ proved' = IF milestone_reason(reason) THEN proved \union {Me} ELSE proved
    /\ raced' = (raced \/ (job = "recorded" /\ milestone_reason(reason)))

\* The park's timer or the button.
ParkRetries ==
    /\ phase = "park"
    /\ upsets < MaxUpsets
    /\ upsets' = upsets + 1
    /\ Plans("PARK_RETRY")
    /\ UNCHANGED <<proved, raced>>

Restarts ==
    /\ phase = "going"
    /\ Resets(FALSE)
    /\ quick' = IF brake.retry THEN quick ELSE 0
    /\ UNCHANGED <<flashVars, brake, pending, running, verdict, latest, bounds, proved,
                   raced, oneTry>>

----------------------------------------------------------------------------
(* What ends a run without being asked.                                     *)

\* A panic or a watchdog, anywhere after restart_tracker_init.
CrashPhases == {"check", "confirm", "marked", "rolled", "decided", "park", "safe", "run", "going"}

\* History: a crash that a restart had announced, or of a run that had
\* settled or was parked, is no quick crash.
QuickAfterCrash ==
    CASE pending # NULL -> IF brake.retry THEN quick ELSE 0
      [] pending = NULL /\ brake.mode = "SAFE" -> 0
      [] pending = NULL /\ brake.mode = "NORMAL" /\ ~brake.settled -> bump(quick)
      [] OTHER -> quick

Crash ==
    /\ phase \in CrashPhases
    /\ Resets(TRUE)
    /\ quick' = QuickAfterCrash
    /\ UNCHANGED <<flashVars, brake, pending, running, verdict, latest, installs, rollbackBl, proved, raced, oneTry>>

\* An image that crashes by itself does so.
BadImageCrashes == phase = "run" /\ image[running].bad /\ Crash /\ UNCHANGED upsets

\* Any other crash is an upset.
AnyCrash == upsets < MaxUpsets /\ upsets' = upsets + 1 /\ Crash

\* The EN pin or a brown-out: RTC memory and PSRAM are kept.
OtherReset ==
    /\ upsets < MaxUpsets
    /\ phase # "reset"
    /\ Resets(FALSE)
    /\ upsets' = upsets + 1
    /\ quick' = IF brake.retry THEN quick ELSE 0
    /\ UNCHANGED <<flashVars, brake, pending, running, verdict, latest, installs, rollbackBl, proved, raced, oneTry>>

\* The power is cycled: the brake's count and the pending restart are gone.
PowerCycle ==
    /\ upsets < MaxUpsets
    /\ Resets(FALSE)
    /\ upsets' = upsets + 1
    /\ brake' = rt_brake_reset
    /\ pending' = NULL
    /\ quick' = 0
    /\ UNCHANGED <<flashVars, running, verdict, latest, installs, rollbackBl,
                   proved, raced, oneTry>>

----------------------------------------------------------------------------
Init ==
    /\ otadata = [boot |-> "ota_0", state |-> [s \in Slots |-> IF s = "ota_0" THEN "valid"
                                                              ELSE "undefined"]]
    /\ image = [s \in Slots |-> [id |-> 0, whole |-> s = "ota_0", bad |-> FALSE]]
    /\ rollbackBl \in BOOLEAN
    /\ record = [state |-> "none", slot |-> "ota_0", layout |-> FALSE, id |-> 0]
    /\ brake = rt_brake_reset
    /\ pending = NULL
    /\ phase = "reset"
    /\ crashed = FALSE
    /\ running = "ota_0"
    /\ verdict = "NORMAL"
    /\ latest = NULL
    /\ job = "none"
    /\ confirming = FALSE
    /\ installs = 0
    /\ upsets = 0
    /\ proved = {}
    /\ raced = FALSE
    /\ quick = 0
    /\ oneTry = FALSE

RunStep ==
    \/ rt_brake_settle \/ milestone_tick \/ fwu_confirm_fn \/ JobRestarts \/ Restarts
    \/ BadImageCrashes
    \/ \E layout \in BOOLEAN : PullRecords(layout)
    \/ \E bad \in BOOLEAN : end_job(bad)
    \/ SessionFails

Next ==
    \/ BootStep
    \/ RunStep
    \/ begin_job
    \/ \E reason \in Reasons : UserRestarts(reason)
    \/ fw_update_confirm \/ fw_update_forget \/ ParkRetries
    \/ AnyCrash \/ OtherReset \/ PowerCycle

Spec == Init /\ [][Next]_vars

\* A boot goes on; a run settles or crashes; a job goes on whatever the
\* milestone tick does meanwhile (they are tasks of their own).
JobStep == JobRestarts \/ SessionFails \/ \E layout \in BOOLEAN : PullRecords(layout)

FairSpec ==
    Spec /\ WF_vars(BootStep) /\ WF_vars(RunStep) /\ WF_vars(JobStep) /\ WF_vars(rt_brake_settle)
         /\ WF_vars(milestone_tick)

----------------------------------------------------------------------------
TypeOK ==
    /\ otadata \in [boot : Slots,
                    state : [Slots -> {"undefined", "new", "pending", "valid", "invalid", "aborted"}]]
    /\ image \in [Slots -> [id : 0 .. MaxInstalls, whole : BOOLEAN, bad : BOOLEAN]]
    /\ rollbackBl \in BOOLEAN
    /\ record \in [state : {"none", "REBOOTING", "VERIFIED", "ROLLED_BACK", "BOOT_FAILED"},
                   slot : Slots, layout : BOOLEAN, id : 0 .. MaxInstalls]
    /\ brake \in [mode : {"NORMAL", "PARK", "PARK_BARE", "SAFE"}, settled : BOOLEAN,
                  retry : BOOLEAN, streak : 0 .. STREAK_MAX]
    /\ pending \in Reasons \union {NULL}
    /\ phase \in CrashPhases \union {"reset", "tracker"}
    /\ crashed \in BOOLEAN
    /\ running \in Slots
    /\ verdict \in {"NORMAL", "PARK", "PARK_BARE"}
    /\ latest \in Reasons \union {NULL}
    /\ job \in {"none", "pull", "activated", "recorded", "upload", "uploaded"}
    /\ confirming \in BOOLEAN
    /\ installs \in 0 .. MaxInstalls
    /\ upsets \in 0 .. MaxUpsets
    /\ proved \subseteq 0 .. MaxInstalls
    /\ raced \in BOOLEAN
    /\ quick \in 0 .. STREAK_MAX
    /\ oneTry \in BOOLEAN

\* The firmware is never started for ever: after RESTART_TRACKER_BRAKE_STREAK
\* quick crashes in a row no run starts, but for the one try of a park.
LoopIsBraked ==
    phase = "run" => quick < RESTART_TRACKER_BRAKE_STREAK \/ oneTry

\* An image whose job is recorded ROLLED_BACK does not run again, whatever
\* crashes, power cuts and later uploads follow, in either bootloader.
RolledBackStaysOut ==
    phase \in {"run", "park", "safe"} /\ record.state = "ROLLED_BACK"
        => image[running].id # record.id

\* The device is never bricked: wherever crashes and power cuts hit a session
\* or a rollback, what the bootloader ends up starting is a whole image that
\* neither it nor the application has given up (ota_manager.c, begin_job,
\* confirms the running image before it spoils the other slot).
BootsWholeImage ==
    phase \in {"tracker", "check", "confirm", "decided", "park", "safe", "run"}
        => Bootable(running)

\* What fwu_boot_decide says of its VERIFIED branch, `the previous run was
\* operated`, of that branch and of the milestone alike: VERIFIED is recorded only
\* of an image a run of which settled, was restarted on purpose or was confirmed
\* by hand (or whose job changed the partition layout).  The code does not have
\* it: fwu_restart_task only delays, and any task may restart meanwhile.
VerifiedMeansItRan ==
    record.state = "VERIFIED" => record.layout \/ record.id \in proved

\* VERIFIED is recorded of an image that never ran well in one case only: another
\* task's restart was marked in the delay of that job's own restart (`raced`).
\* In every other order of crashes, resets, rollbacks, uploads, restarts and
\* confirmations the image settled, was operated or was confirmed first.
VerifiedUnlessRaced == VerifiedMeansItRan \/ raced

\* Every update gets its outcome: a job recorded REBOOTING does not stay so,
\* unless the device ends up parked or in safe mode, where it waits for
\* somebody: the boot check and the milestone between them always decide.
OutcomeComes ==
    record.state = "REBOOTING" ~>
        record.state # "REBOOTING" \/ phase \in {"park", "safe"}
=============================================================================
