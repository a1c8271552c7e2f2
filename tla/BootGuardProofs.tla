-------------------------- MODULE BootGuardProofs --------------------------
(***************************************************************************)
(* The brake and the boot check for any streak, any number of images and   *)
(* any number of upsets.                                                   *)
(***************************************************************************)
EXTENDS BootGuard, TLAPS

FlashOK ==
    /\ otadata \in [boot : Slots,
                    state : [Slots -> {"undefined", "new", "pending", "valid", "invalid", "aborted"}]]
    /\ rollbackBl \in BOOLEAN
    /\ running \in Slots
ImageOK ==
    /\ image \in [Slots -> [id : 0 .. MaxInstalls, whole : BOOLEAN, bad : BOOLEAN]]
    /\ record \in [state : {"none", "REBOOTING", "VERIFIED", "ROLLED_BACK", "BOOT_FAILED"},
                   slot : Slots, layout : BOOLEAN, id : 0 .. MaxInstalls]
    /\ installs \in 0 .. MaxInstalls
    /\ proved \subseteq 0 .. MaxInstalls
    /\ raced \in BOOLEAN
BrakeOK ==
    /\ brake \in [mode : {"NORMAL", "PARK", "PARK_BARE", "SAFE"}, settled : BOOLEAN,
                  retry : BOOLEAN, streak : 0 .. STREAK_MAX]
    /\ verdict \in {"NORMAL", "PARK", "PARK_BARE"}
    /\ quick \in 0 .. STREAK_MAX
    /\ oneTry \in BOOLEAN
RunOK ==
    /\ pending \in Reasons \union {NULL}
    /\ phase \in CrashPhases \union {"reset", "tracker"}
    /\ crashed \in BOOLEAN
    /\ latest \in Reasons \union {NULL}
    /\ job \in {"none", "pull", "activated", "recorded", "upload", "uploaded"}
    /\ confirming \in BOOLEAN
    /\ upsets \in 0 .. MaxUpsets

Up == phase \notin {"reset", "tracker"}

\* A restart is announced on the way down only, a retry out of a park only.
Announced ==
    /\ Up /\ phase # "going" => pending = NULL
    /\ phase = "going" => pending # NULL
    /\ brake.retry => brake.mode \in {"PARK", "PARK_BARE"}
    /\ brake.retry /\ Up => phase = "going"
    /\ phase = "park" => brake.mode \in {"PARK", "PARK_BARE"}
    /\ brake.settled => brake.streak = 0
    /\ brake.settled /\ Up => phase \in {"run", "going"}

\* The brake's count keeps up with the quick crashes: already in a run, and
\* on the way up once restart_tracker_init has counted.
CountKeepsUp ==
    IF Up THEN quick <= brake.streak
    ELSE /\ quick <= BootStreak(crashed)
         /\ crashed /\ pending # NULL => quick <= BootStreak(FALSE)

\* A boot whose verdict is NORMAL has a count below the limit or is a try.
VerdictBrakes ==
    Up => /\ verdict = "NORMAL" => brake.streak < RESTART_TRACKER_BRAKE_STREAK \/ oneTry
          /\ phase = "run" => verdict = "NORMAL"

IInv == FlashOK /\ ImageOK /\ BrakeOK /\ RunOK /\ Announced /\ CountKeepsUp /\ VerdictBrakes

\* The job's record names an image that is still there, and in the run that
\* image is the running one, unless the job is about to restart into it.
RecordNamesImage == record.state = "REBOOTING" => image[record.slot].id = record.id
RunningIsRecorded ==
    Up /\ phase # "check" /\ record.state = "REBOOTING"
        => running = record.slot \/ (job = "recorded" /\ phase \in {"run", "going"})

\* A milestone that is still to be read at the next boot was reached by the
\* recorded image, or marked in the delay of the job's own restart, and a settled
\* run proves the running one.
MilestoneWasReached ==
    /\ record.state = "REBOOTING"
         /\ (pending = "CONFIG_APPLY" \/ (phase = "check" /\ latest = "CONFIG_APPLY"))
         => record.id \in proved \/ raced
    /\ phase = "run" /\ brake.settled => Me \in proved

RecordInv == RecordNamesImage /\ RunningIsRecorded
RInv == RecordInv /\ MilestoneWasReached /\ VerifiedUnlessRaced

\* A whole image that esp_ota does not regard as new, tried or given up, and
\* one the bootloader still has to try or to confirm.
Solid(s) == image[s].whole /\ otadata.state[s] \in {"undefined", "valid"}
Untried(s) == otadata.state[s] \in {"new", "pending"}
GivenUp(s) == otadata.state[s] \in {"invalid", "aborted"}

\* There is always an image to fall back to, and only the slot to boot can
\* hold an untried one.
SomeSolid == \E s \in Slots : Solid(s)
UntriedBoots == \A s \in Slots : Untried(s) => image[s].whole /\ otadata.boot = s

\* From the bootloader's choice on, unless it has been given up, the running
\* image is bootable; until a job ends it is also the one that boots next.
RunningBoots ==
    /\ job # "none" => phase \in {"run", "going"}
    /\ BootsWholeImage
    /\ phase \in {"tracker", "check", "confirm", "decided", "park", "safe", "run"} =>
          /\ job \in {"none", "pull", "upload"} => otadata.boot = running
          /\ job \in {"pull", "upload"} => ~Untried(running)

SlotInv == SomeSolid /\ UntriedBoots /\ RunningBoots

\* An image's number is its own, and the record's is one that was given out.
IdsDiffer ==
    /\ \A s \in Slots : image[s].id <= installs
    /\ \A s, t \in Slots : image[s].id = image[t].id => s = t \/ image[s].id = 0
    /\ record.id <= installs
    /\ phase = "run" /\ job \in {"pull", "activated"} => image[Other(running)].id > 0
    /\ record.state = "REBOOTING" => record.id > 0

\* The rollback is recorded of the running, given-up image.
MarkedIsRecorded ==
    phase = "marked" => record.state = "REBOOTING" /\ running = record.slot /\ GivenUp(running)

\* Wherever an image that was rolled back still lies, its slot is given up.
RolledOut ==
    record.state = "ROLLED_BACK" =>
        /\ \A s \in Slots : image[s].id = record.id => GivenUp(s)
        /\ phase = "run" /\ job \in {"pull", "upload"} => image[Other(running)].id # record.id

OutInv == IdsDiffer /\ MarkedIsRecorded /\ RolledOut

----------------------------------------------------------------------------
LEMMA Constants ==
    /\ RESTART_TRACKER_BRAKE_STREAK \in Nat /\ RESTART_TRACKER_BRAKE_STREAK > 0
    /\ STREAK_MAX \in Nat /\ RESTART_TRACKER_BRAKE_STREAK <= STREAK_MAX
    /\ MaxInstalls \in Nat /\ MaxUpsets \in Nat
    /\ NULL \notin Reasons
  BY BrakeAssumption, BootBounds, NoReason

LEMMA OtherSlot == \A s \in Slots : Other(s) \in Slots /\ Other(s) # s
<1>. SUFFICES ASSUME NEW s \in Slots
              PROVE  Other(s) \in Slots /\ Other(s) # s
  OBVIOUS
<1>1. \E x \in Slots : x # s
  BY DEF Slots
<1>2. QED
  BY <1>1 DEF Other

LEMMA TwoSlots == \A s, t \in Slots : t = s \/ t = Other(s)
  BY OtherSlot DEF Slots

\* The saturating counter stays in its width and never falls.
LEMMA BumpFacts ==
    \A n \in 0 .. STREAK_MAX :
        /\ bump(n) \in 0 .. STREAK_MAX
        /\ n <= bump(n)
        /\ \A k \in 0 .. STREAK_MAX : k <= n => bump(k) <= bump(n)
  BY Constants DEF bump

LEMMA StreakType ==
    ASSUME BrakeOK, NEW c \in BOOLEAN
    PROVE  BootStreak(c) \in 0 .. STREAK_MAX /\ BootVerdict(c) \in {"NORMAL", "PARK", "PARK_BARE"}
<1>1. brake.streak \in 0 .. STREAK_MAX /\ 0 \in 0 .. STREAK_MAX
  BY Constants DEF BrakeOK
<1>2. BootStreak(c) \in 0 .. STREAK_MAX
  BY <1>1, BumpFacts DEF BootStreak, CrashedQuickly
<1>3. QED
  BY <1>2 DEF BootVerdict

LEMMA MarkedType ==
    ASSUME FlashOK, NEW s \in Slots
    PROVE  MarkedValid(s) \in [boot : Slots,
              state : [Slots -> {"undefined", "new", "pending", "valid", "invalid", "aborted"}]]
  BY DEF FlashOK, MarkedValid

LEMMA QuickType ==
    ASSUME BrakeOK
    PROVE  QuickAfterCrash \in 0 .. STREAK_MAX
<1>1. 0 \in 0 .. STREAK_MAX /\ quick \in 0 .. STREAK_MAX
  BY Constants DEF BrakeOK
<1>2. bump(quick) \in 0 .. STREAK_MAX
  BY <1>1, BumpFacts
<1>3. QED
  BY <1>1, <1>2 DEF QuickAfterCrash, BrakeOK

\* otadata.
LEMMA NextFlash ==
    ASSUME IInv, [Next]_vars
    PROVE  FlashOK'
<1>u. CASE UNCHANGED vars
  BY <1>u DEF vars, FlashOK, IInv
<1>1. CASE Bootloader
  BY <1>1, OtherSlot DEF Bootloader, bounds, FlashOK, IInv
<1>2. ASSUME NEW b \in BOOLEAN, restart_tracker_init(b)
      PROVE  FlashOK'
  BY <1>2 DEF restart_tracker_init, flashVars, bounds, FlashOK, IInv
<1>3. CASE BootCheck
  BY <1>3 DEF BootCheck, bounds, FlashOK, IInv
<1>4. CASE BootConfirm
  BY <1>4 DEF BootConfirm, MarkedValid, bounds, FlashOK, IInv
<1>5. CASE RollbackMark
  BY <1>5, OtherSlot DEF RollbackMark, bounds, FlashOK, IInv
<1>6. CASE RollbackRecord
  BY <1>6 DEF RollbackRecord, bounds, FlashOK, IInv
<1>7. CASE RollbackRestart
  BY <1>7 DEF RollbackRestart, flashVars, bounds, FlashOK, IInv
<1>8. CASE MainStart
  BY <1>8 DEF MainStart, flashVars, bounds, FlashOK, IInv
<1>9. CASE rt_brake_settle
  BY <1>9 DEF rt_brake_settle, flashVars, bootVars, bounds, FlashOK, IInv
<1>10. CASE milestone_tick
  BY <1>10 DEF milestone_tick, fwu_verify_now, bootVars, bounds, FlashOK, IInv
<1>11. CASE fwu_confirm_fn
  BY <1>11 DEF fwu_confirm_fn, MarkedValid, bootVars, bounds, FlashOK, IInv
<1>12. CASE JobRestarts
  BY <1>12 DEF JobRestarts, Plans, MarkedValid, FlashOK, IInv
<1>13. CASE Restarts
  BY <1>13 DEF Restarts, flashVars, bounds, FlashOK, IInv
<1>14. CASE BadImageCrashes
  BY <1>14 DEF BadImageCrashes, Crash, flashVars, FlashOK, IInv
<1>15. ASSUME NEW b \in BOOLEAN, PullRecords(b)
      PROVE  FlashOK'
  BY <1>15 DEF PullRecords, bootVars, bounds, FlashOK, IInv
<1>16. ASSUME NEW b \in BOOLEAN, end_job(b)
      PROVE  FlashOK'
  BY <1>16, OtherSlot DEF end_job, bootVars, bounds, FlashOK, IInv
<1>17. CASE SessionFails
  BY <1>17 DEF SessionFails, flashVars, bootVars, bounds, FlashOK, IInv
<1>18. CASE begin_job
  BY <1>18 DEF begin_job, SessionBegins, MarkedValid, bootVars, FlashOK, IInv
<1>19. ASSUME NEW r \in Reasons, UserRestarts(r)
      PROVE  FlashOK'
  BY <1>19 DEF UserRestarts, Plans, MarkedValid, FlashOK, IInv
<1>20. CASE fw_update_confirm
  BY <1>20 DEF fw_update_confirm, fwu_verify_now, bootVars, bounds, FlashOK, IInv
<1>21. CASE fw_update_forget
  BY <1>21 DEF fw_update_forget, bootVars, FlashOK, IInv
<1>22. CASE ParkRetries
  BY <1>22 DEF ParkRetries, Plans, FlashOK, IInv
<1>23. CASE AnyCrash
  BY <1>23 DEF AnyCrash, Crash, flashVars, FlashOK, IInv
<1>24. CASE OtherReset
  BY <1>24 DEF OtherReset, flashVars, FlashOK, IInv
<1>25. CASE PowerCycle
  BY <1>25 DEF PowerCycle, flashVars, FlashOK, IInv
<1>q. QED
  BY <1>u, <1>1, <1>2, <1>3, <1>4, <1>5, <1>6, <1>7, <1>8, <1>9, <1>10, <1>11, <1>12, <1>13, <1>14, <1>15, <1>16, <1>17, <1>18, <1>19, <1>20, <1>21, <1>22, <1>23, <1>24, <1>25
     DEF Next, BootStep, RunStep

\* The images and the record.
LEMMA NextImage ==
    ASSUME IInv, [Next]_vars
    PROVE  ImageOK'
<1>u. CASE UNCHANGED vars
  BY <1>u DEF vars, ImageOK, FlashOK, IInv
<1>1. CASE Bootloader
  BY <1>1 DEF Bootloader, bounds, history, ImageOK, IInv
<1>2. ASSUME NEW b \in BOOLEAN, restart_tracker_init(b)
      PROVE  ImageOK'
  BY <1>2 DEF restart_tracker_init, flashVars, bounds, ImageOK, IInv
<1>3. CASE BootCheck
  BY <1>3 DEF BootCheck, Recorded, bounds, history, ImageOK, IInv
<1>4. CASE BootConfirm
  BY <1>4 DEF BootConfirm, bounds, history, ImageOK, IInv
<1>5. CASE RollbackMark
  BY <1>5 DEF RollbackMark, bounds, history, ImageOK, IInv
<1>6. CASE RollbackRecord
  BY <1>6 DEF RollbackRecord, Recorded, bounds, history, ImageOK, IInv
<1>7. CASE RollbackRestart
  BY <1>7 DEF RollbackRestart, flashVars, bounds, history, ImageOK, IInv
<1>8. CASE MainStart
  BY <1>8 DEF MainStart, flashVars, bounds, ImageOK, IInv
<1>9. CASE rt_brake_settle
  <2>1. Me \in 0 .. MaxInstalls
    BY DEF Me, ImageOK, FlashOK, IInv
  <2>2. QED
    BY <1>9, <2>1 DEF rt_brake_settle, ImageOK, FlashOK, flashVars, bounds, IInv
<1>10. CASE milestone_tick
  BY <1>10 DEF milestone_tick, fwu_verify_now, Recorded, bounds, ImageOK, IInv
<1>11. CASE fwu_confirm_fn
  BY <1>11 DEF fwu_confirm_fn, bounds, history, ImageOK, IInv
<1>12. CASE JobRestarts
  BY <1>12 DEF JobRestarts, Plans, ImageOK, IInv
<1>13. CASE Restarts
  BY <1>13 DEF Restarts, flashVars, bounds, ImageOK, IInv
<1>14. CASE BadImageCrashes
  BY <1>14 DEF BadImageCrashes, Crash, flashVars, ImageOK, IInv
<1>15. ASSUME NEW b \in BOOLEAN, PullRecords(b)
      PROVE  ImageOK'
  BY <1>15, OtherSlot DEF PullRecords, bounds, history, ImageOK, FlashOK, IInv
<1>16. ASSUME NEW b \in BOOLEAN, end_job(b)
      PROVE  ImageOK'
  <2>1. Other(running) \in Slots
    BY OtherSlot DEF FlashOK, IInv
  <2>2. image' = [image EXCEPT ![Other(running)] = [image[Other(running)] EXCEPT !.whole = TRUE, !.bad = b]]
    BY <1>16 DEF end_job, ImageOK, IInv
  <2>3. image'  \in [Slots -> [id : 0 .. MaxInstalls, whole : BOOLEAN, bad : BOOLEAN]]
    BY <2>1, <2>2 DEF ImageOK, IInv
  <2>4. QED
    BY <1>16, <2>3 DEF end_job, ImageOK, bounds, history, IInv
<1>17. CASE SessionFails
  BY <1>17 DEF SessionFails, flashVars, bounds, history, ImageOK, IInv
<1>18. CASE begin_job
  <2>1. installs' = installs + 1 /\ installs' \in 0 .. MaxInstalls
    BY <1>18, Constants DEF begin_job, SessionBegins, ImageOK, IInv
  <2>2. image' = [image EXCEPT ![Other(running)] = [id |-> installs', whole |-> FALSE, bad |-> FALSE]]
    BY <1>18, <2>1 DEF begin_job, SessionBegins
  <2>3. image'  \in [Slots -> [id : 0 .. MaxInstalls, whole : BOOLEAN, bad : BOOLEAN]]
    BY <2>1, <2>2 DEF ImageOK, IInv
  <2>4. QED
    BY <1>18, <2>1, <2>3 DEF begin_job, SessionBegins, ImageOK, history, IInv
<1>19. ASSUME NEW r \in Reasons, UserRestarts(r)
      PROVE  ImageOK'
  <2>1. Me \in 0 .. MaxInstalls
    BY DEF Me, ImageOK, FlashOK, IInv
  <2>2. QED
    BY <1>19, <2>1 DEF UserRestarts, Plans, ImageOK, IInv
<1>20. CASE fw_update_confirm
  <2>1. Me \in 0 .. MaxInstalls
    BY DEF Me, ImageOK, FlashOK, IInv
  <2>2. QED
    BY <1>20, <2>1 DEF fw_update_confirm, fwu_verify_now, Recorded, ImageOK, bounds, IInv
<1>21. CASE fw_update_forget
  BY <1>21 DEF fw_update_forget, Recorded, history, ImageOK, IInv
<1>22. CASE ParkRetries
  BY <1>22 DEF ParkRetries, Plans, ImageOK, IInv
<1>23. CASE AnyCrash
  BY <1>23 DEF AnyCrash, Crash, flashVars, ImageOK, IInv
<1>24. CASE OtherReset
  BY <1>24 DEF OtherReset, flashVars, ImageOK, IInv
<1>25. CASE PowerCycle
  BY <1>25 DEF PowerCycle, flashVars, ImageOK, IInv
<1>q. QED
  BY <1>u, <1>1, <1>2, <1>3, <1>4, <1>5, <1>6, <1>7, <1>8, <1>9, <1>10, <1>11, <1>12, <1>13, <1>14, <1>15, <1>16, <1>17, <1>18, <1>19, <1>20, <1>21, <1>22, <1>23, <1>24, <1>25
     DEF Next, BootStep, RunStep

\* The brake.
LEMMA NextBrake ==
    ASSUME IInv, [Next]_vars
    PROVE  BrakeOK'
<1>u. CASE UNCHANGED vars
  BY <1>u DEF vars, BrakeOK, RunOK, IInv
<1>1. CASE Bootloader
  BY <1>1 DEF Bootloader, history, BrakeOK, IInv
<1>2. ASSUME NEW b \in BOOLEAN, restart_tracker_init(b)
      PROVE  BrakeOK'
  <2>1. PICK c \in BOOLEAN : rt_brake_boot(c)
    BY <1>2 DEF restart_tracker_init, RunOK, IInv
  <2>2. BootStreak(c) \in 0 .. STREAK_MAX /\ BootVerdict(c) \in {"NORMAL", "PARK", "PARK_BARE"}
    BY StreakType DEF IInv
  <2>3. QED
    BY <1>2, <2>1, <2>2 DEF restart_tracker_init, rt_brake_boot, BrakeOK, IInv
<1>3. CASE BootCheck
  BY <1>3 DEF BootCheck, history, BrakeOK, IInv
<1>4. CASE BootConfirm
  BY <1>4 DEF BootConfirm, history, BrakeOK, IInv
<1>5. CASE RollbackMark
  BY <1>5 DEF RollbackMark, history, BrakeOK, IInv
<1>6. CASE RollbackRecord
  BY <1>6 DEF RollbackRecord, history, BrakeOK, IInv
<1>7. CASE RollbackRestart
  BY <1>7 DEF RollbackRestart, history, BrakeOK, IInv
<1>8. CASE MainStart
  BY <1>8 DEF MainStart, Declares, BrakeOK, IInv
<1>9. CASE rt_brake_settle
  <2>1. 0 \in 0 .. STREAK_MAX
    BY Constants
  <2>2. QED
    BY <1>9, <2>1 DEF rt_brake_settle, bootVars, BrakeOK, IInv
<1>10. CASE milestone_tick
  BY <1>10 DEF milestone_tick, fwu_verify_now, bootVars, BrakeOK, IInv
<1>11. CASE fwu_confirm_fn
  BY <1>11 DEF fwu_confirm_fn, bootVars, history, BrakeOK, IInv
<1>12. CASE JobRestarts
  BY <1>12 DEF JobRestarts, Plans, BrakeOK, IInv
<1>13. CASE Restarts
  BY <1>13, Constants DEF Restarts, BrakeOK, IInv
<1>14. CASE BadImageCrashes
  BY <1>14, QuickType DEF BadImageCrashes, Crash, BrakeOK, IInv
<1>15. ASSUME NEW b \in BOOLEAN, PullRecords(b)
      PROVE  BrakeOK'
  BY <1>15 DEF PullRecords, bootVars, history, BrakeOK, IInv
<1>16. ASSUME NEW b \in BOOLEAN, end_job(b)
      PROVE  BrakeOK'
  BY <1>16 DEF end_job, bootVars, history, BrakeOK, IInv
<1>17. CASE SessionFails
  BY <1>17 DEF SessionFails, bootVars, history, BrakeOK, IInv
<1>18. CASE begin_job
  BY <1>18 DEF begin_job, SessionBegins, bootVars, history, BrakeOK, IInv
<1>19. ASSUME NEW r \in Reasons, UserRestarts(r)
      PROVE  BrakeOK'
  BY <1>19 DEF UserRestarts, Plans, BrakeOK, IInv
<1>20. CASE fw_update_confirm
  BY <1>20 DEF fw_update_confirm, fwu_verify_now, bootVars, BrakeOK, IInv
<1>21. CASE fw_update_forget
  BY <1>21 DEF fw_update_forget, bootVars, history, BrakeOK, IInv
<1>22. CASE ParkRetries
  BY <1>22 DEF ParkRetries, Plans, BrakeOK, IInv
<1>23. CASE AnyCrash
  BY <1>23, QuickType DEF AnyCrash, Crash, BrakeOK, IInv
<1>24. CASE OtherReset
  BY <1>24, Constants DEF OtherReset, BrakeOK, IInv
<1>25. CASE PowerCycle
  BY <1>25, Constants DEF PowerCycle, rt_brake_reset, BrakeOK, IInv
<1>q. QED
  BY <1>u, <1>1, <1>2, <1>3, <1>4, <1>5, <1>6, <1>7, <1>8, <1>9, <1>10, <1>11, <1>12, <1>13, <1>14, <1>15, <1>16, <1>17, <1>18, <1>19, <1>20, <1>21, <1>22, <1>23, <1>24, <1>25
     DEF Next, BootStep, RunStep

\* The boot and the run.
LEMMA NextRun ==
    ASSUME IInv, [Next]_vars
    PROVE  RunOK'
<1>u. CASE UNCHANGED vars
  BY <1>u DEF vars, RunOK, CrashPhases, Reasons, IInv
<1>1. CASE Bootloader
  BY <1>1 DEF Bootloader, work, bounds, RunOK, IInv
<1>2. ASSUME NEW b \in BOOLEAN, restart_tracker_init(b)
      PROVE  RunOK'
  BY <1>2 DEF restart_tracker_init, work, bounds, RunOK, CrashPhases, IInv
<1>3. CASE BootCheck
  BY <1>3 DEF BootCheck, work, bounds, RunOK, CrashPhases, IInv
<1>4. CASE BootConfirm
  BY <1>4 DEF BootConfirm, work, bounds, RunOK, CrashPhases, IInv
<1>5. CASE RollbackMark
  BY <1>5 DEF RollbackMark, work, bounds, RunOK, CrashPhases, IInv
<1>6. CASE RollbackRecord
  BY <1>6 DEF RollbackRecord, work, bounds, RunOK, CrashPhases, IInv
<1>7. CASE RollbackRestart
  BY <1>7 DEF RollbackRestart, work, bounds, RunOK, CrashPhases, Reasons, IInv
<1>8. CASE MainStart
  BY <1>8 DEF MainStart, work, bounds, RunOK, CrashPhases, IInv
<1>9. CASE rt_brake_settle
  BY <1>9 DEF rt_brake_settle, bootVars, work, bounds, RunOK, IInv
<1>10. CASE milestone_tick
  BY <1>10 DEF milestone_tick, fwu_verify_now, bootVars, bounds, RunOK, IInv
<1>11. CASE fwu_confirm_fn
  BY <1>11 DEF fwu_confirm_fn, bootVars, bounds, RunOK, IInv
<1>12. CASE JobRestarts
  BY <1>12 DEF JobRestarts, Plans, work, RunOK, CrashPhases, Reasons, IInv
<1>13. CASE Restarts
  BY <1>13 DEF Restarts, Resets, bounds, RunOK, IInv
<1>14. CASE BadImageCrashes
  BY <1>14 DEF BadImageCrashes, Crash, Resets, RunOK, IInv
<1>15. ASSUME NEW b \in BOOLEAN, PullRecords(b)
      PROVE  RunOK'
  BY <1>15 DEF PullRecords, bootVars, bounds, RunOK, IInv
<1>16. ASSUME NEW b \in BOOLEAN, end_job(b)
      PROVE  RunOK'
  BY <1>16 DEF end_job, bootVars, bounds, RunOK, IInv
<1>17. CASE SessionFails
  BY <1>17 DEF SessionFails, bootVars, bounds, RunOK, IInv
<1>18. CASE begin_job
  BY <1>18 DEF begin_job, SessionBegins, bootVars, RunOK, IInv
<1>19. ASSUME NEW r \in Reasons, UserRestarts(r)
      PROVE  RunOK'
  BY <1>19, Constants DEF UserRestarts, Plans, work, RunOK, CrashPhases, IInv
<1>20. CASE fw_update_confirm
  BY <1>20 DEF fw_update_confirm, fwu_verify_now, bootVars, bounds, RunOK, IInv
<1>21. CASE fw_update_forget
  BY <1>21, Constants DEF fw_update_forget, bootVars, work, RunOK, IInv
<1>22. CASE ParkRetries
  BY <1>22, Constants DEF ParkRetries, Plans, work, RunOK, CrashPhases, Reasons, IInv
<1>23. CASE AnyCrash
  <2>1. upsets' \in 0 .. MaxUpsets
    BY <1>23, Constants DEF AnyCrash, RunOK, IInv
  <2>2. QED
    BY <1>23, <2>1 DEF AnyCrash, Crash, Resets, CrashPhases, RunOK, IInv
<1>24. CASE OtherReset
  <2>1. upsets' \in 0 .. MaxUpsets
    BY <1>24, Constants DEF OtherReset, RunOK, IInv
  <2>2. QED
    BY <1>24, <2>1 DEF OtherReset, Resets, CrashPhases, RunOK, IInv
<1>25. CASE PowerCycle
  <2>1. upsets' \in 0 .. MaxUpsets
    BY <1>25, Constants DEF PowerCycle, RunOK, IInv
  <2>2. QED
    BY <1>25, <2>1 DEF PowerCycle, Resets, rt_brake_reset, CrashPhases, RunOK, IInv
<1>q. QED
  BY <1>u, <1>1, <1>2, <1>3, <1>4, <1>5, <1>6, <1>7, <1>8, <1>9, <1>10, <1>11, <1>12, <1>13, <1>14, <1>15, <1>16, <1>17, <1>18, <1>19, <1>20, <1>21, <1>22, <1>23, <1>24, <1>25
     DEF Next, BootStep, RunStep

\* What a restart announces.
LEMMA NextAnnounced ==
    ASSUME IInv, [Next]_vars
    PROVE  Announced'
<1>u. CASE UNCHANGED vars
  BY <1>u DEF vars, Announced, Up, IInv
<1>1. CASE Bootloader
  BY <1>1 DEF Bootloader, Announced, Up, IInv
<1>2. ASSUME NEW b \in BOOLEAN, restart_tracker_init(b)
      PROVE  Announced'
  BY <1>2 DEF restart_tracker_init, rt_brake_boot, Announced
<1>3. CASE BootCheck
  BY <1>3 DEF BootCheck, Announced, Up, IInv
<1>4. CASE BootConfirm
  BY <1>4 DEF BootConfirm, Announced, Up, IInv
<1>5. CASE RollbackMark
  BY <1>5 DEF RollbackMark, Announced, Up, IInv
<1>6. CASE RollbackRecord
  BY <1>6 DEF RollbackRecord, Announced, Up, IInv
<1>7. CASE RollbackRestart
  BY <1>7, Constants DEF RollbackRestart, Announced, Reasons, IInv
<1>8. CASE MainStart
  BY <1>8 DEF MainStart, Declares, BrakeOK, Announced, Up, IInv
<1>9. CASE rt_brake_settle
  BY <1>9 DEF rt_brake_settle, bootVars, Announced, Up, IInv
<1>10. CASE milestone_tick
  BY <1>10 DEF milestone_tick, fwu_verify_now, bootVars, Announced, Up, IInv
<1>11. CASE fwu_confirm_fn
  BY <1>11 DEF fwu_confirm_fn, bootVars, Announced, Up, IInv
<1>12. CASE JobRestarts
  BY <1>12, Constants DEF JobRestarts, Plans, Announced, Reasons, IInv
<1>13. CASE Restarts
  BY <1>13 DEF Restarts, Resets, Announced, Up, IInv
<1>14. CASE BadImageCrashes
  BY <1>14 DEF BadImageCrashes, Crash, Resets, Announced, Up, IInv
<1>15. ASSUME NEW b \in BOOLEAN, PullRecords(b)
      PROVE  Announced'
  BY <1>15 DEF PullRecords, bootVars, Announced, Up, IInv
<1>16. ASSUME NEW b \in BOOLEAN, end_job(b)
      PROVE  Announced'
  BY <1>16 DEF end_job, bootVars, Announced, Up, IInv
<1>17. CASE SessionFails
  BY <1>17 DEF SessionFails, bootVars, Announced, Up, IInv
<1>18. CASE begin_job
  BY <1>18 DEF begin_job, SessionBegins, bootVars, Announced, Up, IInv
<1>19. ASSUME NEW r \in Reasons, UserRestarts(r)
      PROVE  Announced'
  BY <1>19, Constants DEF UserRestarts, Plans, Announced, IInv
<1>20. CASE fw_update_confirm
  BY <1>20 DEF fw_update_confirm, fwu_verify_now, bootVars, Announced, Up, IInv
<1>21. CASE fw_update_forget
  BY <1>21 DEF fw_update_forget, bootVars, Announced, Up, IInv
<1>22. CASE ParkRetries
  <2>1. /\ phase = "park" /\ phase' = "going" /\ pending' = "PARK_RETRY"
        /\ brake' = [brake EXCEPT !.retry = TRUE]
    BY <1>22 DEF ParkRetries, Plans
  <2>2. "PARK_RETRY" # NULL
    BY Constants DEF Reasons
  <2>3. brake.mode \in {"PARK", "PARK_BARE"}
    BY <2>1 DEF Announced, Up, IInv
  <2>4. QED
    BY <2>1, <2>2, <2>3 DEF Announced, Up, BrakeOK, IInv
<1>23. CASE AnyCrash
  BY <1>23 DEF AnyCrash, Crash, Resets, Announced, Up, IInv
<1>24. CASE OtherReset
  BY <1>24 DEF OtherReset, Resets, Announced, Up, IInv
<1>25. CASE PowerCycle
  BY <1>25 DEF PowerCycle, Resets, rt_brake_reset, Announced
<1>q. QED
  BY <1>u, <1>1, <1>2, <1>3, <1>4, <1>5, <1>6, <1>7, <1>8, <1>9, <1>10, <1>11, <1>12, <1>13, <1>14, <1>15, <1>16, <1>17, <1>18, <1>19, <1>20, <1>21, <1>22, <1>23, <1>24, <1>25
     DEF Next, BootStep, RunStep

\* What a NORMAL verdict means.
LEMMA NextVerdict ==
    ASSUME IInv, [Next]_vars
    PROVE  VerdictBrakes'
<1>u. CASE UNCHANGED vars
  BY <1>u DEF vars, VerdictBrakes, Up, IInv
<1>1. CASE Bootloader
  BY <1>1 DEF Bootloader, VerdictBrakes, Up
<1>2. ASSUME NEW b \in BOOLEAN, restart_tracker_init(b)
      PROVE  VerdictBrakes'
  <2>1. PICK c \in BOOLEAN : rt_brake_boot(c)
    BY <1>2 DEF restart_tracker_init, RunOK, IInv
  <2>2. oneTry' = brake.retry /\ phase' = "check" /\ brake'.streak = BootStreak(c) /\ verdict' = BootVerdict(c)
    BY <1>2, <2>1 DEF restart_tracker_init, rt_brake_boot
  <2>3. brake.streak \in 0 .. STREAK_MAX /\ BootStreak(c) \in 0 .. STREAK_MAX
    BY StreakType DEF BrakeOK, IInv
  <2>4. BootVerdict(c) = "NORMAL" => BootStreak(c) < RESTART_TRACKER_BRAKE_STREAK \/ brake.retry
    <3>1. CASE CrashedQuickly(c)
      <4>1. brake.mode = "NORMAL" /\ brake.mode \notin {"PARK", "PARK_BARE"}
        BY <3>1 DEF CrashedQuickly
      <4>2. BootVerdict(c) = "NORMAL" => ~(BootStreak(c) >= RESTART_TRACKER_BRAKE_STREAK)
        BY <3>1, <4>1 DEF BootVerdict
      <4>3. QED
        BY <2>3, <4>2, Constants
    <3>2. CASE ~CrashedQuickly(c) /\ c
      <4>1. CASE brake.mode \in {"PARK", "PARK_BARE"}
        BY <3>2, <4>1 DEF BootVerdict
      <4>2. CASE brake.mode = "SAFE"
        BY <3>2, <4>2, Constants DEF BootStreak
      <4>3. CASE brake.mode = "NORMAL"
        <5>1. brake.settled /\ brake.streak = 0
          BY <3>2, <4>3 DEF CrashedQuickly, Announced, IInv
        <5>2. BootStreak(c) = 0
          BY <3>2, <4>3, <5>1 DEF BootStreak
        <5>3. QED
          BY <5>2, Constants
      <4>4. QED
        BY <4>1, <4>2, <4>3 DEF BrakeOK, IInv
    <3>3. CASE ~CrashedQuickly(c) /\ ~c
      BY <3>3, Constants DEF BootStreak
    <3>4. QED
      BY <3>1, <3>2, <3>3
  <2>5. QED
    BY <2>2, <2>4 DEF VerdictBrakes, Up
<1>3. CASE BootCheck
  BY <1>3 DEF BootCheck, history, VerdictBrakes, Up, IInv
<1>4. CASE BootConfirm
  BY <1>4 DEF BootConfirm, history, VerdictBrakes, Up, IInv
<1>5. CASE RollbackMark
  BY <1>5 DEF RollbackMark, history, VerdictBrakes, Up, IInv
<1>6. CASE RollbackRecord
  BY <1>6 DEF RollbackRecord, history, VerdictBrakes, Up, IInv
<1>7. CASE RollbackRestart
  BY <1>7 DEF RollbackRestart, history, VerdictBrakes, Up, IInv
<1>8. CASE MainStart
  BY <1>8 DEF MainStart, Declares, BrakeOK, VerdictBrakes, Up, IInv
<1>9. CASE rt_brake_settle
  BY <1>9, Constants DEF rt_brake_settle, bootVars, VerdictBrakes, Up, IInv
<1>10. CASE milestone_tick
  BY <1>10 DEF milestone_tick, fwu_verify_now, bootVars, VerdictBrakes, Up, IInv
<1>11. CASE fwu_confirm_fn
  BY <1>11 DEF fwu_confirm_fn, bootVars, history, VerdictBrakes, Up, IInv
<1>12. CASE JobRestarts
  BY <1>12 DEF JobRestarts, Plans, VerdictBrakes, Up, IInv
<1>13. CASE Restarts
  BY <1>13 DEF Restarts, Resets, VerdictBrakes, Up
<1>14. CASE BadImageCrashes
  BY <1>14 DEF BadImageCrashes, Crash, Resets, VerdictBrakes, Up
<1>15. ASSUME NEW b \in BOOLEAN, PullRecords(b)
      PROVE  VerdictBrakes'
  BY <1>15 DEF PullRecords, bootVars, history, VerdictBrakes, Up, IInv
<1>16. ASSUME NEW b \in BOOLEAN, end_job(b)
      PROVE  VerdictBrakes'
  BY <1>16 DEF end_job, bootVars, history, VerdictBrakes, Up, IInv
<1>17. CASE SessionFails
  BY <1>17 DEF SessionFails, bootVars, history, VerdictBrakes, Up, IInv
<1>18. CASE begin_job
  BY <1>18 DEF begin_job, SessionBegins, bootVars, history, VerdictBrakes, Up, IInv
<1>19. ASSUME NEW r \in Reasons, UserRestarts(r)
      PROVE  VerdictBrakes'
  BY <1>19 DEF UserRestarts, Plans, VerdictBrakes, Up, IInv
<1>20. CASE fw_update_confirm
  BY <1>20 DEF fw_update_confirm, fwu_verify_now, bootVars, VerdictBrakes, Up, IInv
<1>21. CASE fw_update_forget
  BY <1>21 DEF fw_update_forget, bootVars, history, VerdictBrakes, Up, IInv
<1>22. CASE ParkRetries
  BY <1>22 DEF ParkRetries, Plans, VerdictBrakes, Up, IInv
<1>23. CASE AnyCrash
  BY <1>23 DEF AnyCrash, Crash, Resets, VerdictBrakes, Up
<1>24. CASE OtherReset
  BY <1>24 DEF OtherReset, Resets, VerdictBrakes, Up
<1>25. CASE PowerCycle
  BY <1>25 DEF PowerCycle, Resets, VerdictBrakes, Up
<1>q. QED
  BY <1>u, <1>1, <1>2, <1>3, <1>4, <1>5, <1>6, <1>7, <1>8, <1>9, <1>10, <1>11, <1>12, <1>13, <1>14, <1>15, <1>16, <1>17, <1>18, <1>19, <1>20, <1>21, <1>22, <1>23, <1>24, <1>25
     DEF Next, BootStep, RunStep

\* A crash: what restart_tracker_init will count covers what the history did.
LEMMA CrashCounts ==
    ASSUME IInv, Crash
    PROVE  CountKeepsUp'
<1>1. /\ phase' = "reset" /\ crashed' = TRUE /\ quick' = QuickAfterCrash
      /\ UNCHANGED <<brake, pending>>
  BY DEF Crash, Resets
<1>2. quick <= brake.streak /\ quick \in 0 .. STREAK_MAX /\ brake.streak \in 0 .. STREAK_MAX
  BY DEF IInv, CountKeepsUp, Up, Crash, CrashPhases, BrakeOK
<1>3. bump(quick) <= bump(brake.streak) /\ quick <= bump(quick) /\ brake.streak <= bump(brake.streak)
      /\ bump(quick) \in Nat /\ bump(brake.streak) \in Nat
  BY <1>2, BumpFacts
<1>4. brake.retry => brake.mode \in {"PARK", "PARK_BARE"}
  BY DEF IInv, Announced
<1>5. brake.mode \in {"NORMAL", "PARK", "PARK_BARE", "SAFE"} /\ brake.retry \in BOOLEAN /\ brake.settled \in BOOLEAN
  BY DEF IInv, BrakeOK
<1>6. QuickAfterCrash <= BootStreak(TRUE)
  BY <1>2, <1>3, <1>4, <1>5 DEF QuickAfterCrash, BootStreak, CrashedQuickly
<1>7. pending # NULL => QuickAfterCrash <= BootStreak(FALSE)
  BY <1>2, <1>3, <1>4, <1>5 DEF QuickAfterCrash, BootStreak, CrashedQuickly
<1>8. QED
  BY <1>1, <1>6, <1>7 DEF CountKeepsUp, Up, BootStreak, CrashedQuickly

\* The count keeps up with the quick crashes.
LEMMA NextCount ==
    ASSUME IInv, [Next]_vars
    PROVE  CountKeepsUp'
<1>u. CASE UNCHANGED vars
  BY <1>u DEF vars, BootStreak, CrashedQuickly, CountKeepsUp, Up, IInv
<1>1. CASE Bootloader
  BY <1>1 DEF Bootloader, history, BootStreak, CrashedQuickly, CountKeepsUp, Up, IInv
<1>2. ASSUME NEW b \in BOOLEAN, restart_tracker_init(b)
      PROVE  CountKeepsUp'
  BY <1>2 DEF restart_tracker_init, rt_brake_boot, RunOK, CountKeepsUp, Up, IInv
<1>3. CASE BootCheck
  BY <1>3 DEF BootCheck, history, CountKeepsUp, Up, IInv
<1>4. CASE BootConfirm
  BY <1>4 DEF BootConfirm, history, CountKeepsUp, Up, IInv
<1>5. CASE RollbackMark
  BY <1>5 DEF RollbackMark, history, CountKeepsUp, Up, IInv
<1>6. CASE RollbackRecord
  BY <1>6 DEF RollbackRecord, history, CountKeepsUp, Up, IInv
<1>7. CASE RollbackRestart
  BY <1>7 DEF RollbackRestart, history, CountKeepsUp, Up, IInv
<1>8. CASE MainStart
  BY <1>8 DEF MainStart, Declares, BrakeOK, CountKeepsUp, Up, IInv
<1>9. CASE rt_brake_settle
  BY <1>9 DEF rt_brake_settle, bootVars, CountKeepsUp, Up
<1>10. CASE milestone_tick
  BY <1>10 DEF milestone_tick, fwu_verify_now, bootVars, CountKeepsUp, Up, IInv
<1>11. CASE fwu_confirm_fn
  BY <1>11 DEF fwu_confirm_fn, bootVars, history, CountKeepsUp, Up, IInv
<1>12. CASE JobRestarts
  BY <1>12 DEF JobRestarts, Plans, CountKeepsUp, Up, IInv
<1>13. CASE Restarts
  BY <1>13
     DEF Restarts, Resets, BootStreak, CrashedQuickly, BrakeOK, CountKeepsUp, Announced, IInv
<1>14. CASE BadImageCrashes
  <2>1. Crash
    BY <1>14 DEF BadImageCrashes
  <2>2. QED
    BY <2>1, CrashCounts
<1>15. ASSUME NEW b \in BOOLEAN, PullRecords(b)
      PROVE  CountKeepsUp'
  BY <1>15 DEF PullRecords, bootVars, history, CountKeepsUp, Up, IInv
<1>16. ASSUME NEW b \in BOOLEAN, end_job(b)
      PROVE  CountKeepsUp'
  BY <1>16 DEF end_job, bootVars, history, CountKeepsUp, Up, IInv
<1>17. CASE SessionFails
  BY <1>17 DEF SessionFails, bootVars, history, CountKeepsUp, Up, IInv
<1>18. CASE begin_job
  BY <1>18 DEF begin_job, SessionBegins, bootVars, history, CountKeepsUp, Up, IInv
<1>19. ASSUME NEW r \in Reasons, UserRestarts(r)
      PROVE  CountKeepsUp'
  BY <1>19 DEF UserRestarts, Plans, CountKeepsUp, Up, IInv
<1>20. CASE fw_update_confirm
  BY <1>20 DEF fw_update_confirm, fwu_verify_now, bootVars, CountKeepsUp, Up, IInv
<1>21. CASE fw_update_forget
  BY <1>21 DEF fw_update_forget, bootVars, history, CountKeepsUp, Up, IInv
<1>22. CASE ParkRetries
  BY <1>22 DEF ParkRetries, Plans, CountKeepsUp, Up, IInv
<1>23. CASE AnyCrash
  <2>1. Crash
    BY <1>23 DEF AnyCrash
  <2>2. QED
    BY <2>1, CrashCounts
<1>24. CASE OtherReset
  BY <1>24
     DEF OtherReset, Resets, BootStreak, CrashedQuickly, BrakeOK, CountKeepsUp, Announced,
         IInv
<1>25. CASE PowerCycle
  BY <1>25 DEF PowerCycle, Resets, rt_brake_reset, BootStreak, CountKeepsUp
<1>q. QED
  BY <1>u, <1>1, <1>2, <1>3, <1>4, <1>5, <1>6, <1>7, <1>8, <1>9, <1>10, <1>11, <1>12, <1>13, <1>14, <1>15, <1>16, <1>17, <1>18, <1>19, <1>20, <1>21, <1>22, <1>23, <1>24, <1>25
     DEF Next, BootStep, RunStep

----------------------------------------------------------------------------
(* The record; what it says of a milestone when no other task restarts      *)
(* between the record and the job's own restart.                            *)

\* The record names an image that is there.
LEMMA NextNames ==
    ASSUME RecordInv, IInv, [Next]_vars
    PROVE  RecordNamesImage'
<1>u. CASE UNCHANGED vars
  BY <1>u DEF vars, RecordNamesImage, ImageOK, FlashOK, RecordInv, IInv
<1>1. CASE Bootloader
  BY <1>1 DEF Bootloader, RecordNamesImage, RecordInv
<1>2. ASSUME NEW b \in BOOLEAN, restart_tracker_init(b)
      PROVE  RecordNamesImage'
  BY <1>2 DEF restart_tracker_init, flashVars, RecordNamesImage, RecordInv
<1>3. CASE BootCheck
  BY <1>3 DEF BootCheck, Recorded, RecordNamesImage, ImageOK, RecordInv, IInv
<1>4. CASE BootConfirm
  BY <1>4 DEF BootConfirm, RecordNamesImage, RecordInv
<1>5. CASE RollbackMark
  BY <1>5 DEF RollbackMark, RecordNamesImage, RecordInv
<1>6. CASE RollbackRecord
  BY <1>6 DEF RollbackRecord, Recorded, RecordNamesImage
<1>7. CASE RollbackRestart
  BY <1>7 DEF RollbackRestart, flashVars, RecordNamesImage, RecordInv
<1>8. CASE MainStart
  BY <1>8 DEF MainStart, flashVars, RecordNamesImage, RecordInv
<1>9. CASE rt_brake_settle
  BY <1>9 DEF rt_brake_settle, flashVars, RecordNamesImage, RecordInv
<1>10. CASE milestone_tick
  BY <1>10
     DEF milestone_tick, fwu_verify_now, Recorded, RecordNamesImage, ImageOK, RecordInv, IInv
<1>11. CASE fwu_confirm_fn
  BY <1>11 DEF fwu_confirm_fn, RecordNamesImage, RecordInv
<1>12. CASE JobRestarts
  BY <1>12 DEF JobRestarts, Plans, RecordNamesImage, RecordInv
<1>13. CASE Restarts
  BY <1>13 DEF Restarts, flashVars, RecordNamesImage, RecordInv
<1>14. CASE BadImageCrashes
  BY <1>14 DEF BadImageCrashes, Crash, flashVars, RecordNamesImage, RecordInv
<1>15. ASSUME NEW b \in BOOLEAN, PullRecords(b)
      PROVE  RecordNamesImage'
  BY <1>15 DEF PullRecords, RecordNamesImage
<1>16. ASSUME NEW b \in BOOLEAN, end_job(b)
      PROVE  RecordNamesImage'
  BY <1>16 DEF end_job, RecordNamesImage, ImageOK, RecordInv, IInv
<1>17. CASE SessionFails
  BY <1>17 DEF SessionFails, flashVars, RecordNamesImage, RecordInv
<1>18. CASE begin_job
  <2>1. phase = "run" /\ job = "none" /\ record' = record
    BY <1>18 DEF begin_job, SessionBegins
  <2>2. record.state = "REBOOTING" => running = record.slot
    BY <2>1 DEF RecordInv, RunningIsRecorded, Up
  <2>3. \A s \in Slots : s # Other(running) => image'[s] = image[s]
    BY <1>18 DEF begin_job, SessionBegins, ImageOK, IInv
  <2>4. record.state = "REBOOTING" => record.slot \in Slots /\ record.slot # Other(running)
    BY <2>2, OtherSlot DEF FlashOK, ImageOK, IInv
  <2>5. QED
    BY <2>1, <2>3, <2>4 DEF RecordNamesImage, RecordInv
<1>19. ASSUME NEW r \in Reasons, UserRestarts(r)
      PROVE  RecordNamesImage'
  BY <1>19 DEF UserRestarts, Plans, RecordNamesImage, RecordInv
<1>20. CASE fw_update_confirm
  BY <1>20
     DEF fw_update_confirm, fwu_verify_now, Recorded, RecordNamesImage, ImageOK, RecordInv,
         IInv
<1>21. CASE fw_update_forget
  BY <1>21 DEF fw_update_forget, Recorded, RecordNamesImage
<1>22. CASE ParkRetries
  BY <1>22 DEF ParkRetries, Plans, RecordNamesImage, RecordInv
<1>23. CASE AnyCrash
  BY <1>23 DEF AnyCrash, Crash, flashVars, RecordNamesImage, RecordInv
<1>24. CASE OtherReset
  BY <1>24 DEF OtherReset, flashVars, RecordNamesImage, RecordInv
<1>25. CASE PowerCycle
  BY <1>25 DEF PowerCycle, flashVars, RecordNamesImage, RecordInv
<1>q. QED
  BY <1>u, <1>1, <1>2, <1>3, <1>4, <1>5, <1>6, <1>7, <1>8, <1>9, <1>10, <1>11, <1>12, <1>13, <1>14, <1>15, <1>16, <1>17, <1>18, <1>19, <1>20, <1>21, <1>22, <1>23, <1>24, <1>25
     DEF Next, BootStep, RunStep

\* The running image is the recorded one.
LEMMA NextRecorded ==
    ASSUME RecordInv, IInv, [Next]_vars
    PROVE  RunningIsRecorded'
<1>u. CASE UNCHANGED vars
  BY <1>u DEF vars, RunningIsRecorded, Up, RecordInv
<1>1. CASE Bootloader
  BY <1>1 DEF Bootloader, RunningIsRecorded, Up
<1>2. ASSUME NEW b \in BOOLEAN, restart_tracker_init(b)
      PROVE  RunningIsRecorded'
  BY <1>2 DEF restart_tracker_init, RunningIsRecorded
<1>3. CASE BootCheck
  <2>1. CASE record.state = "REBOOTING" /\ running # record.slot
    <3>1. fwu_boot_decide \in {"ROLLED_BACK_BL", "BOOT_FAILED"}
      BY <2>1 DEF fwu_boot_decide
    <3>2. record' = [record EXCEPT !.state = "ROLLED_BACK"] \/ record' = [record EXCEPT !.state = "BOOT_FAILED"]
      BY <1>3, <3>1 DEF BootCheck, Recorded
    <3>3. record'.state # "REBOOTING"
      BY <3>2 DEF ImageOK, IInv
    <3>4. QED
      BY <3>3 DEF RunningIsRecorded
  <2>2. CASE record.state # "REBOOTING"
    <3>1. fwu_boot_decide = "NOTHING"
      BY <2>2 DEF fwu_boot_decide
    <3>2. QED
      BY <1>3, <2>2, <3>1 DEF BootCheck, RunningIsRecorded
  <2>3. CASE running = record.slot
    BY <1>3, <2>3 DEF BootCheck, Recorded, RunningIsRecorded, ImageOK, IInv
  <2>4. QED
    BY <2>1, <2>2, <2>3
<1>4. CASE BootConfirm
  BY <1>4 DEF BootConfirm, RunningIsRecorded, Up, RecordInv
<1>5. CASE RollbackMark
  <2>1. record.state = "REBOOTING" => running = record.slot
    BY <1>5 DEF RollbackMark, fwu_boot_decide
  <2>2. QED
    BY <1>5, <2>1 DEF RollbackMark, RunningIsRecorded
<1>6. CASE RollbackRecord
  BY <1>6 DEF RollbackRecord, Recorded, RunningIsRecorded
<1>7. CASE RollbackRestart
  BY <1>7 DEF RollbackRestart, flashVars, RunningIsRecorded, Up, RecordInv
<1>8. CASE MainStart
  BY <1>8 DEF MainStart, flashVars, RunningIsRecorded, Up, RecordInv
<1>9. CASE rt_brake_settle
  BY <1>9 DEF rt_brake_settle, flashVars, bootVars, work, RunningIsRecorded, Up, RecordInv
<1>10. CASE milestone_tick
  BY <1>10
     DEF milestone_tick, fwu_verify_now, Recorded, bootVars, RunningIsRecorded, ImageOK, Up,
         RecordInv, IInv
<1>11. CASE fwu_confirm_fn
  BY <1>11 DEF fwu_confirm_fn, bootVars, RunningIsRecorded, Up, RecordInv
<1>12. CASE JobRestarts
  BY <1>12 DEF JobRestarts, Plans, work, RunningIsRecorded, Up, RecordInv
<1>13. CASE Restarts
  BY <1>13 DEF Restarts, Resets, RunningIsRecorded, Up
<1>14. CASE BadImageCrashes
  BY <1>14 DEF BadImageCrashes, Crash, Resets, RunningIsRecorded, Up
<1>15. ASSUME NEW b \in BOOLEAN, PullRecords(b)
      PROVE  RunningIsRecorded'
  BY <1>15 DEF PullRecords, bootVars, RunningIsRecorded
<1>16. ASSUME NEW b \in BOOLEAN, end_job(b)
      PROVE  RunningIsRecorded'
  BY <1>16 DEF end_job, bootVars, RunningIsRecorded, Up, RecordInv
<1>17. CASE SessionFails
  BY <1>17 DEF SessionFails, flashVars, bootVars, RunningIsRecorded, Up, RecordInv
<1>18. CASE begin_job
  BY <1>18 DEF begin_job, SessionBegins, bootVars, RunningIsRecorded, Up, RecordInv
<1>19. ASSUME NEW r \in Reasons, UserRestarts(r)
      PROVE  RunningIsRecorded'
  BY <1>19 DEF UserRestarts, Plans, work, RunningIsRecorded, Up, RecordInv
<1>20. CASE fw_update_confirm
  BY <1>20
     DEF fw_update_confirm, fwu_verify_now, Recorded, bootVars, RunningIsRecorded, ImageOK,
         Up, RecordInv, IInv
<1>21. CASE fw_update_forget
  BY <1>21 DEF fw_update_forget, Recorded, RunningIsRecorded
<1>22. CASE ParkRetries
  BY <1>22 DEF ParkRetries, Plans, RunningIsRecorded, Up, RecordInv
<1>23. CASE AnyCrash
  BY <1>23 DEF AnyCrash, Crash, Resets, RunningIsRecorded, Up
<1>24. CASE OtherReset
  BY <1>24 DEF OtherReset, Resets, RunningIsRecorded, Up
<1>25. CASE PowerCycle
  BY <1>25 DEF PowerCycle, Resets, RunningIsRecorded, Up
<1>q. QED
  BY <1>u, <1>1, <1>2, <1>3, <1>4, <1>5, <1>6, <1>7, <1>8, <1>9, <1>10, <1>11, <1>12, <1>13, <1>14, <1>15, <1>16, <1>17, <1>18, <1>19, <1>20, <1>21, <1>22, <1>23, <1>24, <1>25
     DEF Next, BootStep, RunStep

\* A milestone is the recorded image's.
LEMMA NextMilestone ==
    ASSUME RInv, IInv, [Next]_vars
    PROVE  MilestoneWasReached'
<1>u. CASE UNCHANGED vars
  BY <1>u DEF vars, MilestoneWasReached, Me, RInv
<1>1. CASE Bootloader
  BY <1>1 DEF Bootloader, history, MilestoneWasReached, RInv
<1>2. ASSUME NEW b \in BOOLEAN, restart_tracker_init(b)
      PROVE  MilestoneWasReached'
  BY <1>2, Constants DEF restart_tracker_init, flashVars, MilestoneWasReached, Reasons, RInv
<1>3. CASE BootCheck
  BY <1>3 DEF BootCheck, Recorded, history, MilestoneWasReached, ImageOK, RInv, IInv
<1>4. CASE BootConfirm
  BY <1>4 DEF BootConfirm, history, MilestoneWasReached, RInv
<1>5. CASE RollbackMark
  BY <1>5 DEF RollbackMark, history, MilestoneWasReached, RInv
<1>6. CASE RollbackRecord
  BY <1>6 DEF RollbackRecord, Recorded, MilestoneWasReached
<1>7. CASE RollbackRestart
  BY <1>7 DEF RollbackRestart, MilestoneWasReached
<1>8. CASE MainStart
  BY <1>8 DEF MainStart, flashVars, MilestoneWasReached, Announced, Up, RInv, IInv
<1>9. CASE rt_brake_settle
  BY <1>9 DEF rt_brake_settle, flashVars, bootVars, MilestoneWasReached, Me, RInv
<1>10. CASE milestone_tick
  BY <1>10
     DEF milestone_tick, fwu_verify_now, Recorded, flashVars, bootVars, MilestoneWasReached,
         Me, ImageOK, RInv, IInv
<1>11. CASE fwu_confirm_fn
  BY <1>11 DEF fwu_confirm_fn, bootVars, history, MilestoneWasReached, Me, RInv
<1>12. CASE JobRestarts
  BY <1>12 DEF JobRestarts, Plans, MilestoneWasReached
<1>13. CASE Restarts
  BY <1>13 DEF Restarts, Resets, flashVars, MilestoneWasReached, RInv
<1>14. CASE BadImageCrashes
  BY <1>14 DEF BadImageCrashes, Crash, Resets, flashVars, MilestoneWasReached, RInv
<1>15. ASSUME NEW b \in BOOLEAN, PullRecords(b)
      PROVE  MilestoneWasReached'
  BY <1>15, Constants
     DEF PullRecords, flashVars, bootVars, work, bounds, history, MilestoneWasReached, Me,
         Announced, Up, Reasons, RInv, IInv
<1>16. ASSUME NEW b \in BOOLEAN, end_job(b)
      PROVE  MilestoneWasReached'
  BY <1>16
     DEF end_job, flashVars, bootVars, work, bounds, history, MilestoneWasReached, Me,
         ImageOK, FlashOK, RInv, IInv
<1>17. CASE SessionFails
  BY <1>17 DEF SessionFails, flashVars, bootVars, history, MilestoneWasReached, Me, RInv
<1>18. CASE begin_job
  BY <1>18, OtherSlot
     DEF begin_job, SessionBegins, MarkedValid, flashVars, bootVars, work, bounds, history,
         MilestoneWasReached, Me, ImageOK, FlashOK, RInv, IInv
<1>19. ASSUME NEW r \in Reasons, UserRestarts(r)
      PROVE  MilestoneWasReached'
  BY <1>19
     DEF UserRestarts, Plans, MilestoneWasReached, Me, milestone_reason, RecordNamesImage,
         RunningIsRecorded, RecordInv, Up, RInv
<1>20. CASE fw_update_confirm
  BY <1>20
     DEF fw_update_confirm, fwu_verify_now, Recorded, flashVars, bootVars,
         MilestoneWasReached, Me, ImageOK, RInv, IInv
<1>21. CASE fw_update_forget
  BY <1>21 DEF fw_update_forget, Recorded, bootVars, history, MilestoneWasReached, Me, RInv
<1>22. CASE ParkRetries
  BY <1>22 DEF ParkRetries, Plans, MilestoneWasReached
<1>23. CASE AnyCrash
  BY <1>23 DEF AnyCrash, Crash, Resets, flashVars, MilestoneWasReached, RInv
<1>24. CASE OtherReset
  BY <1>24 DEF OtherReset, Resets, flashVars, MilestoneWasReached, RInv
<1>25. CASE PowerCycle
  BY <1>25, Constants DEF PowerCycle, Resets, MilestoneWasReached, Reasons
<1>q. QED
  BY <1>u, <1>1, <1>2, <1>3, <1>4, <1>5, <1>6, <1>7, <1>8, <1>9, <1>10, <1>11, <1>12, <1>13, <1>14, <1>15, <1>16, <1>17, <1>18, <1>19, <1>20, <1>21, <1>22, <1>23, <1>24, <1>25
     DEF Next, BootStep, RunStep

\* VERIFIED is said of an image that ran, or whose job's delay was raced.
LEMMA NextVerified ==
    ASSUME RInv, IInv, [Next]_vars
    PROVE  VerifiedUnlessRaced'
<1>u. CASE UNCHANGED vars
  BY <1>u DEF vars, VerifiedUnlessRaced, VerifiedMeansItRan, RInv
<1>1. CASE Bootloader
  BY <1>1 DEF Bootloader, history, VerifiedUnlessRaced, VerifiedMeansItRan, RInv
<1>2. ASSUME NEW b \in BOOLEAN, restart_tracker_init(b)
      PROVE  VerifiedUnlessRaced'
  BY <1>2 DEF restart_tracker_init, flashVars, VerifiedUnlessRaced, VerifiedMeansItRan, RInv
<1>3. CASE BootCheck
  <2>1. proved' = proved /\ raced' = raced /\ record'.id = record.id /\ record'.layout = record.layout
    BY <1>3 DEF BootCheck, Recorded, history, ImageOK, IInv
  <2>2. CASE fwu_boot_decide = "VERIFIED"
    <3>1. record.state = "REBOOTING"
          /\ (record.layout \/ (latest # NULL /\ milestone_reason(latest)))
      BY <2>2 DEF fwu_boot_decide
    <3>2. record.layout \/ record.id \in proved \/ raced
      BY <1>3, <3>1 DEF BootCheck, milestone_reason, MilestoneWasReached, RInv
    <3>3. QED
      BY <2>1, <3>2 DEF VerifiedUnlessRaced, VerifiedMeansItRan
  <2>3. CASE fwu_boot_decide # "VERIFIED"
    <3>1. record'.state = record.state \/ record'.state # "VERIFIED"
      BY <1>3, <2>3 DEF BootCheck, Recorded, ImageOK, IInv
    <3>2. QED
      BY <2>1, <3>1 DEF VerifiedUnlessRaced, VerifiedMeansItRan, RInv
  <2>4. QED
    BY <2>2, <2>3
<1>4. CASE BootConfirm
  BY <1>4 DEF BootConfirm, history, VerifiedUnlessRaced, VerifiedMeansItRan, RInv
<1>5. CASE RollbackMark
  BY <1>5 DEF RollbackMark, history, VerifiedUnlessRaced, VerifiedMeansItRan, RInv
<1>6. CASE RollbackRecord
  BY <1>6 DEF RollbackRecord, Recorded, VerifiedUnlessRaced, VerifiedMeansItRan
<1>7. CASE RollbackRestart
  BY <1>7 DEF RollbackRestart, flashVars, history, VerifiedUnlessRaced, VerifiedMeansItRan, RInv
<1>8. CASE MainStart
  BY <1>8 DEF MainStart, flashVars, VerifiedUnlessRaced, VerifiedMeansItRan, RInv
<1>9. CASE rt_brake_settle
  BY <1>9 DEF rt_brake_settle, flashVars, VerifiedUnlessRaced, VerifiedMeansItRan, RInv
<1>10. CASE milestone_tick
  BY <1>10
     DEF milestone_tick, fwu_verify_now, Recorded, VerifiedUnlessRaced, VerifiedMeansItRan, MilestoneWasReached,
         Me, RecordNamesImage, RecordInv, ImageOK, RInv, IInv
<1>11. CASE fwu_confirm_fn
  BY <1>11 DEF fwu_confirm_fn, history, VerifiedUnlessRaced, VerifiedMeansItRan, RInv
<1>12. CASE JobRestarts
  BY <1>12 DEF JobRestarts, Plans, VerifiedUnlessRaced, VerifiedMeansItRan, RInv
<1>13. CASE Restarts
  BY <1>13 DEF Restarts, flashVars, VerifiedUnlessRaced, VerifiedMeansItRan, RInv
<1>14. CASE BadImageCrashes
  BY <1>14 DEF BadImageCrashes, Crash, flashVars, VerifiedUnlessRaced, VerifiedMeansItRan, RInv
<1>15. ASSUME NEW b \in BOOLEAN, PullRecords(b)
      PROVE  VerifiedUnlessRaced'
  BY <1>15 DEF PullRecords, VerifiedUnlessRaced, VerifiedMeansItRan
<1>16. ASSUME NEW b \in BOOLEAN, end_job(b)
      PROVE  VerifiedUnlessRaced'
  BY <1>16 DEF end_job, history, VerifiedUnlessRaced, VerifiedMeansItRan, RInv
<1>17. CASE SessionFails
  BY <1>17 DEF SessionFails, flashVars, history, VerifiedUnlessRaced, VerifiedMeansItRan, RInv
<1>18. CASE begin_job
  BY <1>18 DEF begin_job, SessionBegins, history, VerifiedUnlessRaced, VerifiedMeansItRan, RInv
<1>19. ASSUME NEW r \in Reasons, UserRestarts(r)
      PROVE  VerifiedUnlessRaced'
  BY <1>19 DEF UserRestarts, Plans, VerifiedUnlessRaced, VerifiedMeansItRan, RInv
<1>20. CASE fw_update_confirm
  BY <1>20
     DEF fw_update_confirm, fwu_verify_now, Recorded, VerifiedUnlessRaced, VerifiedMeansItRan, Me,
         RecordNamesImage, RecordInv, ImageOK, RInv, IInv
<1>21. CASE fw_update_forget
  BY <1>21 DEF fw_update_forget, Recorded, VerifiedUnlessRaced, VerifiedMeansItRan
<1>22. CASE ParkRetries
  BY <1>22 DEF ParkRetries, Plans, VerifiedUnlessRaced, VerifiedMeansItRan, RInv
<1>23. CASE AnyCrash
  BY <1>23 DEF AnyCrash, Crash, flashVars, VerifiedUnlessRaced, VerifiedMeansItRan, RInv
<1>24. CASE OtherReset
  BY <1>24 DEF OtherReset, flashVars, VerifiedUnlessRaced, VerifiedMeansItRan, RInv
<1>25. CASE PowerCycle
  BY <1>25 DEF PowerCycle, flashVars, VerifiedUnlessRaced, VerifiedMeansItRan, RInv
<1>q. QED
  BY <1>u, <1>1, <1>2, <1>3, <1>4, <1>5, <1>6, <1>7, <1>8, <1>9, <1>10, <1>11, <1>12, <1>13, <1>14, <1>15, <1>16, <1>17, <1>18, <1>19, <1>20, <1>21, <1>22, <1>23, <1>24, <1>25
     DEF Next, BootStep, RunStep

----------------------------------------------------------------------------
(* The two slots: what a reset falls back to, and where a rolled-back image *)
(* can still be.                                                            *)

\* A slot to fall back to is always left.
LEMMA NextSolid ==
    ASSUME SlotInv, IInv, [Next]_vars
    PROVE  SomeSolid'
<1>u. CASE UNCHANGED vars
  BY <1>u DEF vars, SomeSolid, Solid, SlotInv
<1>1. CASE Bootloader
  BY <1>1 DEF Bootloader, SomeSolid, Solid, SlotInv
<1>2. ASSUME NEW b \in BOOLEAN, restart_tracker_init(b)
      PROVE  SomeSolid'
  BY <1>2 DEF restart_tracker_init, flashVars, SomeSolid, Solid, SlotInv
<1>3. CASE BootCheck
  BY <1>3 DEF BootCheck, SomeSolid, Solid, SlotInv
<1>4. CASE BootConfirm
  BY <1>4 DEF BootConfirm, MarkedValid, SomeSolid, Solid, SlotInv
<1>5. CASE RollbackMark
  BY <1>5, OtherSlot
     DEF RollbackMark, flashVars, bootVars, work, bounds, history, SomeSolid, Solid,
         UntriedBoots, Untried, RunningBoots, Bootable, SlotInv, FlashOK, IInv
<1>6. CASE RollbackRecord
  BY <1>6 DEF RollbackRecord, SomeSolid, Solid, SlotInv
<1>7. CASE RollbackRestart
  BY <1>7 DEF RollbackRestart, flashVars, SomeSolid, Solid, SlotInv
<1>8. CASE MainStart
  BY <1>8 DEF MainStart, flashVars, SomeSolid, Solid, SlotInv
<1>9. CASE rt_brake_settle
  BY <1>9 DEF rt_brake_settle, flashVars, SomeSolid, Solid, SlotInv
<1>10. CASE milestone_tick
  BY <1>10 DEF milestone_tick, fwu_verify_now, SomeSolid, Solid, SlotInv
<1>11. CASE fwu_confirm_fn
  BY <1>11 DEF fwu_confirm_fn, MarkedValid, SomeSolid, Solid, SlotInv
<1>12. CASE JobRestarts
  BY <1>12 DEF JobRestarts, Plans, MarkedValid, SomeSolid, Solid, SlotInv
<1>13. CASE Restarts
  BY <1>13 DEF Restarts, flashVars, SomeSolid, Solid, SlotInv
<1>14. CASE BadImageCrashes
  BY <1>14 DEF BadImageCrashes, Crash, flashVars, SomeSolid, Solid, SlotInv
<1>15. ASSUME NEW b \in BOOLEAN, PullRecords(b)
      PROVE  SomeSolid'
  BY <1>15 DEF PullRecords, SomeSolid, Solid, SlotInv
<1>16. ASSUME NEW b \in BOOLEAN, end_job(b)
      PROVE  SomeSolid'
  BY <1>16, OtherSlot
     DEF end_job, flashVars, bootVars, work, bounds, history, SomeSolid, Solid, UntriedBoots,
         Untried, RunningBoots, BootsWholeImage, Bootable, SlotInv, FlashOK, ImageOK, IInv
<1>17. CASE SessionFails
  BY <1>17 DEF SessionFails, flashVars, SomeSolid, Solid, SlotInv
<1>18. CASE begin_job
  BY <1>18, OtherSlot
     DEF begin_job, SessionBegins, MarkedValid, flashVars, bootVars, work, bounds, history,
         SomeSolid, Solid, UntriedBoots, Untried, RunningBoots, BootsWholeImage, Bootable,
         SlotInv, FlashOK, ImageOK, IInv
<1>19. ASSUME NEW r \in Reasons, UserRestarts(r)
      PROVE  SomeSolid'
  BY <1>19 DEF UserRestarts, Plans, MarkedValid, SomeSolid, Solid, SlotInv
<1>20. CASE fw_update_confirm
  BY <1>20 DEF fw_update_confirm, fwu_verify_now, SomeSolid, Solid, SlotInv
<1>21. CASE fw_update_forget
  BY <1>21 DEF fw_update_forget, SomeSolid, Solid, SlotInv
<1>22. CASE ParkRetries
  BY <1>22 DEF ParkRetries, Plans, SomeSolid, Solid, SlotInv
<1>23. CASE AnyCrash
  BY <1>23 DEF AnyCrash, Crash, flashVars, SomeSolid, Solid, SlotInv
<1>24. CASE OtherReset
  BY <1>24 DEF OtherReset, flashVars, SomeSolid, Solid, SlotInv
<1>25. CASE PowerCycle
  BY <1>25 DEF PowerCycle, flashVars, SomeSolid, Solid, SlotInv
<1>q. QED
  BY <1>u, <1>1, <1>2, <1>3, <1>4, <1>5, <1>6, <1>7, <1>8, <1>9, <1>10, <1>11, <1>12, <1>13, <1>14, <1>15, <1>16, <1>17, <1>18, <1>19, <1>20, <1>21, <1>22, <1>23, <1>24, <1>25
     DEF Next, BootStep, RunStep

\* Only the slot to boot is untried.
LEMMA NextUntried ==
    ASSUME SlotInv, IInv, [Next]_vars
    PROVE  UntriedBoots'
<1>u. CASE UNCHANGED vars
  BY <1>u DEF vars, UntriedBoots, Untried, SlotInv
<1>1. CASE Bootloader
  BY <1>1 DEF Bootloader, UntriedBoots, Untried, Bootable, SlotInv, FlashOK, IInv
<1>2. ASSUME NEW b \in BOOLEAN, restart_tracker_init(b)
      PROVE  UntriedBoots'
  BY <1>2 DEF restart_tracker_init, flashVars, UntriedBoots, Untried, SlotInv
<1>3. CASE BootCheck
  BY <1>3 DEF BootCheck, UntriedBoots, Untried, SlotInv
<1>4. CASE BootConfirm
  BY <1>4 DEF BootConfirm, MarkedValid, UntriedBoots, Untried, SlotInv
<1>5. CASE RollbackMark
  BY <1>5 DEF RollbackMark, UntriedBoots, Untried, RunningBoots, SlotInv, FlashOK, IInv
<1>6. CASE RollbackRecord
  BY <1>6 DEF RollbackRecord, UntriedBoots, Untried, SlotInv
<1>7. CASE RollbackRestart
  BY <1>7 DEF RollbackRestart, flashVars, UntriedBoots, Untried, SlotInv
<1>8. CASE MainStart
  BY <1>8 DEF MainStart, flashVars, UntriedBoots, Untried, SlotInv
<1>9. CASE rt_brake_settle
  BY <1>9 DEF rt_brake_settle, flashVars, UntriedBoots, Untried, SlotInv
<1>10. CASE milestone_tick
  BY <1>10 DEF milestone_tick, fwu_verify_now, UntriedBoots, Untried, SlotInv
<1>11. CASE fwu_confirm_fn
  BY <1>11 DEF fwu_confirm_fn, MarkedValid, UntriedBoots, Untried, SlotInv
<1>12. CASE JobRestarts
  BY <1>12 DEF JobRestarts, Plans, MarkedValid, UntriedBoots, Untried, SlotInv
<1>13. CASE Restarts
  BY <1>13 DEF Restarts, flashVars, UntriedBoots, Untried, SlotInv
<1>14. CASE BadImageCrashes
  BY <1>14 DEF BadImageCrashes, Crash, flashVars, UntriedBoots, Untried, SlotInv
<1>15. ASSUME NEW b \in BOOLEAN, PullRecords(b)
      PROVE  UntriedBoots'
  BY <1>15 DEF PullRecords, UntriedBoots, Untried, SlotInv
<1>16. ASSUME NEW b \in BOOLEAN, end_job(b)
      PROVE  UntriedBoots'
  BY <1>16 DEF end_job, UntriedBoots, Untried, RunningBoots, SlotInv, ImageOK, IInv
<1>17. CASE SessionFails
  BY <1>17 DEF SessionFails, flashVars, UntriedBoots, Untried, SlotInv
<1>18. CASE begin_job
  BY <1>18
     DEF begin_job, SessionBegins, MarkedValid, UntriedBoots, Untried, RunningBoots, SlotInv,
         FlashOK, IInv
<1>19. ASSUME NEW r \in Reasons, UserRestarts(r)
      PROVE  UntriedBoots'
  BY <1>19 DEF UserRestarts, Plans, MarkedValid, UntriedBoots, Untried, SlotInv
<1>20. CASE fw_update_confirm
  BY <1>20 DEF fw_update_confirm, fwu_verify_now, UntriedBoots, Untried, SlotInv
<1>21. CASE fw_update_forget
  BY <1>21 DEF fw_update_forget, UntriedBoots, Untried, SlotInv
<1>22. CASE ParkRetries
  BY <1>22 DEF ParkRetries, Plans, UntriedBoots, Untried, SlotInv
<1>23. CASE AnyCrash
  BY <1>23 DEF AnyCrash, Crash, flashVars, UntriedBoots, Untried, SlotInv
<1>24. CASE OtherReset
  BY <1>24 DEF OtherReset, flashVars, UntriedBoots, Untried, SlotInv
<1>25. CASE PowerCycle
  BY <1>25 DEF PowerCycle, flashVars, UntriedBoots, Untried, SlotInv
<1>q. QED
  BY <1>u, <1>1, <1>2, <1>3, <1>4, <1>5, <1>6, <1>7, <1>8, <1>9, <1>10, <1>11, <1>12, <1>13, <1>14, <1>15, <1>16, <1>17, <1>18, <1>19, <1>20, <1>21, <1>22, <1>23, <1>24, <1>25
     DEF Next, BootStep, RunStep

\* The running image boots again.
LEMMA NextRunning ==
    ASSUME SlotInv, IInv, [Next]_vars
    PROVE  RunningBoots'
<1>u. CASE UNCHANGED vars
  BY <1>u DEF vars, RunningBoots, BootsWholeImage, Bootable, Untried, SlotInv
<1>1. CASE Bootloader
  BY <1>1, TwoSlots
     DEF Bootloader, flashVars, bootVars, work, bounds, history, RunningBoots,
         BootsWholeImage, UntriedBoots, Bootable, SomeSolid, Solid, SlotInv, FlashOK, IInv
<1>2. ASSUME NEW b \in BOOLEAN, restart_tracker_init(b)
      PROVE  RunningBoots'
  BY <1>2
     DEF restart_tracker_init, flashVars, work, RunningBoots, BootsWholeImage, Bootable,
         SlotInv
<1>3. CASE BootCheck
  BY <1>3 DEF BootCheck, work, RunningBoots, BootsWholeImage, Bootable, SlotInv
<1>4. CASE BootConfirm
  BY <1>4 DEF BootConfirm, MarkedValid, work, RunningBoots, BootsWholeImage, Bootable, SlotInv
<1>5. CASE RollbackMark
  BY <1>5 DEF RollbackMark, work, RunningBoots, BootsWholeImage, SlotInv
<1>6. CASE RollbackRecord
  BY <1>6 DEF RollbackRecord, work, RunningBoots, BootsWholeImage, SlotInv
<1>7. CASE RollbackRestart
  BY <1>7 DEF RollbackRestart, RunningBoots, BootsWholeImage
<1>8. CASE MainStart
  BY <1>8 DEF MainStart, flashVars, work, RunningBoots, BootsWholeImage, Bootable, SlotInv
<1>9. CASE rt_brake_settle
  BY <1>9
     DEF rt_brake_settle, flashVars, bootVars, work, RunningBoots, BootsWholeImage, Bootable,
         Untried, SlotInv
<1>10. CASE milestone_tick
  BY <1>10
     DEF milestone_tick, fwu_verify_now, bootVars, RunningBoots, BootsWholeImage, Bootable,
         Untried, SlotInv
<1>11. CASE fwu_confirm_fn
  BY <1>11
     DEF fwu_confirm_fn, MarkedValid, bootVars, RunningBoots, BootsWholeImage, Bootable,
         Untried, SlotInv
<1>12. CASE JobRestarts
  BY <1>12 DEF JobRestarts, Plans, RunningBoots, BootsWholeImage
<1>13. CASE Restarts
  BY <1>13 DEF Restarts, Resets, RunningBoots, BootsWholeImage
<1>14. CASE BadImageCrashes
  BY <1>14 DEF BadImageCrashes, Crash, Resets, RunningBoots, BootsWholeImage
<1>15. ASSUME NEW b \in BOOLEAN, PullRecords(b)
      PROVE  RunningBoots'
  BY <1>15 DEF PullRecords, bootVars, RunningBoots, BootsWholeImage, Bootable, SlotInv
<1>16. ASSUME NEW b \in BOOLEAN, end_job(b)
      PROVE  RunningBoots'
  BY <1>16
     DEF end_job, bootVars, RunningBoots, BootsWholeImage, Bootable, SlotInv, FlashOK,
         ImageOK, IInv
<1>17. CASE SessionFails
  BY <1>17 DEF SessionFails, flashVars, bootVars, RunningBoots, BootsWholeImage, Bootable, SlotInv
<1>18. CASE begin_job
  BY <1>18, OtherSlot
     DEF begin_job, SessionBegins, MarkedValid, flashVars, bootVars, work, bounds, history,
         RunningBoots, BootsWholeImage, Bootable, Untried, SlotInv, FlashOK, ImageOK, IInv
<1>19. ASSUME NEW r \in Reasons, UserRestarts(r)
      PROVE  RunningBoots'
  BY <1>19 DEF UserRestarts, Plans, RunningBoots, BootsWholeImage
<1>20. CASE fw_update_confirm
  BY <1>20
     DEF fw_update_confirm, fwu_verify_now, bootVars, RunningBoots, BootsWholeImage, Bootable,
         Untried, SlotInv
<1>21. CASE fw_update_forget
  BY <1>21
     DEF fw_update_forget, bootVars, work, RunningBoots, BootsWholeImage, Bootable, Untried,
         SlotInv
<1>22. CASE ParkRetries
  BY <1>22 DEF ParkRetries, Plans, RunningBoots, BootsWholeImage
<1>23. CASE AnyCrash
  BY <1>23 DEF AnyCrash, Crash, Resets, RunningBoots, BootsWholeImage
<1>24. CASE OtherReset
  BY <1>24 DEF OtherReset, Resets, RunningBoots, BootsWholeImage
<1>25. CASE PowerCycle
  BY <1>25 DEF PowerCycle, Resets, RunningBoots, BootsWholeImage
<1>q. QED
  BY <1>u, <1>1, <1>2, <1>3, <1>4, <1>5, <1>6, <1>7, <1>8, <1>9, <1>10, <1>11, <1>12, <1>13, <1>14, <1>15, <1>16, <1>17, <1>18, <1>19, <1>20, <1>21, <1>22, <1>23, <1>24, <1>25
     DEF Next, BootStep, RunStep

\* Numbers of images are not given twice.
LEMMA NextIds ==
    ASSUME OutInv, SlotInv, RecordInv, IInv, [Next]_vars
    PROVE  IdsDiffer'
<1>u. CASE UNCHANGED vars
  BY <1>u DEF vars, IdsDiffer, OutInv
<1>1. CASE Bootloader
  BY <1>1 DEF Bootloader, bounds, IdsDiffer, OutInv
<1>2. ASSUME NEW b \in BOOLEAN, restart_tracker_init(b)
      PROVE  IdsDiffer'
  BY <1>2 DEF restart_tracker_init, flashVars, bounds, IdsDiffer, OutInv
<1>3. CASE BootCheck
  BY <1>3 DEF BootCheck, Recorded, bounds, IdsDiffer, OutInv, ImageOK, IInv
<1>4. CASE BootConfirm
  BY <1>4 DEF BootConfirm, bounds, IdsDiffer, OutInv
<1>5. CASE RollbackMark
  BY <1>5 DEF RollbackMark, bounds, IdsDiffer, OutInv
<1>6. CASE RollbackRecord
  BY <1>6 DEF RollbackRecord, Recorded, bounds, IdsDiffer, OutInv
<1>7. CASE RollbackRestart
  BY <1>7 DEF RollbackRestart, flashVars, bounds, IdsDiffer, OutInv
<1>8. CASE MainStart
  BY <1>8 DEF MainStart, flashVars, work, bounds, IdsDiffer, OutInv, RunningBoots, SlotInv
<1>9. CASE rt_brake_settle
  BY <1>9 DEF rt_brake_settle, flashVars, bootVars, work, bounds, IdsDiffer, OutInv
<1>10. CASE milestone_tick
  BY <1>10 DEF milestone_tick, fwu_verify_now, Recorded, bounds, IdsDiffer, OutInv, ImageOK, IInv
<1>11. CASE fwu_confirm_fn
  BY <1>11 DEF fwu_confirm_fn, bootVars, bounds, IdsDiffer, OutInv
<1>12. CASE JobRestarts
  BY <1>12 DEF JobRestarts, Plans, IdsDiffer, OutInv
<1>13. CASE Restarts
  BY <1>13 DEF Restarts, Resets, flashVars, bounds, IdsDiffer, OutInv
<1>14. CASE BadImageCrashes
  BY <1>14 DEF BadImageCrashes, Crash, Resets, flashVars, IdsDiffer, OutInv
<1>15. ASSUME NEW b \in BOOLEAN, PullRecords(b)
      PROVE  IdsDiffer'
  BY <1>15, OtherSlot DEF PullRecords, bounds, IdsDiffer, OutInv, FlashOK, IInv
<1>16. ASSUME NEW b \in BOOLEAN, end_job(b)
      PROVE  IdsDiffer'
  BY <1>16, OtherSlot
     DEF end_job, flashVars, bootVars, bounds, IdsDiffer, OutInv, FlashOK, ImageOK, IInv
<1>17. CASE SessionFails
  BY <1>17 DEF SessionFails, flashVars, bounds, IdsDiffer, OutInv
<1>18. CASE begin_job
  <2>0. PICK next \in {"pull", "upload"} : SessionBegins(next)
    BY <1>18 DEF begin_job
  <2>1. /\ Other(running) \in Slots /\ installs \in Nat
        /\ \A s \in Slots : image[s].id \in Nat
        /\ \A s \in Slots : image'[s].id = IF s = Other(running) THEN installs + 1 ELSE image[s].id
    BY <2>0, OtherSlot, Constants DEF SessionBegins, FlashOK, ImageOK, IInv
  <2>2. installs' = installs + 1 /\ record' = record /\ running' = running /\ record.id \in Nat
    BY <2>0, Constants DEF SessionBegins, bootVars, ImageOK, IInv
  <2>3. QED
    BY <2>1, <2>2 DEF IdsDiffer, OutInv
<1>19. ASSUME NEW r \in Reasons, UserRestarts(r)
      PROVE  IdsDiffer'
  BY <1>19 DEF UserRestarts, Plans, IdsDiffer, OutInv
<1>20. CASE fw_update_confirm
  BY <1>20
     DEF fw_update_confirm, fwu_verify_now, Recorded, flashVars, bootVars, bounds, IdsDiffer,
         OutInv, ImageOK, IInv
<1>21. CASE fw_update_forget
  BY <1>21 DEF fw_update_forget, Recorded, bootVars, work, IdsDiffer, OutInv
<1>22. CASE ParkRetries
  BY <1>22 DEF ParkRetries, Plans, IdsDiffer, OutInv
<1>23. CASE AnyCrash
  BY <1>23 DEF AnyCrash, Crash, Resets, flashVars, IdsDiffer, OutInv
<1>24. CASE OtherReset
  BY <1>24 DEF OtherReset, Resets, flashVars, IdsDiffer, OutInv
<1>25. CASE PowerCycle
  BY <1>25 DEF PowerCycle, Resets, flashVars, IdsDiffer, OutInv
<1>q. QED
  BY <1>u, <1>1, <1>2, <1>3, <1>4, <1>5, <1>6, <1>7, <1>8, <1>9, <1>10, <1>11, <1>12, <1>13, <1>14, <1>15, <1>16, <1>17, <1>18, <1>19, <1>20, <1>21, <1>22, <1>23, <1>24, <1>25
     DEF Next, BootStep, RunStep

\* The rollback's record is of the running image.
LEMMA NextMarked ==
    ASSUME OutInv, SlotInv, RecordInv, IInv, [Next]_vars
    PROVE  MarkedIsRecorded'
<1>u. CASE UNCHANGED vars
  BY <1>u DEF vars, MarkedIsRecorded, GivenUp, OutInv
<1>1. CASE Bootloader
  BY <1>1 DEF Bootloader, MarkedIsRecorded
<1>2. ASSUME NEW b \in BOOLEAN, restart_tracker_init(b)
      PROVE  MarkedIsRecorded'
  BY <1>2 DEF restart_tracker_init, MarkedIsRecorded
<1>3. CASE BootCheck
  BY <1>3 DEF BootCheck, MarkedIsRecorded
<1>4. CASE BootConfirm
  BY <1>4 DEF BootConfirm, MarkedIsRecorded
<1>5. CASE RollbackMark
  <2>1. record.state = "REBOOTING" /\ running = record.slot /\ record' = record /\ running' = running
    BY <1>5 DEF RollbackMark, fwu_boot_decide
  <2>2. otadata'.state[running] = "invalid"
    BY <1>5 DEF RollbackMark, FlashOK, IInv
  <2>3. QED
    BY <2>1, <2>2 DEF MarkedIsRecorded, GivenUp
<1>6. CASE RollbackRecord
  BY <1>6 DEF RollbackRecord, MarkedIsRecorded
<1>7. CASE RollbackRestart
  BY <1>7 DEF RollbackRestart, MarkedIsRecorded
<1>8. CASE MainStart
  BY <1>8 DEF MainStart, MarkedIsRecorded
<1>9. CASE rt_brake_settle
  BY <1>9 DEF rt_brake_settle, bootVars, MarkedIsRecorded
<1>10. CASE milestone_tick
  BY <1>10 DEF milestone_tick, fwu_verify_now, bootVars, MarkedIsRecorded
<1>11. CASE fwu_confirm_fn
  BY <1>11 DEF fwu_confirm_fn, bootVars, MarkedIsRecorded
<1>12. CASE JobRestarts
  BY <1>12 DEF JobRestarts, Plans, MarkedIsRecorded
<1>13. CASE Restarts
  BY <1>13 DEF Restarts, Resets, MarkedIsRecorded
<1>14. CASE BadImageCrashes
  BY <1>14 DEF BadImageCrashes, Crash, Resets, MarkedIsRecorded
<1>15. ASSUME NEW b \in BOOLEAN, PullRecords(b)
      PROVE  MarkedIsRecorded'
  BY <1>15 DEF PullRecords, bootVars, MarkedIsRecorded
<1>16. ASSUME NEW b \in BOOLEAN, end_job(b)
      PROVE  MarkedIsRecorded'
  BY <1>16 DEF end_job, bootVars, MarkedIsRecorded
<1>17. CASE SessionFails
  BY <1>17 DEF SessionFails, bootVars, MarkedIsRecorded
<1>18. CASE begin_job
  BY <1>18 DEF begin_job, SessionBegins, bootVars, MarkedIsRecorded
<1>19. ASSUME NEW r \in Reasons, UserRestarts(r)
      PROVE  MarkedIsRecorded'
  BY <1>19 DEF UserRestarts, Plans, MarkedIsRecorded
<1>20. CASE fw_update_confirm
  BY <1>20 DEF fw_update_confirm, fwu_verify_now, bootVars, MarkedIsRecorded
<1>21. CASE fw_update_forget
  BY <1>21 DEF fw_update_forget, bootVars, MarkedIsRecorded
<1>22. CASE ParkRetries
  BY <1>22 DEF ParkRetries, Plans, MarkedIsRecorded
<1>23. CASE AnyCrash
  BY <1>23 DEF AnyCrash, Crash, Resets, MarkedIsRecorded
<1>24. CASE OtherReset
  BY <1>24 DEF OtherReset, Resets, MarkedIsRecorded
<1>25. CASE PowerCycle
  BY <1>25 DEF PowerCycle, Resets, MarkedIsRecorded
<1>q. QED
  BY <1>u, <1>1, <1>2, <1>3, <1>4, <1>5, <1>6, <1>7, <1>8, <1>9, <1>10, <1>11, <1>12, <1>13, <1>14, <1>15, <1>16, <1>17, <1>18, <1>19, <1>20, <1>21, <1>22, <1>23, <1>24, <1>25
     DEF Next, BootStep, RunStep

\* A rolled-back image stays given up.
LEMMA NextRolledOut ==
    ASSUME OutInv, SlotInv, RecordInv, IInv, [Next]_vars
    PROVE  RolledOut'
<1>u. CASE UNCHANGED vars
  BY <1>u DEF vars, RolledOut, GivenUp, OutInv
<1>1. CASE Bootloader
  BY <1>1 DEF Bootloader, RolledOut, GivenUp, OutInv
<1>2. ASSUME NEW b \in BOOLEAN, restart_tracker_init(b)
      PROVE  RolledOut'
  BY <1>2 DEF restart_tracker_init, flashVars, RolledOut, GivenUp, OutInv
<1>3. CASE BootCheck
  <2>1. /\ otadata' = otadata /\ image' = image /\ phase' # "run"
        /\ record'.id = record.id
    BY <1>3 DEF BootCheck, Recorded, ImageOK, IInv
  <2>2. CASE fwu_boot_decide = "ROLLED_BACK_BL"
    <3>1. record.state = "REBOOTING" /\ GivenUp(record.slot)
      BY <2>2 DEF fwu_boot_decide, GivenUp
    <3>2. image[record.slot].id = record.id /\ record.id > 0
      BY <3>1 DEF RecordInv, RecordNamesImage, OutInv, IdsDiffer
    <3>3. \A s \in Slots : image[s].id = record.id => s = record.slot
      BY <3>2 DEF OutInv, IdsDiffer, ImageOK, IInv
    <3>4. QED
      BY <2>1, <3>1, <3>3 DEF RolledOut, GivenUp
  <2>3. CASE fwu_boot_decide # "ROLLED_BACK_BL"
    <3>1. record'.state = record.state \/ record'.state # "ROLLED_BACK"
      BY <1>3, <2>3 DEF BootCheck, Recorded, ImageOK, IInv
    <3>2. QED
      BY <2>1, <3>1 DEF RolledOut, GivenUp, OutInv
  <2>4. QED
    BY <2>2, <2>3
<1>4. CASE BootConfirm
  BY <1>4
     DEF BootConfirm, MarkedValid, RolledOut, GivenUp, OutInv, RunningBoots, BootsWholeImage,
         Bootable, SlotInv
<1>5. CASE RollbackMark
  BY <1>5 DEF RollbackMark, RolledOut, GivenUp, OutInv
<1>6. CASE RollbackRecord
  <2>1. /\ otadata' = otadata /\ image' = image /\ phase' # "run"
        /\ record'.id = record.id /\ phase = "marked"
    BY <1>6 DEF RollbackRecord, Recorded, ImageOK, IInv
  <2>2. record.state = "REBOOTING" /\ GivenUp(record.slot)
    BY <2>1 DEF OutInv, MarkedIsRecorded
  <2>3. image[record.slot].id = record.id /\ record.id > 0
    BY <2>2 DEF RecordInv, RecordNamesImage, OutInv, IdsDiffer
  <2>4. \A s \in Slots : image[s].id = record.id => s = record.slot
    BY <2>3 DEF OutInv, IdsDiffer, ImageOK, IInv
  <2>5. QED
    BY <2>1, <2>2, <2>4 DEF RolledOut, GivenUp
<1>7. CASE RollbackRestart
  BY <1>7 DEF RollbackRestart, flashVars, RolledOut, GivenUp, OutInv
<1>8. CASE MainStart
  BY <1>8 DEF MainStart, flashVars, work, RolledOut, GivenUp, OutInv, RunningBoots, SlotInv
<1>9. CASE rt_brake_settle
  BY <1>9 DEF rt_brake_settle, flashVars, bootVars, work, RolledOut, GivenUp, OutInv
<1>10. CASE milestone_tick
  BY <1>10 DEF milestone_tick, fwu_verify_now, Recorded, RolledOut, ImageOK, IInv
<1>11. CASE fwu_confirm_fn
  BY <1>11
     DEF fwu_confirm_fn, MarkedValid, bootVars, RolledOut, GivenUp, OutInv, RunningBoots,
         BootsWholeImage, Bootable, SlotInv
<1>12. CASE JobRestarts
  BY <1>12
     DEF JobRestarts, Plans, MarkedValid, RolledOut, GivenUp, OutInv, RunningBoots,
         BootsWholeImage, Bootable, SlotInv
<1>13. CASE Restarts
  BY <1>13 DEF Restarts, Resets, flashVars, RolledOut, GivenUp, OutInv
<1>14. CASE BadImageCrashes
  BY <1>14 DEF BadImageCrashes, Crash, Resets, flashVars, RolledOut, GivenUp, OutInv
<1>15. ASSUME NEW b \in BOOLEAN, PullRecords(b)
      PROVE  RolledOut'
  BY <1>15 DEF PullRecords, RolledOut
<1>16. ASSUME NEW b \in BOOLEAN, end_job(b)
      PROVE  RolledOut'
  BY <1>16 DEF end_job, RolledOut, GivenUp, OutInv, ImageOK, IInv
<1>17. CASE SessionFails
  BY <1>17 DEF SessionFails, flashVars, RolledOut, GivenUp, OutInv
<1>18. CASE begin_job
  BY <1>18, OtherSlot
     DEF begin_job, SessionBegins, MarkedValid, flashVars, bootVars, work, bounds, history,
         RolledOut, GivenUp, IdsDiffer, OutInv, RunningBoots, BootsWholeImage, Bootable,
         SlotInv, FlashOK, ImageOK, RunOK, IInv
<1>19. ASSUME NEW r \in Reasons, UserRestarts(r)
      PROVE  RolledOut'
  BY <1>19
     DEF UserRestarts, Plans, MarkedValid, RolledOut, GivenUp, OutInv, RunningBoots,
         BootsWholeImage, Bootable, SlotInv
<1>20. CASE fw_update_confirm
  BY <1>20
     DEF fw_update_confirm, fwu_verify_now, Recorded, bootVars, RolledOut, GivenUp, OutInv,
         ImageOK, IInv
<1>21. CASE fw_update_forget
  BY <1>21 DEF fw_update_forget, Recorded, RolledOut
<1>22. CASE ParkRetries
  BY <1>22 DEF ParkRetries, Plans, RolledOut, GivenUp, OutInv
<1>23. CASE AnyCrash
  BY <1>23 DEF AnyCrash, Crash, Resets, flashVars, RolledOut, GivenUp, OutInv
<1>24. CASE OtherReset
  BY <1>24 DEF OtherReset, Resets, flashVars, RolledOut, GivenUp, OutInv
<1>25. CASE PowerCycle
  BY <1>25 DEF PowerCycle, Resets, flashVars, RolledOut, GivenUp, OutInv
<1>q. QED
  BY <1>u, <1>1, <1>2, <1>3, <1>4, <1>5, <1>6, <1>7, <1>8, <1>9, <1>10, <1>11, <1>12, <1>13, <1>14, <1>15, <1>16, <1>17, <1>18, <1>19, <1>20, <1>21, <1>22, <1>23, <1>24, <1>25
     DEF Next, BootStep, RunStep

----------------------------------------------------------------------------
LEMMA InitIInv == Init => IInv
<1>. SUFFICES ASSUME Init PROVE IInv
  OBVIOUS
<1>1. FlashOK /\ ImageOK
  <2>1. FlashOK
    BY DEF Init, FlashOK, Slots
  <2>2. 0 \in 0 .. MaxInstalls
    BY Constants
  <2>3. ImageOK
    BY <2>2 DEF Init, ImageOK, Slots
  <2>4. QED
    BY <2>1, <2>3
<1>2. BrakeOK /\ RunOK
  <2>1. 0 \in 0 .. STREAK_MAX /\ 0 \in 0 .. MaxUpsets
    BY Constants
  <2>2. BrakeOK
    BY <2>1 DEF Init, BrakeOK, rt_brake_reset
  <2>3. RunOK
    BY <2>1 DEF Init, RunOK
  <2>4. QED
    BY <2>2, <2>3
<1>3. Announced /\ VerdictBrakes
  BY DEF Init, Announced, VerdictBrakes, Up, rt_brake_reset
<1>4. ~brake.retry
  BY DEF Init, rt_brake_reset
<1>5. ~crashed
  BY DEF Init
<1>6. BootStreak(crashed) = 0
  BY <1>4, <1>5 DEF BootStreak, CrashedQuickly
<1>7. CountKeepsUp
  BY <1>5, <1>6 DEF Init, CountKeepsUp, Up
<1>8. QED
  BY <1>1, <1>2, <1>3, <1>7 DEF IInv

LEMMA NextIInv == IInv /\ [Next]_vars => IInv'
  BY NextFlash, NextImage, NextBrake, NextRun, NextAnnounced, NextCount, NextVerdict DEF IInv

LEMMA InvIInv == Spec => []IInv
  BY InitIInv, NextIInv, PTL DEF Spec

LEMMA InitRInv == Init => RInv
  BY
     DEF Init, RInv, RecordInv, RecordNamesImage, RunningIsRecorded, MilestoneWasReached,
         VerifiedUnlessRaced, VerifiedMeansItRan

LEMMA NextRInv == RInv /\ IInv /\ [Next]_vars => RInv'
  BY NextNames, NextRecorded, NextMilestone, NextVerified DEF RInv, RecordInv

\* The state of the boot chain keeps its types, and the brake's eight-bit
\* streak (restart_tracker_brake_core.c, bump) its width, whatever resets,
\* crashes, installations and restarts happen.
THEOREM TypeCorrect == Spec => []TypeOK
<1>1. IInv => TypeOK
  BY DEF IInv, FlashOK, ImageOK, BrakeOK, RunOK, TypeOK
<1>2. QED
  BY <1>1, InvIInv, PTL

\* rt_brake_boot bounds every crash loop: after RESTART_TRACKER_BRAKE_STREAK
\* quick crashes in a row the firmware does not start, but for a park's one try.
THEOREM LoopBraked == Spec => []LoopIsBraked
<1>1. IInv => LoopIsBraked
  <2>. SUFFICES ASSUME IInv, phase = "run"
                PROVE  quick < RESTART_TRACKER_BRAKE_STREAK \/ oneTry
    BY DEF LoopIsBraked
  <2>1. verdict = "NORMAL" /\ quick <= brake.streak
    BY DEF IInv, VerdictBrakes, CountKeepsUp, Up
  <2>2. brake.streak < RESTART_TRACKER_BRAKE_STREAK \/ oneTry
    BY <2>1 DEF IInv, VerdictBrakes, Up
  <2>3. QED
    BY <2>1, <2>2, Constants DEF IInv, BrakeOK
<1>2. QED
  BY <1>1, InvIInv, PTL

\* fwu_boot_decide and fwu_verify_now say VERIFIED only of an image that ran,
\* unless another task's restart was marked in the delay between that job's
\* record and its own restart (fwu_restart_task only delays): with that one
\* exception in the statement, and under no assumption on who restarts when.
THEOREM VerifiedRan == Spec => []VerifiedUnlessRaced
<1>1. RInv => VerifiedUnlessRaced
  BY DEF RInv
<1>2. QED
  BY <1>1, NextRInv, InvIInv, InitRInv, PTL DEF Spec

LEMMA InitOut == Init => RecordInv /\ SlotInv /\ OutInv
<1>. SUFFICES ASSUME Init PROVE RecordInv /\ SlotInv /\ OutInv
  OBVIOUS
<1>1. RecordInv
  BY DEF Init, RecordInv, RecordNamesImage, RunningIsRecorded, Up
<1>2. SlotInv
  BY
     DEF Init, SlotInv, SomeSolid, Solid, UntriedBoots, Untried, RunningBoots,
         BootsWholeImage, Slots
<1>3. OutInv
  BY DEF Init, OutInv, IdsDiffer, MarkedIsRecorded, RolledOut, Slots
<1>4. QED
  BY <1>1, <1>2, <1>3

LEMMA OutAlways == Spec => [](IInv /\ SlotInv /\ OutInv)
<1>1. RecordInv /\ SlotInv /\ OutInv /\ IInv /\ [Next]_vars => (RecordInv /\ SlotInv /\ OutInv)'
  BY NextNames, NextRecorded, NextSolid, NextUntried, NextRunning, NextIds, NextMarked, NextRolledOut
     DEF RecordInv, SlotInv, OutInv
<1>2. QED
  BY <1>1, InvIInv, InitOut, PTL DEF Spec

\* An image whose job is recorded ROLLED_BACK does not run again, in either
\* bootloader and whatever crashes, power cuts, uploads and restarts in the
\* job's delay follow: its slot is given up until another image replaces it.
THEOREM RolledBackOut == Spec => []RolledBackStaysOut
<1>1. IInv /\ SlotInv /\ OutInv => RolledBackStaysOut
  BY
     DEF SlotInv, RunningBoots, BootsWholeImage, Bootable, OutInv, RolledOut, GivenUp,
         RolledBackStaysOut, IInv, FlashOK
<1>2. QED
  BY <1>1, OutAlways, PTL

\* begin_job, end_job, the boot check's rollback and the bootloader never leave
\* the device with an image that is torn or given up as the one it starts.
THEOREM NeverBricked == Spec => []BootsWholeImage
<1>1. SlotInv => BootsWholeImage
  BY DEF SlotInv, RunningBoots, BootsWholeImage
<1>2. QED
  BY <1>1, OutAlways, PTL

=============================================================================
