------------------------------ MODULE DiagHold ------------------------------
(***************************************************************************)
(* The diagnostics hold of obd_gate and everyone who uses it.  A tool (the *)
(* UDS tool, the J2534 server, a script) holds the bus for itself;         *)
(* autopid's poller looks at the hold on every loop, stays off the bus     *)
(* while it is held and acknowledges; a tool that took the hold waits for  *)
(* that acknowledgement, up to 700 ms, before its first request.  The      *)
(* poller's DTC scan is a task of its own, which the poller only starts:   *)
(* neither the scan nor its pause of the poller looks at the hold.         *)
(*                                                                         *)
(* Each call into obd_gate is one critical section and one step; so is     *)
(* every access of uds_manager.c and j2534_server.c to the flags they share*)
(* between tasks without a lock (s_exclusive, s_holding, s_session,        *)
(* client_connected).  Of time only the orders that matter are kept.  The  *)
(* poller's turn on the bus may outlast the 700 ms (one chip request alone *)
(* may take AP_REQ_TIMEOUT = 1500 ms), so the wait may run out at any poll.*)
(* The 10 s of the idle timer pass only while every task is at rest, idle  *)
(* or in a transaction (twenty responsePending frames of p2star_ms each    *)
(* take longer): no few instructions of any task take 10 s.                *)
(***************************************************************************)
EXTENDS Naturals, FiniteSets

CONSTANTS
    UdsTasks,             \* tasks that call uds_manager
    Testers,              \* transport task of j2534_server: {} or one task
    Switchers,            \* tasks that flip an `exclusive` option at run time
    Scripts,              \* the script runner: {} or one task
    ExternalApp,          \* an app may drive the chip over a bridge
    PeriodicScan,         \* the poller's DTC scan is configured
    ChipJobs,             \* chip jobs may be asked for (web, rules)
    OG_DIAG_MAX_HOLDERS,
    NULL

Owners == {"uds", "j2534", "script"}
Tasks == UdsTasks \cup Testers \cup Switchers \cup Scripts

ASSUME DiagAssumption ==
    /\ OG_DIAG_MAX_HOLDERS \in Nat /\ NULL \notin Tasks /\ ExternalApp \in BOOLEAN
    /\ PeriodicScan \in BOOLEAN /\ ChipJobs \in BOOLEAN
    /\ UdsTasks \cap (Testers \cup Switchers \cup Scripts) = {}
    /\ Testers \cap (Switchers \cup Scripts) = {} /\ Switchers \cap Scripts = {}

VARIABLES
    holders,          \* og_diag_t.holders, as a set
    acked,            \* og_diag_t.acked
    poller_seen,      \* og_diag_t.poller_seen
    ppc,              \* autopid's poller_task
    s_paused_diag,
    s_paused_client,
    jpc,              \* the one-shot chip job: the DTC scan's task, or another
    pc,               \* every other task
    then,             \* where uds_excl_touch returns to
    s_exclusive,      \* uds_manager.c
    s_holding,
    s_session,
    own_claim,        \* uds_request: this task took s_claim
    s_claim,          \* holder of the claim semaphore, "session" or NULL
    armed,            \* s_excl_timer: stopped, running, or due to fire
    tpc,              \* the esp_timer task in excl_timer_cb
    j_exclusive,      \* j2534_server.c: s_exclusive
    client_connected, \* j2534_server.c: s_status.client_connected
    j_hold,           \* set_exclusive's `on && client_connected`, evaluated
    quiet,            \* history: owners whose wait ended with the acknowledgement
    late              \* history: the poller began this job although some owner was in quiet

diag == <<holders, acked, poller_seen>>
poller == <<ppc, s_paused_diag, s_paused_client>>
uds == <<then, s_exclusive, s_holding, s_session, own_claim, s_claim>>
job == <<jpc, late>>
timer == <<armed, tpc>>
j2534 == <<j_exclusive, client_connected, j_hold>>
vars == <<holders, acked, poller_seen, ppc, s_paused_diag, s_paused_client, jpc, pc, then, s_exclusive,
          s_holding, s_session, own_claim, s_claim, armed, tpc, j_exclusive,
          client_connected, j_hold, quiet, late>>

DiagTypeOK ==
    /\ holders \subseteq Owners /\ acked \in BOOLEAN /\ poller_seen \in BOOLEAN
    /\ Cardinality(holders) <= OG_DIAG_MAX_HOLDERS
    /\ ppc \in {"top", "client", "diag", "restore", "ack", "check", "decide", "bus"}
    /\ s_paused_diag \in BOOLEAN /\ s_paused_client \in BOOLEAN
    /\ quiet \subseteq Owners
    /\ jpc \in {"none", "start", "park", "scan", "over"} /\ late \in BOOLEAN

Places == {"idle", "claim", "touch", "check", "mark", "hold", "ackwait", "stop", "start",
           "use", "ended", "x_stop", "x_check", "x_off", "x_session", "attached", "off",
           "eval", "set"}

UdsTypeOK ==
    /\ pc \in [Tasks -> Places]
    /\ then \in [Tasks -> {"idle", "use"}]
    /\ own_claim \in [Tasks -> BOOLEAN]
    /\ s_claim \in Tasks \cup {"session", NULL}
    /\ s_exclusive \in BOOLEAN /\ s_holding \in BOOLEAN /\ s_session \in BOOLEAN
    /\ armed \in {"no", "running", "due"} /\ tpc \in {"wait", "cb", "clear", "off"}
    /\ j_exclusive \in BOOLEAN /\ client_connected \in BOOLEAN /\ j_hold \in BOOLEAN

\* The type invariant: the hold and its poller, the tools' flags and places.
TypeOK == DiagTypeOK /\ UdsTypeOK

\* the boot-applied options; a tool that is not in the firmware has none
Init ==
    /\ holders = {} /\ acked = FALSE /\ poller_seen = FALSE
    /\ ppc = "top" /\ s_paused_diag = FALSE /\ s_paused_client = FALSE
    /\ jpc = "none" /\ late = FALSE
    /\ pc = [t \in Tasks |-> "idle"] /\ then = [t \in Tasks |-> "idle"]
    /\ own_claim = [t \in Tasks |-> FALSE]
    /\ s_exclusive \in {on \in BOOLEAN : on => UdsTasks # {}}
    /\ s_holding = FALSE /\ s_session = FALSE /\ s_claim = NULL /\ armed = "no" /\ tpc = "wait"
    /\ j_exclusive \in {on \in BOOLEAN : on => Testers # {}}
    /\ client_connected = FALSE /\ j_hold = FALSE
    /\ quiet = {}

(***************************************************************************)
(* obd_gate: og_diag_set and obd_gate_diag_ack.                            *)
(***************************************************************************)
og_diag_held == holders # {}

\* mutants of og_diag_set: the hold as a flag, not a count; an acknowledgement that
\* stays up after the last release; an emptied slot that is still counted
og_diag_set_flag(owner, on) ==
    /\ holders' = IF on THEN holders \cup {owner} ELSE {}
    /\ acked' = (acked /\ holders' # {})

og_diag_set_ack_stays(owner, on) ==
    /\ holders' = IF on THEN holders \cup {owner} ELSE holders \ {owner}
    /\ UNCHANGED acked

og_diag_set_leaves_slot(owner, on) ==
    /\ holders' = IF on THEN holders \cup {owner}
                  ELSE {IF o = owner THEN NULL ELSE o : o \in holders}
    /\ acked' = (acked /\ holders' # {})

og_diag_set(owner, on) ==
    /\ holders' = IF ~ on THEN holders \ {owner}
                  ELSE IF Cardinality(holders) < OG_DIAG_MAX_HOLDERS
                       THEN holders \cup {owner} ELSE holders
    /\ acked' = (acked /\ holders' # {})

obd_gate_diag_hold(owner, on) ==
    /\ og_diag_set(owner, on)
    /\ quiet' = IF on THEN quiet ELSE quiet \ {owner}
    /\ UNCHANGED poller_seen

obd_gate_diag_ack(off_bus) ==
    /\ poller_seen' = TRUE
    /\ acked' = (off_bus /\ og_diag_held)
    /\ UNCHANGED holders

(***************************************************************************)
(* autopid's one-shot chip jobs: the DTC scan and clear, the detection and *)
(* the test of a row.  s_job_busy admits one at a time ("none": nobody has *)
(* it); the job pauses the poller, waits up to 3 s for it to park, uses the*)
(* bus for seconds, resumes the poller and gives s_job_busy back.          *)
(***************************************************************************)
s_scan_pause == jpc \in {"park", "scan"}

\* asked for by the web or a rule
ap_core_job_acquire ==
    /\ ChipJobs /\ jpc = "none"
    /\ jpc' = "start" /\ late' = FALSE
    /\ UNCHANGED <<diag, poller, pc, uds, timer, j2534, quiet>>

JobPauses ==
    /\ jpc = "start"
    /\ jpc' = "park"
    /\ UNCHANGED <<diag, poller, pc, uds, timer, j2534, quiet, late>>

\* the poller has parked, or the 3 s are over
JobScans ==
    /\ jpc = "park"
    /\ jpc' = "scan"
    /\ UNCHANGED <<diag, poller, pc, uds, timer, j2534, quiet, late>>

JobResumes ==
    /\ jpc = "scan"
    /\ jpc' = "over"
    /\ UNCHANGED <<diag, poller, pc, uds, timer, j2534, quiet, late>>

ap_core_job_release ==
    /\ jpc = "over"
    /\ jpc' = "none" /\ late' = FALSE
    /\ UNCHANGED <<diag, poller, pc, uds, timer, j2534, quiet>>

JobStep ==
    \/ ap_core_job_acquire \/ JobPauses \/ JobScans \/ JobResumes \/ ap_core_job_release

(***************************************************************************)
(* autopid's poller_task, one loop.  "client" and "restore" send the       *)
(* baseline to the chip after a pause; "check" may start the DTC scan, in  *)
(* another task; "bus" is the due row, or first contact's probe.  The      *)
(* voltage pause, the enable flag and what is due are free choices; a row  *)
(* that asks a J1939 network does so through every pause but this one.     *)
(***************************************************************************)
PollerSeesClient(client) ==
    /\ ppc = "top"
    /\ s_paused_client' = client
    /\ ppc' \in IF s_paused_client /\ ~ client /\ ~ s_scan_pause THEN {"client", "diag"} ELSE {"diag"}
    /\ UNCHANGED <<diag, s_paused_diag, job, pc, uds, timer, j2534, quiet>>

PollerReads ==
    /\ ppc = "diag"
    /\ s_paused_diag' = og_diag_held
    /\ ppc' \in IF s_paused_diag /\ ~ og_diag_held /\ ~ s_paused_client /\ ~ s_scan_pause
                   THEN {"restore", "ack"} ELSE {"ack"}
    /\ UNCHANGED <<diag, s_paused_client, job, pc, uds, timer, j2534, quiet>>

PollerRestores ==
    /\ ppc \in {"client", "restore"}
    /\ ppc' = IF ppc = "client" THEN "diag" ELSE "ack"
    /\ UNCHANGED <<diag, s_paused_diag, s_paused_client, job, pc, uds, timer, j2534, quiet>>

\* mutant of PollerAcks: the poller reports only to a poll, not on every loop
PollerAcks_when_polling ==
    /\ ppc = "ack"
    /\ IF s_paused_diag /\ poller_seen THEN UNCHANGED diag
                                       ELSE obd_gate_diag_ack(s_paused_diag)
    /\ ppc' = "check"
    /\ UNCHANGED <<s_paused_diag, s_paused_client, job, pc, uds, timer, j2534, quiet>>

PollerAcks ==
    /\ ppc = "ack"
    /\ obd_gate_diag_ack(s_paused_diag)
    /\ ppc' = "check"
    /\ UNCHANGED <<s_paused_diag, s_paused_client, job, pc, uds, timer, j2534, quiet>>

\* ap_dtc_periodic_check, on the way from the acknowledgement to the rows, finds the
\* scan due: it takes the job and starts its task
PollerStartsScan ==
    /\ PeriodicScan /\ ppc = "check" /\ ~ s_scan_pause /\ ~ s_paused_client /\ ~ s_paused_diag
    /\ jpc = "none"
    /\ jpc' = "start" /\ late' = (quiet # {})
    /\ ppc' = "decide"
    /\ UNCHANGED <<diag, s_paused_diag, s_paused_client, pc, uds, timer, j2534, quiet>>

\* nothing due, or another pause: the next loop
PollerIdles ==
    /\ ppc \in {"check", "decide"}
    /\ ppc' = "top"
    /\ UNCHANGED <<diag, s_paused_diag, s_paused_client, job, pc, uds, timer, j2534, quiet>>

PollerPolls ==
    /\ ppc \in {"check", "decide"} /\ ~ s_paused_diag
    /\ ppc' = "bus"
    /\ UNCHANGED <<diag, s_paused_diag, s_paused_client, job, pc, uds, timer, j2534, quiet>>

PollerDone ==
    /\ ppc = "bus"
    /\ ppc' = "top"
    /\ UNCHANGED <<diag, s_paused_diag, s_paused_client, job, pc, uds, timer, j2534, quiet>>

PollerStep ==
    \/ \E client \in BOOLEAN : (client => ExternalApp) /\ PollerSeesClient(client)
    \/ PollerReads \/ PollerRestores \/ PollerAcks
    \/ PollerStartsScan \/ PollerIdles \/ PollerPolls \/ PollerDone

(***************************************************************************)
(* obd_gate_diag_wait_ack: a poll that ends the wait, or the timeout.  The *)
(* callers ignore the result.                                              *)
(***************************************************************************)
Goto(t, p) == pc' = [pc EXCEPT ![t] = p]

Acknowledged(owner) ==
    quiet' = IF owner \in holders /\ acked THEN quiet \cup {owner} ELSE quiet

AckReturns(t, owner, p) ==
    /\ pc[t] = "ackwait"
    /\ ~ og_diag_held \/ ~ poller_seen \/ acked
    /\ Acknowledged(owner)
    /\ Goto(t, p)
    /\ UNCHANGED <<diag, poller, job, uds, timer, j2534>>

AckTimesOut(t, p) ==
    /\ pc[t] = "ackwait"
    /\ og_diag_held /\ poller_seen /\ ~ acked
    /\ Goto(t, p)
    /\ UNCHANGED <<diag, poller, job, uds, timer, j2534, quiet>>

(***************************************************************************)
(* uds_manager.c: uds_request, uds_session_begin, uds_session_end.         *)
(***************************************************************************)
uds_request(t) ==
    /\ t \in UdsTasks /\ pc[t] = "idle"
    /\ own_claim' = [own_claim EXCEPT ![t] = ~ s_session]
    /\ then' = [then EXCEPT ![t] = "use"]
    /\ Goto(t, IF s_session THEN "touch" ELSE "claim")
    /\ UNCHANGED <<diag, poller, job, s_exclusive, s_holding, s_session, s_claim, timer, j2534, quiet>>

RequestClaims(t) ==
    /\ pc[t] = "claim" /\ s_claim = NULL
    /\ s_claim' = t
    /\ Goto(t, "touch")
    /\ UNCHANGED <<diag, poller, job, then, s_exclusive, s_holding, s_session, own_claim, timer, j2534, quiet>>

RequestBusy(t) ==
    /\ pc[t] = "claim" /\ s_claim # NULL
    /\ own_claim' = [own_claim EXCEPT ![t] = FALSE]
    /\ then' = [then EXCEPT ![t] = "idle"]
    /\ Goto(t, "idle")
    /\ UNCHANGED <<diag, poller, job, s_exclusive, s_holding, s_session, s_claim, timer, j2534, quiet>>

\* the transaction has ended, well or badly
RequestDone(t) ==
    /\ t \in UdsTasks /\ pc[t] = "use"
    /\ s_claim' = IF own_claim[t] THEN NULL ELSE s_claim
    /\ own_claim' = [own_claim EXCEPT ![t] = FALSE]
    /\ then' = [then EXCEPT ![t] = "idle"]
    /\ Goto(t, "idle")
    /\ UNCHANGED <<diag, poller, job, s_exclusive, s_holding, s_session, timer, j2534, quiet>>

uds_session_begin(t) ==
    /\ t \in UdsTasks /\ pc[t] = "idle" /\ s_claim = NULL
    /\ s_claim' = "session" /\ s_session' = TRUE
    /\ Goto(t, "touch")
    /\ UNCHANGED <<diag, poller, job, then, s_exclusive, s_holding, own_claim, timer, j2534, quiet>>

uds_session_end(t) ==
    /\ t \in UdsTasks /\ pc[t] = "idle" /\ s_session
    /\ s_session' = FALSE /\ s_claim' = NULL
    /\ Goto(t, "ended")
    /\ UNCHANGED <<diag, poller, job, then, s_exclusive, s_holding, own_claim, timer, j2534, quiet>>

SessionEnded(t) ==
    /\ pc[t] = "ended"
    /\ Goto(t, IF s_holding THEN "touch" ELSE "idle")
    /\ UNCHANGED <<diag, poller, job, uds, timer, j2534, quiet>>

(***************************************************************************)
(* uds_excl_touch, access by access.                                       *)
(***************************************************************************)
TouchExclusive(t) ==
    /\ pc[t] = "touch"
    /\ Goto(t, IF s_exclusive THEN "check" ELSE then[t])
    /\ UNCHANGED <<diag, poller, job, uds, timer, j2534, quiet>>

TouchHolding(t) ==
    /\ t \notin Testers /\ pc[t] = "check"
    /\ Goto(t, IF s_holding THEN "stop" ELSE "mark")
    /\ UNCHANGED <<diag, poller, job, uds, timer, j2534, quiet>>

TouchMark(t) ==
    /\ pc[t] = "mark"
    /\ s_holding' = TRUE
    /\ Goto(t, "hold")
    /\ UNCHANGED <<diag, poller, job, then, s_exclusive, s_session, own_claim, s_claim, timer, j2534, quiet>>

TouchHold(t) ==
    /\ t \in UdsTasks \cup Switchers /\ pc[t] = "hold"
    /\ obd_gate_diag_hold("uds", TRUE)
    /\ Goto(t, "ackwait")
    /\ UNCHANGED <<poller, job, uds, timer, j2534>>

TouchAcked(t) == t \in UdsTasks \cup Switchers /\ AckReturns(t, "uds", "stop")
TouchTimesOut(t) == t \in UdsTasks \cup Switchers /\ AckTimesOut(t, "stop")

TouchStop(t) ==
    /\ pc[t] = "stop"
    /\ armed' = "no"
    /\ Goto(t, "start")
    /\ UNCHANGED <<diag, poller, job, uds, tpc, j2534, quiet>>

TouchStart(t) ==
    /\ pc[t] = "start"
    /\ armed' = "running"
    /\ Goto(t, then[t])
    /\ UNCHANGED <<diag, poller, job, uds, tpc, j2534, quiet>>

(***************************************************************************)
(* excl_timer_cb in the esp_timer task.                                    *)
(***************************************************************************)
IdlePeriod ==
    /\ armed = "running" /\ tpc = "wait"
    /\ \A t \in Tasks : pc[t] \in {"idle", "use", "attached"}
    /\ armed' = "due"
    /\ UNCHANGED <<diag, poller, job, pc, uds, tpc, j2534, quiet>>

TimerFires ==
    /\ tpc = "wait" /\ armed = "due"
    /\ armed' = "no" /\ tpc' = "cb"
    /\ UNCHANGED <<diag, poller, job, pc, uds, j2534, quiet>>

excl_timer_cb ==
    /\ tpc = "cb"
    /\ armed' = IF s_session /\ armed = "no" THEN "running" ELSE armed
    /\ tpc' = IF ~ s_session /\ s_holding THEN "clear" ELSE "wait"
    /\ UNCHANGED <<diag, poller, job, pc, uds, j2534, quiet>>

TimerClears ==
    /\ tpc = "clear"
    /\ s_holding' = FALSE /\ tpc' = "off"
    /\ UNCHANGED <<diag, poller, job, pc, then, s_exclusive, s_session, own_claim, s_claim, armed, j2534, quiet>>

TimerReleases ==
    /\ tpc = "off"
    /\ obd_gate_diag_hold("uds", FALSE)
    /\ tpc' = "wait"
    /\ UNCHANGED <<poller, job, pc, uds, armed, j2534>>

TimerStep == IdlePeriod \/ TimerFires \/ excl_timer_cb \/ TimerClears \/ TimerReleases

(***************************************************************************)
(* uds_manager_set_exclusive and excl_release_now.                         *)
(***************************************************************************)
uds_manager_set_exclusive(t, on) ==
    /\ t \in Switchers /\ pc[t] = "idle" /\ UdsTasks # {}
    /\ s_exclusive' = on
    /\ Goto(t, IF on THEN "x_session" ELSE "x_stop")
    /\ UNCHANGED <<diag, poller, job, then, s_holding, s_session, own_claim, s_claim, timer, j2534, quiet>>

SwitchOn(t) ==
    /\ pc[t] = "x_session"
    /\ Goto(t, IF s_session THEN "touch" ELSE "idle")
    /\ UNCHANGED <<diag, poller, job, uds, timer, j2534, quiet>>

SwitchOffStop(t) ==
    /\ pc[t] = "x_stop"
    /\ armed' = "no"
    /\ Goto(t, "x_check")
    /\ UNCHANGED <<diag, poller, job, uds, tpc, j2534, quiet>>

\* s_holding is read and cleared back to back
SwitchOffCheck(t) ==
    /\ pc[t] = "x_check"
    /\ s_holding' = FALSE
    /\ Goto(t, IF s_holding THEN "x_off" ELSE "idle")
    /\ UNCHANGED <<diag, poller, job, then, s_exclusive, s_session, own_claim, s_claim, timer, j2534, quiet>>

SwitchOffRelease(t) ==
    /\ pc[t] = "x_off"
    /\ obd_gate_diag_hold("uds", FALSE)
    /\ Goto(t, "idle")
    /\ UNCHANGED <<poller, job, uds, timer, j2534>>

(***************************************************************************)
(* j2534_server.c: a tester attaches and leaves; the option is switched.   *)
(***************************************************************************)
j2534_srv_session_begin(t) ==
    /\ t \in Testers /\ pc[t] = "idle"
    /\ client_connected' = TRUE
    /\ Goto(t, "check")
    /\ UNCHANGED <<diag, poller, job, uds, timer, j_exclusive, j_hold, quiet>>

SessionHolds(t) ==
    /\ t \in Testers /\ pc[t] = "check"
    /\ IF j_exclusive THEN obd_gate_diag_hold("j2534", TRUE) /\ Goto(t, "ackwait")
                      ELSE Goto(t, "attached") /\ UNCHANGED <<diag, quiet>>
    /\ UNCHANGED <<poller, job, uds, timer, j2534>>

SessionAcked(t) == t \in Testers /\ AckReturns(t, "j2534", "attached")
SessionTimesOut(t) == t \in Testers /\ AckTimesOut(t, "attached")

j2534_srv_session_end(t) ==
    /\ t \in Testers /\ pc[t] = "attached"
    /\ client_connected' = FALSE
    /\ Goto(t, "off")
    /\ UNCHANGED <<diag, poller, job, uds, timer, j_exclusive, j_hold, quiet>>

SessionReleases(t) ==
    /\ t \in Testers /\ pc[t] = "off"
    /\ obd_gate_diag_hold("j2534", FALSE)
    /\ Goto(t, "idle")
    /\ UNCHANGED <<poller, job, uds, timer, j2534>>

j2534_server_set_exclusive(t, on) ==
    /\ t \in Switchers /\ pc[t] = "idle" /\ Testers # {}
    /\ j_exclusive' = on
    /\ Goto(t, "eval")
    /\ UNCHANGED <<diag, poller, job, uds, timer, client_connected, j_hold, quiet>>

SwitchEvaluates(t) ==
    /\ pc[t] = "eval"
    /\ j_hold' = (j_exclusive /\ client_connected)
    /\ Goto(t, "set")
    /\ UNCHANGED <<diag, poller, job, uds, timer, j_exclusive, client_connected, quiet>>

\* the wait that follows a hold reads only, and its result is ignored
SwitchSets(t) ==
    /\ pc[t] = "set"
    /\ obd_gate_diag_hold("j2534", j_hold)
    /\ Goto(t, "idle")
    /\ UNCHANGED <<poller, job, uds, timer, j2534>>

(***************************************************************************)
(* script_engine_bind.c: the first ECU access of a run, and its end.       *)
(***************************************************************************)
se_bus_hold(t) ==
    /\ t \in Scripts /\ pc[t] = "idle"
    /\ obd_gate_diag_hold("script", TRUE)
    /\ Goto(t, "ackwait")
    /\ UNCHANGED <<poller, job, uds, timer, j2534>>

ScriptAcked(t) == t \in Scripts /\ AckReturns(t, "script", "use")
ScriptTimesOut(t) == t \in Scripts /\ AckTimesOut(t, "use")

se_bus_hold_release(t) ==
    /\ t \in Scripts /\ pc[t] = "use"
    /\ obd_gate_diag_hold("script", FALSE)
    /\ Goto(t, "idle")
    /\ UNCHANGED <<poller, job, uds, timer, j2534>>

----------------------------------------------------------------------------
\* what a task that has begun something does next
Proceed(t) ==
    \/ RequestClaims(t) \/ RequestBusy(t) \/ RequestDone(t) \/ SessionEnded(t)
    \/ TouchExclusive(t) \/ TouchHolding(t) \/ TouchMark(t) \/ TouchHold(t)
    \/ TouchAcked(t) \/ TouchTimesOut(t) \/ TouchStop(t) \/ TouchStart(t)
    \/ SwitchOn(t) \/ SwitchOffStop(t) \/ SwitchOffCheck(t) \/ SwitchOffRelease(t)
    \/ SessionHolds(t) \/ SessionAcked(t) \/ SessionTimesOut(t) \/ SessionReleases(t)
    \/ SwitchEvaluates(t) \/ SwitchSets(t)
    \/ ScriptAcked(t) \/ ScriptTimesOut(t) \/ se_bus_hold_release(t)

Begin(t) ==
    \/ uds_request(t) \/ uds_session_begin(t) \/ uds_session_end(t)
    \/ \E on \in BOOLEAN : uds_manager_set_exclusive(t, on) \/ j2534_server_set_exclusive(t, on)
    \/ j2534_srv_session_begin(t) \/ j2534_srv_session_end(t)
    \/ se_bus_hold(t)

Next == PollerStep \/ JobStep \/ TimerStep \/ \E t \in Tasks : Begin(t) \/ Proceed(t)

Spec == Init /\ [][Next]_vars

\* The poller loops, the esp_timer task dispatches a timer that is due and a
\* task finishes the call it has begun; nothing makes anyone begin a call.
FairSpec ==
    /\ Spec
    /\ WF_vars(PollerStep) /\ WF_vars(TimerStep)
    /\ \A t \in Tasks : WF_vars(Proceed(t))

----------------------------------------------------------------------------
PollerOnBus == ppc = "bus"

\* Whenever the acknowledgement is up, poller_task is off the bus with its rows and
\* will look at the hold again before it returns to it (obd_gate_diag_ack).  This is
\* poller_task's own half of the comment at its pause, `stay off the chip (polls AND
\* DTC scans)`.  The other half the code does not have: the scan is a task of its
\* own, and one that began before the hold goes on while poller_task acknowledges.
AckMeansPollerOff == acked => s_paused_diag /\ ~ PollerOnBus

\* From the acknowledgement a tool waited for until its own hold is released, the
\* poller neither polls a row nor starts a DTC scan, whatever the other tools hold
\* and release meanwhile (og_diag_set: the hold is a count of owners, not a flag).
\* A scan that the poller started before, and a job that the web or a rule asks
\* for, are not covered: they do not look at the hold.
PollerStaysOff == \A o \in quiet : o \in holders /\ ~ PollerOnBus /\ ~ late

\* Every hold is acknowledged or over in the end: a poller that is running never
\* leaves a tool waiting (poller_task acknowledges on every loop).
AckComes == og_diag_held ~> (acked \/ ~ og_diag_held)

UdsIdle == ~ s_session /\ \A t \in UdsTasks \cup Switchers : pc[t] = "idle"

\* The UDS tool's hold does not outlive its use: it is never held for ever while
\* no request runs and no session is open (excl_timer_cb, uds_excl_touch).
UdsHoldEnds == []<>("uds" \notin holders \/ ~ UdsIdle)
=============================================================================
