------------------------------ MODULE ObdGate ------------------------------
(***************************************************************************)
(* obd_gate: the vehicle-bus conversation gate.  The OBD chip and every    *)
(* ESP-side requester speak on one CAN bus; a requester takes the gate     *)
(* before it sends and gives it back when its answer is in.  The gate is   *)
(* fail-open: a hold runs out after OBD_GATE_HOLD_MS, and a requester that *)
(* waited OBD_GATE_WAIT_MS takes the gate from whoever has it.             *)
(*                                                                         *)
(* State: og_core_t (owner, deadline, waiter and the waiter's deadline;    *)
(* the statistics are left out, nothing reads them), the boot-applied      *)
(* enable flag, and one program counter per requesting task.  Deadlines    *)
(* are kept as the time that is LEFT of them, in units of the poll period, *)
(* so "now_ms < deadline_ms" is "deadline > 0" and time needs no bound.    *)
(* Each critical section of obd_gate.c is one step.                        *)
(*                                                                         *)
(* The tasks: an ENGINE (uds_transport_isotp.c, j2534_channel_iso.c) has   *)
(* an owner token of its own.  Every task that drives the OBD chip shares  *)
(* one token: a SENDER (obd_chip_send, for a bridge's client) writes a     *)
(* command and returns, a REQUESTER (obd_chip_request) waits for the       *)
(* answer up to its timeout.  The chip's '>' prompts come back in the      *)
(* order of the commands; the RX task gives the gate back on every one.    *)
(***************************************************************************)
EXTENDS Naturals, Sequences, FiniteSets

CONSTANTS
    Engines,            \* tasks with an owner token of their own
    Senders,            \* tasks in obd_chip_send
    Requesters,         \* tasks in obd_chip_request (the COMMAND claim lets one run at a time)
    Chip,               \* obd_chip_gate_owner
    NULL,
    OBD_GATE_WAIT_MS,   \* the four times, in poll periods
    OBD_GATE_HOLD_MS,
    OG_RESERVE_MS,
    OG_POLL_MS,
    MaxPending,         \* bound on the prompts the chip still owes
    Punctual            \* no time passes while a task has a step to take

Tasks == Engines \cup Senders \cup Requesters
ChipTasks == Senders \cup Requesters

\* the opaque owner pointer each task passes
OwnerOf(t) == IF t \in ChipTasks THEN Chip ELSE t
Owners == Engines \cup {Chip}

ASSUME GateAssumption ==
    /\ Engines \cap ChipTasks = {} /\ Senders \cap Requesters = {}
    /\ Chip \notin Tasks /\ NULL \notin Tasks \cup {Chip}
    /\ OBD_GATE_WAIT_MS \in Nat /\ OBD_GATE_HOLD_MS \in Nat \ {0}
    /\ OG_RESERVE_MS \in Nat /\ OG_POLL_MS \in Nat
    /\ MaxPending \in Nat /\ Punctual \in BOOLEAN

VARIABLES
    s_enabled,       \* boot-applied `enabled`; TRUE until the apply ran
    s_configured,
    owner,           \* og_core_t.owner, NULL when the gate is free
    deadline,        \* what is left of the hold
    waiter,          \* og_core_t.waiter: owns the next turn
    waiter_deadline, \* what is left of the reservation
    pc,              \* where each task is
    since,           \* obd_gate_acquire: now_ms() - start, up to the wait
    refused,         \* history: why the task's last try was refused, if it was
    delay,           \* what is left of vTaskDelay
    pending,         \* the chip's commands without a prompt yet, oldest first
    s_inject,        \* obd_chip_fanout.c: the interception of an app's reset
    hold,            \* history: what became of the task's hold
    passed           \* history: another owner got a turn while the owner's task was refused

core == <<owner, deadline, waiter, waiter_deadline>>
vars == <<s_enabled, s_configured, owner, deadline, waiter, waiter_deadline,
          pc, since, refused, delay, pending, s_inject, hold, passed>>

Places == {"idle", "try", "check", "delay", "force", "write", "talk", "done"}
Fates == {"none", "held", "expired", "stolen", "released"}

CoreTypeOK ==
    /\ s_enabled \in BOOLEAN /\ s_configured \in BOOLEAN
    /\ owner \in Owners \cup {NULL} /\ waiter \in Owners \cup {NULL}
    /\ deadline \in 0 .. OBD_GATE_HOLD_MS
    /\ waiter_deadline \in 0 .. OG_RESERVE_MS

TaskTypeOK ==
    /\ pc \in [Tasks -> Places]
    /\ since \in [Tasks -> 0 .. OBD_GATE_WAIT_MS]
    /\ delay \in [Tasks -> 0 .. OG_POLL_MS]
    /\ refused \in [Tasks -> {"no", "held", "turn"}]
    /\ hold \in [Tasks -> Fates]
    /\ passed \in [Owners -> BOOLEAN]

PendingTypeOK ==
    /\ pending \in Seq(ChipTasks \cup {Chip, NULL})
    /\ Len(pending) <= MaxPending
    /\ s_inject \in {"idle", "armed", "hiding"}

\* The type invariant: the gate's core, the tasks, the chip's open commands.
TypeOK == CoreTypeOK /\ TaskTypeOK /\ PendingTypeOK

Init ==
    /\ s_enabled = TRUE /\ s_configured = FALSE
    /\ owner = NULL /\ deadline = 0 /\ waiter = NULL /\ waiter_deadline = 0
    /\ pc = [t \in Tasks |-> "idle"]
    /\ since = [t \in Tasks |-> 0]
    /\ refused = [t \in Tasks |-> "no"]
    /\ delay = [t \in Tasks |-> 0]
    /\ pending = <<>> /\ s_inject = "idle"
    /\ hold = [t \in Tasks |-> "none"]
    /\ passed = [o \in Owners |-> FALSE]

\* og_settings on_apply: the stored flag, once, at boot
on_apply(on) ==
    /\ ~ s_configured
    /\ s_configured' = TRUE /\ s_enabled' = on
    /\ UNCHANGED <<core, pc, since, refused, delay, pending, s_inject, hold, passed>>

(***************************************************************************)
(* The pure core.                                                          *)
(***************************************************************************)
reservation_live == waiter # NULL /\ waiter_deadline > 0

\* another owner's hold that has not run out
blocked(o) == owner \notin {NULL, o} /\ deadline > 0

\* mutant of reserved_for_other: a gate that was given back passes the reservation by
reserved_for_other_if_reaped(o) == owner \notin {NULL, o} /\ reservation_live /\ waiter # o

\* the gate is free, or its hold ran out and is reaped, but the next turn is another's
reserved_for_other(o) == owner # o /\ reservation_live /\ waiter # o

\* the refused owner takes over the reservation: there was none, or it had lapsed
Registers(o) == blocked(o) /\ ~ reservation_live

\* mutants of og_core_try_blocked: nobody is registered; the reservation outlives
\* its limit by a poll
og_core_try_blocked_unfair(o) ==
    /\ blocked(o)
    /\ UNCHANGED core

og_core_try_blocked_extra_poll(o) ==
    /\ blocked(o)
    /\ waiter' = o /\ waiter_deadline' = OG_RESERVE_MS + OG_POLL_MS
    /\ UNCHANGED <<owner, deadline>>

\* The waiter's next turn: the refused owner becomes or stays the waiter.
og_core_try_blocked(o) ==
    /\ blocked(o)
    /\ IF waiter = o \/ ~ reservation_live
          THEN waiter' = o /\ waiter_deadline' = OG_RESERVE_MS
          ELSE UNCHANGED <<waiter, waiter_deadline>>
    /\ UNCHANGED <<owner, deadline>>

og_core_try_reserved(o) ==
    /\ ~ blocked(o) /\ reserved_for_other(o)
    /\ owner' = NULL
    /\ UNCHANGED <<deadline, waiter, waiter_deadline>>

take(o) ==
    /\ waiter' = IF waiter = o THEN NULL ELSE waiter
    /\ owner' = o
    /\ deadline' = OBD_GATE_HOLD_MS
    /\ UNCHANGED waiter_deadline

og_core_try_granted(o) ==
    /\ ~ blocked(o) /\ ~ reserved_for_other(o)
    /\ take(o)

og_core_force(o) == take(o)

\* mutant of og_core_release: whoever holds the gate loses it
og_core_release_any(o) ==
    /\ owner' = IF o \in Owners THEN NULL ELSE owner
    /\ UNCHANGED <<deadline, waiter, waiter_deadline>>

og_core_release(o) ==
    /\ owner' = IF owner = o THEN NULL ELSE owner
    /\ UNCHANGED <<deadline, waiter, waiter_deadline>>

\* after og_core_release(o): the tasks of o, t excepted, that were counting on it
hold_released(o, t) ==
    [u \in Tasks |-> IF u # t /\ OwnerOf(u) = o /\ hold[u] = "held" /\ s_enabled
                        THEN "released" ELSE hold[u]]

(***************************************************************************)
(* obd_gate_acquire, one step per critical section and per wait.           *)
(***************************************************************************)
NewWait(t) ==
    /\ since' = [since EXCEPT ![t] = 0]
    /\ refused' = [refused EXCEPT ![t] = "no"]

\* only one requester is past the COMMAND claim
MayAsk(t) ==
    \/ pc[t] = "idle" /\ (t \in Requesters => \A u \in Requesters : pc[u] = "idle")
    \/ pc[t] = "talk" /\ t \in Engines     \* the next PDU of the conversation

Acquire(t) ==
    /\ MayAsk(t) /\ s_enabled
    /\ pc' = [pc EXCEPT ![t] = "try"]
    /\ NewWait(t)
    /\ UNCHANGED <<s_enabled, s_configured, core, delay, pending, s_inject, hold, passed>>

AcquireDisabled(t) ==
    /\ MayAsk(t) /\ ~ s_enabled
    /\ pc' = [pc EXCEPT ![t] = "write"]
    /\ hold' = [hold EXCEPT ![t] = "none"]
    /\ UNCHANGED <<s_enabled, s_configured, core, since, refused, delay, pending, s_inject, passed>>

TryRefused(t) ==
    /\ pc[t] = "try"
    /\ og_core_try_blocked(OwnerOf(t)) \/ og_core_try_reserved(OwnerOf(t))
    /\ refused' = [refused EXCEPT ![t] = IF blocked(OwnerOf(t)) THEN "held" ELSE "turn"]
    /\ passed' = [passed EXCEPT ![OwnerOf(t)] = @ /\ ~ Registers(OwnerOf(t))]
    /\ pc' = [pc EXCEPT ![t] = "check"]
    /\ UNCHANGED <<s_enabled, s_configured, since, delay, pending, s_inject, hold>>

\* a new turn for o: an owner whose task was refused the held gate is passed over
Overtake(o) ==
    [p \in Owners |->
        p # o /\ (passed[p] \/ (owner # o /\ \E u \in Tasks : OwnerOf(u) = p /\ refused[u] = "held"))]

TryGranted(t) ==
    /\ pc[t] = "try"
    /\ og_core_try_granted(OwnerOf(t))
    /\ pc' = [pc EXCEPT ![t] = "write"]
    /\ hold' = [hold EXCEPT ![t] = "held"]
    /\ passed' = Overtake(OwnerOf(t))
    /\ NewWait(t)
    /\ UNCHANGED <<s_enabled, s_configured, delay, pending, s_inject>>

\* mutant of WaitMore: `start` is read anew on every poll
WaitMore_restarts(t) ==
    /\ pc[t] = "check" /\ since[t] < OBD_GATE_WAIT_MS
    /\ pc' = [pc EXCEPT ![t] = "delay"]
    /\ delay' = [delay EXCEPT ![t] = OG_POLL_MS]
    /\ since' = [since EXCEPT ![t] = 0]
    /\ UNCHANGED <<s_enabled, s_configured, core, refused, pending, s_inject, hold, passed>>

WaitMore(t) ==
    /\ pc[t] = "check" /\ since[t] < OBD_GATE_WAIT_MS
    /\ pc' = [pc EXCEPT ![t] = "delay"]
    /\ delay' = [delay EXCEPT ![t] = OG_POLL_MS]
    /\ UNCHANGED <<s_enabled, s_configured, core, since, refused, pending, s_inject, hold, passed>>

WaitOver(t) ==
    /\ pc[t] = "check" /\ since[t] >= OBD_GATE_WAIT_MS
    /\ pc' = [pc EXCEPT ![t] = "force"]
    /\ UNCHANGED <<s_enabled, s_configured, core, since, refused, delay, pending, s_inject, hold, passed>>

Poll(t) ==
    /\ pc[t] = "delay" /\ delay[t] = 0
    /\ pc' = [pc EXCEPT ![t] = "try"]
    /\ UNCHANGED <<s_enabled, s_configured, core, since, refused, delay, pending, s_inject, hold, passed>>

\* fail-open: whoever held the gate is robbed of it
Steal(t) ==
    /\ pc[t] = "force"
    /\ og_core_force(OwnerOf(t))
    /\ pc' = [pc EXCEPT ![t] = "write"]
    /\ hold' = [u \in Tasks |->
                  IF u = t THEN "held"
                  ELSE IF OwnerOf(u) # OwnerOf(t) /\ hold[u] = "held" THEN "stolen"
                  ELSE hold[u]]
    /\ passed' = [passed EXCEPT ![OwnerOf(t)] = FALSE]
    /\ NewWait(t)
    /\ UNCHANGED <<s_enabled, s_configured, delay, pending, s_inject>>

(***************************************************************************)
(* The conversations.                                                      *)
(***************************************************************************)
\* an app's reset word (ATZ, ATWS, ATD) arms the interception before the write
Write(t) ==
    /\ pc[t] = "write"
    /\ IF t \in ChipTasks
          THEN Len(pending) < MaxPending /\ pending' = Append(pending, t)
          ELSE UNCHANGED pending
    /\ s_inject' \in IF t \in Senders THEN {s_inject, "armed"} ELSE {s_inject}
    /\ pc' = [pc EXCEPT ![t] = "talk"]
    /\ UNCHANGED <<s_enabled, s_configured, core, since, refused, delay, hold, passed>>

\* obd_gate_release: a no-op when the gate is disabled
Release(o) == IF s_enabled THEN og_core_release(o) ELSE UNCHANGED core

Ended(t) == hold' = [hold_released(OwnerOf(t), t) EXCEPT ![t] = "none"]

\* no room among the subscribers, or the UART write fails: a request gives the
\* gate back, a send leaves it to the max-hold expiry
WriteFails(t) ==
    /\ t \in ChipTasks /\ pc[t] = "write"
    /\ IF t \in Requesters
          THEN Release(Chip) /\ Ended(t)
          ELSE UNCHANGED core /\ hold' = [hold EXCEPT ![t] = "none"]
    /\ s_inject' \in IF t \in Senders THEN {s_inject, "armed"} ELSE {s_inject}
    /\ pc' = [pc EXCEPT ![t] = "idle"]
    /\ UNCHANGED <<s_enabled, s_configured, since, refused, delay, pending, passed>>

\* the final response, a failed send or the protocol's own timeout
EngineDone(t) ==
    /\ t \in Engines /\ pc[t] = "talk"
    /\ Release(t)
    /\ Ended(t)
    /\ pc' = [pc EXCEPT ![t] = "idle"]
    /\ UNCHANGED <<s_enabled, s_configured, since, refused, delay, pending, s_inject, passed>>

(***************************************************************************)
(* obd_core_fanout, at a '>' at line start.  It answers the oldest command:*)
(* a task's, one that was given up (NULL), or the fan-out's own ATM0       *)
(* (Chip).  A task sees the prompt unless it is hidden.                    *)
(***************************************************************************)
Shown(t) ==
    pc' = IF t \in ChipTasks
             THEN [pc EXCEPT ![t] = IF t \in Senders THEN "idle" ELSE "done"]
             ELSE pc

Prompt ==
    /\ pending # <<>> /\ s_inject = "idle"
    /\ LET t == Head(pending) IN
         /\ Release(Chip)
         /\ IF t \in ChipTasks THEN Ended(t) ELSE hold' = hold_released(Chip, NULL)
         /\ Shown(t)
    /\ pending' = Tail(pending)
    /\ UNCHANGED <<s_enabled, s_configured, since, refused, delay, s_inject, passed>>

\* the reset has answered: ATM0 at once, the gate kept
PromptArmed ==
    /\ pending # <<>> /\ s_inject = "armed"
    /\ LET t == Head(pending) IN
         /\ hold' = IF t \in ChipTasks THEN [hold EXCEPT ![t] = "none"] ELSE hold
         /\ Shown(t)
    /\ s_inject' = "hiding"
    /\ pending' = Append(Tail(pending), Chip)
    /\ UNCHANGED <<s_enabled, s_configured, core, since, refused, delay, passed>>

\* the prompt taken for the ATM0's: kept from every subscriber
PromptHidden ==
    /\ pending # <<>> /\ s_inject = "hiding"
    /\ s_inject' = "idle"
    /\ Release(Chip)
    /\ hold' = hold_released(Chip, NULL)
    /\ pending' = Tail(pending)
    /\ UNCHANGED <<s_enabled, s_configured, pc, since, refused, delay, passed>>

\* INJECT_ARM_MAX_US or INJECT_HIDE_MAX_US has passed when the next bytes come
InjectLapses ==
    /\ s_inject # "idle"
    /\ s_inject' = "idle"
    /\ IF s_inject = "hiding" THEN Release(Chip) /\ hold' = hold_released(Chip, NULL)
                              ELSE UNCHANGED <<core, hold>>
    /\ UNCHANGED <<s_enabled, s_configured, pc, since, refused, delay, pending, passed>>

Abandoned(t) == [i \in DOMAIN pending |-> IF pending[i] = t THEN NULL ELSE pending[i]]

\* cmd_engine_done with the answer: the gate is given back a second time
RequestDone(t) ==
    /\ t \in Requesters /\ pc[t] = "done"
    /\ Release(Chip)
    /\ Ended(t)
    /\ pc' = [pc EXCEPT ![t] = "idle"]
    /\ UNCHANGED <<s_enabled, s_configured, since, refused, delay, pending, s_inject, passed>>

\* cmd_engine_done at the request's timeout: the prompt is still to come
RequestTimeout(t) ==
    /\ t \in Requesters /\ pc[t] = "talk"
    /\ Release(Chip)
    /\ Ended(t)
    /\ pending' = Abandoned(t)
    /\ pc' = [pc EXCEPT ![t] = "idle"]
    /\ UNCHANGED <<s_enabled, s_configured, since, refused, delay, s_inject, passed>>

\* the client behind obd_chip_send stops waiting: nobody gives the gate back
SenderGivesUp(t) ==
    /\ t \in Senders /\ pc[t] = "talk"
    /\ pending' = Abandoned(t)
    /\ hold' = [hold EXCEPT ![t] = "none"]
    /\ pc' = [pc EXCEPT ![t] = "idle"]
    /\ UNCHANGED <<s_enabled, s_configured, core, since, refused, delay, s_inject, passed>>

(***************************************************************************)
(* Time.                                                                   *)
(***************************************************************************)
Less(n) == IF n = 0 THEN 0 ELSE n - 1

Due(t) ==
    \/ pc[t] \in {"try", "check", "force"}
    \/ pc[t] = "delay" /\ delay[t] = 0

Advance ==
    /\ deadline' = Less(deadline)
    /\ waiter_deadline' = Less(waiter_deadline)
    /\ delay' = [t \in Tasks |-> Less(delay[t])]
    /\ since' = [t \in Tasks |->
                   IF pc[t] \in {"try", "check", "delay"} /\ since[t] < OBD_GATE_WAIT_MS
                      THEN since[t] + 1 ELSE since[t]]
    /\ hold' = [t \in Tasks |->
                  IF deadline' = 0 /\ hold[t] = "held" THEN "expired" ELSE hold[t]]
    /\ UNCHANGED <<s_enabled, s_configured, owner, waiter, pc, refused, pending, s_inject, passed>>

Tick == (Punctual => \A t \in Tasks : ~ Due(t)) /\ Advance

AcquireStep(t) ==
    \/ TryRefused(t) \/ TryGranted(t)
    \/ WaitMore(t) \/ WaitOver(t) \/ Poll(t) \/ Steal(t)

Next ==
    \/ \E on \in BOOLEAN : on_apply(on)
    \/ \E t \in Tasks :
         \/ Acquire(t) \/ AcquireDisabled(t)
         \/ AcquireStep(t)
         \/ Write(t) \/ WriteFails(t) \/ EngineDone(t)
         \/ RequestDone(t) \/ RequestTimeout(t) \/ SenderGivesUp(t)
    \/ Prompt \/ PromptArmed \/ PromptHidden \/ InjectLapses
    \/ Tick

Spec == Init /\ [][Next]_vars

\* FreeRTOS runs a ready task, and esp_timer's clock advances for as long as
\* there is anything to count, however many steps the tasks take in between
\* (under Punctual too, where each tick waits for the tasks that are due).
\* Nothing obliges a conversation to end or a prompt to come.
FairSpec == Spec /\ WF_vars(Advance) /\ \A t \in Tasks : WF_vars(AcquireStep(t))

----------------------------------------------------------------------------
OnBus(t) == pc[t] \in {"write", "talk"}

\* Two requesters of different owners that both still hold what they were
\* granted are never on the bus together: conversations overlap only when one
\* of the holds ran out, was stolen, or was given back under its own token, which
\* for the chip's tasks, that share one, any of them and any prompt may do
\* (og_core_try, og_core_force, og_core_release over any interleaving).
Serialized ==
    \A t, u \in Tasks :
        OnBus(t) /\ OnBus(u) /\ OwnerOf(t) # OwnerOf(u)
            => ~ (hold[t] = "held" /\ hold[u] = "held")

\* The waiter owns the next turn: from the moment a refused task is
\* registered, and for as long as its reservation is live, no other owner gets
\* a new turn through og_core_try, also not by reaping a hold that ran out.
ReservedTurn ==
    \A o \in Owners : waiter = o /\ reservation_live => ~ passed[o]

\* Between two owners a task with a token of its own that was refused the held
\* gate is never passed over, whatever the other side does ("a tight requester
\* loop can otherwise starve a slow poller"), provided the polls come on time.
\* Tasks that share a token (the chip's) share its turn and may miss theirs.
RefusedIsNext ==
    \A t \in Tasks :
        refused[t] = "held" /\ (\A u \in Tasks : OwnerOf(u) = OwnerOf(t) => u = t)
            => ~ passed[OwnerOf(t)]

\* obd_gate_acquire always returns: no task stays in its loop for ever, also
\* when the holder never gives the gate back or keeps extending its hold.
AcquireReturns ==
    \A t \in Tasks : []<>(pc[t] \notin {"try", "check", "delay", "force"})

============================================================================
