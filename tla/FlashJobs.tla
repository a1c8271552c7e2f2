----------------------------- MODULE FlashJobs -----------------------------
(***************************************************************************)
(* components/flash_jobs: flash work is run on a task whose stack is in     *)
(* internal RAM.  flash_jobs_run(fn, arg) runs the job in line for a caller *)
(* on an internal stack and hands it to an ephemeral worker task, through a *)
(* one-slot mailbox, for a caller on a PSRAM stack.                         *)
(*                                                                          *)
(* One step of this model is a stretch of code between two points at which  *)
(* another task can be observed: a semaphore call, a critical section on    *)
(* s_mux, xTaskCreate, or the job itself.  A job is identified by the call  *)
(* that published it (fn and arg live on the caller's stack); a result is a *)
(* member of Results.                                                       *)
(***************************************************************************)
EXTENDS Naturals, FiniteSets

CONSTANTS
    Psram,      \* tasks on PSRAM stacks (HTTP server, NimBLE host, ...)
    Internal,   \* tasks on internal stacks (main, console, ...)
    Workers,    \* task handles xTaskCreate can return; reused after a delete
    NULL,       \* the C null handle
    Results,    \* esp_err_t values a job can return
    Starvation, \* TRUE: a caller may stay unscheduled for a whole
                \* FLASH_JOBS_IDLE_MS between two statements
    MaxCalls    \* bound: flash_jobs_run calls per task

ASSUME FlashJobsAssumption ==
    /\ NULL \notin Psram \cup Internal \cup Workers
    /\ Psram \cap Internal = {}
    /\ Results # {}
    /\ "ESP_FAIL" \in Results
    /\ {"NONE", "NO_MEM", "INVALID_STATE"} \cap Results = {}
    /\ Starvation \in BOOLEAN
    /\ MaxCalls \in Nat

Callers == Psram \cup Internal

VARIABLES
    s_inited,   \* flash_jobs_init ran
    s_lock,     \* holder of the callers' mutex, or NULL
    s_wake,     \* binary semaphore, caller -> worker
    s_done,     \* binary semaphore, worker -> caller
    st,         \* fj_state_t: job_pending, worker_alive and the counters
    s_worker,   \* handle of the current worker, or NULL
    s_fn,       \* the published job, named by its caller
    s_err,      \* the published job's result
    pc,         \* where each caller is
    handle,     \* the caller's local copy of s_worker / of xTaskCreate's h
    ret,        \* what the caller's last flash_jobs_run returned
    wpc,        \* where each worker task is
    job,        \* the worker's local copy of s_fn
    signalled,  \* the worker's local: its take was a signal, not a timeout
    ran,        \* history: runs of the job of the current call of each caller
    truth,      \* history: what that run returned
    calls       \* history: calls made by each task (bounded by MaxCalls)

mailbox == <<s_wake, s_done, st, s_worker, s_fn, s_err>>
history == <<ran, truth, calls>>
workerVars == <<wpc, job, signalled>>
callerVars == <<pc, handle, ret>>
vars == <<s_inited, s_lock, mailbox, callerVars, workerVars, history>>

-----------------------------------------------------------------------------
(* The pure decisions of flash_jobs_core.c, on the record st.              *)

fj_publish(s) == [s EXCEPT !.job_pending = TRUE]

fj_needs_worker(s) == ~s.worker_alive

fj_spawned(s, ok) ==
    IF ok THEN [s EXCEPT !.worker_alive = TRUE, !.spawns = @ + 1]
          ELSE [s EXCEPT !.job_pending = FALSE]

fj_refused(s) == [s EXCEPT !.refusals = @ + 1]

\* Mutant: the exit decision looks at the timeout before the pending job.
fj_worker_step_timeout_first(s, sig) ==
    IF ~sig THEN "exit" ELSE IF s.job_pending THEN "run" ELSE "wait"

\* The step a woken worker takes: "run", "exit" or "wait".
fj_worker_step(s, sig) ==
    IF s.job_pending THEN "run" ELSE IF sig THEN "wait" ELSE "exit"

\* Mutant: the flag outlives the worker that leaves.
fj_worker_wake_keeps_alive(s, sig) ==
    IF fj_worker_step(s, sig) = "run" THEN [s EXCEPT !.job_pending = FALSE] ELSE s

\* Mutant: a consumed job stays pending.
fj_worker_wake_keeps_job(s, sig) ==
    IF fj_worker_step(s, sig) = "exit" THEN [s EXCEPT !.worker_alive = FALSE] ELSE s

fj_worker_wake(s, sig) ==
    CASE fj_worker_step(s, sig) = "run"  -> [s EXCEPT !.job_pending = FALSE]
      [] fj_worker_step(s, sig) = "exit" -> [s EXCEPT !.worker_alive = FALSE]
      [] fj_worker_step(s, sig) = "wait" -> s

fj_done_inline(s) == [s EXCEPT !.inline_runs = @ + 1]

fj_done_marshal(s) == [s EXCEPT !.marshalled = @ + 1]

\* Mutant: the counter runs the wrong way.
fj_worker_exit_down(s) == [s EXCEPT !.exits = @ - 1]

fj_worker_exit(s) == [s EXCEPT !.exits = @ + 1]

-----------------------------------------------------------------------------
Init ==
    /\ s_inited = FALSE
    /\ s_lock = NULL
    /\ s_wake = FALSE
    /\ s_done = FALSE
    /\ st = [job_pending |-> FALSE, worker_alive |-> FALSE, inline_runs |-> 0,
             marshalled |-> 0, spawns |-> 0, exits |-> 0, refusals |-> 0]
    /\ s_worker = NULL
    /\ s_fn = NULL
    /\ s_err = "ESP_FAIL"
    /\ pc = [c \in Callers |-> "idle"]
    /\ handle = [c \in Callers |-> NULL]
    /\ ret = [c \in Callers |-> "NONE"]
    /\ wpc = [w \in Workers |-> "none"]
    /\ job = [w \in Workers |-> NULL]
    /\ signalled = [w \in Workers |-> FALSE]
    /\ ran = [c \in Callers |-> 0]
    /\ truth = [c \in Callers |-> "NONE"]
    /\ calls = [c \in Callers |-> 0]

\* flash_jobs_init: the semaphores exist from here on.
flash_jobs_init ==
    /\ ~s_inited
    /\ s_inited' = TRUE
    /\ UNCHANGED <<s_lock, mailbox, callerVars, workerVars, history>>

-----------------------------------------------------------------------------
(* flash_jobs_run.                                                         *)

Goto(c, to) == pc' = [pc EXCEPT ![c] = to]

Return(c, err) ==
    /\ Goto(c, "idle")
    /\ ret' = [ret EXCEPT ![c] = err]

\* The call starts: the history of the caller's previous call is dropped.
Enter(c) ==
    /\ pc[c] = "idle"
    /\ calls[c] < MaxCalls
    /\ calls' = [calls EXCEPT ![c] = @ + 1]
    /\ ran' = [ran EXCEPT ![c] = 0]
    /\ truth' = [truth EXCEPT ![c] = "NONE"]

\* A PSRAM caller before init is refused, after init it queues on s_lock.
RunMarshalled(c) ==
    /\ c \in Psram
    /\ Enter(c)
    /\ IF s_inited
       THEN Goto(c, "lock") /\ ret' = [ret EXCEPT ![c] = "NONE"]
       ELSE Return(c, "INVALID_STATE")
    /\ UNCHANGED <<s_inited, s_lock, mailbox, handle, workerVars>>

RunInline(c) ==
    /\ c \in Internal
    /\ Enter(c)
    /\ Goto(c, "inline")
    /\ ret' = [ret EXCEPT ![c] = "NONE"]
    /\ UNCHANGED <<s_inited, s_lock, mailbox, handle, workerVars>>

\* fn(arg) on the caller's own stack, then the counter (only once inited).
InlineJob(c) ==
    /\ pc[c] = "inline"
    /\ \E r \in Results :
        /\ truth' = [truth EXCEPT ![c] = r]
        /\ ran' = [ran EXCEPT ![c] = @ + 1]
        /\ Return(c, r)
    /\ st' = IF s_inited THEN fj_done_inline(st) ELSE st
    /\ UNCHANGED <<s_inited, s_lock, s_wake, s_done, s_worker, s_fn, s_err,
                   handle, workerVars, calls>>

TakeLock(c) ==
    /\ pc[c] = "lock"
    /\ s_lock = NULL
    /\ s_lock' = c
    /\ Goto(c, "fill")
    /\ UNCHANGED <<s_inited, mailbox, handle, ret, workerVars, history>>

\* s_fn, s_arg and s_err are written outside s_mux, before the publication.
Fill(c) ==
    /\ pc[c] = "fill"
    /\ s_fn' = c
    /\ s_err' = "ESP_FAIL"
    /\ Goto(c, "publish")
    /\ UNCHANGED <<s_inited, s_lock, s_wake, s_done, st, s_worker, handle, ret,
                   workerVars, history>>

Publish(c) ==
    /\ pc[c] = "publish"
    /\ st' = fj_publish(st)
    /\ handle' = [handle EXCEPT ![c] = s_worker]
    /\ Goto(c, IF fj_needs_worker(st) THEN "create" ELSE "boost")
    /\ UNCHANGED <<s_inited, s_lock, s_wake, s_done, s_worker, s_fn, s_err, ret,
                   workerVars, history>>

\* spawn_worker, xTaskCreate: the new task runs from here, before the
\* creator has recorded it.
Create(c) ==
    /\ pc[c] = "create"
    /\ \E w \in Workers :
        /\ wpc[w] = "none"
        /\ wpc' = [wpc EXCEPT ![w] = "wait"]
        /\ handle' = [handle EXCEPT ![c] = w]
    /\ Goto(c, "record")
    /\ UNCHANGED <<s_inited, s_lock, mailbox, ret, job, signalled, history>>

\* No internal RAM for the stack: the publication is withdrawn.
CreateFails(c) ==
    /\ pc[c] = "create"
    /\ st' = fj_spawned(st, FALSE)
    /\ Goto(c, "refuse")
    /\ UNCHANGED <<s_inited, s_lock, s_wake, s_done, s_worker, s_fn, s_err,
                   handle, ret, workerVars, history>>

\* The refusal is counted, the lock given back.
Refuse(c) ==
    /\ pc[c] = "refuse"
    /\ st' = fj_refused(st)
    /\ s_lock' = NULL
    /\ Return(c, "NO_MEM")
    /\ UNCHANGED <<s_inited, s_wake, s_done, s_worker, s_fn, s_err, handle,
                   workerVars, history>>

Record(c) ==
    /\ pc[c] = "record"
    /\ st' = fj_spawned(st, TRUE)
    /\ s_worker' = handle[c]
    /\ Goto(c, "reread")
    /\ UNCHANGED <<s_inited, s_lock, s_wake, s_done, s_fn, s_err, handle, ret,
                   workerVars, history>>

\* worker = s_worker, read again under s_mux after the spawn.
Reread(c) ==
    /\ pc[c] = "reread"
    /\ handle' = [handle EXCEPT ![c] = s_worker]
    /\ Goto(c, "boost")
    /\ UNCHANGED <<s_inited, s_lock, mailbox, ret, workerVars, history>>

\* uxTaskPriorityGet / vTaskPrioritySet on the handle (skipped for NULL).
Boost(c) ==
    /\ pc[c] = "boost"
    /\ Goto(c, "wake")
    /\ UNCHANGED <<s_inited, s_lock, mailbox, handle, ret, workerVars, history>>

GiveWake(c) ==
    /\ pc[c] = "wake"
    /\ s_wake' = TRUE
    /\ Goto(c, "await")
    /\ UNCHANGED <<s_inited, s_lock, s_done, st, s_worker, s_fn, s_err, handle,
                   ret, workerVars, history>>

\* Mutant: the caller waits for s_done with a timeout instead of forever.
TakeDone_bounded(c) ==
    /\ pc[c] = "await"
    /\ s_done' = FALSE
    /\ Goto(c, "leave")
    /\ UNCHANGED <<s_inited, s_lock, s_wake, st, s_worker, s_fn, s_err, handle,
                   ret, workerVars, history>>

TakeDone(c) ==
    /\ pc[c] = "await"
    /\ s_done
    /\ s_done' = FALSE
    /\ Goto(c, "leave")
    /\ UNCHANGED <<s_inited, s_lock, s_wake, st, s_worker, s_fn, s_err, handle,
                   ret, workerVars, history>>

\* err = s_err; fj_done under s_mux; the lock is given back.
Leave(c) ==
    /\ pc[c] = "leave"
    /\ st' = fj_done_marshal(st)
    /\ s_lock' = NULL
    /\ Return(c, s_err)
    /\ UNCHANGED <<s_inited, s_wake, s_done, s_worker, s_fn, s_err, handle,
                   workerVars, history>>

-----------------------------------------------------------------------------
(* worker_task.                                                            *)

WGoto(w, to) == wpc' = [wpc EXCEPT ![w] = to]

WorkerSignal(w) ==
    /\ wpc[w] = "wait"
    /\ s_wake
    /\ s_wake' = FALSE
    /\ signalled' = [signalled EXCEPT ![w] = TRUE]
    /\ WGoto(w, "woken")
    /\ UNCHANGED <<s_inited, s_lock, s_done, st, s_worker, s_fn, s_err,
                   callerVars, job, history>>

\* A caller past the publication that has not given s_wake yet.
Waking == {c \in Psram : pc[c] \in {"create", "record", "reread", "boost", "wake"}}

\* The take of s_wake timed out.  The idle period is 5 s: without starvation
\* it does not elapse, once the worker has consumed a job, before the job's
\* caller (a few statements from its give) has given s_wake.
WorkerTimeout(w) ==
    /\ wpc[w] = "wait"
    /\ ~s_wake
    /\ Starvation \/ st.job_pending \/ Waking = {}
    /\ signalled' = [signalled EXCEPT ![w] = FALSE]
    /\ WGoto(w, "woken")
    /\ UNCHANGED <<s_inited, s_lock, mailbox, callerVars, job, history>>

\* The critical section: decide, copy the job, and drop s_worker on an exit.
WorkerWake(w) ==
    LET step == fj_worker_step(st, signalled[w]) IN
    /\ wpc[w] = "woken"
    /\ st' = fj_worker_wake(st, signalled[w])
    /\ job' = [job EXCEPT ![w] = s_fn]
    /\ s_worker' = IF step = "exit" THEN NULL ELSE s_worker
    /\ WGoto(w, CASE step = "run" -> "run" [] step = "exit" -> "leaving"
                  [] step = "wait" -> "wait")
    /\ UNCHANGED <<s_inited, s_lock, s_wake, s_done, s_fn, s_err, callerVars,
                   signalled, history>>

\* s_err = fn(a) on the worker's internal stack.  A job that calls
\* flash_jobs_run itself (wipe_job -> sm_storage_unmount) runs that call in
\* line, which counts one inline run.
WorkerJob(w) ==
    /\ wpc[w] = "run"
    /\ \E r \in Results, nested \in BOOLEAN :
        /\ s_err' = r
        /\ truth' = [truth EXCEPT ![job[w]] = r]
        /\ ran' = [ran EXCEPT ![job[w]] = @ + 1]
        /\ st' = IF nested THEN fj_done_inline(st) ELSE st
    /\ WGoto(w, "give")
    /\ UNCHANGED <<s_inited, s_lock, s_wake, s_done, s_worker, s_fn, callerVars,
                   job, signalled, calls>>

WorkerDone(w) ==
    /\ wpc[w] = "give"
    /\ s_done' = TRUE
    /\ WGoto(w, "wait")
    /\ UNCHANGED <<s_inited, s_lock, s_wake, st, s_worker, s_fn, s_err,
                   callerVars, job, signalled, history>>

\* fj_worker_exit and vTaskDelete: the handle may be reused.
WorkerExit(w) ==
    /\ wpc[w] = "leaving"
    /\ st' = fj_worker_exit(st)
    /\ WGoto(w, "none")
    /\ job' = [job EXCEPT ![w] = NULL]
    /\ UNCHANGED <<s_inited, s_lock, s_wake, s_done, s_worker, s_fn, s_err,
                   callerVars, signalled, history>>

-----------------------------------------------------------------------------
CallerStep(c) ==
    \/ InlineJob(c) \/ TakeLock(c) \/ Fill(c) \/ Publish(c) \/ Create(c)
    \/ CreateFails(c) \/ Refuse(c) \/ Record(c) \/ Reread(c) \/ Boost(c)
    \/ GiveWake(c) \/ TakeDone(c) \/ Leave(c)

WorkerStep(w) ==
    \/ WorkerSignal(w) \/ WorkerTimeout(w) \/ WorkerWake(w) \/ WorkerJob(w)
    \/ WorkerDone(w) \/ WorkerExit(w)

Next ==
    \/ flash_jobs_init
    \/ \E c \in Callers : RunMarshalled(c) \/ RunInline(c) \/ CallerStep(c)
    \/ \E w \in Workers : WorkerStep(w)

\* Every ready task is eventually scheduled; no one has to call
\* flash_jobs_run.  The mutex needs no strong fairness here: with MaxCalls
\* calls per task a waiter is passed over finitely often.
Fairness ==
    /\ \A c \in Callers : WF_vars(CallerStep(c))
    /\ \A w \in Workers : WF_vars(WorkerStep(w))

Spec == Init /\ [][Next]_vars

FairSpec == Spec /\ Fairness
-----------------------------------------------------------------------------
(* Properties.                                                             *)

CallerPc == {"idle", "inline", "lock", "fill", "publish", "create", "refuse",
             "record", "reread", "boost", "wake", "await", "leave"}

WorkerPc == {"none", "wait", "woken", "run", "give", "leaving"}

State == [job_pending : BOOLEAN, worker_alive : BOOLEAN, inline_runs : Nat,
          marshalled : Nat, spawns : Nat, exits : Nat, refusals : Nat]

\* Type invariant of the mailbox, the callers and the worker tasks.
TypeOK ==
    /\ s_inited \in BOOLEAN
    /\ s_lock \in Callers \cup {NULL}
    /\ s_wake \in BOOLEAN
    /\ s_done \in BOOLEAN
    /\ st \in State
    /\ s_worker \in Workers \cup {NULL}
    /\ s_fn \in Callers \cup {NULL}
    /\ s_err \in Results
    /\ pc \in [Callers -> CallerPc]
    /\ handle \in [Callers -> Workers \cup {NULL}]
    /\ ret \in [Callers -> Results \cup {"NONE", "NO_MEM", "INVALID_STATE"}]
    /\ wpc \in [Workers -> WorkerPc]
    /\ job \in [Workers -> Callers \cup {NULL}]
    /\ signalled \in [Workers -> BOOLEAN]
    /\ ran \in [Callers -> Nat]
    /\ truth \in [Callers -> Results \cup {"NONE"}]
    /\ calls \in [Callers -> Nat]

\* "the job's argument stays valid until its caller returns"
\* (flash_jobs.c:27): whenever a worker task is inside a job, the caller
\* whose stack holds the argument is still inside flash_jobs_run, and no
\* second worker task is inside a job at the same time.
JobArgumentValid ==
    \A w \in Workers : wpc[w] = "run" =>
        /\ job[w] \in Psram
        /\ s_lock = job[w]
        /\ pc[job[w]] \in {"record", "reread", "boost", "wake", "await"}
        /\ \A v \in Workers \ {w} : wpc[v] \notin {"run", "give"}

\* flash_jobs_run "runs fn(arg) and returns its result" (flash_jobs.h:38):
\* a call that returned a job result ran its own job exactly once and hands
\* back that run's result; a refused call ran nothing.
ExactlyOnce ==
    \A c \in Callers : pc[c] = "idle" =>
        IF ret[c] \in Results THEN ran[c] = 1 /\ ret[c] = truth[c]
                              ELSE ran[c] = 0

\* worker_alive: "a worker task exists right now" (flash_jobs.h:84).  The
\* flag is what makes a caller skip the creation, so a flag without a task
\* that will look at job_pending again blocks every later caller.
AliveHasWorker ==
    st.worker_alive =>
        /\ s_worker \in Workers
        /\ wpc[s_worker] \in {"wait", "woken", "run", "give"}

\* The handle passed to uxTaskPriorityGet and vTaskPrioritySet
\* (flash_jobs.c:243) is the handle of a task that still exists.
BoostTargetLive ==
    \A c \in Callers :
        pc[c] = "boost" /\ handle[c] # NULL => wpc[handle[c]] # "none"

\* The counters of flash_jobs_stats account for every worker task: created
\* and not yet exited tasks are exactly the difference of the counters, but
\* for the one its creator is about to record.
WorkersAccounted ==
    st.spawns + Cardinality({c \in Callers : pc[c] = "record"})
        = st.exits + Cardinality({w \in Workers : wpc[w] # "none"})

\* xSemaphoreTake(s_done, portMAX_DELAY) has no way out of its own
\* (flash_jobs.c): whoever waits there is owed an answer, by a signal that is
\* up, by a worker inside the job, or by one that will see the published job
\* whether its own wait ends by the signal or by the timeout.
AnswerOwed ==
    \A c \in Callers : pc[c] = "await" =>
        \/ s_done
        \/ \E w \in Workers : wpc[w] \in {"run", "give"}
        \/ st.job_pending /\ \E w \in Workers : wpc[w] \in {"wait", "woken"}

\* Every call of flash_jobs_run returns, whatever the order of the worker's
\* idle timeout, its exit and the publication of the next job.
CallReturns ==
    \A c \in Callers : pc[c] # "idle" ~> pc[c] = "idle"
=============================================================================
