-------------------------- MODULE FlashJobsProofs --------------------------
(***************************************************************************)
(* Safety of flash_jobs for every set of callers and task handles.          *)
(*                                                                          *)
(* The properties are not inductive: what keeps a worker off a dead stack   *)
(* frame is that the one published job moves through pending -> run ->      *)
(* give -> s_done while its caller stays between its publication and its    *)
(* return, and that at most one worker task is active.  HandoffInv says     *)
(* where the job is in each of those phases.                                *)
(***************************************************************************)
EXTENDS FlashJobs, FiniteSetTheorems, TLAPS

Holding == {"fill", "publish", "create", "refuse", "record", "reread", "boost",
            "wake", "await", "leave"}

\* The caller is past the creation of its worker and has not taken s_done.
Window == {"record", "reread", "boost", "wake", "await"}

Active(w) == wpc[w] \in {"wait", "woken", "run", "give"}

\* No worker is between taking the job and giving s_done.
Quiet == \A w \in Workers : wpc[w] \notin {"run", "give"}

\* s_lock is held by exactly the caller inside the guarded region.
LockInv ==
    /\ \A c \in Callers : pc[c] \in Holding <=> s_lock = c
    /\ \A c \in Internal : pc[c] \in {"idle", "inline"}

\* At most one worker task is active, and none behind the flag's back.
WorkerInv ==
    /\ \A v, w \in Workers : Active(v) /\ Active(w) => v = w
    /\ \A w \in Workers : Active(w) =>
          st.worker_alive \/ \E c \in Psram : pc[c] = "record"
    /\ \A c \in Psram : pc[c] \in {"create", "refuse", "record"} => ~st.worker_alive

\* Where the published job is.
PendingInv ==
    st.job_pending =>
        /\ s_lock \in Psram
        /\ pc[s_lock] \in Window \cup {"create"}
        /\ ran[s_lock] = 0
        /\ ~s_done
        /\ Quiet

RunInv ==
    \A w \in Workers : wpc[w] = "run" =>
        /\ s_lock \in Psram
        /\ job[w] = s_lock
        /\ pc[s_lock] \in Window
        /\ ran[s_lock] = 0
        /\ ~s_done

GiveInv ==
    \A w \in Workers : wpc[w] = "give" =>
        /\ s_lock \in Psram
        /\ pc[s_lock] \in Window
        /\ ran[s_lock] = 1
        /\ truth[s_lock] = s_err
        /\ ~s_done

DoneInv ==
    s_done =>
        /\ s_lock \in Psram
        /\ pc[s_lock] \in Window
        /\ ran[s_lock] = 1
        /\ truth[s_lock] = s_err
        /\ Quiet

CallerInv ==
    \A c \in Callers :
        /\ pc[c] \in Holding \ {"fill"} => s_fn = c
        /\ pc[c] \in {"lock", "fill", "publish", "refuse", "create", "inline"} => ran[c] = 0
        /\ pc[c] \in {"fill", "publish", "refuse", "leave"} => ~st.job_pending /\ ~s_done /\ Quiet
        /\ pc[c] = "create" => ~s_done /\ Quiet
        /\ pc[c] = "leave" => ran[c] = 1 /\ truth[c] = s_err

HandoffInv ==
    /\ TypeOK /\ LockInv /\ WorkerInv /\ PendingInv /\ RunInv /\ GiveInv
    /\ DoneInv /\ CallerInv /\ ExactlyOnce
-----------------------------------------------------------------------------
USE FlashJobsAssumption DEF FlashJobsAssumption

LEMMA TypeInit == Init => TypeOK
<1> SUFFICES ASSUME Init PROVE TypeOK
    OBVIOUS
<1>1. st \in State
    BY DEF Init, State
<1>2. /\ ret \in [Callers -> Results \cup {"NONE", "NO_MEM", "INVALID_STATE"}]
      /\ truth \in [Callers -> Results \cup {"NONE"}]
      /\ s_err \in Results
    BY DEF Init
<1>3. /\ ran \in [Callers -> Nat]
      /\ calls \in [Callers -> Nat]
    BY DEF Init
<1> QED BY <1>1, <1>2, <1>3 DEF Init, TypeOK, CallerPc, WorkerPc

LEMMA TypeStep == TypeOK /\ [Next]_vars => TypeOK'
<1> SUFFICES ASSUME TypeOK, [Next]_vars PROVE TypeOK'
    OBVIOUS
<1> USE DEF TypeOK, State, CallerPc, WorkerPc, Callers, Goto, WGoto, Return,
        Enter, mailbox, history, workerVars, callerVars
<1>1. CASE flash_jobs_init
    BY <1>1 DEF flash_jobs_init
<1>2. ASSUME NEW c \in Callers, RunMarshalled(c) PROVE TypeOK'
    BY <1>2 DEF RunMarshalled
<1>3. ASSUME NEW c \in Callers, RunInline(c) PROVE TypeOK'
    BY <1>3 DEF RunInline
<1>4. ASSUME NEW c \in Callers, CallerStep(c), TypeOK PROVE TypeOK'
    <2>1. CASE InlineJob(c)  BY <2>1 DEF InlineJob, fj_done_inline
    <2>2. CASE TakeLock(c)   BY <2>2 DEF TakeLock
    <2>3. CASE Fill(c)       BY <2>3 DEF Fill
    <2>4. CASE Publish(c)    BY <2>4 DEF Publish, fj_publish
    <2>5. CASE Create(c)     BY <2>5 DEF Create
    <2>6. CASE CreateFails(c) BY <2>6 DEF CreateFails, fj_spawned
    <2>7. CASE Refuse(c)     BY <2>7 DEF Refuse, fj_refused
    <2>8. CASE Record(c)
        <3> DEFINE alive == [st EXCEPT !.worker_alive = TRUE]
        <3>1. alive \in State /\ alive.spawns = st.spawns
            OBVIOUS
        <3> HIDE DEF alive
        <3>2. [alive EXCEPT !.spawns = alive.spawns + 1] \in State
            BY <3>1
        <3>3. st' = [alive EXCEPT !.spawns = alive.spawns + 1]
            BY <2>8, <3>1 DEF Record, fj_spawned, alive
        <3>4. st' \in State
            BY <3>2, <3>3
        <3> QED BY <2>8, <3>4 DEF Record
    <2>9. CASE Reread(c)     BY <2>9 DEF Reread
    <2>10. CASE Boost(c)     BY <2>10 DEF Boost
    <2>11. CASE GiveWake(c)  BY <2>11 DEF GiveWake
    <2>12. CASE TakeDone(c)  BY <2>12 DEF TakeDone
    <2>13. CASE Leave(c)     BY <2>13 DEF Leave, fj_done_marshal
    <2> QED BY <1>4, <2>1, <2>2, <2>3, <2>4, <2>5, <2>6, <2>7, <2>8, <2>9,
               <2>10, <2>11, <2>12, <2>13 DEF CallerStep
<1>5. ASSUME NEW w \in Workers, WorkerStep(w) PROVE TypeOK'
    <2>1. CASE WorkerSignal(w)  BY <2>1 DEF WorkerSignal
    <2>2. CASE WorkerTimeout(w) BY <2>2 DEF WorkerTimeout
    <2>3. CASE WorkerWake(w)    BY <2>3 DEF WorkerWake, fj_worker_wake, fj_worker_step
    <2>4. CASE WorkerJob(w)
        <3>1. st' \in State
            <4>1. st' = st \/ st' = [st EXCEPT !.inline_runs = st.inline_runs + 1]
                BY <2>4 DEF WorkerJob, fj_done_inline
            <4> QED BY <4>1
        <3>2. /\ s_err' \in Results
              /\ truth' \in [Callers -> Results \cup {"NONE"}]
              /\ ran' \in [Callers -> Nat]
            <4>1. PICK r \in Results :
                     /\ s_err' = r
                     /\ truth' = [truth EXCEPT ![job[w]] = r]
                     /\ ran' = [ran EXCEPT ![job[w]] = @ + 1]
                BY <2>4 DEF WorkerJob
            <4>2. truth \in [Callers -> Results \cup {"NONE"}] /\ ran \in [Callers -> Nat]
                OBVIOUS
            <4> HIDE DEF TypeOK
            <4>3. truth' \in [Callers -> Results \cup {"NONE"}]
                BY <4>1, <4>2
            <4>4. ran' \in [Callers -> Nat]
                <5>1. CASE job[w] \in Callers
                    BY <4>1, <4>2, <5>1
                <5>2. CASE job[w] \notin Callers
                    <6>1. ran' = ran
                        BY <4>1, <4>2, <5>2
                    <6> QED BY <4>2, <6>1
                <5> QED BY <5>1, <5>2
            <4> QED BY <4>1, <4>3, <4>4
        <3> QED BY <2>4, <3>1, <3>2 DEF WorkerJob
    <2>5. CASE WorkerDone(w)    BY <2>5 DEF WorkerDone
    <2>6. CASE WorkerExit(w)    BY <2>6 DEF WorkerExit, fj_worker_exit
    <2> QED BY <1>5, <2>1, <2>2, <2>3, <2>4, <2>5, <2>6 DEF WorkerStep
<1>6. CASE UNCHANGED vars
    BY <1>6 DEF vars
<1> QED BY <1>1, <1>2, <1>3, <1>4, <1>5, <1>6 DEF Next

LEMMA HandoffInit == Init => HandoffInv
<1> SUFFICES ASSUME Init PROVE HandoffInv
    OBVIOUS
<1>1. TypeOK
    BY TypeInit
<1> QED BY <1>1 DEF Init, HandoffInv, LockInv, WorkerInv, PendingInv, RunInv,
        GiveInv, DoneInv, CallerInv, ExactlyOnce, Active, Quiet, Holding, Window,
        Callers

LEMMA HandoffStep == HandoffInv /\ [Next]_vars => HandoffInv'
<1> SUFFICES ASSUME HandoffInv, [Next]_vars PROVE HandoffInv'
    OBVIOUS
<1>0. TypeOK /\ TypeOK'
    BY TypeStep DEF HandoffInv
<1> USE <1>0 DEF TypeOK, State, Callers, HandoffInv, LockInv, WorkerInv,
        PendingInv, RunInv, GiveInv, DoneInv, CallerInv, ExactlyOnce, Active,
        Quiet, Holding, Window, Goto, WGoto, Return, Enter, mailbox, history,
        workerVars, callerVars
<1>1. CASE flash_jobs_init
    BY <1>1 DEF flash_jobs_init
<1>2. ASSUME NEW c \in Callers, RunMarshalled(c) PROVE HandoffInv'
    BY <1>2 DEF RunMarshalled
<1>3. ASSUME NEW c \in Callers, RunInline(c) PROVE HandoffInv'
    BY <1>3 DEF RunInline
<1>4. ASSUME NEW c \in Callers, CallerStep(c) PROVE HandoffInv'
    <2>1. CASE InlineJob(c)
        BY <2>1 DEF InlineJob, fj_done_inline
    <2>2. CASE TakeLock(c)
        BY <2>2 DEF TakeLock
    <2>3. CASE Fill(c)
        BY <2>3 DEF Fill
    <2>4. CASE Publish(c)
        BY <2>4 DEF Publish, fj_publish, fj_needs_worker
    <2>5. CASE Create(c)
        BY <2>5 DEF Create
    <2>6. CASE CreateFails(c)
        BY <2>6 DEF CreateFails, fj_spawned
    <2>7. CASE Refuse(c)
        BY <2>7 DEF Refuse, fj_refused
    <2>8. CASE Record(c)
        BY <2>8 DEF Record, fj_spawned
    <2>9. CASE Reread(c)
        BY <2>9 DEF Reread
    <2>10. CASE Boost(c)
        BY <2>10 DEF Boost
    <2>11. CASE GiveWake(c)
        BY <2>11 DEF GiveWake
    <2>12. CASE TakeDone(c)
        BY <2>12 DEF TakeDone
    <2>13. CASE Leave(c)
        BY <2>13 DEF Leave, fj_done_marshal
    <2> QED BY <1>4, <2>1, <2>2, <2>3, <2>4, <2>5, <2>6, <2>7, <2>8, <2>9,
               <2>10, <2>11, <2>12, <2>13 DEF CallerStep
<1>5. ASSUME NEW w \in Workers, WorkerStep(w) PROVE HandoffInv'
    <2>1. CASE WorkerSignal(w)
        BY <2>1 DEF WorkerSignal
    <2>2. CASE WorkerTimeout(w)
        BY <2>2 DEF WorkerTimeout
    <2>3. CASE WorkerWake(w)
        BY <2>3 DEF WorkerWake, fj_worker_wake, fj_worker_step
    <2>4. CASE WorkerJob(w)
        BY <2>4 DEF WorkerJob, fj_done_inline
    <2>5. CASE WorkerDone(w)
        BY <2>5 DEF WorkerDone
    <2>6. CASE WorkerExit(w)
        BY <2>6 DEF WorkerExit, fj_worker_exit
    <2> QED BY <1>5, <2>1, <2>2, <2>3, <2>4, <2>5, <2>6 DEF WorkerStep
<1>6. CASE UNCHANGED vars
    BY <1>6 DEF vars
<1> QED BY <1>1, <1>2, <1>3, <1>4, <1>5, <1>6 DEF Next

(* What the hand-over invariant implies for the two properties.            *)
LEMMA HandoffImplies == HandoffInv => JobArgumentValid /\ ExactlyOnce
BY DEF HandoffInv, RunInv, WorkerInv, JobArgumentValid, Window, Active

(***************************************************************************)
(* Without starvation the worker does not leave between the publication of  *)
(* a job and its caller's give of s_wake: a worker that has already timed   *)
(* out in that interval finds the job pending.                              *)
(***************************************************************************)
AvailableInv ==
    /\ AliveHasWorker
    /\ \A w \in Workers :
          wpc[w] = "woken" /\ ~signalled[w] /\ Waking # {} => st.job_pending
    /\ \A c \in Psram :
          /\ pc[c] = "create" => st.job_pending
          /\ pc[c] = "record" => handle[c] \in Workers /\ Active(handle[c])
          /\ pc[c] \in {"reread", "boost", "wake"} => st.worker_alive
          /\ pc[c] = "boost" => handle[c] = s_worker
          /\ pc[c] = "await" /\ st.job_pending => st.worker_alive

LEMMA AvailableInit == Init => AvailableInv
BY DEF Init, AvailableInv, AliveHasWorker, Waking, Callers

LEMMA AvailableStep ==
    ASSUME ~Starvation
    PROVE  HandoffInv /\ AvailableInv /\ [Next]_vars => AvailableInv'
<1> SUFFICES ASSUME HandoffInv, AvailableInv, [Next]_vars PROVE AvailableInv'
    OBVIOUS
<1>0. TypeOK /\ TypeOK'
    BY TypeStep DEF HandoffInv
<1> USE <1>0 DEF TypeOK, State, Callers, HandoffInv, LockInv, WorkerInv,
        PendingInv, AvailableInv, AliveHasWorker, Waking, Active, Holding, Window,
        Goto, WGoto, Return, Enter, mailbox, history, workerVars, callerVars
<1>1. CASE flash_jobs_init
    BY <1>1 DEF flash_jobs_init
<1>2. ASSUME NEW c \in Callers, RunMarshalled(c) PROVE AvailableInv'
    BY <1>2 DEF RunMarshalled
<1>3. ASSUME NEW c \in Callers, RunInline(c) PROVE AvailableInv'
    BY <1>3 DEF RunInline
<1>4. ASSUME NEW c \in Callers, CallerStep(c) PROVE AvailableInv'
    <2>1. CASE InlineJob(c)
        BY <2>1 DEF InlineJob, fj_done_inline
    <2>2. CASE TakeLock(c)
        BY <2>2 DEF TakeLock
    <2>3. CASE Fill(c)
        BY <2>3 DEF Fill
    <2>4. CASE Publish(c)
        BY <2>4 DEF Publish, fj_publish, fj_needs_worker
    <2>5. CASE Create(c)
        BY <2>5 DEF Create
    <2>6. CASE CreateFails(c)
        BY <2>6 DEF CreateFails, fj_spawned
    <2>7. CASE Refuse(c)
        BY <2>7 DEF Refuse, fj_refused
    <2>8. CASE Record(c)
        BY <2>8 DEF Record, fj_spawned
    <2>9. CASE Reread(c)
        BY <2>9 DEF Reread
    <2>10. CASE Boost(c)
        BY <2>10 DEF Boost
    <2>11. CASE GiveWake(c)
        BY <2>11 DEF GiveWake
    <2>12. CASE TakeDone(c)
        BY <2>12 DEF TakeDone
    <2>13. CASE Leave(c)
        BY <2>13 DEF Leave, fj_done_marshal
    <2> QED BY <1>4, <2>1, <2>2, <2>3, <2>4, <2>5, <2>6, <2>7, <2>8, <2>9,
               <2>10, <2>11, <2>12, <2>13 DEF CallerStep
<1>5. ASSUME NEW w \in Workers, WorkerStep(w) PROVE AvailableInv'
    <2>1. CASE WorkerSignal(w)
        BY <2>1 DEF WorkerSignal
    <2>2. CASE WorkerTimeout(w)
        BY <2>2 DEF WorkerTimeout
    <2>3. CASE WorkerWake(w)
        BY <2>3 DEF WorkerWake, fj_worker_wake, fj_worker_step
    <2>4. CASE WorkerJob(w)
        BY <2>4 DEF WorkerJob, fj_done_inline
    <2>5. CASE WorkerDone(w)
        BY <2>5 DEF WorkerDone
    <2>6. CASE WorkerExit(w)
        BY <2>6 DEF WorkerExit, fj_worker_exit
    <2> QED BY <1>5, <2>1, <2>2, <2>3, <2>4, <2>5, <2>6 DEF WorkerStep
<1>6. CASE UNCHANGED vars
    BY <1>6 DEF vars
<1> QED BY <1>1, <1>2, <1>3, <1>4, <1>5, <1>6 DEF Next

(***************************************************************************)
(* From its publication until its caller has taken s_done, the job is        *)
(* pending, in a worker's hands, or answered: nothing drops it.             *)
(***************************************************************************)
CarriedInv ==
    \A c \in Psram : pc[c] \in Window \cup {"create"} => st.job_pending \/ s_done \/ ~Quiet

LEMMA CarriedStep == HandoffInv /\ CarriedInv /\ [Next]_vars => CarriedInv'
<1> SUFFICES ASSUME HandoffInv, CarriedInv, [Next]_vars PROVE CarriedInv'
    OBVIOUS
<1>0. TypeOK /\ TypeOK'
    BY TypeStep DEF HandoffInv
<1> USE <1>0 DEF TypeOK, State, Callers, HandoffInv, LockInv, CarriedInv, Quiet,
        Holding, Window, Goto, WGoto, Return, Enter, mailbox, history, workerVars,
        callerVars
<1>1. CASE flash_jobs_init
    BY <1>1 DEF flash_jobs_init
<1>2. ASSUME NEW c \in Callers, RunMarshalled(c) PROVE CarriedInv'
    BY <1>2 DEF RunMarshalled
<1>3. ASSUME NEW c \in Callers, RunInline(c) PROVE CarriedInv'
    BY <1>3 DEF RunInline
<1>4. ASSUME NEW c \in Callers, CallerStep(c) PROVE CarriedInv'
    <2>1. CASE InlineJob(c)
        BY <2>1 DEF InlineJob, fj_done_inline
    <2>2. CASE TakeLock(c)
        BY <2>2 DEF TakeLock
    <2>3. CASE Fill(c)
        BY <2>3 DEF Fill
    <2>4. CASE Publish(c)
        BY <2>4 DEF Publish, fj_publish
    <2>5. CASE Create(c)
        BY <2>5 DEF Create
    <2>6. CASE CreateFails(c)
        BY <2>6 DEF CreateFails, fj_spawned
    <2>7. CASE Refuse(c)
        BY <2>7 DEF Refuse, fj_refused
    <2>8. CASE Record(c)
        BY <2>8 DEF Record, fj_spawned
    <2>9. CASE Reread(c)
        BY <2>9 DEF Reread
    <2>10. CASE Boost(c)
        BY <2>10 DEF Boost
    <2>11. CASE GiveWake(c)
        BY <2>11 DEF GiveWake
    <2>12. CASE TakeDone(c)
        BY <2>12 DEF TakeDone
    <2>13. CASE Leave(c)
        BY <2>13 DEF Leave, fj_done_marshal
    <2> QED BY <1>4, <2>1, <2>2, <2>3, <2>4, <2>5, <2>6, <2>7, <2>8, <2>9,
               <2>10, <2>11, <2>12, <2>13 DEF CallerStep
<1>5. ASSUME NEW w \in Workers, WorkerStep(w) PROVE CarriedInv'
    <2>1. CASE WorkerSignal(w)
        BY <2>1 DEF WorkerSignal
    <2>2. CASE WorkerTimeout(w)
        BY <2>2 DEF WorkerTimeout
    <2>3. CASE WorkerWake(w)
        BY <2>3 DEF WorkerWake, fj_worker_wake, fj_worker_step
    <2>4. CASE WorkerJob(w)
        BY <2>4 DEF WorkerJob, fj_done_inline
    <2>5. CASE WorkerDone(w)
        BY <2>5 DEF WorkerDone
    <2>6. CASE WorkerExit(w)
        BY <2>6 DEF WorkerExit, fj_worker_exit
    <2> QED BY <1>5, <2>1, <2>2, <2>3, <2>4, <2>5, <2>6 DEF WorkerStep
<1>6. CASE UNCHANGED vars
    BY <1>6 DEF vars
<1> QED BY <1>1, <1>2, <1>3, <1>4, <1>5, <1>6 DEF Next

(***************************************************************************)
(* The counters: a task is created between two critical sections, so the    *)
(* sum is off by the one creator that has not recorded its worker yet.      *)
(***************************************************************************)
LiveWorkers == {w \in Workers : wpc[w] # "none"}
Recording == {c \in Callers : pc[c] = "record"}

CountInv == IsFiniteSet(LiveWorkers) /\ IsFiniteSet(Recording) /\ WorkersAccounted

LEMMA CountInit == Init => CountInv
<1> SUFFICES ASSUME Init PROVE CountInv
    OBVIOUS
<1>1. LiveWorkers = {} /\ Recording = {} /\ st.spawns = 0 /\ st.exits = 0
    BY DEF Init, LiveWorkers, Recording
<1> QED BY <1>1, FS_EmptySet DEF CountInv, WorkersAccounted, LiveWorkers, Recording

\* A step that moves neither the counters nor the two sets keeps the balance.
LEMMA CountKept ==
    ASSUME CountInv, LiveWorkers' = LiveWorkers, Recording' = Recording,
           st'.spawns = st.spawns, st'.exits = st.exits
    PROVE  CountInv'
BY DEF CountInv, WorkersAccounted, LiveWorkers, Recording

LEMMA CountStep == TypeOK /\ CountInv /\ [Next]_vars => CountInv'
<1> SUFFICES ASSUME TypeOK, CountInv, [Next]_vars PROVE CountInv'
    OBVIOUS
<1>0. TypeOK'
    BY TypeStep
<1>n. /\ st.spawns \in Nat /\ st.exits \in Nat
      /\ Cardinality(LiveWorkers) \in Nat /\ Cardinality(Recording) \in Nat
      /\ st.spawns + Cardinality(Recording) = st.exits + Cardinality(LiveWorkers)
    BY FS_CardinalityType DEF CountInv, TypeOK, State, WorkersAccounted, LiveWorkers, Recording
<1> USE <1>0 DEF TypeOK, State, Callers, Goto, WGoto, Return, Enter, mailbox,
        history, workerVars, callerVars, LiveWorkers, Recording
<1>1. CASE flash_jobs_init
    BY <1>1, CountKept DEF flash_jobs_init
<1>2. ASSUME NEW c \in Callers, RunMarshalled(c) PROVE CountInv'
    BY <1>2, CountKept DEF RunMarshalled
<1>3. ASSUME NEW c \in Callers, RunInline(c) PROVE CountInv'
    BY <1>3, CountKept DEF RunInline
<1>4. ASSUME NEW c \in Callers, CallerStep(c) PROVE CountInv'
    <2>1. CASE InlineJob(c)
        BY <2>1, CountKept DEF InlineJob, fj_done_inline
    <2>2. CASE TakeLock(c)
        BY <2>2, CountKept DEF TakeLock
    <2>3. CASE Fill(c)
        BY <2>3, CountKept DEF Fill
    <2>4. CASE Publish(c)
        BY <2>4, CountKept DEF Publish, fj_publish
    <2>5. CASE Create(c)
        <3>1. PICK w \in Workers : wpc[w] = "none" /\ wpc' = [wpc EXCEPT ![w] = "wait"]
            BY <2>5 DEF Create
        <3>2. LiveWorkers' = LiveWorkers \cup {w} /\ w \notin LiveWorkers
            BY <3>1
        <3>3. Recording' = Recording \cup {c} /\ c \notin Recording
            BY <2>5 DEF Create
        <3>4. st' = st
            BY <2>5 DEF Create
        <3> HIDE DEF LiveWorkers, Recording, TypeOK
        <3>5. /\ IsFiniteSet(LiveWorkers') /\ IsFiniteSet(Recording')
              /\ Cardinality(LiveWorkers') = Cardinality(LiveWorkers) + 1
              /\ Cardinality(Recording') = Cardinality(Recording) + 1
            BY <3>2, <3>3, FS_AddElement DEF CountInv
        <3>6. st'.spawns + Cardinality(Recording') = st'.exits + Cardinality(LiveWorkers')
            BY <3>4, <3>5, <1>n
        <3> QED BY <3>5, <3>6 DEF CountInv, WorkersAccounted, LiveWorkers, Recording
    <2>6. CASE CreateFails(c)
        BY <2>6, CountKept DEF CreateFails, fj_spawned
    <2>7. CASE Refuse(c)
        BY <2>7, CountKept DEF Refuse, fj_refused
    <2>8. CASE Record(c)
        <3>1. LiveWorkers' = LiveWorkers
            BY <2>8 DEF Record
        <3>2. Recording' = Recording \ {c} /\ c \in Recording
            BY <2>8 DEF Record
        <3>3. st'.spawns = st.spawns + 1 /\ st'.exits = st.exits
            BY <2>8 DEF Record, fj_spawned
        <3> HIDE DEF LiveWorkers, Recording, TypeOK
        <3>4. IsFiniteSet(Recording') /\ Cardinality(Recording') = Cardinality(Recording) - 1
            BY <3>2, FS_RemoveElement DEF CountInv
        <3>5. st'.spawns + Cardinality(Recording') = st'.exits + Cardinality(LiveWorkers')
            BY <3>1, <3>3, <3>4, <1>n
        <3> QED BY <3>1, <3>4, <3>5 DEF CountInv, WorkersAccounted, LiveWorkers, Recording
    <2>9. CASE Reread(c)
        BY <2>9, CountKept DEF Reread
    <2>10. CASE Boost(c)
        BY <2>10, CountKept DEF Boost
    <2>11. CASE GiveWake(c)
        BY <2>11, CountKept DEF GiveWake
    <2>12. CASE TakeDone(c)
        BY <2>12, CountKept DEF TakeDone
    <2>13. CASE Leave(c)
        BY <2>13, CountKept DEF Leave, fj_done_marshal
    <2> QED BY <1>4, <2>1, <2>2, <2>3, <2>4, <2>5, <2>6, <2>7, <2>8, <2>9,
               <2>10, <2>11, <2>12, <2>13 DEF CallerStep
<1>5. ASSUME NEW w \in Workers, WorkerStep(w) PROVE CountInv'
    <2>1. CASE WorkerSignal(w)
        BY <2>1, CountKept DEF WorkerSignal
    <2>2. CASE WorkerTimeout(w)
        BY <2>2, CountKept DEF WorkerTimeout
    <2>3. CASE WorkerWake(w)
        BY <2>3, CountKept DEF WorkerWake, fj_worker_wake, fj_worker_step
    <2>4. CASE WorkerJob(w)
        BY <2>4, CountKept DEF WorkerJob, fj_done_inline
    <2>5. CASE WorkerDone(w)
        BY <2>5, CountKept DEF WorkerDone
    <2>6. CASE WorkerExit(w)
        <3>1. LiveWorkers' = LiveWorkers \ {w} /\ w \in LiveWorkers
            BY <2>6 DEF WorkerExit
        <3>2. Recording' = Recording
            BY <2>6 DEF WorkerExit
        <3>3. st'.spawns = st.spawns /\ st'.exits = st.exits + 1
            BY <2>6 DEF WorkerExit, fj_worker_exit
        <3> HIDE DEF LiveWorkers, Recording, TypeOK
        <3>4. /\ IsFiniteSet(LiveWorkers')
              /\ Cardinality(LiveWorkers') = Cardinality(LiveWorkers) - 1
            BY <3>1, FS_RemoveElement DEF CountInv
        <3>5. st'.spawns + Cardinality(Recording') = st'.exits + Cardinality(LiveWorkers')
            BY <3>2, <3>3, <3>4, <1>n
        <3> QED BY <3>2, <3>4, <3>5 DEF CountInv, WorkersAccounted, LiveWorkers, Recording
    <2> QED BY <1>5, <2>1, <2>2, <2>3, <2>4, <2>5, <2>6 DEF WorkerStep
<1>6. CASE UNCHANGED vars
    BY <1>6, CountKept DEF vars
<1> QED BY <1>1, <1>2, <1>3, <1>4, <1>5, <1>6 DEF Next

-----------------------------------------------------------------------------
\* The type invariant of the mailbox holds in every reachable state.
THEOREM TypeCorrect == Spec => []TypeOK
BY TypeInit, TypeStep, PTL DEF Spec

\* For any number of callers and task handles, and whatever the scheduling
\* (starved callers included), a job only runs while its caller is blocked in
\* flash_jobs_run: the argument on the caller's stack is valid.
THEOREM JobArgumentSafe == Spec => []JobArgumentValid
BY HandoffInit, HandoffStep, HandoffImplies, PTL DEF Spec

\* Under the same generality, a call that returns a job result ran its own job
\* exactly once and returns that run's result; a refused call ran nothing.
THEOREM RunsExactlyOnce == Spec => []ExactlyOnce
BY HandoffInit, HandoffStep, HandoffImplies, PTL DEF Spec

\* However many tasks are created, refused or leave, and even when a caller is
\* starved, the counters of flash_jobs_stats account for every worker task.
THEOREM CountersAccount == Spec => []WorkersAccounted
<1>1. Init => TypeOK /\ CountInv
    BY TypeInit, CountInit
<1>2. TypeOK /\ CountInv /\ [Next]_vars => (TypeOK /\ CountInv)'
    BY TypeStep, CountStep
<1>3. CountInv => WorkersAccounted
    BY DEF CountInv
<1> QED BY <1>1, <1>2, <1>3, PTL DEF Spec

LEMMA AvailableAlways ==
    ASSUME ~Starvation
    PROVE  Spec => [](HandoffInv /\ AvailableInv)
<1>1. HandoffInv /\ AvailableInv /\ [Next]_vars => (HandoffInv /\ AvailableInv)'
    BY HandoffStep, AvailableStep
<1> QED BY HandoffInit, AvailableInit, <1>1, PTL DEF Spec

\* If no caller is kept off the CPU for a whole idle period inside the hand-
\* over, worker_alive never promises a worker that is gone.
THEOREM WorkerAvailable ==
    ASSUME ~Starvation
    PROVE  Spec => []AliveHasWorker
<1>1. AvailableInv => AliveHasWorker
    BY DEF AvailableInv
<1> QED BY <1>1, AvailableAlways, PTL

\* Under the same condition, uxTaskPriorityGet and vTaskPrioritySet are never
\* called on the handle of a deleted task.
THEOREM BoostSafe ==
    ASSUME ~Starvation
    PROVE  Spec => []BoostTargetLive
<1>1. HandoffInv /\ AvailableInv => BoostTargetLive
    BY DEF HandoffInv, LockInv, AvailableInv, AliveHasWorker, BoostTargetLive, TypeOK, Callers
<1> QED BY <1>1, AvailableAlways, PTL

\* Under the same condition, and for any number of callers, nobody waits on
\* s_done without an answer on its way: the safety half of CallReturns.
THEOREM NobodyStranded ==
    ASSUME ~Starvation
    PROVE  Spec => []AnswerOwed
<1>1. Init => CarriedInv
    BY DEF Init, CarriedInv, Window, Callers
<1>2. HandoffInv /\ AvailableInv /\ CarriedInv => AnswerOwed
  <2> SUFFICES ASSUME HandoffInv, AvailableInv, CarriedInv,
                      NEW c \in Callers, pc[c] = "await"
               PROVE  \/ s_done
                      \/ \E w \in Workers : wpc[w] \in {"run", "give"}
                      \/ st.job_pending /\ \E w \in Workers : wpc[w] \in {"wait", "woken"}
    BY DEF AnswerOwed
  <2>1. c \in Psram
    BY DEF HandoffInv, LockInv, Callers
  <2>2. CASE st.job_pending
    <3>1. s_worker \in Workers /\ wpc[s_worker] \in {"wait", "woken", "run", "give"}
      BY <2>1, <2>2 DEF AvailableInv, AliveHasWorker
    <3> QED BY <2>2, <3>1
  <2>3. CASE ~st.job_pending
    BY <2>1, <2>3 DEF CarriedInv, Window, Quiet
  <2> QED BY <2>2, <2>3
<1> QED BY <1>1, <1>2, AvailableAlways, HandoffInit, CarriedStep, HandoffStep, PTL DEF Spec
=============================================================================
