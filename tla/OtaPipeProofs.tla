--------------------------- MODULE OtaPipeProofs ---------------------------
(***************************************************************************)
(* The session and the pipe for any number of slots, any image size and    *)
(* any number of attempts, jobs and uploads: first the session and what    *)
(* ESP_OK means (IInv), then, on top of it, the slots and the order of the *)
(* chunks (SlotsInv).                                                      *)
(***************************************************************************)
EXTENDS OtaPipe, FiniteSetTheorems, TLAPS

SessionOK ==
    /\ session \in [state : {"IDLE", "RECEIVING", "READY", "FAILED"}, total : {0, ImageSize},
                    expect : Sources \union {NULL}, by : Sources \union {NULL}]
    /\ flash \in Seq(Chunks)
    /\ boot \in Seq(Chunks)
    /\ handles \in Nat
    /\ armed \in Sources \union {NULL}

QueuesOK ==
    /\ sActive \in BOOLEAN
    /\ sFree \in Seq(Slots)
    /\ sFull \in Seq(Messages)
    /\ sDone \in {0, 1}
    /\ sWriterErr \in Errors
    /\ sEndErr \in Errors
    /\ sSlot \in [Slots -> Chunks]

WriterOK ==
    /\ writer \in [pc : {"none", "begin", "disarm", "tell", "loop", "got", "leave"},
                   msg : Messages]
    /\ leaving \in Nat

PullOK ==
    /\ pull \in [pc : {"idle", "attempt", "create", "opening", "refused", "stream", "put",
                       "aborting", "ending", "ok", "failed"},
                 slot : Slots \union {END}, attempt : Nat, retry : BOOLEAN, fetches : Nat]

UploadOK ==
    upload \in [pc : {"idle", "armed", "receive", "fail"}, kind : {"raw", "multipart"},
                left : 0 .. ImageSize, requests : Nat]

HistoryOK ==
    /\ sent \in Seq(Chunks)
    /\ drained \in Seq(Chunks)
    /\ clean \in BOOLEAN
    /\ lateBegin \in BOOLEAN

\* A slot in the download task's hand is a slot, for a chunk of the image.
PutOK == pull.pc = "put" => pull.slot \in Slots /\ Len(sent) < ImageSize

\* s_active is set exactly while a writer task is in its loop.
ActiveMeansWriter == sActive = (writer.pc # "none")

\* What a clean attempt has reached, by the place of the download task.  The
\* digest of the session is the manifest's from the writer's begin on, no
\* s_done of an earlier writer is in the air, and the writer's one answer to
\* END is there before s_done says so.
DigestHeld == sWriterErr = "ESP_OK" => session.expect = "pull"
Answered == sEndErr = "ESP_OK" => boot = Image("pull")

CleanCreate == writer.pc = "none" /\ leaving = 0 /\ sDone = 0 /\ armed = "pull" /\ sFull = << >>
CleanOpening ==
    /\ leaving = 0
    /\ sFull = << >>
    /\ \/ writer.pc = "begin" /\ armed = "pull" /\ sDone = 0
       \/ writer.pc \in {"disarm", "tell"} /\ sDone = 0 /\ DigestHeld
       \/ writer.pc = "loop" /\ DigestHeld
CleanStream ==
    /\ leaving = 0
    /\ sDone = 0
    /\ DigestHeld
    /\ sFull \in Seq(Slots)
    /\ writer.pc = "loop" \/ (writer.pc = "got" /\ writer.msg \in Slots)
CleanEnding ==
    \/ writer.pc \in {"loop", "got"} /\ leaving = 0 /\ sDone = 0 /\ DigestHeld
    \/ writer.pc = "leave" /\ leaving = 0 /\ sDone = 0 /\ Answered
    \/ writer.pc = "none" /\ leaving \in {0, 1} /\ (leaving = 1 => sDone = 0) /\ Answered

CreateIsIdle == pull.pc = "create" => ~sActive

CleanAttempt ==
    clean =>
        /\ pull.pc = "create" => CleanCreate
        /\ pull.pc = "opening" => CleanOpening
        /\ pull.pc \in {"stream", "put"} => CleanStream
        /\ pull.pc = "ending" => CleanEnding
        /\ pull.pc = "ok" => writer.pc = "none" /\ boot = Image("pull")

IInv ==
    /\ SessionOK /\ QueuesOK /\ WriterOK /\ PullOK /\ UploadOK /\ HistoryOK
    /\ PutOK /\ OneHandle /\ ActiveMeansWriter /\ CreateIsIdle /\ CleanAttempt

----------------------------------------------------------------------------
(* The messages and the chunks.                                             *)

LEMMA Constants ==
    /\ ImageSize \in Nat /\ ImageSize > 0
    /\ PIPE_SLOTS \in Nat /\ PIPE_SLOTS > 0
    /\ END \in Messages /\ ABORT \in Messages
    /\ END \notin Slots /\ ABORT \notin Slots
    /\ \A s \in Slots : s \in Messages
    /\ NULL \notin Sources
    /\ "pull" \in Sources /\ "upload" \in Sources
  BY SlotsAssumption, SizeAssumption, NullAssumption DEF Messages, Slots, END, ABORT, Sources

LEMMA ChunkTypes ==
    ASSUME NEW src \in Sources, NEW n \in 0 .. ImageSize
    PROVE  <<src, n>> \in Chunks
  BY DEF Chunks

LEMMA ResultTypes ==
    ASSUME NEW ok \in BOOLEAN, NEW chunk
    PROVE  /\ BeginResult(ok) \in Errors
           /\ WriteResult(chunk, ok) \in Errors
           /\ EndResult(ok) \in Errors
  BY DEF BeginResult, WriteResult, EndResult, EndRefusal, Errors

----------------------------------------------------------------------------
(* Every operation of the session keeps its types and its one handle.       *)

LEMMA BeginKeeps ==
    ASSUME SessionOK, OneHandle, NEW src \in Sources, NEW total \in {0, ImageSize},
           NEW ok \in BOOLEAN, ota_session_begin(src, total, ok)
    PROVE  SessionOK' /\ OneHandle'
<1>1. CASE session.state = "RECEIVING"
  BY <1>1 DEF SessionOK, OneHandle, ota_session_begin, sessionVars
<1>2. CASE session.state # "RECEIVING"
  <2>1. /\ session' = [state |-> IF ok THEN "RECEIVING" ELSE "FAILED",
                      total |-> total, expect |-> armed, by |-> src]
        /\ flash' = << >> /\ boot' = boot /\ armed' = NULL
        /\ handles' = IF ok THEN handles + 1 ELSE handles
    BY <1>2 DEF ota_session_begin
  <2>2. flash' \in Seq(Chunks)
    BY <2>1
  <2>3. handles = 0
    BY <1>2 DEF OneHandle
  <2>4. CASE ok
    BY <2>1, <2>2, <2>3, <2>4 DEF SessionOK, OneHandle
  <2>5. CASE ~ok
    BY <2>1, <2>2, <2>3, <2>5 DEF SessionOK, OneHandle
  <2>6. QED
    BY <2>4, <2>5
<1>3. QED
  BY <1>1, <1>2

LEMMA WriteKeeps ==
    ASSUME SessionOK, OneHandle, NEW chunk \in Chunks, NEW ok \in BOOLEAN,
           ota_session_write(chunk, ok)
    PROVE  SessionOK' /\ OneHandle'
<1>1. CASE session.state # "RECEIVING"
  <2>1. UNCHANGED <<session, flash, handles, boot, armed>>
    BY <1>1 DEF ota_session_write, WriteResult
  <2>2. QED
    BY <2>1 DEF SessionOK, OneHandle
<1>2. CASE session.state = "RECEIVING" /\ WriteResult(chunk, ok) = "ESP_OK"
  <2>1. flash' = Append(flash, chunk) /\ UNCHANGED <<session, handles, boot, armed>>
    BY <1>2 DEF ota_session_write
  <2>2. QED
    BY <2>1 DEF SessionOK, OneHandle
<1>3. CASE session.state = "RECEIVING" /\ WriteResult(chunk, ok) # "ESP_OK"
  <2>1. fail(TRUE) /\ UNCHANGED <<flash, boot, armed>>
    BY <1>3 DEF ota_session_write
  <2>2. QED
    BY <1>3, <2>1 DEF SessionOK, OneHandle, fail, SessionWith
<1>4. QED
  BY <1>1, <1>2, <1>3

LEMMA EndKeeps ==
    ASSUME SessionOK, OneHandle, NEW ok \in BOOLEAN, ota_session_end(ok)
    PROVE  SessionOK' /\ OneHandle'
<1>1. CASE session.state # "RECEIVING"
  BY <1>1 DEF SessionOK, OneHandle, ota_session_end
<1>2. CASE session.state = "RECEIVING" /\ EndRefusal # "ESP_OK"
  <2>1. fail(TRUE) /\ UNCHANGED <<flash, boot, armed>>
    BY <1>2 DEF ota_session_end
  <2>2. QED
    BY <1>2, <2>1 DEF SessionOK, OneHandle, fail, SessionWith
<1>3. CASE session.state = "RECEIVING" /\ EndRefusal = "ESP_OK"
  <2>1. /\ handles' = handles - 1
        /\ UNCHANGED <<flash, armed>>
        /\ \/ session' = [session EXCEPT !.state = "READY"] /\ boot' = flash
           \/ session' = [session EXCEPT !.state = "FAILED"] /\ UNCHANGED boot
    BY <1>3 DEF ota_session_end, SessionWith
  <2>2. QED
    BY <1>3, <2>1 DEF SessionOK, OneHandle
<1>4. QED
  BY <1>1, <1>2, <1>3

LEMMA AbortKeeps ==
    ASSUME SessionOK, OneHandle, ota_session_abort
    PROVE  SessionOK' /\ OneHandle'
<1>1. /\ session' = [session EXCEPT !.state = "IDLE", !.total = 0, !.expect = NULL]
      /\ flash' = << >> /\ boot' = boot /\ armed' = armed
      /\ handles' = IF session.state = "RECEIVING" THEN handles - 1 ELSE handles
  BY DEF ota_session_abort
<1>2. handles' = 0
  BY <1>1 DEF OneHandle
<1>3. flash' \in Seq(Chunks)
  BY <1>1
<1>4. /\ session' \in [state : {"IDLE", "RECEIVING", "READY", "FAILED"}, total : {0, ImageSize},
                     expect : Sources \union {NULL}, by : Sources \union {NULL}]
      /\ session'.state = "IDLE"
  BY <1>1 DEF SessionOK
<1>5. QED
  BY <1>1, <1>2, <1>3, <1>4 DEF SessionOK, OneHandle

LEMMA ExpectKeeps ==
    ASSUME SessionOK, OneHandle, NEW d \in Sources \union {NULL}, ota_manager_expect_sha256(d)
    PROVE  SessionOK' /\ OneHandle'
  BY DEF SessionOK, OneHandle, ota_manager_expect_sha256

LEMMA WriteKeepsDigest ==
    ASSUME SessionOK, NEW chunk, NEW ok \in BOOLEAN, ota_session_write(chunk, ok)
    PROVE  session'.expect = session.expect /\ boot' = boot
  BY DEF SessionOK, ota_session_write, fail, SessionWith

\* The digest check of ota_session_end is what makes its ESP_OK mean the image.
LEMMA EndMeansImage ==
    ASSUME NEW ok \in BOOLEAN, session.expect = "pull", ota_session_end(ok),
           EndResult(ok) = "ESP_OK"
    PROVE  boot' = Image("pull")
<1>1. session.state = "RECEIVING" /\ EndRefusal = "ESP_OK" /\ esp_ota_end(ok)
  BY DEF EndResult, EndRefusal
<1>2. boot' = flash
  BY <1>1 DEF ota_session_end
<1>3. flash = Image("pull")
  BY <1>1, Constants DEF EndRefusal
<1>4. QED
  BY <1>2, <1>3

\* A writer's begin consumes the digest that was armed for it, or fails.
LEMMA BeginHoldsDigest ==
    ASSUME NEW ok \in BOOLEAN, armed = "pull", ota_session_begin("pull", ImageSize, ok),
           BeginResult(ok) = "ESP_OK"
    PROVE  session'.expect = "pull"
  BY DEF BeginResult, ota_session_begin

LEMMA SameSession ==
    ASSUME SessionOK, OneHandle, UNCHANGED sessionVars
    PROVE  SessionOK' /\ OneHandle'
  BY DEF SessionOK, OneHandle, sessionVars

----------------------------------------------------------------------------
(* The steps several calls share.                                           *)

PullPlaces == {"idle", "attempt", "create", "opening", "refused", "stream", "put", "aborting",
               "ending", "ok", "failed"}

LEMMA FailsTo ==
    ASSUME PullOK, NEW retry \in BOOLEAN, AttemptFails(retry)
    PROVE  PullOK' /\ pull'.pc \in {"attempt", "failed"}
<1>1. CASE retry /\ pull.attempt < MaxAttempts
  <2>1. pull' = [pull EXCEPT !.pc = "attempt", !.attempt = @ + 1, !.retry = FALSE]
    BY <1>1 DEF AttemptFails
  <2>2. pull.attempt + 1 \in Nat
    BY DEF PullOK
  <2>3. QED
    BY <2>1, <2>2 DEF PullOK
<1>2. CASE ~(retry /\ pull.attempt < MaxAttempts)
  <2>1. pull' = [pull EXCEPT !.pc = "failed", !.attempt = 1, !.retry = FALSE]
    BY <1>2 DEF AttemptFails
  <2>2. QED
    BY <2>1 DEF PullOK
<1>3. QED
  BY <1>1, <1>2

LEMMA GoesTo ==
    ASSUME PullOK, NEW p \in PullPlaces, PullAt(p)
    PROVE  PullOK' /\ pull'.pc = p
  BY DEF PullOK, PullAt, PullPlaces

LEMMA SendKeeps ==
    ASSUME sFull \in Seq(Messages), NEW msg \in Messages, SendFull(msg)
    PROVE  sFull' \in Seq(Messages)
  BY DEF SendFull

LEMMA AbortTo ==
    ASSUME PullOK, QueuesOK, NEW retry \in BOOLEAN, PipeAbort(retry)
    PROVE  PullOK' /\ pull'.pc \in {"attempt", "failed", "aborting"} /\ sFull' \in Seq(Messages)
<1>1. CASE ~sActive
  BY <1>1, FailsTo DEF PipeAbort, QueuesOK
<1>2. CASE sActive
  <2>1. SendFull(ABORT) /\ pull' = [pull EXCEPT !.pc = "aborting", !.retry = retry]
    BY <1>2 DEF PipeAbort
  <2>2. sFull' \in Seq(Messages)
    BY <2>1, SendKeeps, Constants DEF QueuesOK
  <2>3. QED
    BY <2>1, <2>2 DEF PullOK
<1>3. QED
  BY <1>1, <1>2

LEMMA UploadTo ==
    ASSUME UploadOK, NEW p \in {"idle", "armed", "receive", "fail"}, UploadAt(p)
    PROVE  UploadOK'
<1>1. 0 \in 0 .. ImageSize
  BY Constants
<1>2. CASE p = "idle"
  BY <1>1, <1>2 DEF UploadOK, UploadAt
<1>3. CASE p # "idle"
  BY <1>3 DEF UploadOK, UploadAt
<1>4. QED
  BY <1>2, <1>3

----------------------------------------------------------------------------
(* The parts of the invariant, one step of the system at a time.            *)

\* The session keeps its types and its one handle.
LEMMA NextSession ==
    ASSUME IInv, [Next]_vars
    PROVE  SessionOK' /\ OneHandle'
<1>u. CASE UNCHANGED vars
  BY <1>u, SameSession DEF vars, IInv
<1>1. ASSUME NEW ok \in BOOLEAN, WriterBegin(ok)
      PROVE  SessionOK' /\ OneHandle'
  BY <1>1, BeginKeeps, SameSession, Constants DEF WriterBegin, WriterAt, IInv
<1>2. CASE WriterDisarm
  BY <1>2, ExpectKeeps, SameSession, Constants DEF WriterDisarm, WriterAt, IInv
<1>3. CASE WriterTell
  BY <1>3, SameSession DEF WriterTell, Give, WriterAt, IInv
<1>4. CASE WriterReceive
  BY <1>4, SameSession DEF WriterReceive, IInv
<1>5. ASSUME NEW ok \in BOOLEAN, WriterEnd(ok)
      PROVE  SessionOK' /\ OneHandle'
  BY <1>5, EndKeeps, SameSession, Constants DEF WriterEnd, WriterAt, IInv
<1>6. CASE WriterAbort
  BY <1>6, AbortKeeps, SameSession, Constants DEF WriterAbort, WriterAt, IInv
<1>7. ASSUME NEW ok \in BOOLEAN, WriterWrite(ok)
      PROVE  SessionOK' /\ OneHandle'
  <2>1. CASE sWriterErr = "ESP_OK"
    <3>1. sSlot[writer.msg] \in Chunks
      BY <1>7 DEF WriterWrite, IInv, QueuesOK
    <3>2. QED
      BY <1>7, <2>1, <3>1, WriteKeeps DEF WriterWrite, IInv
  <2>2. CASE sWriterErr # "ESP_OK"
    BY <1>7, <2>2, SameSession DEF WriterWrite, IInv
  <2>3. QED
    BY <2>1, <2>2
<1>8. CASE WriterLeave
  BY <1>8, SameSession DEF WriterLeave, IInv
<1>9. CASE WriterGone
  BY <1>9, SameSession DEF WriterGone, Give, IInv
<1>10. CASE FetchImage
  BY <1>10, SameSession DEF FetchImage, IInv
<1>11. CASE PipeBegin
  BY <1>11, ExpectKeeps, SameSession, Constants DEF PipeBegin, AttemptFails, PullAt, IInv
<1>12. ASSUME NEW b \in BOOLEAN, PipeCreate(b)
      PROVE  SessionOK' /\ OneHandle'
  BY <1>12, ExpectKeeps, SameSession, Constants DEF PipeCreate, AttemptFails, PullAt, IInv
<1>13. CASE PipeOpened
  BY <1>13, SameSession DEF PipeOpened, Take, PullAt, SendFull, IInv
<1>14. CASE PipeOpenTimeout
  BY <1>14, SameSession DEF PipeOpenTimeout, RunsOut, AttemptFails, IInv
<1>15. ASSUME NEW b \in BOOLEAN, PipeRefused(b)
      PROVE  SessionOK' /\ OneHandle'
  BY <1>15, SameSession DEF PipeRefused, Take, RunsOut, AttemptFails, IInv
<1>16. CASE PipeWriteTake
  BY <1>16, SameSession DEF PipeWriteTake, IInv
<1>17. ASSUME NEW b \in BOOLEAN, PipeWritePut(b)
      PROVE  SessionOK' /\ OneHandle'
  BY <1>17, SameSession DEF PipeWritePut, SendFull, IInv
<1>18. CASE PipeWriteRefused
  BY <1>18, SameSession DEF PipeWriteRefused, PipeAbort, SendFull, AttemptFails, IInv
<1>19. CASE PipeWriteTimeout
  BY <1>19, SameSession DEF PipeWriteTimeout, PipeAbort, SendFull, AttemptFails, IInv
<1>20. ASSUME NEW b \in BOOLEAN, StreamFails(b)
      PROVE  SessionOK' /\ OneHandle'
  BY <1>20, SameSession DEF StreamFails, PipeAbort, SendFull, AttemptFails, IInv
<1>21. ASSUME NEW b \in BOOLEAN, PipeAborted(b)
      PROVE  SessionOK' /\ OneHandle'
  BY <1>21, SameSession DEF PipeAborted, Take, RunsOut, AttemptFails, IInv
<1>22. CASE PipeEnd
  BY <1>22, SameSession DEF PipeEnd, SendFull, PullAt, AttemptFails, IInv
<1>23. CASE PipeEnded
  BY <1>23, SameSession DEF PipeEnded, Take, AttemptFails, IInv
<1>24. CASE PipeEndTimeout
  BY <1>24, SameSession DEF PipeEndTimeout, RunsOut, AttemptFails, IInv
<1>25. ASSUME NEW k \in {"raw", "multipart"}, NEW d \in {NULL, "upload"}, UploadArms(k, d)
      PROVE  SessionOK' /\ OneHandle'
  BY <1>25, ExpectKeeps, SameSession, Constants DEF UploadArms, UploadAt, ByUpload, Interferes, IInv
<1>26. CASE UploadEmpty
  BY <1>26, ExpectKeeps, SameSession, Constants DEF UploadEmpty, UploadAt, ByUpload, Interferes, IInv
<1>27. CASE UploadNoPart
  BY <1>27, SameSession DEF UploadNoPart, UploadAt, ByUpload, Interferes, IInv
<1>28. ASSUME NEW ok \in BOOLEAN, UploadBegin(ok)
      PROVE  SessionOK' /\ OneHandle'
  BY <1>28, BeginKeeps, SameSession, Constants DEF UploadBegin, UploadAt, ByUpload, Interferes, IInv
<1>29. ASSUME NEW ok \in BOOLEAN, UploadReceive(ok)
      PROVE  SessionOK' /\ OneHandle'
  <2>1. upload.left \in 1 .. ImageSize
    BY <1>29, Constants DEF UploadReceive, IInv, UploadOK
  <2>2. ImageSize - upload.left + 1 \in 0 .. ImageSize
    BY <2>1, Constants
  <2>3. <<"upload", ImageSize - upload.left + 1>> \in Chunks
    BY <2>2, ChunkTypes, Constants
  <2>4. QED
    BY <1>29, <2>3, WriteKeeps DEF UploadReceive, IInv
<1>30. CASE UploadBreaks
  BY <1>30, SameSession DEF UploadBreaks, UploadAt, ByUpload, Interferes, IInv
<1>31. ASSUME NEW ok \in BOOLEAN, UploadEnd(ok)
      PROVE  SessionOK' /\ OneHandle'
  BY <1>31, EndKeeps, SameSession, Constants DEF UploadEnd, UploadAt, ByUpload, Interferes, IInv
<1>32. CASE UploadFails
  BY <1>32, AbortKeeps, SameSession, Constants DEF UploadFails, UploadAt, ByUpload, Interferes, IInv
<1>q. QED
  BY <1>u, <1>1, <1>2, <1>3, <1>4, <1>5, <1>6, <1>7, <1>8, <1>9, <1>10, <1>11, <1>12, <1>13, <1>14, <1>15, <1>16, <1>17, <1>18, <1>19, <1>20, <1>21, <1>22, <1>23, <1>24, <1>25, <1>26, <1>27, <1>28, <1>29, <1>30, <1>31, <1>32
     DEF Next, WriterStep, PullStep, PullTimeout, PullFails, UploadStep

\* The queues hold slots and messages, the semaphore is binary.
LEMMA NextQueues ==
    ASSUME IInv, [Next]_vars
    PROVE  QueuesOK'
<1>u. CASE UNCHANGED vars
  BY <1>u DEF vars, pipeVars, QueuesOK, IInv
<1>1. ASSUME NEW ok \in BOOLEAN, WriterBegin(ok)
      PROVE  QueuesOK'
  BY <1>1, ResultTypes DEF WriterBegin, WriterAt, QueuesOK, IInv
<1>2. CASE WriterDisarm
  BY <1>2 DEF WriterDisarm, WriterAt, pipeVars, QueuesOK, IInv
<1>3. CASE WriterTell
  BY <1>3 DEF WriterTell, Give, WriterAt, pipeVars, QueuesOK, IInv
<1>4. CASE WriterReceive
  <2>1. sFull' \in Seq(Messages)
    BY <1>4 DEF WriterReceive, QueuesOK, IInv
  <2>2. QED
    BY <1>4, <2>1 DEF WriterReceive, QueuesOK, IInv
<1>5. ASSUME NEW ok \in BOOLEAN, WriterEnd(ok)
      PROVE  QueuesOK'
  BY <1>5, ResultTypes DEF WriterEnd, WriterAt, QueuesOK, IInv
<1>6. CASE WriterAbort
  <2>1. "ESP_ERR_INVALID_STATE" \in Errors
    BY DEF Errors
  <2>2. QED
    BY <1>6, <2>1 DEF WriterAbort, QueuesOK, IInv
<1>7. ASSUME NEW ok \in BOOLEAN, WriterWrite(ok)
      PROVE  QueuesOK'
  <2>1. sWriterErr' \in Errors
    BY <1>7, ResultTypes DEF WriterWrite, QueuesOK, IInv
  <2>2. sFree' \in Seq(Slots)
    BY <1>7 DEF WriterWrite, QueuesOK, IInv
  <2>3. QED
    BY <1>7, <2>1, <2>2 DEF WriterWrite, QueuesOK, IInv
<1>8. CASE WriterLeave
  BY <1>8 DEF WriterLeave, pipeVars, QueuesOK, IInv
<1>9. CASE WriterGone
  BY <1>9 DEF WriterGone, Give, pipeVars, QueuesOK, IInv
<1>10. CASE FetchImage
  BY <1>10 DEF FetchImage, pipeVars, QueuesOK, IInv
<1>11. CASE PipeBegin
  <2>1. [i \in 1 .. PIPE_SLOTS |-> i] \in Seq(Slots)
    BY Constants DEF Slots
  <2>2. << >> \in Seq(Messages)
    OBVIOUS
  <2>3. QED
    BY <1>11, <2>1, <2>2 DEF PipeBegin, pipeVars, QueuesOK, IInv
<1>12. ASSUME NEW b \in BOOLEAN, PipeCreate(b)
      PROVE  QueuesOK'
  <2>1. "ESP_OK" \in Errors
    BY DEF Errors
  <2>2. QED
    BY <1>12, <2>1 DEF PipeCreate, QueuesOK, IInv
<1>13. CASE PipeOpened
  <2>1. sFull' \in Seq(Messages)
    BY <1>13, Constants, SendKeeps DEF PipeOpened, QueuesOK, IInv
  <2>2. QED
    BY <1>13, <2>1 DEF PipeOpened, Take, PullAt, SendFull, QueuesOK, IInv
<1>14. CASE PipeOpenTimeout
  BY <1>14 DEF PipeOpenTimeout, RunsOut, AttemptFails, pipeVars, QueuesOK, IInv
<1>15. ASSUME NEW b \in BOOLEAN, PipeRefused(b)
      PROVE  QueuesOK'
  BY <1>15 DEF PipeRefused, Take, RunsOut, QueuesOK, IInv
<1>16. CASE PipeWriteTake
  <2>1. sFree' \in Seq(Slots)
    BY <1>16 DEF PipeWriteTake, QueuesOK, IInv
  <2>2. QED
    BY <1>16, <2>1 DEF PipeWriteTake, QueuesOK, IInv
<1>17. ASSUME NEW b \in BOOLEAN, PipeWritePut(b)
      PROVE  QueuesOK'
  <2>1. Len(sent) + 1 \in 0 .. ImageSize
    BY <1>17, Constants DEF PipeWritePut, PutOK, HistoryOK, IInv
  <2>2. <<"pull", IF b THEN 0 ELSE Len(sent) + 1>> \in Chunks
    BY <2>1, ChunkTypes, Constants
  <2>3. pull.slot \in Slots /\ pull.slot \in Messages
    BY <1>17, Constants DEF PipeWritePut, PutOK, IInv
  <2>4. sFull' \in Seq(Messages)
    BY <1>17, <2>3 DEF PipeWritePut, SendFull, QueuesOK, IInv
  <2>5. sSlot' \in [Slots -> Chunks]
    BY <1>17, <2>2 DEF PipeWritePut, QueuesOK, IInv
  <2>6. QED
    BY <1>17, <2>4, <2>5 DEF PipeWritePut, QueuesOK, IInv
<1>18. CASE PipeWriteRefused
  <2>1. sFull' \in Seq(Messages)
    BY <1>18, Constants, AbortTo DEF PipeWriteRefused, QueuesOK, IInv
  <2>2. QED
    BY <1>18, <2>1 DEF PipeWriteRefused, PipeAbort, SendFull, AttemptFails, QueuesOK, IInv
<1>19. CASE PipeWriteTimeout
  <2>1. sFull' \in Seq(Messages)
    BY <1>19, Constants, AbortTo DEF PipeWriteTimeout, QueuesOK, IInv
  <2>2. QED
    BY <1>19, <2>1 DEF PipeWriteTimeout, PipeAbort, SendFull, AttemptFails, QueuesOK, IInv
<1>20. ASSUME NEW b \in BOOLEAN, StreamFails(b)
      PROVE  QueuesOK'
  <2>1. sFull' \in Seq(Messages)
    BY <1>20, Constants, AbortTo DEF StreamFails, QueuesOK, IInv
  <2>2. QED
    BY <1>20, <2>1 DEF StreamFails, PipeAbort, SendFull, AttemptFails, QueuesOK, IInv
<1>21. ASSUME NEW b \in BOOLEAN, PipeAborted(b)
      PROVE  QueuesOK'
  BY <1>21 DEF PipeAborted, Take, RunsOut, QueuesOK, IInv
<1>22. CASE PipeEnd
  <2>1. sFull' \in Seq(Messages)
    BY <1>22, Constants, SendKeeps DEF PipeEnd, QueuesOK, IInv
  <2>2. QED
    BY <1>22, <2>1 DEF PipeEnd, SendFull, PullAt, AttemptFails, QueuesOK, IInv
<1>23. CASE PipeEnded
  BY <1>23 DEF PipeEnded, Take, AttemptFails, pipeVars, QueuesOK, IInv
<1>24. CASE PipeEndTimeout
  BY <1>24 DEF PipeEndTimeout, RunsOut, AttemptFails, pipeVars, QueuesOK, IInv
<1>25. ASSUME NEW k \in {"raw", "multipart"}, NEW d \in {NULL, "upload"}, UploadArms(k, d)
      PROVE  QueuesOK'
  BY <1>25 DEF UploadArms, ByUpload, pipeVars, QueuesOK, IInv
<1>26. CASE UploadEmpty
  BY <1>26 DEF UploadEmpty, ByUpload, pipeVars, QueuesOK, IInv
<1>27. CASE UploadNoPart
  BY <1>27 DEF UploadNoPart, ByUpload, pipeVars, QueuesOK, IInv
<1>28. ASSUME NEW ok \in BOOLEAN, UploadBegin(ok)
      PROVE  QueuesOK'
  BY <1>28 DEF UploadBegin, ByUpload, pipeVars, QueuesOK, IInv
<1>29. ASSUME NEW ok \in BOOLEAN, UploadReceive(ok)
      PROVE  QueuesOK'
  BY <1>29 DEF UploadReceive, ByUpload, pipeVars, QueuesOK, IInv
<1>30. CASE UploadBreaks
  BY <1>30 DEF UploadBreaks, ByUpload, pipeVars, QueuesOK, IInv
<1>31. ASSUME NEW ok \in BOOLEAN, UploadEnd(ok)
      PROVE  QueuesOK'
  BY <1>31 DEF UploadEnd, ByUpload, pipeVars, QueuesOK, IInv
<1>32. CASE UploadFails
  BY <1>32 DEF UploadFails, ByUpload, pipeVars, QueuesOK, IInv
<1>q. QED
  BY <1>u, <1>1, <1>2, <1>3, <1>4, <1>5, <1>6, <1>7, <1>8, <1>9, <1>10, <1>11, <1>12, <1>13, <1>14, <1>15, <1>16, <1>17, <1>18, <1>19, <1>20, <1>21, <1>22, <1>23, <1>24, <1>25, <1>26, <1>27, <1>28, <1>29, <1>30, <1>31, <1>32
     DEF Next, WriterStep, PullStep, PullTimeout, PullFails, UploadStep

\* The writer task.
LEMMA NextWriter ==
    ASSUME IInv, [Next]_vars
    PROVE  WriterOK'
<1>u. CASE UNCHANGED vars
  BY <1>u DEF vars, pipeVars, WriterOK, IInv
<1>1. ASSUME NEW ok \in BOOLEAN, WriterBegin(ok)
      PROVE  WriterOK'
  BY <1>1, Constants DEF WriterBegin, WriterAt, pipeVars, WriterOK, IInv
<1>2. CASE WriterDisarm
  BY <1>2, Constants DEF WriterDisarm, WriterAt, pipeVars, WriterOK, IInv
<1>3. CASE WriterTell
  BY <1>3, Constants DEF WriterTell, Give, WriterAt, pipeVars, WriterOK, IInv
<1>4. CASE WriterReceive
  <2>1. Head(sFull) \in Messages
    BY <1>4 DEF WriterReceive, QueuesOK, IInv
  <2>2. QED
    BY <1>4, <2>1 DEF WriterReceive, WriterOK, IInv
<1>5. ASSUME NEW ok \in BOOLEAN, WriterEnd(ok)
      PROVE  WriterOK'
  BY <1>5, Constants DEF WriterEnd, WriterAt, pipeVars, WriterOK, IInv
<1>6. CASE WriterAbort
  BY <1>6, Constants DEF WriterAbort, WriterAt, pipeVars, WriterOK, IInv
<1>7. ASSUME NEW ok \in BOOLEAN, WriterWrite(ok)
      PROVE  WriterOK'
  BY <1>7, Constants DEF WriterWrite, pipeVars, WriterOK, IInv
<1>8. CASE WriterLeave
  BY <1>8, Constants DEF WriterLeave, pipeVars, WriterOK, IInv
<1>9. CASE WriterGone
  BY <1>9, Constants DEF WriterGone, Give, pipeVars, WriterOK, IInv
<1>10. CASE FetchImage
  BY <1>10, Constants DEF FetchImage, pipeVars, WriterOK, IInv
<1>11. CASE PipeBegin
  BY <1>11, Constants DEF PipeBegin, AttemptFails, PullAt, pipeVars, WriterOK, IInv
<1>12. ASSUME NEW b \in BOOLEAN, PipeCreate(b)
      PROVE  WriterOK'
  BY <1>12, Constants DEF PipeCreate, AttemptFails, PullAt, pipeVars, WriterOK, IInv
<1>13. CASE PipeOpened
  BY <1>13 DEF PipeOpened, WriterOK, IInv
<1>14. CASE PipeOpenTimeout
  BY <1>14, Constants DEF PipeOpenTimeout, RunsOut, AttemptFails, pipeVars, WriterOK, IInv
<1>15. ASSUME NEW b \in BOOLEAN, PipeRefused(b)
      PROVE  WriterOK'
  BY <1>15 DEF PipeRefused, WriterOK, IInv
<1>16. CASE PipeWriteTake
  BY <1>16, Constants DEF PipeWriteTake, pipeVars, WriterOK, IInv
<1>17. ASSUME NEW b \in BOOLEAN, PipeWritePut(b)
      PROVE  WriterOK'
  BY <1>17, Constants DEF PipeWritePut, SendFull, pipeVars, WriterOK, IInv
<1>18. CASE PipeWriteRefused
  BY <1>18 DEF PipeWriteRefused, WriterOK, IInv
<1>19. CASE PipeWriteTimeout
  BY <1>19 DEF PipeWriteTimeout, WriterOK, IInv
<1>20. ASSUME NEW b \in BOOLEAN, StreamFails(b)
      PROVE  WriterOK'
  BY <1>20 DEF StreamFails, WriterOK, IInv
<1>21. ASSUME NEW b \in BOOLEAN, PipeAborted(b)
      PROVE  WriterOK'
  BY <1>21 DEF PipeAborted, WriterOK, IInv
<1>22. CASE PipeEnd
  BY <1>22 DEF PipeEnd, WriterOK, IInv
<1>23. CASE PipeEnded
  BY <1>23, Constants DEF PipeEnded, Take, AttemptFails, pipeVars, WriterOK, IInv
<1>24. CASE PipeEndTimeout
  BY <1>24, Constants DEF PipeEndTimeout, RunsOut, AttemptFails, pipeVars, WriterOK, IInv
<1>25. ASSUME NEW k \in {"raw", "multipart"}, NEW d \in {NULL, "upload"}, UploadArms(k, d)
      PROVE  WriterOK'
  BY <1>25 DEF UploadArms, ByUpload, pipeVars, WriterOK, IInv
<1>26. CASE UploadEmpty
  BY <1>26 DEF UploadEmpty, ByUpload, pipeVars, WriterOK, IInv
<1>27. CASE UploadNoPart
  BY <1>27 DEF UploadNoPart, ByUpload, pipeVars, WriterOK, IInv
<1>28. ASSUME NEW ok \in BOOLEAN, UploadBegin(ok)
      PROVE  WriterOK'
  BY <1>28 DEF UploadBegin, ByUpload, pipeVars, WriterOK, IInv
<1>29. ASSUME NEW ok \in BOOLEAN, UploadReceive(ok)
      PROVE  WriterOK'
  BY <1>29 DEF UploadReceive, ByUpload, pipeVars, WriterOK, IInv
<1>30. CASE UploadBreaks
  BY <1>30 DEF UploadBreaks, ByUpload, pipeVars, WriterOK, IInv
<1>31. ASSUME NEW ok \in BOOLEAN, UploadEnd(ok)
      PROVE  WriterOK'
  BY <1>31 DEF UploadEnd, ByUpload, pipeVars, WriterOK, IInv
<1>32. CASE UploadFails
  BY <1>32 DEF UploadFails, ByUpload, pipeVars, WriterOK, IInv
<1>q. QED
  BY <1>u, <1>1, <1>2, <1>3, <1>4, <1>5, <1>6, <1>7, <1>8, <1>9, <1>10, <1>11, <1>12, <1>13, <1>14, <1>15, <1>16, <1>17, <1>18, <1>19, <1>20, <1>21, <1>22, <1>23, <1>24, <1>25, <1>26, <1>27, <1>28, <1>29, <1>30, <1>31, <1>32
     DEF Next, WriterStep, PullStep, PullTimeout, PullFails, UploadStep

\* The download task.
LEMMA NextPull ==
    ASSUME IInv, [Next]_vars
    PROVE  PullOK'
<1>u. CASE UNCHANGED vars
  BY <1>u DEF vars, PullOK, IInv
<1>1. ASSUME NEW ok \in BOOLEAN, WriterBegin(ok)
      PROVE  PullOK'
  BY <1>1 DEF WriterBegin, WriterAt, PullOK, IInv
<1>2. CASE WriterDisarm
  BY <1>2 DEF WriterDisarm, WriterAt, PullOK, IInv
<1>3. CASE WriterTell
  BY <1>3 DEF WriterTell, Give, WriterAt, PullOK, IInv
<1>4. CASE WriterReceive
  BY <1>4 DEF WriterReceive, PullOK, IInv
<1>5. ASSUME NEW ok \in BOOLEAN, WriterEnd(ok)
      PROVE  PullOK'
  BY <1>5 DEF WriterEnd, WriterAt, PullOK, IInv
<1>6. CASE WriterAbort
  BY <1>6 DEF WriterAbort, WriterAt, PullOK, IInv
<1>7. ASSUME NEW ok \in BOOLEAN, WriterWrite(ok)
      PROVE  PullOK'
  BY <1>7 DEF WriterWrite, PullOK, IInv
<1>8. CASE WriterLeave
  BY <1>8 DEF WriterLeave, PullOK, IInv
<1>9. CASE WriterGone
  BY <1>9 DEF WriterGone, Give, PullOK, IInv
<1>10. CASE FetchImage
  BY <1>10 DEF FetchImage, PullOK, IInv
<1>11. CASE PipeBegin
  BY <1>11, FailsTo, GoesTo DEF PipeBegin, PullPlaces, IInv
<1>12. ASSUME NEW b \in BOOLEAN, PipeCreate(b)
      PROVE  PullOK'
  BY <1>12, FailsTo, GoesTo DEF PipeCreate, PullPlaces, IInv
<1>13. CASE PipeOpened
  BY <1>13, FailsTo, GoesTo DEF PipeOpened, PullPlaces, IInv
<1>14. CASE PipeOpenTimeout
  BY <1>14, FailsTo, GoesTo DEF PipeOpenTimeout, PullPlaces, IInv
<1>15. ASSUME NEW b \in BOOLEAN, PipeRefused(b)
      PROVE  PullOK'
  BY <1>15, FailsTo, GoesTo DEF PipeRefused, PullPlaces, IInv
<1>16. CASE PipeWriteTake
  <2>1. Head(sFree) \in Slots
    BY <1>16 DEF PipeWriteTake, QueuesOK, IInv
  <2>2. QED
    BY <1>16, <2>1 DEF PipeWriteTake, PullOK, IInv
<1>17. ASSUME NEW b \in BOOLEAN, PipeWritePut(b)
      PROVE  PullOK'
  BY <1>17 DEF PipeWritePut, SendFull, PullOK, IInv
<1>18. CASE PipeWriteRefused
  BY <1>18, AbortTo DEF PipeWriteRefused, IInv
<1>19. CASE PipeWriteTimeout
  BY <1>19, AbortTo DEF PipeWriteTimeout, IInv
<1>20. ASSUME NEW b \in BOOLEAN, StreamFails(b)
      PROVE  PullOK'
  BY <1>20, AbortTo DEF StreamFails, IInv
<1>21. ASSUME NEW b \in BOOLEAN, PipeAborted(b)
      PROVE  PullOK'
  <2>1. pull.retry \in BOOLEAN
    BY DEF PullOK, IInv
  <2>2. QED
    BY <1>21, <2>1, FailsTo DEF PipeAborted, IInv
<1>22. CASE PipeEnd
  BY <1>22, FailsTo, GoesTo DEF PipeEnd, PullPlaces, IInv
<1>23. CASE PipeEnded
  <2>1. CASE sEndErr = "ESP_OK"
    <3>1. pull' = [pull EXCEPT !.pc = "ok", !.attempt = 1]
      BY <1>23, <2>1 DEF PipeEnded
    <3>2. QED
      BY <3>1 DEF PullOK, IInv
  <2>2. CASE sEndErr # "ESP_OK"
    BY <1>23, <2>2, FailsTo DEF PipeEnded, IInv
  <2>3. QED
    BY <2>1, <2>2
<1>24. CASE PipeEndTimeout
  BY <1>24, FailsTo, GoesTo DEF PipeEndTimeout, PullPlaces, IInv
<1>25. ASSUME NEW k \in {"raw", "multipart"}, NEW d \in {NULL, "upload"}, UploadArms(k, d)
      PROVE  PullOK'
  BY <1>25 DEF UploadArms, UploadAt, ByUpload, Interferes, PullOK, IInv
<1>26. CASE UploadEmpty
  BY <1>26 DEF UploadEmpty, UploadAt, ByUpload, Interferes, PullOK, IInv
<1>27. CASE UploadNoPart
  BY <1>27 DEF UploadNoPart, UploadAt, ByUpload, Interferes, PullOK, IInv
<1>28. ASSUME NEW ok \in BOOLEAN, UploadBegin(ok)
      PROVE  PullOK'
  BY <1>28 DEF UploadBegin, UploadAt, ByUpload, Interferes, PullOK, IInv
<1>29. ASSUME NEW ok \in BOOLEAN, UploadReceive(ok)
      PROVE  PullOK'
  BY <1>29 DEF UploadReceive, UploadAt, ByUpload, Interferes, PullOK, IInv
<1>30. CASE UploadBreaks
  BY <1>30 DEF UploadBreaks, UploadAt, ByUpload, Interferes, PullOK, IInv
<1>31. ASSUME NEW ok \in BOOLEAN, UploadEnd(ok)
      PROVE  PullOK'
  BY <1>31 DEF UploadEnd, UploadAt, ByUpload, Interferes, PullOK, IInv
<1>32. CASE UploadFails
  BY <1>32 DEF UploadFails, UploadAt, ByUpload, Interferes, PullOK, IInv
<1>q. QED
  BY <1>u, <1>1, <1>2, <1>3, <1>4, <1>5, <1>6, <1>7, <1>8, <1>9, <1>10, <1>11, <1>12, <1>13, <1>14, <1>15, <1>16, <1>17, <1>18, <1>19, <1>20, <1>21, <1>22, <1>23, <1>24, <1>25, <1>26, <1>27, <1>28, <1>29, <1>30, <1>31, <1>32
     DEF Next, WriterStep, PullStep, PullTimeout, PullFails, UploadStep

\* The HTTP task.
LEMMA NextUpload ==
    ASSUME IInv, [Next]_vars
    PROVE  UploadOK'
<1>u. CASE UNCHANGED vars
  BY <1>u DEF vars, UploadOK, IInv
<1>1. ASSUME NEW ok \in BOOLEAN, WriterBegin(ok)
      PROVE  UploadOK'
  BY <1>1, Constants DEF WriterBegin, WriterAt, UploadOK, IInv
<1>2. CASE WriterDisarm
  BY <1>2, Constants DEF WriterDisarm, WriterAt, UploadOK, IInv
<1>3. CASE WriterTell
  BY <1>3, Constants DEF WriterTell, Give, WriterAt, UploadOK, IInv
<1>4. CASE WriterReceive
  BY <1>4, Constants DEF WriterReceive, UploadOK, IInv
<1>5. ASSUME NEW ok \in BOOLEAN, WriterEnd(ok)
      PROVE  UploadOK'
  BY <1>5, Constants DEF WriterEnd, WriterAt, UploadOK, IInv
<1>6. CASE WriterAbort
  BY <1>6, Constants DEF WriterAbort, WriterAt, UploadOK, IInv
<1>7. ASSUME NEW ok \in BOOLEAN, WriterWrite(ok)
      PROVE  UploadOK'
  BY <1>7, Constants DEF WriterWrite, UploadOK, IInv
<1>8. CASE WriterLeave
  BY <1>8, Constants DEF WriterLeave, UploadOK, IInv
<1>9. CASE WriterGone
  BY <1>9, Constants DEF WriterGone, Give, UploadOK, IInv
<1>10. CASE FetchImage
  BY <1>10, Constants DEF FetchImage, UploadOK, IInv
<1>11. CASE PipeBegin
  BY <1>11, Constants DEF PipeBegin, AttemptFails, PullAt, UploadOK, IInv
<1>12. ASSUME NEW b \in BOOLEAN, PipeCreate(b)
      PROVE  UploadOK'
  BY <1>12, Constants DEF PipeCreate, AttemptFails, PullAt, UploadOK, IInv
<1>13. CASE PipeOpened
  BY <1>13, Constants DEF PipeOpened, Take, PullAt, SendFull, UploadOK, IInv
<1>14. CASE PipeOpenTimeout
  BY <1>14, Constants DEF PipeOpenTimeout, RunsOut, AttemptFails, UploadOK, IInv
<1>15. ASSUME NEW b \in BOOLEAN, PipeRefused(b)
      PROVE  UploadOK'
  BY <1>15, Constants DEF PipeRefused, Take, RunsOut, AttemptFails, UploadOK, IInv
<1>16. CASE PipeWriteTake
  BY <1>16, Constants DEF PipeWriteTake, UploadOK, IInv
<1>17. ASSUME NEW b \in BOOLEAN, PipeWritePut(b)
      PROVE  UploadOK'
  BY <1>17, Constants DEF PipeWritePut, SendFull, UploadOK, IInv
<1>18. CASE PipeWriteRefused
  BY <1>18, Constants DEF PipeWriteRefused, PipeAbort, SendFull, AttemptFails, UploadOK, IInv
<1>19. CASE PipeWriteTimeout
  BY <1>19, Constants DEF PipeWriteTimeout, PipeAbort, SendFull, AttemptFails, UploadOK, IInv
<1>20. ASSUME NEW b \in BOOLEAN, StreamFails(b)
      PROVE  UploadOK'
  BY <1>20, Constants DEF StreamFails, PipeAbort, SendFull, AttemptFails, UploadOK, IInv
<1>21. ASSUME NEW b \in BOOLEAN, PipeAborted(b)
      PROVE  UploadOK'
  BY <1>21, Constants DEF PipeAborted, Take, RunsOut, AttemptFails, UploadOK, IInv
<1>22. CASE PipeEnd
  BY <1>22, Constants DEF PipeEnd, SendFull, PullAt, AttemptFails, UploadOK, IInv
<1>23. CASE PipeEnded
  BY <1>23, Constants DEF PipeEnded, Take, AttemptFails, UploadOK, IInv
<1>24. CASE PipeEndTimeout
  BY <1>24, Constants DEF PipeEndTimeout, RunsOut, AttemptFails, UploadOK, IInv
<1>25. ASSUME NEW k \in {"raw", "multipart"}, NEW d \in {NULL, "upload"}, UploadArms(k, d)
      PROVE  UploadOK'
  BY <1>25, Constants DEF UploadArms, UploadAt, ByUpload, Interferes, UploadOK, IInv
<1>26. CASE UploadEmpty
  BY <1>26, UploadTo DEF UploadEmpty, IInv
<1>27. CASE UploadNoPart
  BY <1>27, UploadTo DEF UploadNoPart, IInv
<1>28. ASSUME NEW ok \in BOOLEAN, UploadBegin(ok)
      PROVE  UploadOK'
  <2>1. PICK p \in {"receive", "idle", "fail"} : UploadAt(p)
    BY <1>28 DEF UploadBegin
  <2>2. QED
    BY <2>1, UploadTo DEF IInv
<1>29. ASSUME NEW ok \in BOOLEAN, UploadReceive(ok)
      PROVE  UploadOK'
  <2>1. CASE WriteResult(<<"upload", ImageSize - upload.left + 1>>, ok) = "ESP_OK"
    BY <1>29, <2>1, Constants DEF UploadReceive, UploadOK, IInv
  <2>2. CASE WriteResult(<<"upload", ImageSize - upload.left + 1>>, ok) # "ESP_OK"
    BY <1>29, <2>2, UploadTo DEF UploadReceive, IInv
  <2>3. QED
    BY <2>1, <2>2
<1>30. CASE UploadBreaks
  BY <1>30, UploadTo DEF UploadBreaks, IInv
<1>31. ASSUME NEW ok \in BOOLEAN, UploadEnd(ok)
      PROVE  UploadOK'
  BY <1>31, UploadTo DEF UploadEnd, IInv
<1>32. CASE UploadFails
  BY <1>32, UploadTo DEF UploadFails, IInv
<1>q. QED
  BY <1>u, <1>1, <1>2, <1>3, <1>4, <1>5, <1>6, <1>7, <1>8, <1>9, <1>10, <1>11, <1>12, <1>13, <1>14, <1>15, <1>16, <1>17, <1>18, <1>19, <1>20, <1>21, <1>22, <1>23, <1>24, <1>25, <1>26, <1>27, <1>28, <1>29, <1>30, <1>31, <1>32
     DEF Next, WriterStep, PullStep, PullTimeout, PullFails, UploadStep

\* What the attempt sent and the writer took.
LEMMA NextHistory ==
    ASSUME IInv, [Next]_vars
    PROVE  HistoryOK'
<1>u. CASE UNCHANGED vars
  BY <1>u DEF vars, history, HistoryOK, IInv
<1>1. ASSUME NEW ok \in BOOLEAN, WriterBegin(ok)
      PROVE  HistoryOK'
  BY <1>1 DEF WriterBegin, WriterAt, history, HistoryOK, IInv
<1>2. CASE WriterDisarm
  BY <1>2 DEF WriterDisarm, WriterAt, history, HistoryOK, IInv
<1>3. CASE WriterTell
  BY <1>3 DEF WriterTell, Give, WriterAt, history, HistoryOK, IInv
<1>4. CASE WriterReceive
  BY <1>4 DEF WriterReceive, history, HistoryOK, IInv
<1>5. ASSUME NEW ok \in BOOLEAN, WriterEnd(ok)
      PROVE  HistoryOK'
  BY <1>5 DEF WriterEnd, WriterAt, history, HistoryOK, IInv
<1>6. CASE WriterAbort
  BY <1>6 DEF WriterAbort, WriterAt, history, HistoryOK, IInv
<1>7. ASSUME NEW ok \in BOOLEAN, WriterWrite(ok)
      PROVE  HistoryOK'
  <2>1. drained' \in Seq(Chunks)
    BY <1>7 DEF WriterWrite, QueuesOK, HistoryOK, IInv
  <2>2. QED
    BY <1>7, <2>1 DEF WriterWrite, HistoryOK, IInv
<1>8. CASE WriterLeave
  BY <1>8 DEF WriterLeave, history, HistoryOK, IInv
<1>9. CASE WriterGone
  BY <1>9 DEF WriterGone, Give, history, HistoryOK, IInv
<1>10. CASE FetchImage
  BY <1>10 DEF FetchImage, history, HistoryOK, IInv
<1>11. CASE PipeBegin
  <2>1. << >> \in Seq(Chunks)
    OBVIOUS
  <2>2. QED
    BY <1>11, <2>1 DEF PipeBegin, history, HistoryOK, IInv
<1>12. ASSUME NEW b \in BOOLEAN, PipeCreate(b)
      PROVE  HistoryOK'
  BY <1>12 DEF PipeCreate, AttemptFails, PullAt, history, HistoryOK, IInv
<1>13. CASE PipeOpened
  BY <1>13 DEF PipeOpened, history, HistoryOK, IInv
<1>14. CASE PipeOpenTimeout
  BY <1>14 DEF PipeOpenTimeout, RunsOut, AttemptFails, history, HistoryOK, IInv
<1>15. ASSUME NEW b \in BOOLEAN, PipeRefused(b)
      PROVE  HistoryOK'
  BY <1>15 DEF PipeRefused, HistoryOK, IInv
<1>16. CASE PipeWriteTake
  BY <1>16 DEF PipeWriteTake, history, HistoryOK, IInv
<1>17. ASSUME NEW b \in BOOLEAN, PipeWritePut(b)
      PROVE  HistoryOK'
  <2>1. Len(sent) + 1 \in 0 .. ImageSize
    BY <1>17, Constants DEF PipeWritePut, PutOK, HistoryOK, IInv
  <2>2. <<"pull", IF b THEN 0 ELSE Len(sent) + 1>> \in Chunks
    BY <2>1, ChunkTypes, Constants
  <2>3. sent' \in Seq(Chunks)
    BY <1>17, <2>2 DEF PipeWritePut, HistoryOK, IInv
  <2>4. QED
    BY <1>17, <2>3 DEF PipeWritePut, HistoryOK, IInv
<1>18. CASE PipeWriteRefused
  BY <1>18 DEF PipeWriteRefused, history, HistoryOK, IInv
<1>19. CASE PipeWriteTimeout
  BY <1>19 DEF PipeWriteTimeout, HistoryOK, IInv
<1>20. ASSUME NEW b \in BOOLEAN, StreamFails(b)
      PROVE  HistoryOK'
  BY <1>20 DEF StreamFails, history, HistoryOK, IInv
<1>21. ASSUME NEW b \in BOOLEAN, PipeAborted(b)
      PROVE  HistoryOK'
  BY <1>21 DEF PipeAborted, HistoryOK, IInv
<1>22. CASE PipeEnd
  BY <1>22 DEF PipeEnd, history, HistoryOK, IInv
<1>23. CASE PipeEnded
  BY <1>23 DEF PipeEnded, Take, AttemptFails, history, HistoryOK, IInv
<1>24. CASE PipeEndTimeout
  BY <1>24 DEF PipeEndTimeout, RunsOut, AttemptFails, history, HistoryOK, IInv
<1>25. ASSUME NEW k \in {"raw", "multipart"}, NEW d \in {NULL, "upload"}, UploadArms(k, d)
      PROVE  HistoryOK'
  BY <1>25 DEF UploadArms, ByUpload, Interferes, HistoryOK, IInv
<1>26. CASE UploadEmpty
  BY <1>26 DEF UploadEmpty, ByUpload, Interferes, HistoryOK, IInv
<1>27. CASE UploadNoPart
  BY <1>27 DEF UploadNoPart, ByUpload, HistoryOK, IInv
<1>28. ASSUME NEW ok \in BOOLEAN, UploadBegin(ok)
      PROVE  HistoryOK'
  BY <1>28 DEF UploadBegin, ByUpload, HistoryOK, IInv
<1>29. ASSUME NEW ok \in BOOLEAN, UploadReceive(ok)
      PROVE  HistoryOK'
  BY <1>29 DEF UploadReceive, ByUpload, Interferes, HistoryOK, IInv
<1>30. CASE UploadBreaks
  BY <1>30 DEF UploadBreaks, ByUpload, HistoryOK, IInv
<1>31. ASSUME NEW ok \in BOOLEAN, UploadEnd(ok)
      PROVE  HistoryOK'
  BY <1>31 DEF UploadEnd, ByUpload, Interferes, HistoryOK, IInv
<1>32. CASE UploadFails
  BY <1>32 DEF UploadFails, ByUpload, Interferes, HistoryOK, IInv
<1>q. QED
  BY <1>u, <1>1, <1>2, <1>3, <1>4, <1>5, <1>6, <1>7, <1>8, <1>9, <1>10, <1>11, <1>12, <1>13, <1>14, <1>15, <1>16, <1>17, <1>18, <1>19, <1>20, <1>21, <1>22, <1>23, <1>24, <1>25, <1>26, <1>27, <1>28, <1>29, <1>30, <1>31, <1>32
     DEF Next, WriterStep, PullStep, PullTimeout, PullFails, UploadStep

\* The slot in the download task's hand.
LEMMA NextPut ==
    ASSUME IInv, [Next]_vars
    PROVE  PutOK'
<1>u. CASE UNCHANGED vars
  BY <1>u DEF vars, history, PutOK, IInv
<1>1. ASSUME NEW ok \in BOOLEAN, WriterBegin(ok)
      PROVE  PutOK'
  BY <1>1 DEF WriterBegin, WriterAt, PullOK, PutOK, history, IInv
<1>2. CASE WriterDisarm
  BY <1>2 DEF WriterDisarm, WriterAt, PullOK, PutOK, history, IInv
<1>3. CASE WriterTell
  BY <1>3 DEF WriterTell, PutOK, history, IInv
<1>4. CASE WriterReceive
  BY <1>4 DEF WriterReceive, PullOK, PutOK, history, IInv
<1>5. ASSUME NEW ok \in BOOLEAN, WriterEnd(ok)
      PROVE  PutOK'
  BY <1>5 DEF WriterEnd, WriterAt, PullOK, PutOK, history, IInv
<1>6. CASE WriterAbort
  BY <1>6 DEF WriterAbort, WriterAt, PullOK, PutOK, history, IInv
<1>7. ASSUME NEW ok \in BOOLEAN, WriterWrite(ok)
      PROVE  PutOK'
  BY <1>7 DEF WriterWrite, PullOK, PutOK, history, IInv
<1>8. CASE WriterLeave
  BY <1>8 DEF WriterLeave, PullOK, PutOK, history, IInv
<1>9. CASE WriterGone
  BY <1>9 DEF WriterGone, Give, PullOK, PutOK, history, IInv
<1>10. CASE FetchImage
  BY <1>10 DEF FetchImage, PullOK, PutOK, history, IInv
<1>11. CASE PipeBegin
  BY <1>11 DEF PipeBegin, AttemptFails, PullAt, PullOK, PutOK, IInv
<1>12. ASSUME NEW b \in BOOLEAN, PipeCreate(b)
      PROVE  PutOK'
  BY <1>12 DEF PipeCreate, AttemptFails, PullAt, PullOK, PutOK, IInv
<1>13. CASE PipeOpened
  BY <1>13 DEF PipeOpened, PullAt, PullOK, PutOK, IInv
<1>14. CASE PipeOpenTimeout
  BY <1>14 DEF PipeOpenTimeout, AttemptFails, PullOK, PutOK, IInv
<1>15. ASSUME NEW b \in BOOLEAN, PipeRefused(b)
      PROVE  PutOK'
  BY <1>15 DEF PipeRefused, AttemptFails, PullOK, PutOK, IInv
<1>16. CASE PipeWriteTake
  <2>1. Head(sFree) \in Slots
    BY <1>16 DEF PipeWriteTake, QueuesOK, IInv
  <2>2. QED
    BY <1>16, <2>1 DEF PipeWriteTake, PullOK, PutOK, history, IInv
<1>17. ASSUME NEW b \in BOOLEAN, PipeWritePut(b)
      PROVE  PutOK'
  BY <1>17 DEF PipeWritePut, SendFull, PullOK, PutOK, history, IInv
<1>18. CASE PipeWriteRefused
  BY <1>18 DEF PipeWriteRefused, PipeAbort, AttemptFails, PullOK, PutOK, IInv
<1>19. CASE PipeWriteTimeout
  BY <1>19 DEF PipeWriteTimeout, PipeAbort, PullOK, PutOK, IInv
<1>20. ASSUME NEW b \in BOOLEAN, StreamFails(b)
      PROVE  PutOK'
  BY <1>20 DEF StreamFails, PipeAbort, AttemptFails, PullOK, PutOK, IInv
<1>21. ASSUME NEW b \in BOOLEAN, PipeAborted(b)
      PROVE  PutOK'
  BY <1>21 DEF PipeAborted, AttemptFails, PullOK, PutOK, IInv
<1>22. CASE PipeEnd
  BY <1>22 DEF PipeEnd, PullAt, AttemptFails, PullOK, PutOK, IInv
<1>23. CASE PipeEnded
  BY <1>23 DEF PipeEnded, AttemptFails, PullOK, PutOK, IInv
<1>24. CASE PipeEndTimeout
  BY <1>24 DEF PipeEndTimeout, AttemptFails, PullOK, PutOK, IInv
<1>25. ASSUME NEW k \in {"raw", "multipart"}, NEW d \in {NULL, "upload"}, UploadArms(k, d)
      PROVE  PutOK'
  BY <1>25 DEF UploadArms, ByUpload, PutOK, IInv
<1>26. CASE UploadEmpty
  BY <1>26 DEF UploadEmpty, ByUpload, PutOK, IInv
<1>27. CASE UploadNoPart
  BY <1>27 DEF UploadNoPart, ByUpload, PutOK, IInv
<1>28. ASSUME NEW ok \in BOOLEAN, UploadBegin(ok)
      PROVE  PutOK'
  BY <1>28 DEF UploadBegin, ByUpload, PutOK, IInv
<1>29. ASSUME NEW ok \in BOOLEAN, UploadReceive(ok)
      PROVE  PutOK'
  BY <1>29 DEF UploadReceive, ByUpload, PutOK, IInv
<1>30. CASE UploadBreaks
  BY <1>30 DEF UploadBreaks, ByUpload, PutOK, IInv
<1>31. ASSUME NEW ok \in BOOLEAN, UploadEnd(ok)
      PROVE  PutOK'
  BY <1>31 DEF UploadEnd, ByUpload, PutOK, IInv
<1>32. CASE UploadFails
  BY <1>32 DEF UploadFails, ByUpload, PutOK, IInv
<1>q. QED
  BY <1>u, <1>1, <1>2, <1>3, <1>4, <1>5, <1>6, <1>7, <1>8, <1>9, <1>10, <1>11, <1>12, <1>13, <1>14, <1>15, <1>16, <1>17, <1>18, <1>19, <1>20, <1>21, <1>22, <1>23, <1>24, <1>25, <1>26, <1>27, <1>28, <1>29, <1>30, <1>31, <1>32
     DEF Next, WriterStep, PullStep, PullTimeout, PullFails, UploadStep

\* s_active and the writer task come and go together.
LEMMA NextActive ==
    ASSUME IInv, [Next]_vars
    PROVE  ActiveMeansWriter' /\ CreateIsIdle'
<1>u. CASE UNCHANGED vars
  BY <1>u DEF vars, pipeVars, ActiveMeansWriter, CreateIsIdle, IInv
<1>1. ASSUME NEW ok \in BOOLEAN, WriterBegin(ok)
      PROVE  ActiveMeansWriter' /\ CreateIsIdle'
  BY <1>1 DEF WriterBegin, WriterAt, ActiveMeansWriter, CreateIsIdle, IInv
<1>2. CASE WriterDisarm
  BY <1>2 DEF WriterDisarm, WriterAt, ActiveMeansWriter, CreateIsIdle, IInv
<1>3. CASE WriterTell
  BY <1>3 DEF WriterTell, WriterAt, ActiveMeansWriter, CreateIsIdle, IInv
<1>4. CASE WriterReceive
  BY <1>4 DEF WriterReceive, ActiveMeansWriter, CreateIsIdle, IInv
<1>5. ASSUME NEW ok \in BOOLEAN, WriterEnd(ok)
      PROVE  ActiveMeansWriter' /\ CreateIsIdle'
  BY <1>5 DEF WriterEnd, WriterAt, ActiveMeansWriter, CreateIsIdle, IInv
<1>6. CASE WriterAbort
  BY <1>6 DEF WriterAbort, WriterAt, ActiveMeansWriter, CreateIsIdle, IInv
<1>7. ASSUME NEW ok \in BOOLEAN, WriterWrite(ok)
      PROVE  ActiveMeansWriter' /\ CreateIsIdle'
  BY <1>7 DEF WriterWrite, ActiveMeansWriter, CreateIsIdle, IInv
<1>8. CASE WriterLeave
  BY <1>8 DEF WriterLeave, ActiveMeansWriter, CreateIsIdle
<1>9. CASE WriterGone
  BY <1>9 DEF WriterGone, ActiveMeansWriter, CreateIsIdle, IInv
<1>10. CASE FetchImage
  BY <1>10 DEF FetchImage, pipeVars, ActiveMeansWriter, CreateIsIdle, IInv
<1>11. CASE PipeBegin
  BY <1>11 DEF PipeBegin, AttemptFails, pipeVars, PullOK, ActiveMeansWriter, CreateIsIdle, IInv
<1>12. ASSUME NEW b \in BOOLEAN, PipeCreate(b)
      PROVE  ActiveMeansWriter' /\ CreateIsIdle'
  <2>1. CASE b
    <3>1. pull'.pc = "opening"
      BY <1>12, <2>1, GoesTo DEF PipeCreate, PullPlaces, IInv
    <3>2. sActive' = TRUE /\ writer' = [pc |-> "begin", msg |-> END]
      BY <1>12, <2>1 DEF PipeCreate
    <3>3. QED
      BY <3>1, <3>2 DEF ActiveMeansWriter, CreateIsIdle
  <2>2. CASE ~b
    BY <1>12, <2>2, FailsTo DEF PipeCreate, ActiveMeansWriter, CreateIsIdle, IInv
  <2>3. QED
    BY <2>1, <2>2
<1>13. CASE PipeOpened
  BY <1>13 DEF PipeOpened, PullAt, PullOK, ActiveMeansWriter, CreateIsIdle, IInv
<1>14. CASE PipeOpenTimeout
  BY <1>14 DEF PipeOpenTimeout, AttemptFails, PullOK, ActiveMeansWriter, CreateIsIdle, IInv
<1>15. ASSUME NEW b \in BOOLEAN, PipeRefused(b)
      PROVE  ActiveMeansWriter' /\ CreateIsIdle'
  BY <1>15 DEF PipeRefused, AttemptFails, PullOK, ActiveMeansWriter, CreateIsIdle, IInv
<1>16. CASE PipeWriteTake
  BY <1>16 DEF PipeWriteTake, PullOK, ActiveMeansWriter, CreateIsIdle, IInv
<1>17. ASSUME NEW b \in BOOLEAN, PipeWritePut(b)
      PROVE  ActiveMeansWriter' /\ CreateIsIdle'
  BY <1>17 DEF PipeWritePut, ActiveMeansWriter, CreateIsIdle, IInv
<1>18. CASE PipeWriteRefused
  BY <1>18 DEF PipeWriteRefused, PipeAbort, PullOK, ActiveMeansWriter, CreateIsIdle, IInv
<1>19. CASE PipeWriteTimeout
  BY <1>19 DEF PipeWriteTimeout, PipeAbort, PullOK, ActiveMeansWriter, CreateIsIdle, IInv
<1>20. ASSUME NEW b \in BOOLEAN, StreamFails(b)
      PROVE  ActiveMeansWriter' /\ CreateIsIdle'
  BY <1>20 DEF StreamFails, PipeAbort, PullOK, ActiveMeansWriter, CreateIsIdle, IInv
<1>21. ASSUME NEW b \in BOOLEAN, PipeAborted(b)
      PROVE  ActiveMeansWriter' /\ CreateIsIdle'
  BY <1>21 DEF PipeAborted, AttemptFails, PullOK, ActiveMeansWriter, CreateIsIdle, IInv
<1>22. CASE PipeEnd
  BY <1>22 DEF PipeEnd, PullAt, PullOK, ActiveMeansWriter, CreateIsIdle, IInv
<1>23. CASE PipeEnded
  BY <1>23 DEF PipeEnded, AttemptFails, PullOK, ActiveMeansWriter, CreateIsIdle, IInv
<1>24. CASE PipeEndTimeout
  BY <1>24 DEF PipeEndTimeout, AttemptFails, PullOK, ActiveMeansWriter, CreateIsIdle, IInv
<1>25. ASSUME NEW k \in {"raw", "multipart"}, NEW d \in {NULL, "upload"}, UploadArms(k, d)
      PROVE  ActiveMeansWriter' /\ CreateIsIdle'
  BY <1>25 DEF UploadArms, ByUpload, pipeVars, ActiveMeansWriter, CreateIsIdle, IInv
<1>26. CASE UploadEmpty
  BY <1>26 DEF UploadEmpty, ByUpload, pipeVars, ActiveMeansWriter, CreateIsIdle, IInv
<1>27. CASE UploadNoPart
  BY <1>27 DEF UploadNoPart, ByUpload, pipeVars, ActiveMeansWriter, CreateIsIdle, IInv
<1>28. ASSUME NEW ok \in BOOLEAN, UploadBegin(ok)
      PROVE  ActiveMeansWriter' /\ CreateIsIdle'
  BY <1>28 DEF UploadBegin, ByUpload, pipeVars, ActiveMeansWriter, CreateIsIdle, IInv
<1>29. ASSUME NEW ok \in BOOLEAN, UploadReceive(ok)
      PROVE  ActiveMeansWriter' /\ CreateIsIdle'
  BY <1>29 DEF UploadReceive, ByUpload, pipeVars, ActiveMeansWriter, CreateIsIdle, IInv
<1>30. CASE UploadBreaks
  BY <1>30 DEF UploadBreaks, ByUpload, pipeVars, ActiveMeansWriter, CreateIsIdle, IInv
<1>31. ASSUME NEW ok \in BOOLEAN, UploadEnd(ok)
      PROVE  ActiveMeansWriter' /\ CreateIsIdle'
  BY <1>31 DEF UploadEnd, ByUpload, pipeVars, ActiveMeansWriter, CreateIsIdle, IInv
<1>32. CASE UploadFails
  BY <1>32 DEF UploadFails, ByUpload, pipeVars, ActiveMeansWriter, CreateIsIdle, IInv
<1>q. QED
  BY <1>u, <1>1, <1>2, <1>3, <1>4, <1>5, <1>6, <1>7, <1>8, <1>9, <1>10, <1>11, <1>12, <1>13, <1>14, <1>15, <1>16, <1>17, <1>18, <1>19, <1>20, <1>21, <1>22, <1>23, <1>24, <1>25, <1>26, <1>27, <1>28, <1>29, <1>30, <1>31, <1>32
     DEF Next, WriterStep, PullStep, PullTimeout, PullFails, UploadStep

\* What a clean attempt has reached.
LEMMA NextClean ==
    ASSUME IInv, [Next]_vars
    PROVE  CleanAttempt'
<1>u. CASE UNCHANGED vars
  BY <1>u
     DEF vars, sessionVars, pipeVars, history, IInv, CleanAttempt, CleanCreate, CleanOpening,
         CleanStream, CleanEnding, DigestHeld, Answered
<1>1. ASSUME NEW ok \in BOOLEAN, WriterBegin(ok)
      PROVE  CleanAttempt'
  <2>1. writer.pc = "begin" /\ writer'.pc \in {"tell", "disarm"}
    BY <1>1 DEF WriterBegin, WriterAt, WriterOK, IInv
  <2>2. CASE clean /\ pull.pc = "opening"
    <3>1. leaving = 0 /\ sFull = << >> /\ armed = "pull" /\ sDone = 0
      BY <2>1, <2>2 DEF IInv, CleanAttempt, CleanOpening
    <3>2. DigestHeld'
      BY <1>1, <3>1, BeginHoldsDigest DEF WriterBegin, DigestHeld
    <3>3. UNCHANGED <<leaving, sFull, sDone, pull>>
      BY <1>1 DEF WriterBegin
    <3>4. QED
      BY <2>1, <2>2, <3>1, <3>2, <3>3 DEF CleanAttempt, CleanOpening
  <2>3. CASE clean /\ pull.pc # "opening"
    <3>1. pull.pc \notin {"create", "stream", "put", "ending", "ok"}
      BY <2>1, <2>3 DEF IInv, CleanAttempt, CleanCreate, CleanStream, CleanEnding
    <3>2. QED
      BY <1>1, <2>3, <3>1 DEF WriterBegin, CleanAttempt
  <2>4. CASE ~clean
    BY <1>1, <2>4 DEF WriterBegin, history, CleanAttempt
  <2>5. QED
    BY <2>2, <2>3, <2>4 DEF IInv, HistoryOK
<1>2. CASE WriterDisarm
  BY <1>2
     DEF WriterDisarm, WriterAt, ota_manager_expect_sha256, history, IInv, CleanAttempt,
         CleanCreate, CleanOpening, CleanStream, CleanEnding, DigestHeld
<1>3. CASE WriterTell
  BY <1>3
     DEF WriterTell, Give, WriterAt, sessionVars, history, IInv, CleanAttempt, CleanCreate,
         CleanOpening, CleanStream, CleanEnding, DigestHeld
<1>4. CASE WriterReceive
  BY <1>4
     DEF WriterReceive, sessionVars, history, IInv, CleanAttempt, CleanCreate, CleanOpening,
         CleanStream, CleanEnding, DigestHeld
<1>5. ASSUME NEW ok \in BOOLEAN, WriterEnd(ok)
      PROVE  CleanAttempt'
  <2>1. writer.pc = "got" /\ writer.msg \notin Slots /\ writer'.pc = "leave"
    BY <1>5, Constants DEF WriterEnd, WriterAt, WriterOK, IInv
  <2>2. CASE clean /\ pull.pc = "ending"
    <3>1. leaving = 0 /\ sDone = 0 /\ DigestHeld
      BY <2>1, <2>2 DEF IInv, CleanAttempt, CleanEnding
    <3>2. Answered'
      BY <1>5, <3>1, EndMeansImage DEF WriterEnd, DigestHeld, Answered
    <3>3. UNCHANGED <<leaving, sDone, pull>>
      BY <1>5 DEF WriterEnd
    <3>4. QED
      BY <2>1, <2>2, <3>1, <3>2, <3>3 DEF CleanAttempt, CleanEnding
  <2>3. CASE clean /\ pull.pc # "ending"
    <3>1. pull.pc \notin {"create", "opening", "stream", "put", "ok"}
      BY <2>1, <2>3 DEF IInv, CleanAttempt, CleanCreate, CleanOpening, CleanStream
    <3>2. QED
      BY <1>5, <2>3, <3>1 DEF WriterEnd, CleanAttempt
  <2>4. CASE ~clean
    BY <1>5, <2>4 DEF WriterEnd, history, CleanAttempt
  <2>5. QED
    BY <2>2, <2>3, <2>4 DEF IInv, HistoryOK
<1>6. CASE WriterAbort
  BY <1>6, Constants
     DEF WriterAbort, WriterAt, history, IInv, CleanAttempt, CleanCreate, CleanOpening,
         CleanStream, CleanEnding, Answered
<1>7. ASSUME NEW ok \in BOOLEAN, WriterWrite(ok)
      PROVE  CleanAttempt'
  <2>1. writer.pc = "got" /\ writer' = [pc |-> "loop", msg |-> END]
    BY <1>7 DEF WriterWrite
  <2>2. DigestHeld => DigestHeld'
    BY <1>7, WriteKeepsDigest DEF WriterWrite, DigestHeld, sessionVars, IInv
  <2>3. UNCHANGED <<leaving, sDone, sFull, pull, clean>>
    BY <1>7 DEF WriterWrite
  <2>4. clean => pull.pc \notin {"create", "opening", "ok"}
    BY <2>1 DEF IInv, CleanAttempt, CleanCreate, CleanOpening
  <2>5. clean /\ pull.pc \in {"stream", "put"} => CleanStream'
    BY <2>1, <2>2, <2>3 DEF IInv, CleanAttempt, CleanStream
  <2>6. clean /\ pull.pc = "ending" => CleanEnding'
    BY <2>1, <2>2, <2>3 DEF IInv, CleanAttempt, CleanEnding
  <2>7. QED
    BY <2>3, <2>4, <2>5, <2>6 DEF CleanAttempt
<1>8. CASE WriterLeave
  BY <1>8
     DEF WriterLeave, sessionVars, history, IInv, CleanAttempt, CleanCreate, CleanOpening,
         CleanStream, CleanEnding, Answered
<1>9. CASE WriterGone
  BY <1>9
     DEF WriterGone, sessionVars, history, IInv, CleanAttempt, CleanCreate, CleanOpening,
         CleanStream, CleanEnding, Answered
<1>10. CASE FetchImage
  BY <1>10 DEF FetchImage, CleanAttempt
<1>11. CASE PipeBegin
  <2>1. CASE sActive
    BY <1>11, <2>1, FailsTo DEF PipeBegin, IInv, CleanAttempt
  <2>2. CASE ~sActive
    <3>1. pull'.pc = "create"
      BY <1>11, <2>2, GoesTo DEF PipeBegin, PullPlaces, IInv
    <3>2. /\ armed' = "pull" /\ sFull' = << >> /\ sDone' = 0
          /\ clean' = (leaving = 0) /\ UNCHANGED <<writer, leaving>>
      BY <1>11, <2>2 DEF PipeBegin, ota_manager_expect_sha256
    <3>3. writer.pc = "none"
      BY <2>2 DEF IInv, ActiveMeansWriter, WriterOK
    <3>4. QED
      BY <3>1, <3>2, <3>3 DEF CleanAttempt, CleanCreate
  <2>3. QED
    BY <2>1, <2>2
<1>12. ASSUME NEW b \in BOOLEAN, PipeCreate(b)
      PROVE  CleanAttempt'
  <2>1. CASE b
    <3>1. pull'.pc = "opening"
      BY <1>12, <2>1, GoesTo DEF PipeCreate, PullPlaces, IInv
    <3>2. writer' = [pc |-> "begin", msg |-> END] /\ UNCHANGED <<armed, sFull, sDone, leaving, clean>>
      BY <1>12, <2>1 DEF PipeCreate, sessionVars, history
    <3>3. clean => CleanCreate
      BY <1>12 DEF PipeCreate, IInv, CleanAttempt
    <3>4. QED
      BY <3>1, <3>2, <3>3 DEF CleanAttempt, CleanCreate, CleanOpening
  <2>2. CASE ~b
    BY <1>12, <2>2, FailsTo DEF PipeCreate, IInv, CleanAttempt
  <2>3. QED
    BY <2>1, <2>2
<1>13. CASE PipeOpened
  <2>0. pull.pc = "opening" /\ sDone = 1 /\ sDone' = 0 /\ UNCHANGED <<session, sWriterErr, writer, leaving, clean>>
    BY <1>13 DEF PipeOpened, Take, sessionVars, history
  <2>1. CASE sWriterErr = "ESP_OK"
    <3>1. pull'.pc = "stream" /\ sFull' = sFull
      BY <1>13, <2>1, GoesTo DEF PipeOpened, PullPlaces, IInv
    <3>2. clean => writer.pc = "loop" /\ leaving = 0 /\ sFull = << >> /\ DigestHeld
      BY <2>0 DEF IInv, CleanAttempt, CleanOpening
    <3>3. clean => sFull' \in Seq(Slots)
      BY <3>1, <3>2
    <3>4. QED
      BY <2>0, <3>1, <3>2, <3>3 DEF CleanAttempt, CleanStream, DigestHeld
  <2>2. CASE sWriterErr # "ESP_OK"
    <3>1. pull'.pc = "refused"
      BY <1>13, <2>2, GoesTo DEF PipeOpened, PullPlaces, IInv
    <3>2. QED
      BY <3>1 DEF CleanAttempt
  <2>3. QED
    BY <2>1, <2>2
<1>14. CASE PipeOpenTimeout
  BY <1>14, FailsTo DEF PipeOpenTimeout, CleanAttempt, IInv
<1>15. ASSUME NEW b \in BOOLEAN, PipeRefused(b)
      PROVE  CleanAttempt'
  BY <1>15, FailsTo DEF PipeRefused, CleanAttempt, IInv
<1>16. CASE PipeWriteTake
  BY <1>16 DEF PipeWriteTake, sessionVars, history, IInv, CleanAttempt, CleanStream, DigestHeld
<1>17. ASSUME NEW b \in BOOLEAN, PipeWritePut(b)
      PROVE  CleanAttempt'
  <2>1. pull.pc = "put" /\ UNCHANGED <<session, sWriterErr, writer, leaving, sDone, clean>>
    BY <1>17 DEF PipeWritePut, sessionVars
  <2>2. pull'.pc = "stream"
    BY <1>17 DEF PipeWritePut, PullOK, IInv
  <2>3. clean => CleanStream
    BY <2>1 DEF IInv, CleanAttempt
  <2>4. pull.slot \in Slots
    BY <2>1 DEF IInv, PutOK
  <2>5. clean => sFull' \in Seq(Slots)
    BY <1>17, <2>3, <2>4 DEF PipeWritePut, SendFull, CleanStream
  <2>6. QED
    BY <2>1, <2>2, <2>3, <2>5 DEF CleanAttempt, CleanStream, DigestHeld
<1>18. CASE PipeWriteRefused
  BY <1>18 DEF PipeWriteRefused, PipeAbort, AttemptFails, PullOK, IInv, CleanAttempt
<1>19. CASE PipeWriteTimeout
  BY <1>19 DEF PipeWriteTimeout, CleanAttempt
<1>20. ASSUME NEW b \in BOOLEAN, StreamFails(b)
      PROVE  CleanAttempt'
  BY <1>20
     DEF StreamFails, PipeAbort, AttemptFails, PullOK, ActiveMeansWriter, IInv, CleanAttempt,
         CleanStream
<1>21. ASSUME NEW b \in BOOLEAN, PipeAborted(b)
      PROVE  CleanAttempt'
  <2>1. pull.retry \in BOOLEAN /\ AttemptFails(pull.retry)
    BY <1>21 DEF PipeAborted, PullOK, IInv
  <2>2. pull'.pc \in {"attempt", "failed"}
    BY <2>1, FailsTo DEF IInv
  <2>3. QED
    BY <2>2 DEF CleanAttempt
<1>22. CASE PipeEnd
  BY <1>22
     DEF PipeEnd, SendFull, PullAt, AttemptFails, sessionVars, history, PullOK, IInv,
         CleanAttempt, CleanStream, CleanEnding, DigestHeld
<1>23. CASE PipeEnded
  <2>0. pull.pc = "ending" /\ sDone = 1 /\ UNCHANGED <<boot, writer, clean>>
    BY <1>23 DEF PipeEnded, Take, sessionVars, history
  <2>1. CASE sEndErr = "ESP_OK"
    <3>1. pull'.pc = "ok"
      BY <1>23, <2>1 DEF PipeEnded, PullOK, IInv
    <3>2. clean => writer.pc = "none" /\ boot = Image("pull")
      BY <2>0, <2>1 DEF IInv, CleanAttempt, CleanEnding, Answered
    <3>3. QED
      BY <2>0, <3>1, <3>2 DEF CleanAttempt, Image
  <2>2. CASE sEndErr # "ESP_OK"
    BY <1>23, <2>2, FailsTo DEF PipeEnded, IInv, CleanAttempt
  <2>3. QED
    BY <2>1, <2>2
<1>24. CASE PipeEndTimeout
  BY <1>24 DEF PipeEndTimeout, CleanAttempt
<1>25. ASSUME NEW k \in {"raw", "multipart"}, NEW d \in {NULL, "upload"}, UploadArms(k, d)
      PROVE  CleanAttempt'
  BY <1>25
     DEF UploadArms, UploadAt, ByUpload, Interferes, sessionVars, pipeVars, IInv,
         CleanAttempt, CleanCreate, CleanOpening, CleanStream, CleanEnding, DigestHeld,
         Answered
<1>26. CASE UploadEmpty
  BY <1>26 DEF UploadEmpty, Interferes, CleanAttempt
<1>27. CASE UploadNoPart
  BY <1>27
     DEF UploadNoPart, UploadAt, ByUpload, Interferes, sessionVars, pipeVars, IInv,
         CleanAttempt, CleanCreate, CleanOpening, CleanStream, CleanEnding, DigestHeld,
         Answered
<1>28. ASSUME NEW ok \in BOOLEAN, UploadBegin(ok)
      PROVE  CleanAttempt'
  <2>1. CASE BeginResult(ok) = "ESP_ERR_INVALID_STATE"
    <3>1. UNCHANGED sessionVars
      BY <1>28, <2>1 DEF UploadBegin, BeginResult, ota_session_begin
    <3>2. QED
      BY <1>28, <3>1
         DEF UploadBegin, ByUpload, sessionVars, pipeVars, IInv, CleanAttempt, CleanCreate,
             CleanOpening, CleanStream, CleanEnding, DigestHeld, Answered
  <2>2. CASE BeginResult(ok) # "ESP_ERR_INVALID_STATE"
    BY <1>28, <2>2 DEF UploadBegin, CleanAttempt
  <2>3. QED
    BY <2>1, <2>2
<1>29. ASSUME NEW ok \in BOOLEAN, UploadReceive(ok)
      PROVE  CleanAttempt'
  BY <1>29 DEF UploadReceive, Interferes, CleanAttempt
<1>30. CASE UploadBreaks
  BY <1>30
     DEF UploadBreaks, UploadAt, ByUpload, Interferes, sessionVars, pipeVars, IInv,
         CleanAttempt, CleanCreate, CleanOpening, CleanStream, CleanEnding, DigestHeld,
         Answered
<1>31. ASSUME NEW ok \in BOOLEAN, UploadEnd(ok)
      PROVE  CleanAttempt'
  BY <1>31 DEF UploadEnd, Interferes, CleanAttempt
<1>32. CASE UploadFails
  BY <1>32 DEF UploadFails, Interferes, CleanAttempt
<1>q. QED
  BY <1>u, <1>1, <1>2, <1>3, <1>4, <1>5, <1>6, <1>7, <1>8, <1>9, <1>10, <1>11, <1>12, <1>13, <1>14, <1>15, <1>16, <1>17, <1>18, <1>19, <1>20, <1>21, <1>22, <1>23, <1>24, <1>25, <1>26, <1>27, <1>28, <1>29, <1>30, <1>31, <1>32
     DEF Next, WriterStep, PullStep, PullTimeout, PullFails, UploadStep

LEMMA InitIInv == Init => IInv
<1>. SUFFICES ASSUME Init
              PROVE  IInv
  OBVIOUS
<1>1. /\ << >> \in Seq(Chunks) /\ << >> \in Seq(Slots) /\ << >> \in Seq(Messages)
      /\ 0 \in 0 .. ImageSize /\ "ESP_OK" \in Errors
  BY Constants DEF Errors
<1>2. \A s \in Slots : <<"pull", 0>> \in Chunks
  BY <1>1, ChunkTypes, Constants
<1>3. SessionOK /\ OneHandle
  BY <1>1 DEF Init, SessionOK, OneHandle
<1>4. QueuesOK
  BY <1>1, <1>2 DEF Init, QueuesOK
<1>5. WriterOK /\ PullOK /\ UploadOK /\ HistoryOK
  BY <1>1, Constants DEF Init, WriterOK, PullOK, UploadOK, HistoryOK
<1>6. PutOK /\ ActiveMeansWriter /\ CreateIsIdle /\ CleanAttempt
  BY DEF Init, PutOK, ActiveMeansWriter, CreateIsIdle, CleanAttempt
<1>7. QED
  BY <1>3, <1>4, <1>5, <1>6 DEF IInv

LEMMA NextIInv == IInv /\ [Next]_vars => IInv'
  BY NextSession, NextQueues, NextWriter, NextPull, NextUpload, NextHistory, NextPut, NextActive,
     NextClean DEF IInv

LEMMA Invariance == Spec => []IInv
  BY InitIInv, NextIInv, PTL DEF Spec

----------------------------------------------------------------------------
\* The session, the queues and the tasks stay in their types: the chunk a
\* slot holds and the length of what was sent need PutOK.
THEOREM TypeCorrect == Spec => []TypeOK
<1>1. IInv => TypeOK
  BY DEF IInv, TypeOK, SessionOK, QueuesOK, WriterOK, PullOK, UploadOK, HistoryOK
<1>2. QED
  BY Invariance, <1>1, PTL

\* ota_session.c opens one flash handle and gives it back once, whatever the
\* two transports do to each other's session.
THEOREM HandleGivenBackOnce == Spec => []OneHandle
<1>1. IInv => OneHandle
  BY DEF IInv
<1>2. QED
  BY Invariance, <1>1, PTL

\* ota_pipe_end's ESP_OK means the manifest's image is the one to boot, for
\* any number of slots, attempts and jobs, in a clean attempt: begun while no
\* earlier writer was leaving, none of its waits ran out, and no upload touched
\* the session or the armed digest.  Failures of the flash, the network and the
\* session may come at any point of it.
THEOREM OkMeansImage == Spec => []PullOkMeansImage
<1>1. IInv => PullOkMeansImage
  BY DEF IInv, CleanAttempt, PullOkMeansImage
<1>2. QED
  BY Invariance, <1>1, PTL

----------------------------------------------------------------------------
(* The slots and the order of the chunks.  Where a slot is, is counted: the *)
(* lemmas say what each queue operation does to the count.                  *)

\* The places of a value in a sequence, counted: none in the empty one, one
\* more for a value appended, one less for the head taken off.
LEMMA TimesFinite ==
    ASSUME NEW x, NEW T, NEW seq \in Seq(T)
    PROVE  /\ IsFiniteSet({i \in DOMAIN seq : seq[i] = x})
           /\ Times(x, seq) \in Nat
<1>1. IsFiniteSet(1 .. Len(seq))
  BY FS_Interval
<1>2. {i \in DOMAIN seq : seq[i] = x} \subseteq 1 .. Len(seq)
  OBVIOUS
<1>3. QED
  BY <1>1, <1>2, FS_Subset, FS_CardinalityType DEF Times

LEMMA TimesNone ==
    ASSUME NEW x, NEW T, NEW seq \in Seq(T)
    PROVE  Times(x, seq) = 0 <=> \A i \in 1 .. Len(seq) : seq[i] # x
<1> DEFINE At == {i \in DOMAIN seq : seq[i] = x}
<1>1. IsFiniteSet(At)
  BY TimesFinite
<1>2. Cardinality(At) = 0 <=> At = {}
  BY <1>1, FS_EmptySet
<1>3. At = {} <=> \A i \in 1 .. Len(seq) : seq[i] # x
  OBVIOUS
<1>4. QED
  BY <1>2, <1>3 DEF Times

LEMMA TimesAppend ==
    ASSUME NEW x, NEW T, NEW seq \in Seq(T), NEW y \in T
    PROVE  Times(x, Append(seq, y)) = Times(x, seq) + (IF y = x THEN 1 ELSE 0)
<1> DEFINE n == Len(seq)
           At == {i \in DOMAIN seq : seq[i] = x}
           AtA == {i \in DOMAIN Append(seq, y) : Append(seq, y)[i] = x}
<1>1. /\ n \in Nat /\ DOMAIN seq = 1 .. n /\ DOMAIN Append(seq, y) = 1 .. n + 1
      /\ Append(seq, y)[n + 1] = y
      /\ \A i \in 1 .. n : Append(seq, y)[i] = seq[i]
  OBVIOUS
<1>2. IsFiniteSet(At) /\ n + 1 \notin At /\ Cardinality(At) \in Nat
  <2>1. n + 1 \notin At
    BY <1>1
  <2>2. QED
    BY <2>1, TimesFinite DEF Times
<1>3. AtA = IF y = x THEN At \cup {n + 1} ELSE At
  BY <1>1
<1>4. Times(x, seq) = Cardinality(At) /\ Times(x, Append(seq, y)) = Cardinality(AtA)
  BY DEF Times
<1> HIDE DEF At, AtA
<1>5. Cardinality(At \cup {n + 1}) = Cardinality(At) + 1
  BY <1>2, FS_AddElement
<1>6. QED
  BY <1>2, <1>3, <1>4, <1>5

LEMMA TimesTail ==
    ASSUME NEW x, NEW T, NEW seq \in Seq(T), seq # << >>
    PROVE  Times(x, seq) = Times(x, Tail(seq)) + (IF Head(seq) = x THEN 1 ELSE 0)
<1> DEFINE n == Len(seq)
           At == {i \in DOMAIN seq : seq[i] = x}
           AtT == {i \in DOMAIN Tail(seq) : Tail(seq)[i] = x}
           Up == {i \in 2 .. n : seq[i] = x}
           f == [i \in AtT |-> i + 1]
<1>1. /\ n \in Nat /\ n > 0 /\ DOMAIN seq = 1 .. n /\ DOMAIN Tail(seq) = 1 .. n - 1
      /\ Tail(seq) \in Seq(T)
      /\ Head(seq) = seq[1]
      /\ \A i \in 1 .. n - 1 : Tail(seq)[i] = seq[i + 1]
  OBVIOUS
<1>2. IsFiniteSet(AtT) /\ Cardinality(AtT) \in Nat
  <2>1. IsFiniteSet(AtT)
    BY <1>1, TimesFinite
  <2>2. QED
    BY <2>1, FS_CardinalityType
<1>3. f \in Bijection(AtT, Up)
  <2>1. f \in [AtT -> Up]
    BY <1>1
  <2>2. \A i, j \in AtT : f[i] = f[j] => i = j
    BY <1>1
  <2>3. \A k \in Up : k - 1 \in AtT /\ f[k - 1] = k
    BY <1>1
  <2>4. QED
    BY <2>1, <2>2, <2>3 DEF Bijection, Injection, Surjection, IsInjective
<1>a. Times(x, seq) = Cardinality(At) /\ Times(x, Tail(seq)) = Cardinality(AtT)
  BY DEF Times
<1>b. At = IF Head(seq) = x THEN Up \cup {1} ELSE Up
  BY <1>1
<1>c. 1 \notin Up
  BY <1>1
<1> HIDE DEF f, At, AtT, Up
<1>4. IsFiniteSet(Up) /\ Cardinality(Up) = Cardinality(AtT)
  <2>1. ExistsBijection(AtT, Up)
    BY <1>3 DEF ExistsBijection
  <2>2. QED
    BY <2>1, <1>2, FS_Bijection
<1>5. Cardinality(Up \cup {1}) = Cardinality(Up) + 1
  BY <1>c, <1>4, FS_AddElement
<1>6. QED
  BY <1>a, <1>b, <1>2, <1>4, <1>5

\* A value counted at most once has at most one place.
LEMMA TimesOnce ==
    ASSUME NEW x, NEW T, NEW seq \in Seq(T), Times(x, seq) <= 1,
           NEW i \in 1 .. Len(seq), NEW j \in 1 .. Len(seq), seq[i] = x, seq[j] = x
    PROVE  i = j
<1> DEFINE At == {k \in DOMAIN seq : seq[k] = x}
<1>1. IsFiniteSet(At) /\ Cardinality(At) \in Nat /\ Cardinality(At) <= 1
  BY TimesFinite DEF Times
<1>2. {i} \cup {j} \subseteq At
  OBVIOUS
<1>3. Cardinality({i} \cup {j}) <= Cardinality(At)
  BY <1>1, <1>2, FS_Subset
<1>4. IsFiniteSet({i}) /\ Cardinality({i}) = 1
  BY FS_Singleton
<1>5. j \notin {i} => Cardinality({i} \cup {j}) = Cardinality({i}) + 1
  BY <1>4, FS_AddElement
<1> DEFINE one == Cardinality({i})
<1> DEFINE both == Cardinality({i} \cup {j})
<1>6. /\ one = 1
      /\ j \notin {i} => both = one + 1
      /\ both <= Cardinality(At)
  BY <1>3, <1>4, <1>5
<1> HIDE DEF At, one, both
<1>7. j \in {i}
  BY <1>1, <1>6
<1>8. QED
  BY <1>7

\* queues_reset: each slot stands once in the list of all of them.
LEMMA TimesAll ==
    ASSUME NEW s \in Slots
    PROVE  /\ [i \in 1 .. PIPE_SLOTS |-> i] \in Seq(Slots)
           /\ Times(s, [i \in 1 .. PIPE_SLOTS |-> i]) = 1
<1> DEFINE all == [i \in 1 .. PIPE_SLOTS |-> i]
<1>1. all \in Seq(Slots) /\ DOMAIN all = Slots
  BY SlotsAssumption DEF Slots
<1>2. {i \in DOMAIN all : all[i] = s} = {s}
  BY <1>1 DEF Slots
<1>3. Cardinality({s}) = 1
  BY FS_Singleton
<1>4. Times(s, all) = 1
  BY <1>2, <1>3 DEF Times
<1>5. QED
  BY <1>1, <1>4

----------------------------------------------------------------------------
(* Where the slots are and what the pipe carries.                           *)

\* The chunks that wait in s_full.
Waiting == [i \in SlotsQueued |-> sSlot[sFull[i]]]

\* Nothing is sent behind END or ABORT.
EndLast == \A i \in 1 .. Len(sFull) : i < Len(sFull) => sFull[i] \in Slots

\* Up to the END or the ABORT of its attempt the download task feeds one
\* writer, and only slots; before the stream it has sent nothing.
Feeding ==
    /\ pull.pc = "create" => writer.pc = "none" /\ sFull = << >>
    /\ pull.pc = "opening" => writer.pc \in {"begin", "disarm", "tell", "loop"} /\ sFull = << >>
    /\ pull.pc \in {"stream", "put"} =>
         /\ writer.pc \in {"begin", "disarm", "tell", "loop", "got"}
         /\ writer.pc = "got" => writer.msg \in Slots
         /\ sFull \in Seq(Slots)

\* Every slot has its one place from queues_reset on.
SlotsHeld == sActive \/ pull.pc = "create" => \A s \in Slots : Holders(s) = 1

SlotsInv == Feeding /\ EndLast /\ SlotsHeld /\ ChunksInOrder

\* Steps that move no slot: END or ABORT is sent at most, to a writer that is
\* fed.  A pipe opens when its writer is created and closes when it leaves.
Calm ==
    /\ UNCHANGED <<sFree, sSlot, sent, drained>>
    /\ \/ sFull' = sFull
       \/ /\ sFull \in Seq(Slots)
          /\ pull.pc \in {"opening", "stream"}
          /\ writer' = writer
          /\ \E m \in {END, ABORT} : sFull' = Append(sFull, m)
    /\ pull' = pull \/ (pull.pc # "put" /\ pull'.pc # "put")
    /\ \/ writer' = writer
       \/ /\ writer.pc = "got" => writer.msg \notin Slots
          /\ writer'.pc # "got"
          /\ writer'.pc \in {"leave", "none"} => writer.pc \in {"got", "leave"}
    /\ pull'.pc = "create" => pull.pc = "create"
    /\ \/ sActive' = sActive
       \/ writer.pc = "leave" /\ ~sActive'
       \/ pull.pc = "create" /\ sActive'

\* s_full holds slots, and an END or an ABORT behind them.
LEMMA QueueShape ==
    ASSUME QueuesOK, EndLast
    PROVE  \E k \in Nat :
              /\ SlotsQueued = 1 .. k
              /\ \/ k = Len(sFull) /\ sFull \in Seq(Slots)
                 \/ k = Len(sFull) - 1 /\ sFull[Len(sFull)] \notin Slots
              /\ Waiting \in Seq(Chunks) /\ Len(Waiting) = k
<1>1. sFull \in Seq(Messages) /\ Len(sFull) \in Nat
  BY DEF QueuesOK
<1>2. \A k \in Nat : SlotsQueued = 1 .. k => Waiting \in Seq(Chunks) /\ Len(Waiting) = k
  <2> SUFFICES ASSUME NEW k \in Nat, SlotsQueued = 1 .. k
               PROVE  Waiting \in Seq(Chunks) /\ Len(Waiting) = k
    OBVIOUS
  <2>1. \A i \in 1 .. k : sSlot[sFull[i]] \in Chunks
    BY DEF SlotsQueued, QueuesOK
  <2>2. QED
    BY <2>1 DEF Waiting
<1>3. CASE Len(sFull) = 0 \/ sFull[Len(sFull)] \in Slots
  <2>1. \A i \in 1 .. Len(sFull) : sFull[i] \in Slots
    BY <1>1, <1>3 DEF EndLast
  <2>2. SlotsQueued = 1 .. Len(sFull) /\ sFull \in Seq(Slots)
    BY <1>1, <2>1 DEF SlotsQueued
  <2>3. QED
    BY <1>1, <1>2, <2>2
<1>4. CASE Len(sFull) # 0 /\ sFull[Len(sFull)] \notin Slots
  <2>1. Len(sFull) - 1 \in Nat /\ SlotsQueued = 1 .. Len(sFull) - 1
    BY <1>1, <1>4 DEF EndLast, SlotsQueued
  <2>2. QED
    BY <1>2, <1>4, <2>1
<1>5. QED
  BY <1>3, <1>4

\* What a slot's places are counted with.
LEMMA HoldersTypes ==
    ASSUME QueuesOK, NEW s \in Slots
    PROVE  Times(s, sFree) \in Nat /\ Times(s, sFull) \in Nat
  BY TimesFinite DEF QueuesOK

\* The sequence of a queue and a hand of at most one chunk.
LEMMA InHandType ==
    ASSUME QueuesOK
    PROVE  InHand \in Seq(Chunks) /\ Len(InHand) \in {0, 1}
<1>1. CASE writer.pc = "got" /\ writer.msg \in Slots
  <2>1. sSlot[writer.msg] \in Chunks
    BY <1>1 DEF QueuesOK
  <2>2. QED
    BY <1>1, <2>1 DEF InHand
<1>2. CASE ~(writer.pc = "got" /\ writer.msg \in Slots)
  BY <1>2 DEF InHand
<1>3. QED
  BY <1>1, <1>2

\* A calm step leaves every slot and every chunk where it was.
LEMMA CalmKeeps ==
    ASSUME IInv, SlotsInv, Calm
    PROVE  EndLast' /\ SlotsHeld' /\ ChunksInOrder'
<1>0. /\ QueuesOK /\ EndLast /\ sFull \in Seq(Messages) /\ Len(sFull) \in Nat
      /\ END \in Messages \ Slots /\ ABORT \in Messages \ Slots
  BY Constants DEF IInv, SlotsInv, QueuesOK
<1>1. EndLast'
  <2>1. CASE sFull' = sFull
    BY <2>1, <1>0 DEF EndLast
  <2>2. CASE sFull \in Seq(Slots) /\ \E m \in {END, ABORT} : sFull' = Append(sFull, m)
    BY <2>2, <1>0 DEF EndLast
  <2>3. QED
    BY <2>1, <2>2 DEF Calm
<1>2. SlotsHeld'
  <2> SUFFICES ASSUME sActive' \/ pull'.pc = "create", NEW s \in Slots
               PROVE  Holders(s)' = 1
    BY DEF SlotsHeld
  <2>1. Holders(s) = 1
    BY DEF Calm, SlotsInv, SlotsHeld
  <2>2. Times(s, sFull') = Times(s, sFull)
    <3>1. CASE sFull' = sFull
      BY <3>1
    <3>2. CASE \E m \in {END, ABORT} : sFull' = Append(sFull, m)
      <4>1. PICK m \in {END, ABORT} : sFull' = Append(sFull, m)
        BY <3>2
      <4>2. m \in Messages /\ m # s
        BY <1>0
      <4>3. Times(s, Append(sFull, m)) = Times(s, sFull) + 0
        BY <1>0, <4>2, TimesAppend
      <4>4. QED
        BY <1>0, <4>1, <4>3, HoldersTypes
    <3>3. QED
      BY <3>1, <3>2 DEF Calm
  <2>3. (pull'.pc = "put" /\ pull'.slot = s) <=> (pull.pc = "put" /\ pull.slot = s)
    BY DEF Calm
  <2>4. (writer'.pc = "got" /\ writer'.msg = s) <=> (writer.pc = "got" /\ writer.msg = s)
    BY DEF Calm
  <2>5. sFree' = sFree
    BY DEF Calm
  <2>6. Holders(s)' = Holders(s)
    BY <2>2, <2>3, <2>4, <2>5 DEF Holders
  <2>7. QED
    BY <2>1, <2>6
<1>3. ChunksInOrder'
  <2>1. SlotsQueued' = SlotsQueued /\ \A i \in SlotsQueued : sFull'[i] = sFull[i]
    <3>1. CASE sFull' = sFull
      BY <3>1 DEF SlotsQueued
    <3>2. CASE \E m \in {END, ABORT} : sFull' = Append(sFull, m)
      BY <3>2, <1>0 DEF SlotsQueued
    <3>3. QED
      BY <3>1, <3>2 DEF Calm
  <2>2. InHand' = InHand
    BY DEF Calm, InHand
  <2>3. [i \in SlotsQueued |-> sSlot[sFull[i]]]' = [i \in SlotsQueued |-> sSlot[sFull[i]]]
    BY <2>1 DEF Calm
  <2>4. InFlight' = InFlight
    BY <2>2, <2>3 DEF InFlight
  <2>5. \A i \in SlotsQueued', j \in DOMAIN sFull' \ SlotsQueued' : i < j
    <3>1. CASE sFull' = sFull
      BY <3>1, <2>1 DEF SlotsInv, ChunksInOrder
    <3>2. CASE sFull \in Seq(Slots) /\ \E m \in {END, ABORT} : sFull' = Append(sFull, m)
      BY <3>2, <1>0 DEF SlotsQueued
    <3>3. QED
      BY <3>1, <3>2 DEF Calm
  <2>6. QED
    BY <2>4, <2>5 DEF Calm, SlotsInv, ChunksInOrder
<1>4. QED
  BY <1>1, <1>2, <1>3

\* The steps of the upload and the last give of a writer leave the
\* pipe as it is.
Apart == UNCHANGED <<sActive, sFree, sFull, sSlot, writer, pull, sent, drained>>

LEMMA ApartIsCalm == ASSUME Apart PROVE Calm
  BY DEF Apart, Calm

\* No slot changes hands but in the producer's two steps, in the writer's two
\* and when the queues are reset.
LEMMA CalmSteps ==
    ASSUME IInv, Feeding, EndLast, [Next]_vars
    PROVE  Calm \/ PipeBegin \/ WriterReceive \/ (\E ok \in BOOLEAN : WriterWrite(ok))
             \/ PipeWriteTake \/ (\E b \in BOOLEAN : PipeWritePut(b))
<1>0. PullOK /\ WriterOK /\ QueuesOK /\ CreateIsIdle /\ ActiveMeansWriter
  BY DEF IInv
<1>k. END \notin Slots /\ ABORT \notin Slots
  BY Constants
<1>u. CASE UNCHANGED vars
  BY <1>u, ApartIsCalm DEF vars, pipeVars, history, Apart
<1>1. CASE UploadStep
  BY <1>1, ApartIsCalm
     DEF UploadStep, UploadArms, UploadEmpty, UploadNoPart, UploadBegin, UploadReceive,
         UploadBreaks, UploadEnd, UploadFails, ByUpload, pipeVars, Apart
<1>2. CASE WriterGone
  BY <1>2, ApartIsCalm DEF WriterGone, history, Apart
<1>3. ASSUME NEW ok \in BOOLEAN, WriterBegin(ok)
      PROVE  Calm
  BY <1>3, <1>0, <1>k DEF WriterBegin, WriterAt, WriterOK, history, Calm
<1>4. CASE WriterDisarm
  BY <1>4, <1>0, <1>k DEF WriterDisarm, WriterAt, WriterOK, history, Calm
<1>5. CASE WriterTell
  BY <1>5, <1>0, <1>k DEF WriterTell, WriterAt, WriterOK, history, Calm
<1>6. ASSUME NEW ok \in BOOLEAN, WriterEnd(ok)
      PROVE  Calm
  BY <1>6, <1>0, <1>k DEF WriterEnd, WriterAt, WriterOK, history, Calm
<1>7. CASE WriterAbort
  BY <1>7, <1>0, <1>k DEF WriterAbort, WriterAt, WriterOK, history, Calm
<1>8. CASE WriterLeave
  BY <1>8, <1>0 DEF WriterLeave, WriterOK, history, Calm
<1>9. CASE FetchImage
  BY <1>9, <1>0 DEF FetchImage, PullOK, pipeVars, history, Calm
<1>10. ASSUME NEW b \in BOOLEAN, PipeCreate(b)
      PROVE  Calm
  <2>1. /\ pull.pc = "create" /\ UNCHANGED <<sFree, sFull, sSlot, sent, drained>>
        /\ writer.pc = "none"
    BY <1>10, <1>0 DEF PipeCreate, history, CreateIsIdle, ActiveMeansWriter
  <2>2. CASE b
    <3>1. writer'.pc = "begin" /\ pull'.pc = "opening" /\ sActive'
      BY <1>10, <2>2, <1>0 DEF PipeCreate, PullAt, PullOK
    <3>2. QED
      BY <2>1, <3>1 DEF Calm, Feeding
  <2>3. CASE ~b
    <3>1. writer' = writer /\ sActive' = sActive /\ pull'.pc \in {"attempt", "failed"}
      BY <1>10, <2>3, <1>0, FailsTo DEF PipeCreate
    <3>2. QED
      BY <2>1, <3>1 DEF Calm
  <2>4. QED
    BY <2>2, <2>3
<1>11. CASE PipeOpened
  BY <1>11, <1>0 DEF PipeOpened, PullAt, SendFull, PullOK, history, Calm, Feeding
<1>12. CASE PipeOpenTimeout
  BY <1>12, <1>0 DEF PipeOpenTimeout, AttemptFails, PullOK, history, Calm
<1>13. ASSUME NEW b \in BOOLEAN, PipeRefused(b)
      PROVE  Calm
  BY <1>13, <1>0 DEF PipeRefused, AttemptFails, PullOK, history, Calm
<1>14. CASE PipeWriteRefused
  BY <1>14, <1>0
     DEF PipeWriteRefused, PipeAbort, AttemptFails, SendFull, PullOK, history, Calm, Feeding
<1>15. CASE PipeWriteTimeout
  BY <1>15, <1>0 DEF PipeWriteTimeout, PipeAbort, SendFull, PullOK, Calm, Feeding
<1>16. ASSUME NEW b \in BOOLEAN, StreamFails(b)
      PROVE  Calm
  BY <1>16, <1>0
     DEF StreamFails, PipeAbort, AttemptFails, SendFull, PullOK, history, Calm, Feeding
<1>17. ASSUME NEW b \in BOOLEAN, PipeAborted(b)
      PROVE  Calm
  BY <1>17, <1>0 DEF PipeAborted, AttemptFails, PullOK, history, Calm
<1>18. CASE PipeEnd
  BY <1>18, <1>0 DEF PipeEnd, PullAt, AttemptFails, SendFull, PullOK, history, Calm, Feeding
<1>19. CASE PipeEnded
  BY <1>19, <1>0 DEF PipeEnded, AttemptFails, PullOK, history, Calm
<1>20. CASE PipeEndTimeout
  BY <1>20, <1>0 DEF PipeEndTimeout, AttemptFails, PullOK, history, Calm
<1>q. QED
  BY <1>u, <1>1, <1>2, <1>3, <1>4, <1>5, <1>6, <1>7, <1>8, <1>9, <1>10, <1>11, <1>12, <1>13, <1>14, <1>15, <1>16, <1>17, <1>18, <1>19, <1>20
     DEF Next, WriterStep, PullStep, PullTimeout, PullFails

\* Once the stream is over the writer is told, and until then it is fed.
LEMMA NextFeeding ==
    ASSUME IInv, Feeding, EndLast, [Next]_vars
    PROVE  Feeding'
<1>0. PullOK /\ WriterOK /\ QueuesOK /\ CreateIsIdle /\ ActiveMeansWriter /\ PutOK
  BY DEF IInv
<1>k. END \notin Slots /\ ABORT \notin Slots
  BY Constants
<1>a. CASE Apart
  BY <1>a DEF Apart, Feeding
<1>u. CASE UNCHANGED vars
  BY <1>u, <1>a DEF vars, pipeVars, history, Apart
<1>1. CASE UploadStep
  BY <1>1, <1>a
     DEF UploadStep, UploadArms, UploadEmpty, UploadNoPart, UploadBegin, UploadReceive,
         UploadBreaks, UploadEnd, UploadFails, ByUpload, pipeVars, Apart
<1>2. CASE WriterGone
  BY <1>2, <1>a DEF WriterGone, history, Apart
<1>3. ASSUME NEW ok \in BOOLEAN, WriterBegin(ok)
      PROVE  Feeding'
  BY <1>3, <1>0, <1>k DEF WriterBegin, WriterAt, WriterOK, Feeding
<1>4. CASE WriterDisarm
  BY <1>4, <1>0, <1>k DEF WriterDisarm, WriterAt, WriterOK, Feeding
<1>5. CASE WriterTell
  BY <1>5, <1>0, <1>k DEF WriterTell, WriterAt, WriterOK, Feeding
<1>6. ASSUME NEW ok \in BOOLEAN, WriterEnd(ok)
      PROVE  Feeding'
  BY <1>6, <1>0, <1>k DEF WriterEnd, WriterAt, WriterOK, Feeding
<1>7. CASE WriterAbort
  BY <1>7, <1>0, <1>k DEF WriterAbort, WriterAt, WriterOK, Feeding
<1>8. ASSUME NEW ok \in BOOLEAN, WriterWrite(ok)
      PROVE  Feeding'
  BY <1>8, <1>0, <1>k DEF WriterWrite, WriterOK, Feeding
<1>9. CASE WriterLeave
  BY <1>9, <1>0, <1>k DEF WriterLeave, WriterOK, Feeding
<1>10. CASE WriterReceive
  <2>1. /\ writer.pc = "loop" /\ sFull # << >> /\ pull' = pull
        /\ writer' = [pc |-> "got", msg |-> Head(sFull)] /\ sFull' = Tail(sFull)
    BY <1>10 DEF WriterReceive
  <2>2. sFull \in Seq(Slots) => Head(sFull) \in Slots /\ Tail(sFull) \in Seq(Slots)
    BY <2>1
  <2>3. QED
    BY <2>1, <2>2 DEF Feeding
<1>11. CASE FetchImage
  BY <1>11, <1>0 DEF FetchImage, pipeVars, PullOK, Feeding
<1>12. ASSUME NEW b \in BOOLEAN, PipeCreate(b)
      PROVE  Feeding'
  <2>1. /\ pull.pc = "create" /\ UNCHANGED <<sFree, sFull, sSlot, sent, drained>>
        /\ writer.pc = "none"
    BY <1>12, <1>0 DEF PipeCreate, history, CreateIsIdle, ActiveMeansWriter
  <2>2. CASE b
    <3>1. writer'.pc = "begin" /\ pull'.pc = "opening"
      BY <1>12, <2>2, <1>0 DEF PipeCreate, PullAt, PullOK
    <3>2. QED
      BY <2>1, <3>1 DEF Feeding
  <2>3. CASE ~b
    <3>1. writer' = writer /\ sActive' = sActive /\ pull'.pc \in {"attempt", "failed"}
      BY <1>12, <2>3, <1>0, FailsTo DEF PipeCreate
    <3>2. QED
      BY <2>1, <3>1 DEF Feeding
  <2>4. QED
    BY <2>2, <2>3
<1>13. CASE PipeOpened
  <2>1. pull.pc = "opening" /\ writer' = writer
    BY <1>13 DEF PipeOpened
  <2>2. CASE sWriterErr = "ESP_OK"
    <3>1. pull'.pc = "stream" /\ sFull' = sFull
      BY <1>13, <2>2, <1>0 DEF PipeOpened, PullAt, PullOK
    <3>2. << >> \in Seq(Slots)
      OBVIOUS
    <3>3. QED
      BY <2>1, <3>1, <3>2 DEF Feeding
  <2>3. CASE sWriterErr # "ESP_OK"
    <3>1. pull'.pc = "refused"
      BY <1>13, <2>3, <1>0 DEF PipeOpened, PullAt, PullOK
    <3>2. QED
      BY <3>1 DEF Feeding
  <2>4. QED
    BY <2>2, <2>3
<1>14. CASE PipeOpenTimeout
  BY <1>14, <1>0 DEF PipeOpenTimeout, AttemptFails, PullOK, Feeding
<1>15. ASSUME NEW b \in BOOLEAN, PipeRefused(b)
      PROVE  Feeding'
  BY <1>15, <1>0 DEF PipeRefused, AttemptFails, PullOK, Feeding
<1>16. CASE PipeWriteRefused
  BY <1>16, <1>0 DEF PipeWriteRefused, PipeAbort, AttemptFails, SendFull, PullOK, Feeding
<1>17. CASE PipeWriteTimeout
  BY <1>17, <1>0 DEF PipeWriteTimeout, PipeAbort, AttemptFails, SendFull, PullOK, Feeding
<1>18. ASSUME NEW b \in BOOLEAN, StreamFails(b)
      PROVE  Feeding'
  BY <1>18, <1>0 DEF StreamFails, PipeAbort, AttemptFails, SendFull, PullOK, Feeding
<1>19. ASSUME NEW b \in BOOLEAN, PipeAborted(b)
      PROVE  Feeding'
  BY <1>19, <1>0 DEF PipeAborted, AttemptFails, PullOK, Feeding
<1>20. CASE PipeEnd
  BY <1>20, <1>0 DEF PipeEnd, PullAt, AttemptFails, SendFull, PullOK, Feeding
<1>21. CASE PipeEnded
  BY <1>21, <1>0 DEF PipeEnded, AttemptFails, PullOK, Feeding
<1>22. CASE PipeEndTimeout
  BY <1>22, <1>0 DEF PipeEndTimeout, AttemptFails, PullOK, Feeding
<1>23. CASE PipeBegin
  BY <1>23, <1>0 DEF PipeBegin, PullAt, AttemptFails, ActiveMeansWriter, PullOK, Feeding
<1>24. CASE PipeWriteTake
  BY <1>24, <1>0 DEF PipeWriteTake, PullOK, Feeding
<1>25. ASSUME NEW b \in BOOLEAN, PipeWritePut(b)
      PROVE  Feeding'
  <2>1. /\ pull.pc = "put" /\ pull' = [pull EXCEPT !.pc = "stream", !.slot = END]
        /\ sFull' = Append(sFull, pull.slot) /\ writer' = writer
    BY <1>25 DEF PipeWritePut, SendFull
  <2>2. sFull' \in Seq(Slots) /\ pull'.pc = "stream"
    BY <2>1, <1>0 DEF Feeding, PutOK, PullOK
  <2>3. QED
    BY <2>1, <2>2 DEF Feeding
<1>q. QED
  BY <1>u, <1>1, <1>2, <1>3, <1>4, <1>5, <1>6, <1>7, <1>8, <1>9, <1>10, <1>11, <1>12, <1>13, <1>14, <1>15, <1>16, <1>17, <1>18, <1>19, <1>20, <1>21, <1>22, <1>23, <1>24, <1>25
     DEF Next, WriterStep, PullStep, PullTimeout, PullFails

\* A sequence is its head and the rest.
LEMMA ConcatHead ==
    ASSUME NEW T, NEW a \in Seq(T), NEW k \in Nat \ {0}, Len(a) = k
    PROVE  <<a[1]>> \o [i \in 1 .. k - 1 |-> a[i + 1]] = a
<1> DEFINE r == [i \in 1 .. k - 1 |-> a[i + 1]]
<1>1. r \in Seq(T) /\ Len(r) = k - 1 /\ \A i \in 1 .. k - 1 : r[i] = a[i + 1]
  OBVIOUS
<1> HIDE DEF r
<1>2. <<a[1]>> \in Seq(T) /\ Len(<<a[1]>>) = 1
  OBVIOUS
<1>3. Len(<<a[1]>> \o r) = k /\ <<a[1]>> \o r \in Seq(T)
  BY <1>1, <1>2
<1>4. \A i \in 1 .. k : (<<a[1]>> \o r)[i] = a[i]
  BY <1>1, <1>2
<1>5. <<a[1]>> \o r = a
  BY <1>3, <1>4
<1>6. QED
  BY <1>5 DEF r

\* Appending to a concatenation appends to its second part.
LEMMA AppendConcat ==
    \A a, b \in Seq(Chunks) : \A x \in Chunks : Append(a \o b, x) = a \o Append(b, x)
  OBVIOUS

LEMMA ConcatEmpty == \A a \in Seq(Chunks) : << >> \o a = a
  OBVIOUS

\* queues_reset: all slots are free again, and nothing is under way.
LEMMA ResetKeeps ==
    ASSUME IInv, SlotsInv, PipeBegin
    PROVE  EndLast' /\ SlotsHeld' /\ ChunksInOrder'
<1>0. PullOK /\ QueuesOK /\ ActiveMeansWriter
  BY DEF IInv
<1>1. CASE sActive
  <2>1. UNCHANGED <<sActive, sFree, sFull, sSlot, writer, sent, drained>>
    BY <1>1 DEF PipeBegin, pipeVars, history
  <2>2. pull.pc = "attempt" /\ pull'.pc \in {"attempt", "failed"}
    BY <1>1, <1>0, FailsTo DEF PipeBegin
  <2>3. Calm
    BY <2>1, <2>2 DEF Calm
  <2>4. QED
    BY <2>3, CalmKeeps
<1>2. CASE ~sActive
  <2>1. /\ sFree' = [i \in 1 .. PIPE_SLOTS |-> i]
        /\ sFull' = << >> /\ sent' = << >> /\ drained' = << >>
        /\ writer' = writer
        /\ pull'.pc = "create"
    BY <1>2, <1>0 DEF PipeBegin, PullAt, PullOK
  <2>2. writer.pc = "none"
    BY <1>2, <1>0 DEF ActiveMeansWriter
  <2>3. SlotsHeld'
    <3> SUFFICES ASSUME NEW s \in Slots PROVE Holders(s)' = 1
      BY DEF SlotsHeld
    <3>1. Times(s, sFree') = 1
      BY <2>1, TimesAll
    <3>2. Times(s, << >>) = 0
      <4>1. << >> \in Seq(Messages) /\ \A i \in 1 .. Len(<< >>) : << >>[i] # s
        OBVIOUS
      <4>2. QED
        BY <4>1, TimesNone
    <3>3. QED
      BY <2>1, <2>2, <3>1, <3>2 DEF Holders
  <2>4. SlotsQueued' = {}
    BY <2>1 DEF SlotsQueued
  <2>5. InHand' = << >>
    BY <2>1, <2>2 DEF InHand
  <2>6. InFlight' = << >>
    BY <2>4, <2>5 DEF InFlight
  <2>7. QED
    BY <2>1, <2>3, <2>4, <2>6 DEF EndLast, ChunksInOrder
<1>3. QED
  BY <1>1, <1>2, <1>0 DEF QueuesOK

\* The producer takes the oldest free slot into its hand.
LEMMA TakeKeeps ==
    ASSUME IInv, SlotsInv, PipeWriteTake
    PROVE  EndLast' /\ SlotsHeld' /\ ChunksInOrder'
<1>0. PullOK /\ QueuesOK
  BY DEF IInv
<1>1. /\ pull.pc = "stream" /\ sFree # << >> /\ sFree' = Tail(sFree) /\ sActive /\ sActive' = sActive
      /\ pull'.pc = "put" /\ pull'.slot = Head(sFree)
      /\ UNCHANGED <<sFull, sSlot, writer, sent, drained>>
  BY <1>0 DEF PipeWriteTake, history, PullOK
<1>2. SlotsHeld'
  <2> SUFFICES ASSUME NEW s \in Slots PROVE Holders(s)' = 1
    BY DEF SlotsHeld
  <2>1. Holders(s) = 1
    BY <1>1 DEF SlotsInv, SlotsHeld
  <2>2. sFree \in Seq(Slots) /\ Tail(sFree) \in Seq(Slots)
    BY <1>0, <1>1 DEF QueuesOK
  <2>3. Times(s, sFree) = Times(s, sFree') + (IF Head(sFree) = s THEN 1 ELSE 0)
    BY <1>1, <2>2, TimesTail
  <2>4. Times(s, sFree') \in Nat /\ Times(s, sFree) \in Nat /\ Times(s, sFull) \in Nat
    BY <1>0, <1>1, <2>2, TimesFinite, HoldersTypes
  <2>5. QED
    BY <1>1, <2>1, <2>3, <2>4 DEF Holders
<1>3. EndLast' /\ ChunksInOrder'
  BY <1>1 DEF SlotsInv, EndLast, ChunksInOrder, SlotsQueued, InFlight, InHand
<1>4. QED
  BY <1>2, <1>3

\* The chunk goes into the slot in hand, which is nowhere else, and behind the
\* chunks that wait.
LEMMA PutKeeps ==
    ASSUME IInv, SlotsInv, NEW b \in BOOLEAN, PipeWritePut(b)
    PROVE  EndLast' /\ SlotsHeld' /\ ChunksInOrder'
<1> DEFINE chunk == <<"pull", IF b THEN 0 ELSE Len(sent) + 1>>
           s0 == pull.slot
<1>0. PullOK /\ QueuesOK /\ HistoryOK /\ WriterOK /\ PutOK /\ ActiveMeansWriter
  BY DEF IInv
<1>1. /\ pull.pc = "put" /\ s0 \in Slots
      /\ sFull' = Append(sFull, s0) /\ sent' = Append(sent, chunk)
      /\ sSlot' = [sSlot EXCEPT ![s0] = chunk]
      /\ pull'.pc = "stream"
      /\ UNCHANGED <<sActive, sFree, writer, drained>>
  BY <1>0 DEF PipeWritePut, SendFull, PutOK, PullOK
<1>2. /\ sFull \in Seq(Slots) /\ sFull \in Seq(Messages) /\ Len(sFull) \in Nat
      /\ s0 \in Messages
      /\ sActive
  <2>1. writer.pc \in {"begin", "disarm", "tell", "loop", "got"} /\ sFull \in Seq(Slots)
    BY <1>1 DEF SlotsInv, Feeding
  <2>2. sActive
    BY <2>1, <1>0 DEF ActiveMeansWriter, QueuesOK
  <2>3. sFull \in Seq(Messages) /\ Len(sFull) \in Nat
    BY <1>0 DEF QueuesOK
  <2>4. QED
    BY <1>1, <2>1, <2>2, <2>3, Constants
<1>3. \A s \in Slots : Holders(s) = 1
  BY <1>2 DEF SlotsInv, SlotsHeld
<1>4. SlotsHeld'
  <2> SUFFICES ASSUME NEW s \in Slots PROVE Holders(s)' = 1
    BY DEF SlotsHeld
  <2>1. Times(s, sFull') = Times(s, sFull) + (IF s0 = s THEN 1 ELSE 0)
    BY <1>1, <1>2, TimesAppend
  <2>2. Times(s, sFree) \in Nat /\ Times(s, sFull) \in Nat
    BY <1>0, HoldersTypes
  <2>3. Holders(s) = 1
    BY <1>3
  <2>4. QED
    BY <1>1, <2>1, <2>2, <2>3 DEF Holders
<1>5. EndLast'
  BY <1>1, <1>2 DEF EndLast
<1>6. Times(s0, sFull) = 0 /\ ~(writer.pc = "got" /\ writer.msg = s0)
  <2>1. Times(s0, sFree) \in Nat /\ Times(s0, sFull) \in Nat
    BY <1>0, <1>1, HoldersTypes
  <2>2. Holders(s0) = 1
    BY <1>1, <1>3
  <2>3. QED
    BY <1>1, <2>1, <2>2 DEF Holders
<1>7. \A i \in 1 .. Len(sFull) : sFull[i] # s0
  BY <1>2, <1>6, TimesNone
<1>8. InHand' = InHand
  BY <1>0, <1>1, <1>6 DEF InHand, QueuesOK
<1>9. /\ SlotsQueued = 1 .. Len(sFull) /\ SlotsQueued' = 1 .. Len(sFull) + 1
      /\ DOMAIN sFull' = 1 .. Len(sFull) + 1
  BY <1>1, <1>2 DEF SlotsQueued
<1>10. Waiting' = Append(Waiting, chunk)
  <2>1. Waiting \in Seq(Chunks) /\ Len(Waiting) = Len(sFull)
    <3>1. \A i \in 1 .. Len(sFull) : sSlot[sFull[i]] \in Chunks
      BY <1>0, <1>2 DEF QueuesOK
    <3>2. QED
      BY <1>2, <1>9, <3>1 DEF Waiting
  <2>2. \A i \in 1 .. Len(sFull) : sSlot'[sFull'[i]] = Waiting[i]
    <3> TAKE i \in 1 .. Len(sFull)
    <3>1. sFull'[i] = sFull[i] /\ sFull[i] # s0 /\ sFull[i] \in Slots
      BY <1>1, <1>2, <1>7
    <3>2. sSlot'[sFull[i]] = sSlot[sFull[i]]
      BY <1>0, <1>1, <3>1 DEF QueuesOK
    <3>3. QED
      BY <1>9, <3>1, <3>2 DEF Waiting
  <2>3. sSlot'[sFull'[Len(sFull) + 1]] = chunk
    BY <1>0, <1>1, <1>2 DEF QueuesOK
  <2>4. Waiting' = [i \in 1 .. Len(sFull) + 1 |-> sSlot'[sFull'[i]]]
    BY <1>9 DEF Waiting
  <2>5. Append(Waiting, chunk) = [i \in 1 .. Len(sFull) + 1 |->
                                    IF i = Len(sFull) + 1 THEN chunk ELSE Waiting[i]]
    BY <1>2, <2>1
  <2> HIDE DEF chunk, s0
  <2>6. \A i \in 1 .. Len(sFull) + 1 : i = Len(sFull) + 1 \/ i \in 1 .. Len(sFull)
    BY <1>2
  <2>7. QED
    BY <2>2, <2>3, <2>4, <2>5, <2>6
<1>11. ChunksInOrder'
  <2>1. sent = drained \o (InHand \o Waiting)
    BY DEF SlotsInv, ChunksInOrder, InFlight, Waiting
  <2>2. InFlight' = InHand \o Append(Waiting, chunk)
    BY <1>8, <1>10 DEF InFlight, Waiting
  <2>3. drained \in Seq(Chunks) /\ InHand \in Seq(Chunks) /\ Waiting \in Seq(Chunks)
    BY <1>0, InHandType, QueueShape DEF HistoryOK, SlotsInv
  <2>4. chunk \in Chunks
    BY <1>0, <1>1, Constants DEF Chunks, PutOK, HistoryOK
  <2> HIDE DEF chunk, s0
  <2>5. Append(drained \o (InHand \o Waiting), chunk)
           = drained \o (InHand \o Append(Waiting, chunk))
    <3>1. InHand \o Waiting \in Seq(Chunks)
      BY <2>3
    <3>2. Append(drained \o (InHand \o Waiting), chunk) = drained \o Append(InHand \o Waiting, chunk)
      BY <3>1, <2>3, <2>4, AppendConcat
    <3>3. Append(InHand \o Waiting, chunk) = InHand \o Append(Waiting, chunk)
      BY <2>3, <2>4, AppendConcat
    <3>4. QED
      BY <3>2, <3>3
  <2>6. \A i \in SlotsQueued', j \in DOMAIN sFull' \ SlotsQueued' : i < j
    BY <1>9
  <2>7. QED
    BY <1>1, <2>1, <2>2, <2>5, <2>6 DEF ChunksInOrder
<1>12. QED
  BY <1>4, <1>5, <1>11

\* The writer takes the oldest message.
LEMMA ReceiveKeeps ==
    ASSUME IInv, SlotsInv, WriterReceive
    PROVE  EndLast' /\ SlotsHeld' /\ ChunksInOrder'
<1>0. QueuesOK /\ HistoryOK /\ WriterOK /\ ActiveMeansWriter /\ CreateIsIdle /\ EndLast
  BY DEF IInv, SlotsInv
<1>1. /\ writer.pc = "loop" /\ sFull # << >> /\ sFull' = Tail(sFull)
      /\ writer'.pc = "got" /\ writer'.msg = Head(sFull)
      /\ UNCHANGED <<sActive, sFree, sSlot, pull, sent, drained>>
  BY DEF WriterReceive, history
<1>2. /\ sFull \in Seq(Messages) /\ Len(sFull) \in Nat /\ Len(sFull) > 0
      /\ Head(sFull) = sFull[1]
      /\ sFull' \in Seq(Messages) /\ Len(sFull') = Len(sFull) - 1
      /\ \A i \in 1 .. Len(sFull) - 1 : sFull'[i] = sFull[i + 1]
  BY <1>0, <1>1 DEF QueuesOK
<1>3. EndLast'
  <2> SUFFICES ASSUME NEW i \in 1 .. Len(sFull'), i < Len(sFull')
               PROVE  sFull'[i] \in Slots
    BY DEF EndLast
  <2>1. /\ i \in 1 .. Len(sFull) - 1 /\ i + 1 \in 1 .. Len(sFull)
        /\ i + 1 < Len(sFull)
    BY <1>2
  <2>2. QED
    BY <1>0, <1>2, <2>1 DEF EndLast
<1>4. SlotsHeld'
  <2> SUFFICES ASSUME NEW s \in Slots PROVE Holders(s)' = 1
    BY DEF SlotsHeld
  <2>1. Holders(s) = 1
    BY <1>0, <1>1 DEF SlotsInv, SlotsHeld, ActiveMeansWriter
  <2>2. Times(s, sFull) = Times(s, sFull') + (IF Head(sFull) = s THEN 1 ELSE 0)
    BY <1>1, <1>2, TimesTail
  <2>3. Times(s, sFree) \in Nat /\ Times(s, sFull) \in Nat /\ Times(s, sFull') \in Nat
    BY <1>0, <1>2, TimesFinite, HoldersTypes
  <2>4. QED
    BY <1>1, <2>1, <2>2, <2>3 DEF Holders
<1>5. PICK k \in Nat : /\ SlotsQueued = 1 .. k
                       /\ \/ k = Len(sFull) /\ sFull \in Seq(Slots)
                          \/ k = Len(sFull) - 1 /\ sFull[Len(sFull)] \notin Slots
                       /\ Waiting \in Seq(Chunks) /\ Len(Waiting) = k
  BY <1>0, QueueShape
<1>6. SlotsQueued' = {i \in 1 .. Len(sFull) - 1 : i + 1 \in SlotsQueued}
  BY <1>1, <1>2 DEF SlotsQueued
<1>7. InHand = << >> /\ InFlight = InHand \o Waiting /\ InFlight' = InHand' \o Waiting'
  BY <1>1 DEF InHand, InFlight, Waiting
<1>8. InFlight' = InFlight
  <2>1. CASE Head(sFull) \notin Slots
    <3>1. Len(sFull) = 1
      BY <1>0, <1>2, <2>1 DEF EndLast
    <3>2. SlotsQueued = {} /\ SlotsQueued' = {}
      BY <1>2, <1>6, <2>1, <3>1 DEF SlotsQueued
    <3>3. Waiting = << >> /\ Waiting' = << >>
      BY <3>2 DEF Waiting
    <3>4. InHand' = << >>
      BY <1>1, <2>1 DEF InHand
    <3>5. QED
      BY <1>7, <3>3, <3>4
  <2>2. CASE Head(sFull) \in Slots
    <3>1. InHand' = <<sSlot[sFull[1]]>>
      BY <1>1, <1>2, <2>2 DEF InHand
    <3>2. k \in Nat \ {0} /\ k <= Len(sFull)
      BY <1>2, <1>5, <2>2 DEF SlotsQueued
    <3>3. SlotsQueued' = 1 .. k - 1
      BY <1>2, <1>5, <1>6, <3>2
    <3>4. \A i \in 1 .. k - 1 : sSlot'[sFull'[i]] = Waiting[i + 1]
      <4> TAKE i \in 1 .. k - 1
      <4>1. i \in 1 .. Len(sFull) - 1 /\ i + 1 \in SlotsQueued
        BY <1>2, <1>5, <3>2
      <4>2. Waiting[i + 1] = sSlot[sFull[i + 1]] /\ sFull'[i] = sFull[i + 1]
        BY <1>2, <4>1 DEF Waiting
      <4>3. QED
        BY <1>1, <4>2
    <3>5. Waiting' = [i \in 1 .. k - 1 |-> Waiting[i + 1]]
      BY <3>3, <3>4 DEF Waiting
    <3>6. Waiting[1] = sSlot[sFull[1]] /\ sSlot[sFull[1]] \in Chunks
      BY <1>0, <1>2, <1>5, <2>2, <3>2 DEF Waiting, QueuesOK
    <3>7. <<Waiting[1]>> \o [i \in 1 .. k - 1 |-> Waiting[i + 1]] = Waiting
      BY <1>5, <3>2, ConcatHead
    <3>8. InFlight' = Waiting
      BY <1>7, <3>1, <3>5, <3>6, <3>7
    <3>9. InFlight = Waiting
      BY <1>5, <1>7, ConcatEmpty
    <3>10. QED
      BY <3>8, <3>9
  <2>3. QED
    BY <2>1, <2>2
<1>9. \A i \in SlotsQueued', j \in DOMAIN sFull' \ SlotsQueued' : i < j
  BY <1>2, <1>5, <1>6
<1>10. QED
  BY <1>1, <1>3, <1>4, <1>8, <1>9 DEF SlotsInv, ChunksInOrder

\* The chunk in the writer's hand is the oldest, and its slot is free again.
LEMMA DrainKeeps ==
    ASSUME IInv, SlotsInv, NEW ok \in BOOLEAN, WriterWrite(ok)
    PROVE  EndLast' /\ SlotsHeld' /\ ChunksInOrder'
<1>0. QueuesOK /\ HistoryOK /\ WriterOK /\ ActiveMeansWriter
  BY DEF IInv
<1>1. /\ writer.pc = "got" /\ writer.msg \in Slots
      /\ writer'.pc = "loop"
      /\ drained' = Append(drained, sSlot[writer.msg]) /\ sFree' = Append(sFree, writer.msg)
      /\ UNCHANGED <<sActive, sFull, sSlot, pull, sent>>
  BY DEF WriterWrite
<1>2. SlotsHeld'
  <2> SUFFICES ASSUME NEW s \in Slots PROVE Holders(s)' = 1
    BY DEF SlotsHeld
  <2>1. Holders(s) = 1
    BY <1>0, <1>1 DEF SlotsInv, SlotsHeld, ActiveMeansWriter
  <2>2. Times(s, sFree') = Times(s, sFree) + (IF writer.msg = s THEN 1 ELSE 0)
    BY <1>0, <1>1, TimesAppend DEF QueuesOK
  <2>3. Times(s, sFree) \in Nat /\ Times(s, sFull) \in Nat
    BY <1>0, HoldersTypes
  <2>4. QED
    BY <1>1, <2>1, <2>2, <2>3 DEF Holders
<1>3. EndLast' /\ SlotsQueued' = SlotsQueued /\ Waiting' = Waiting
  BY <1>1 DEF SlotsInv, EndLast, SlotsQueued, Waiting
<1>4. InHand = <<sSlot[writer.msg]>> /\ InHand' = << >>
  BY <1>1 DEF InHand
<1>5. sent = drained \o (InHand \o Waiting) /\ InFlight' = InHand' \o Waiting'
  BY DEF SlotsInv, ChunksInOrder, InFlight, Waiting
<1>6. drained \in Seq(Chunks) /\ Waiting \in Seq(Chunks) /\ sSlot[writer.msg] \in Chunks
  BY <1>0, <1>1, QueueShape DEF HistoryOK, SlotsInv, QueuesOK
<1>7. \A x \in Chunks : drained \o (<<x>> \o Waiting) = Append(drained, x) \o (<< >> \o Waiting)
  BY <1>6
<1>8. sent' = drained' \o InFlight'
  BY <1>1, <1>3, <1>4, <1>5, <1>6, <1>7
<1>9. QED
  BY <1>1, <1>2, <1>3, <1>8 DEF SlotsInv, ChunksInOrder

\* Every step keeps the slots in their places and the chunks in their order.
LEMMA NextSlots == IInv /\ SlotsInv /\ [Next]_vars => SlotsInv'
<1> SUFFICES ASSUME IInv, SlotsInv, [Next]_vars PROVE SlotsInv'
  OBVIOUS
<1>1. Feeding'
  BY NextFeeding DEF SlotsInv
<1>2. EndLast' /\ SlotsHeld' /\ ChunksInOrder'
  BY CalmSteps, CalmKeeps, ResetKeeps, ReceiveKeeps, DrainKeeps, TakeKeeps, PutKeeps DEF SlotsInv
<1>3. QED
  BY <1>1, <1>2 DEF SlotsInv

LEMMA SlotsInvariance == Spec => [](IInv /\ SlotsInv)
<1>1. Init => SlotsInv
  <2> SUFFICES ASSUME Init PROVE SlotsInv
    OBVIOUS
  <2>1. Feeding /\ EndLast /\ SlotsHeld
    BY DEF Init, Feeding, EndLast, SlotsHeld
  <2>2. SlotsQueued = {} /\ InHand = << >>
    BY DEF Init, SlotsQueued, InHand
  <2>3. ChunksInOrder
    BY <2>2 DEF Init, ChunksInOrder, InFlight
  <2>4. QED
    BY <2>1, <2>3 DEF SlotsInv
<1>2. QED
  BY <1>1, NextSlots, Invariance, PTL DEF Spec

\* ota_pipe.c's slots: for any number of them, and through failed writes,
\* aborts, waits that run out and resets, none is lost and none is filled
\* while the writer still reads it.
THEOREM SlotsNeverShared == Spec => []SlotInOnePlace
<1>1. SlotsInv => SlotInOnePlace
  BY DEF SlotsInv, SlotsHeld, SlotInOnePlace
<1>2. QED
  BY SlotsInvariance, <1>1, PTL

\* The writer gets the chunks of an attempt in the order ota_pipe_write was
\* given them, none lost, doubled or overwritten, and END or ABORT last.
THEOREM OrderKept == Spec => []ChunksInOrder
<1>1. SlotsInv => ChunksInOrder
  BY DEF SlotsInv
<1>2. QED
  BY SlotsInvariance, <1>1, PTL

----------------------------------------------------------------------------
(* The pipe implements ChunkPipe.  Because sent is always drained and what  *)
(* is under way, a step's effect on the channel follows from what it does   *)
(* to the two histories; what is left to show is when a pipe opens, closes  *)
(* and is full.                                                             *)

\* Behind END or ABORT, and without a writer, the queue is empty.
Settled ==
    writer.pc \in {"leave", "none"} \/ (writer.pc = "got" /\ writer.msg \notin Slots)
      => sFull = << >>

\* A writer is created for an attempt that has sent nothing.
Fresh == pull.pc = "create" => sent = << >>

LEMMA NextSettled ==
    ASSUME IInv, SlotsInv, Settled, [Next]_vars
    PROVE  Settled'
<1>0. PullOK /\ WriterOK /\ QueuesOK /\ ActiveMeansWriter /\ Feeding /\ EndLast
  BY DEF IInv, SlotsInv
<1>1. CASE Calm
  BY <1>0, <1>1 DEF Calm, Settled, Feeding
<1>2. CASE PipeBegin
  BY <1>0, <1>2 DEF PipeBegin, pipeVars, Settled
<1>3. CASE WriterReceive
  <2>1. /\ writer'.pc = "got" /\ writer'.msg = Head(sFull)
        /\ sFull # << >> /\ sFull' = Tail(sFull)
        /\ sFull \in Seq(Messages) /\ Len(sFull) \in Nat /\ Len(sFull) > 0
        /\ Head(sFull) = sFull[1]
    BY <1>0, <1>3 DEF WriterReceive, QueuesOK
  <2>2. ASSUME Head(sFull) \notin Slots PROVE Tail(sFull) = << >>
    <3>1. sFull[1] \notin Slots
      BY <2>1, <2>2
    <3>2. ~(1 < Len(sFull))
      BY <1>0, <2>1, <3>1 DEF EndLast
    <3>3. Tail(sFull) \in Seq(Messages) /\ Len(Tail(sFull)) = Len(sFull) - 1
      BY <2>1
    <3>4. Len(Tail(sFull)) = 0
      BY <2>1, <3>2, <3>3
    <3>5. \A t \in Seq(Messages) : Len(t) = 0 => t = << >>
      OBVIOUS
    <3>6. QED
      BY <3>3, <3>4, <3>5
  <2>3. QED
    BY <2>1, <2>2 DEF Settled
<1>4. ASSUME NEW ok \in BOOLEAN, WriterWrite(ok) PROVE Settled'
  BY <1>4 DEF WriterWrite, Settled
<1>5. CASE PipeWriteTake
  BY <1>5 DEF PipeWriteTake, Settled
<1>6. ASSUME NEW b \in BOOLEAN, PipeWritePut(b) PROVE Settled'
  BY <1>0, <1>6 DEF PipeWritePut, Settled, Feeding
<1>7. QED
  BY <1>0, <1>1, <1>2, <1>3, <1>4, <1>5, <1>6, CalmSteps

LEMMA NextFresh ==
    ASSUME IInv, SlotsInv, Fresh, [Next]_vars
    PROVE  Fresh'
<1>0. PullOK /\ Feeding /\ EndLast
  BY DEF IInv, SlotsInv
<1>1. CASE Calm
  BY <1>1 DEF Calm, Fresh
<1>2. CASE PipeBegin
  <2>1. CASE sActive
    BY <1>0, <1>2, <2>1, FailsTo DEF PipeBegin, Fresh
  <2>2. CASE ~sActive
    BY <1>2, <2>2 DEF PipeBegin, Fresh
  <2>3. QED
    BY <2>1, <2>2
<1>3. CASE WriterReceive
  BY <1>3 DEF WriterReceive, history, Fresh
<1>4. ASSUME NEW ok \in BOOLEAN, WriterWrite(ok) PROVE Fresh'
  BY <1>4 DEF WriterWrite, Fresh
<1>5. CASE PipeWriteTake
  BY <1>0, <1>5 DEF PipeWriteTake, PullOK, Fresh
<1>6. ASSUME NEW b \in BOOLEAN, PipeWritePut(b) PROVE Fresh'
  BY <1>0, <1>6 DEF PipeWritePut, PullOK, Fresh
<1>7. QED
  BY <1>0, <1>1, <1>2, <1>3, <1>4, <1>5, <1>6, CalmSteps

\* What follows a sequence determines what was put behind it.
LEMMA ConcatCancel ==
    ASSUME NEW T, NEW a \in Seq(T), NEW b \in Seq(T), NEW c \in Seq(T), a \o b = a \o c
    PROVE  b = c
<1>1. /\ Len(a) \in Nat /\ Len(b) \in Nat /\ Len(c) \in Nat
      /\ Len(a \o b) = Len(a) + Len(b) /\ Len(a \o c) = Len(a) + Len(c)
  OBVIOUS
<1>2. Len(b) = Len(c)
  BY <1>1
<1>3. \A i \in 1 .. Len(b) : (a \o b)[Len(a) + i] = b[i] /\ (a \o c)[Len(a) + i] = c[i]
  BY <1>1, <1>2
<1>4. \A i \in 1 .. Len(b) : b[i] = c[i]
  BY <1>3
<1>5. b = [i \in 1 .. Len(b) |-> b[i]] /\ c = [i \in 1 .. Len(c) |-> c[i]]
  OBVIOUS
<1>6. QED
  BY <1>2, <1>4, <1>5

FlightOK ==
    /\ InFlight \in Seq(Chunks) /\ sent \in Seq(Chunks) /\ drained \in Seq(Chunks)
    /\ sent = drained \o InFlight
    /\ sActive \in BOOLEAN

LEMMA FlightType == IInv /\ SlotsInv => FlightOK
<1> SUFFICES ASSUME IInv, SlotsInv PROVE FlightOK
  OBVIOUS
<1>1. InHand \in Seq(Chunks) /\ Waiting \in Seq(Chunks)
  BY InHandType, QueueShape DEF IInv, SlotsInv
<1>2. InFlight = InHand \o Waiting
  BY DEF InFlight, Waiting
<1>3. sent = drained \o InFlight
  BY DEF SlotsInv, ChunksInOrder
<1>4. QED
  BY <1>1, <1>2, <1>3 DEF IInv, HistoryOK, QueuesOK, FlightOK

\* While the download task holds a slot, the chunks under way lie in others.
LEMMA RoomForChunk ==
    ASSUME IInv, SlotsInv, pull.pc = "put"
    PROVE  Len(InFlight) < PIPE_SLOTS
<1> DEFINE n == Len(sFull)
           hand == IF writer.pc = "got" THEN 1 ELSE 0
           f == [i \in 1 - hand .. n + 1 |->
                   IF i = 0 THEN writer.msg ELSE IF i = n + 1 THEN pull.slot ELSE sFull[i]]
<1>0. QueuesOK /\ WriterOK /\ PutOK /\ ActiveMeansWriter
  BY DEF IInv
<1>1. /\ sFull \in Seq(Slots) /\ n \in Nat /\ pull.slot \in Slots /\ hand \in {0, 1}
      /\ writer.pc = "got" => writer.msg \in Slots
      /\ \A s \in Slots : Holders(s) = 1
  <2>1. /\ writer.pc # "none" /\ sFull \in Seq(Slots)
        /\ writer.pc = "got" => writer.msg \in Slots
    BY DEF SlotsInv, Feeding
  <2>2. sActive
    BY <1>0, <2>1 DEF ActiveMeansWriter, QueuesOK
  <2>3. \A s \in Slots : Holders(s) = 1
    BY <2>2 DEF SlotsInv, SlotsHeld
  <2>4. pull.slot \in Slots /\ Len(sFull) \in Nat
    BY <1>0, <2>1 DEF PutOK
  <2>5. QED
    BY <2>1, <2>3, <2>4
<1>2. \A s \in Slots :
        /\ pull.slot = s => (\A i \in 1 .. n : sFull[i] # s) /\ ~(writer.pc = "got" /\ writer.msg = s)
        /\ writer.pc = "got" /\ writer.msg = s => \A i \in 1 .. n : sFull[i] # s
        /\ \A i, j \in 1 .. n : sFull[i] = s /\ sFull[j] = s => i = j
  <2> SUFFICES ASSUME NEW s \in Slots
      PROVE /\ pull.slot = s => (\A i \in 1 .. n : sFull[i] # s) /\ ~(writer.pc = "got" /\ writer.msg = s)
            /\ writer.pc = "got" /\ writer.msg = s => \A i \in 1 .. n : sFull[i] # s
            /\ \A i, j \in 1 .. n : sFull[i] = s /\ sFull[j] = s => i = j
    OBVIOUS
  <2>1. Holders(s) = 1 /\ Times(s, sFree) \in Nat /\ Times(s, sFull) \in Nat
    BY <1>0, <1>1, HoldersTypes
  <2>2. Times(s, sFull) = 0 <=> \A i \in 1 .. n : sFull[i] # s
    BY <1>1, TimesNone
  <2>3. Times(s, sFull) <= 1
    BY <2>1 DEF Holders
  <2>4. \A i, j \in 1 .. n : sFull[i] = s /\ sFull[j] = s => i = j
    BY <1>1, <2>3, TimesOnce
  <2>5. pull.slot = s \/ (writer.pc = "got" /\ writer.msg = s) => Times(s, sFull) = 0
    BY <2>1 DEF Holders
  <2>6. pull.slot = s => ~(writer.pc = "got" /\ writer.msg = s)
    BY <2>1 DEF Holders
  <2>7. QED
    BY <2>2, <2>4, <2>5, <2>6
<1>3. f \in Injection(1 - hand .. n + 1, Slots)
  <2>1. f \in [1 - hand .. n + 1 -> Slots]
    BY <1>1
  <2>2. ASSUME NEW i \in 1 - hand .. n + 1, NEW j \in 1 - hand .. n + 1, f[i] = f[j]
        PROVE  i = j
    BY <1>1, <1>2, <2>1, <2>2
  <2>3. QED
    BY <2>1, <2>2 DEF Injection, IsInjective
<1>4. IsFiniteSet(Slots) /\ Cardinality(Slots) = PIPE_SLOTS
  BY Constants, FS_Interval DEF Slots
<1> HIDE DEF f, n, hand
<1>5. Cardinality(1 - hand .. n + 1) = n + 1 + hand
  <2>1. 1 - hand \in Int /\ n + 1 \in Int /\ 1 - hand <= n + 1
    BY <1>1
  <2>2. Cardinality(1 - hand .. n + 1) = (n + 1) - (1 - hand) + 1
    BY <2>1, FS_Interval
  <2>3. QED
    BY <1>1, <2>2
<1>6. n + 1 + hand <= PIPE_SLOTS
  BY <1>3, <1>4, <1>5, FS_Injection
<1>7. Len(InFlight) = n + hand
  <2>1. SlotsQueued = 1 .. n
    BY <1>1 DEF SlotsQueued, n
  <2>2. Waiting \in Seq(Chunks) /\ Len(Waiting) = n
    <3>1. \A i \in 1 .. n : sSlot[sFull[i]] \in Chunks
      BY <1>0, <1>1 DEF QueuesOK, n
    <3>2. QED
      BY <1>1, <2>1, <3>1 DEF Waiting
  <2>3. InHand \in Seq(Chunks) /\ Len(InHand) = hand
    BY <1>0, <1>1, InHandType DEF InHand, hand
  <2>4. InFlight = InHand \o Waiting
    BY DEF InFlight, Waiting
  <2>5. QED
    BY <1>1, <2>2, <2>3, <2>4
<1>8. QED
  BY <1>1, <1>6, <1>7, Constants

LEMMA ConcatAppend ==
    \A a, b \in Seq(Chunks) : \A x \in Chunks : Append(a, x) \o b = a \o (<<x>> \o b)
  OBVIOUS

LEMMA ConsParts ==
    \A b \in Seq(Chunks) : \A x \in Chunks :
        <<x>> \o b # << >> /\ Head(<<x>> \o b) = x /\ Tail(<<x>> \o b) = b
  OBVIOUS

\* Every step of the pipe is a step of the channel, or none.
LEMMA ChannelStep ==
    ASSUME IInv, SlotsInv, Settled, Fresh, [Next]_vars
    PROVE  [Pipe!Next]_(Pipe!vars)
<1>0. QueuesOK /\ WriterOK /\ PutOK /\ ActiveMeansWriter /\ CreateIsIdle /\ Feeding /\ EndLast
  BY DEF IInv, SlotsInv
<1>1. FlightOK
  BY FlightType
<1>2. FlightOK'
  <2>1. IInv' /\ SlotsInv'
    BY NextIInv, NextSlots
  <2>2. (IInv /\ SlotsInv => FlightOK)'
    BY FlightType, PTL
  <2>3. QED
    BY <2>1, <2>2
<1>3. sent' = sent /\ drained' = drained => InFlight' = InFlight
  BY <1>1, <1>2, ConcatCancel DEF FlightOK
<1>4. CASE Calm
  <2>1. sent' = sent /\ drained' = drained /\ InFlight' = InFlight
    BY <1>3, <1>4 DEF Calm
  <2>2. CASE sActive' = sActive
    BY <2>1, <2>2 DEF Pipe!vars
  <2>3. CASE writer.pc = "leave" /\ ~sActive'
    <3>1. sActive
      BY <1>0, <2>3 DEF ActiveMeansWriter, QueuesOK
    <3>2. InFlight = << >>
      BY <2>3 DEF Settled, InFlight, InHand, SlotsQueued
    <3>3. Pipe!Close
      BY <1>2, <2>1, <2>3, <3>1, <3>2 DEF Pipe!Close, FlightOK
    <3>4. QED
      BY <3>3 DEF Pipe!Next
  <2>4. CASE pull.pc = "create" /\ sActive'
    <3>1. ~sActive /\ sent = << >>
      BY <1>0, <2>4 DEF CreateIsIdle, Fresh
    <3>2. Pipe!Open
      BY <1>2, <2>1, <2>4, <3>1 DEF Pipe!Open, FlightOK
    <3>3. QED
      BY <3>2 DEF Pipe!Next
  <2>5. QED
    BY <1>4, <2>2, <2>3, <2>4 DEF Calm
<1>5. CASE PipeBegin
  <2>1. CASE sActive
    <3>1. sent' = sent /\ drained' = drained /\ sActive' = sActive
      BY <1>5, <2>1 DEF PipeBegin, pipeVars, history
    <3>2. QED
      BY <1>3, <3>1 DEF Pipe!vars
  <2>2. CASE ~sActive
    <3>1. sent' = << >> /\ drained' = << >> /\ sActive' = sActive
      BY <1>5, <2>2 DEF PipeBegin
    <3>2. InFlight' = << >>
      BY <1>2, <3>1, ConcatEmpty DEF FlightOK
    <3>3. Pipe!Renew
      BY <2>2, <3>1, <3>2 DEF Pipe!Renew
    <3>4. QED
      BY <3>3 DEF Pipe!Next
  <2>3. QED
    BY <1>0, <2>1, <2>2 DEF QueuesOK
<1>6. CASE WriterReceive \/ PipeWriteTake
  <2>1. sent' = sent /\ drained' = drained /\ sActive' = sActive
    BY <1>6 DEF WriterReceive, PipeWriteTake, history
  <2>2. QED
    BY <1>3, <2>1 DEF Pipe!vars
<1>7. ASSUME NEW ok \in BOOLEAN, WriterWrite(ok)
      PROVE  [Pipe!Next]_(Pipe!vars)
  <2> DEFINE x == sSlot[writer.msg]
  <2>1. /\ x \in Chunks /\ sActive
        /\ sent' = sent /\ drained' = Append(drained, x) /\ sActive' = sActive
    BY <1>0, <1>7 DEF WriterWrite, QueuesOK, ActiveMeansWriter
  <2> HIDE DEF x
  <2>2. drained \o InFlight = Append(drained, x) \o InFlight'
    BY <1>1, <1>2, <2>1 DEF FlightOK
  <2>3. drained \o InFlight = drained \o (<<x>> \o InFlight')
    BY <1>1, <1>2, <2>1, <2>2, ConcatAppend DEF FlightOK
  <2>4. <<x>> \o InFlight' \in Seq(Chunks)
    BY <1>2, <2>1 DEF FlightOK
  <2>5. InFlight = <<x>> \o InFlight'
    BY <1>1, <2>3, <2>4, ConcatCancel DEF FlightOK
  <2>6. InFlight # << >> /\ Head(InFlight) = x /\ Tail(InFlight) = InFlight'
    BY <1>2, <2>1, <2>5, ConsParts DEF FlightOK
  <2>7. Pipe!Deliver
    BY <2>1, <2>6 DEF Pipe!Deliver
  <2>8. QED
    BY <2>7 DEF Pipe!Next
<1>8. ASSUME NEW b \in BOOLEAN, PipeWritePut(b)
      PROVE  [Pipe!Next]_(Pipe!vars)
  <2> DEFINE x == <<"pull", IF b THEN 0 ELSE Len(sent) + 1>>
  <2>1. /\ pull.pc = "put"
        /\ sent' = Append(sent, x) /\ drained' = drained /\ sActive' = sActive
    BY <1>8 DEF PipeWritePut
  <2>2. x \in Chunks
    BY <1>0, <1>1, <2>1, Constants DEF Chunks, PutOK, FlightOK
  <2> HIDE DEF x
  <2>3. sActive
    BY <1>0, <2>1 DEF Feeding, ActiveMeansWriter, QueuesOK
  <2>4. Append(drained \o InFlight, x) = drained \o InFlight'
    BY <1>1, <1>2, <2>1 DEF FlightOK
  <2>5. drained \o Append(InFlight, x) = drained \o InFlight'
    BY <1>1, <2>2, <2>4, AppendConcat DEF FlightOK
  <2>6. Append(InFlight, x) \in Seq(Chunks)
    BY <1>1, <2>2 DEF FlightOK
  <2>7. InFlight' = Append(InFlight, x)
    BY <1>1, <1>2, <2>5, <2>6, ConcatCancel DEF FlightOK
  <2>8. Len(InFlight) < PIPE_SLOTS
    BY <2>1, RoomForChunk
  <2>9. Pipe!Write(x)
    BY <2>1, <2>3, <2>7, <2>8 DEF Pipe!Write
  <2>10. QED
    BY <2>2, <2>9 DEF Pipe!Next
<1>9. QED
  BY <1>0, <1>4, <1>5, <1>6, <1>7, <1>8, CalmSteps

\* ota_pipe.c is a bounded channel: for any number of slots, any image and
\* through every failure, what ota_pipe_write took is delivered in its turn
\* before the pipe closes, and only a closed pipe is opened or reset.
THEOREM PipeIsChannel == Spec => ImplementsChunkPipe
<1>1. Init => Settled /\ Fresh /\ Pipe!Init
  <2> SUFFICES ASSUME Init PROVE Settled /\ Fresh /\ Pipe!Init
    OBVIOUS
  <2>1. Settled /\ Fresh
    BY DEF Init, Settled, Fresh
  <2>2. InFlight = << >>
    BY DEF Init, InFlight, InHand, SlotsQueued
  <2>3. QED
    BY <2>1, <2>2 DEF Init, Pipe!Init
<1>2. IInv /\ SlotsInv /\ Settled /\ Fresh /\ [Next]_vars => Settled' /\ Fresh'
  BY NextSettled, NextFresh
<1>3. IInv /\ SlotsInv /\ Settled /\ Fresh /\ [Next]_vars => [Pipe!Next]_(Pipe!vars)
  BY ChannelStep
<1>4. QED
  BY <1>1, <1>2, <1>3, SlotsInvariance, PTL DEF Spec, ImplementsChunkPipe, Pipe!Spec

----------------------------------------------------------------------------
(* Nobody waits in vain.  Who waits for what is inductive over the places  *)
(* of the two tasks; that a producer without a free slot has a writer at   *)
(* work follows from where the slots are.                                  *)

BeginServed == pull.pc = "opening" => sDone = 1 \/ writer.pc \in {"begin", "disarm", "tell"}
LeaveServed ==
    pull.pc \in {"refused", "aborting", "ending"} => sDone = 1 \/ leaving > 0 \/ Dismissed
Told == sActive /\ pull.pc \notin {"opening", "stream", "put"} => Dismissed \/ lateBegin

WaitInv == BeginServed /\ LeaveServed /\ Told

\* What an upload does concerns neither task of the pipe.
LEMMA WaitKept ==
    ASSUME WaitInv, UNCHANGED <<sActive, sFull, sDone, writer, leaving, pull, lateBegin>>
    PROVE  WaitInv'
  BY DEF WaitInv, BeginServed, LeaveServed, Told, Dismissed

\* END or ABORT, once sent to an open pipe, is in the queue.
LEMMA SentDismisses ==
    ASSUME sFull \in Seq(Messages), sActive, NEW msg \in {END, ABORT}, SendFull(msg),
           sActive' = sActive
    PROVE  Dismissed'
<1>1. msg \in Messages /\ msg \notin Slots
  BY Constants
<1>2. sFull' = Append(sFull, msg) /\ Len(sFull) \in Nat
  BY DEF SendFull
<1>3. Len(sFull) + 1 \in DOMAIN sFull' /\ sFull'[Len(sFull) + 1] = msg
  BY <1>1, <1>2
<1>4. QED
  BY <1>1, <1>3 DEF Dismissed

\* The writer that takes a message has it in hand, END and ABORT included.
LEMMA ReceiveDismisses ==
    ASSUME QueuesOK, Dismissed, WriterReceive
    PROVE  Dismissed'
<1>1. /\ writer.pc = "loop" /\ sFull # << >> /\ sActive' = sActive
      /\ writer' = [pc |-> "got", msg |-> Head(sFull)] /\ sFull' = Tail(sFull)
  BY DEF WriterReceive
<1>2. PICK i \in DOMAIN sFull : sActive /\ sFull[i] \notin Slots
  BY <1>1 DEF Dismissed
<1>3. /\ sFull \in Seq(Messages) /\ Len(sFull) \in Nat
      /\ DOMAIN sFull = 1 .. Len(sFull) /\ Head(sFull) = sFull[1]
      /\ DOMAIN Tail(sFull) = 1 .. Len(sFull) - 1
      /\ \A n \in 1 .. Len(sFull) - 1 : Tail(sFull)[n] = sFull[n + 1]
  BY <1>1 DEF QueuesOK
<1>4. CASE i = 1
  BY <1>1, <1>2, <1>3, <1>4 DEF Dismissed
<1>5. CASE i # 1
  <2>1. i - 1 \in DOMAIN Tail(sFull) /\ Tail(sFull)[i - 1] = sFull[i]
    BY <1>3, <1>5
  <2>2. QED
    BY <1>1, <1>2, <2>1 DEF Dismissed
<1>6. QED
  BY <1>4, <1>5

\* A producer that leaves its attempt or was never in one: only Told is asked.
LEMMA FailsWait ==
    ASSUME pull'.pc \in {"attempt", "failed", "ok", "create"}, sActive' => Dismissed' \/ lateBegin'
    PROVE  WaitInv'
  BY DEF WaitInv, BeginServed, LeaveServed, Told

\* ota_pipe_abort.
LEMMA AbortWaits ==
    ASSUME IInv, NEW retry \in BOOLEAN, PipeAbort(retry), sActive' = sActive
    PROVE  WaitInv'
<1>0. PullOK /\ QueuesOK
  BY DEF IInv
<1>1. CASE ~sActive
  BY <1>0, <1>1, FailsTo, FailsWait DEF PipeAbort
<1>2. CASE sActive
  <2>1. pull'.pc = "aborting"
    BY <1>0, <1>2 DEF PipeAbort, PullOK
  <2>2. Dismissed'
    BY <1>0, <1>2, SentDismisses DEF PipeAbort, QueuesOK
  <2>3. QED
    BY <2>1, <2>2 DEF WaitInv, BeginServed, LeaveServed, Told
<1>3. QED
  BY <1>1, <1>2

\* A step of a writer that has not been dismissed yet.
LEMMA WriterWaits ==
    ASSUME WaitInv, UNCHANGED <<sActive, sFull, leaving, pull, lateBegin>>,
           sDone' \in {sDone, 1}, writer'.pc # "none", writer.pc \in {"begin", "disarm", "tell"},
           writer'.pc \in {"disarm", "tell"} \/ sDone' = 1
    PROVE  WaitInv'
<1>1. Dismissed => Dismissed'
  BY DEF Dismissed
<1>2. QED
  BY <1>1 DEF WaitInv, BeginServed, LeaveServed, Told

LEMMA NextWait ==
    ASSUME IInv, SlotsInv, WaitInv, [Next]_vars
    PROVE  WaitInv'
<1>0. PullOK /\ WriterOK /\ QueuesOK /\ HistoryOK /\ ActiveMeansWriter /\ Feeding
  BY DEF IInv, SlotsInv
<1>u. CASE UNCHANGED vars
  BY <1>u, WaitKept DEF vars, pipeVars, history
<1>1. ASSUME NEW b \in BOOLEAN, WriterBegin(b)
      PROVE  WaitInv'
  BY <1>0, <1>1, WriterWaits DEF WriterBegin, WriterAt, WriterOK, history
<1>2. CASE WriterDisarm
  BY <1>0, <1>2, WriterWaits DEF WriterDisarm, WriterAt, WriterOK, history
<1>3. CASE WriterTell
  BY <1>0, <1>3, WriterWaits DEF WriterTell, Give, WriterAt, WriterOK, history
<1>4. CASE WriterReceive
  <2>1. Dismissed => Dismissed'
    BY <1>0, <1>4, ReceiveDismisses
  <2>2. writer.pc = "loop" /\ UNCHANGED <<sActive, sDone, leaving, pull, lateBegin>>
    BY <1>4 DEF WriterReceive, history
  <2>3. QED
    BY <2>1, <2>2 DEF WaitInv, BeginServed, LeaveServed, Told
<1>5. ASSUME NEW b \in BOOLEAN, WriterEnd(b)
      PROVE  WaitInv'
  BY <1>0, <1>5, Constants DEF WriterEnd, WriterAt, WriterOK, WaitInv, BeginServed, LeaveServed, Told, Dismissed
<1>6. CASE WriterAbort
  BY <1>0, <1>6, Constants DEF WriterAbort, WriterAt, WriterOK, WaitInv, BeginServed, LeaveServed, Told, Dismissed
<1>7. ASSUME NEW b \in BOOLEAN, WriterWrite(b)
      PROVE  WaitInv'
  BY <1>0, <1>7 DEF WriterWrite, WaitInv, BeginServed, LeaveServed, Told, Dismissed
<1>8. CASE WriterLeave
  BY <1>0, <1>8 DEF WriterLeave, WriterOK, WaitInv, BeginServed, LeaveServed, Told, Dismissed
<1>9. CASE WriterGone
  <2>1. sDone' = 1 /\ UNCHANGED <<sActive, sFull, writer, pull, lateBegin>>
    BY <1>9 DEF WriterGone, Give, history
  <2>2. Dismissed => Dismissed'
    BY <2>1 DEF Dismissed
  <2>3. QED
    BY <2>1, <2>2 DEF WaitInv, BeginServed, LeaveServed, Told
<1>10. CASE FetchImage
  BY <1>0, <1>10 DEF FetchImage, pipeVars, history, WaitInv, BeginServed, LeaveServed, Told, Dismissed
<1>11. CASE PipeBegin
  BY <1>0, <1>11 DEF PipeBegin, AttemptFails, PullAt, PullOK, pipeVars, history, WaitInv, BeginServed, LeaveServed, Told, Dismissed
<1>12. ASSUME NEW b \in BOOLEAN, PipeCreate(b)
      PROVE  WaitInv'
  <2>1. CASE b
    <3>1. pull'.pc = "opening" /\ writer'.pc = "begin"
      BY <1>0, <1>12, <2>1 DEF PipeCreate, PullAt, PullOK
    <3>2. QED
      BY <3>1 DEF WaitInv, BeginServed, LeaveServed, Told
  <2>2. CASE ~b
    <3>1. pull'.pc \in {"attempt", "failed"} /\ ~sActive'
      BY <1>0, <1>12, <2>2, FailsTo DEF PipeCreate, CreateIsIdle, IInv
    <3>2. QED
      BY <3>1, FailsWait
  <2>3. QED
    BY <2>1, <2>2
<1>13. CASE PipeOpened
  <2>1. sActive /\ sActive' = sActive /\ sFull \in Seq(Messages)
    BY <1>0, <1>13 DEF PipeOpened, ActiveMeansWriter, Feeding, QueuesOK
  <2>2. CASE sWriterErr = "ESP_OK"
    BY <1>0, <1>13, <2>2 DEF PipeOpened, PullAt, PullOK, WaitInv, BeginServed, LeaveServed, Told
  <2>3. CASE sWriterErr # "ESP_OK"
    <3>1. pull'.pc = "refused" /\ SendFull(END)
      BY <1>0, <1>13, <2>3 DEF PipeOpened, PullAt, PullOK
    <3>2. Dismissed'
      BY <2>1, <3>1, SentDismisses
    <3>3. QED
      BY <3>1, <3>2 DEF WaitInv, BeginServed, LeaveServed, Told
  <2>4. QED
    BY <2>2, <2>3
<1>14. CASE PipeOpenTimeout
  BY <1>0, <1>14, FailsTo, FailsWait DEF PipeOpenTimeout
<1>15. ASSUME NEW b \in BOOLEAN, PipeRefused(b)
      PROVE  WaitInv'
  BY <1>0, <1>15, FailsTo, FailsWait DEF PipeRefused, WaitInv, BeginServed, LeaveServed, Told, Dismissed
<1>16. CASE PipeWriteTake
  BY <1>0, <1>16 DEF PipeWriteTake, PullOK, WaitInv, BeginServed, LeaveServed, Told, Dismissed
<1>17. ASSUME NEW b \in BOOLEAN, PipeWritePut(b)
      PROVE  WaitInv'
  BY <1>0, <1>17 DEF PipeWritePut, PullOK, WaitInv, BeginServed, LeaveServed, Told, Dismissed
<1>18. CASE PipeWriteRefused
  BY <1>0, <1>18, AbortWaits DEF PipeWriteRefused
<1>19. CASE PipeWriteTimeout
  BY <1>0, <1>19, AbortWaits DEF PipeWriteTimeout
<1>20. ASSUME NEW b \in BOOLEAN, StreamFails(b)
      PROVE  WaitInv'
  BY <1>0, <1>20, AbortWaits DEF StreamFails
<1>21. ASSUME NEW b \in BOOLEAN, PipeAborted(b)
      PROVE  WaitInv'
  BY <1>0, <1>21, FailsTo, FailsWait DEF PipeAborted, PullOK, WaitInv, BeginServed, LeaveServed, Told, Dismissed
<1>22. CASE PipeEnd
  <2>1. sActive /\ sActive' = sActive /\ sFull \in Seq(Messages)
    BY <1>0, <1>22 DEF PipeEnd, ActiveMeansWriter, Feeding, QueuesOK
  <2>2. pull'.pc = "ending" /\ SendFull(END)
    BY <1>0, <1>22, <2>1 DEF PipeEnd, PullAt, PullOK
  <2>3. Dismissed'
    BY <2>1, <2>2, SentDismisses
  <2>4. QED
    BY <2>2, <2>3 DEF WaitInv, BeginServed, LeaveServed, Told
<1>23. CASE PipeEnded
  <2>1. pull'.pc \in {"ok", "attempt", "failed"}
    BY <1>0, <1>23, FailsTo DEF PipeEnded, PullOK
  <2>2. sActive' => Dismissed' \/ lateBegin'
    BY <1>23 DEF PipeEnded, history, WaitInv, Told, Dismissed
  <2>3. QED
    BY <2>1, <2>2, FailsWait
<1>24. CASE PipeEndTimeout
  BY <1>0, <1>24, FailsTo, FailsWait DEF PipeEndTimeout, WaitInv, BeginServed, LeaveServed, Told, Dismissed
<1>25. CASE UploadStep
  BY <1>25, WaitKept
     DEF UploadStep, UploadArms, UploadEmpty, UploadNoPart, UploadBegin, UploadReceive,
         UploadBreaks, UploadEnd, UploadFails, ByUpload, pipeVars
<1>q. QED
  BY <1>u, <1>1, <1>2, <1>3, <1>4, <1>5, <1>6, <1>7, <1>8, <1>9, <1>10, <1>11, <1>12, <1>13, <1>14, <1>15, <1>16, <1>17, <1>18, <1>19, <1>20, <1>21, <1>22, <1>23, <1>24, <1>25
     DEF Next, WriterStep, PullStep, PullTimeout, PullFails

\* A producer that streams and finds no free slot: the slots are in the queue
\* or one is in the writer's hand.
LEMMA SlotComesBack ==
    ASSUME IInv, SlotsInv, pull.pc = "stream"
    PROVE  sFree # << >> \/ sFull # << >> \/ writer.pc = "got"
<1>1. 1 \in Slots
  BY Constants DEF Slots
<1>2. Holders(1) = 1
  BY <1>1 DEF IInv, SlotsInv, Feeding, ActiveMeansWriter, SlotsHeld
<1>3. Times(1, << >>) = 0
  <2>1. << >> \in Seq(Slots) /\ \A i \in 1 .. Len(<< >>) : << >>[i] # 1
    OBVIOUS
  <2>2. QED
    BY <2>1, TimesNone
<1>4. QED
  BY <1>2, <1>3 DEF Holders

\* For any number of slots, chunks and attempts, and through failed begins,
\* aborts, refusals and waits that run out, no wait of ota_pipe.c is left
\* without the step of the other task that ends it, and no writer without a
\* producer or an order to leave: the safety half of PullReturns and PipeFreed.
THEOREM NobodyWaitsInVain == Spec => []WaitsServed
<1>1. Init => WaitInv
  BY DEF Init, WaitInv, BeginServed, LeaveServed, Told
<1>2. IInv /\ SlotsInv /\ WaitInv => WaitsServed
  BY SlotComesBack DEF WaitInv, BeginServed, LeaveServed, Told, WaitsServed
<1>3. IInv /\ SlotsInv /\ WaitInv /\ [Next]_vars => WaitInv'
  BY NextWait
<1>4. QED
  BY <1>1, <1>2, <1>3, SlotsInvariance, PTL DEF Spec
=============================================================================
