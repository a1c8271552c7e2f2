------------------------------ MODULE OtaPipe ------------------------------
(***************************************************************************)
(* The firmware update session of ota_manager and its two transports.      *)
(*                                                                         *)
(*  - ota_session.c / ota_manager.c: one session, every call under s_lock. *)
(*  - ota_pipe.c: fw_update's download task (PSRAM stack) hands 4 KB slots *)
(*    over the queues s_free and s_full to an ephemeral writer task.       *)
(*  - fw_update_fetch.c: the download, its attempts and their error paths. *)
(*  - api_http_ota.c: the upload handler, raw body or multipart, on the    *)
(*    one task of the HTTP server.                                         *)
(*                                                                         *)
(* An image is a sequence of ImageSize slot-sized chunks <<source, n>>; a  *)
(* chunk damaged on the way is <<source, 0>>.  The first chunk holds the   *)
(* image head, and a digest is named by the source of the image it fits.   *)
(***************************************************************************)
EXTENDS Integers, Sequences, FiniteSets

CONSTANTS
    PIPE_SLOTS,     \* slots between the download and the writer
    ImageSize,      \* chunks of an image
    MaxAttempts,    \* FWU_IMAGE_ATTEMPTS
    MaxFetches,     \* bound: update jobs of the download task
    MaxUploads,     \* bound: upload requests
    NULL

ASSUME SlotsAssumption == PIPE_SLOTS \in Nat \ {0}
ASSUME SizeAssumption == ImageSize \in Nat \ {0}
ASSUME BoundsAssumption ==
    /\ MaxAttempts \in Nat \ {0}
    /\ MaxFetches \in Nat
    /\ MaxUploads \in Nat
ASSUME NullAssumption == NULL \notin {"pull", "upload"}

Sources == {"pull", "upload"}
Chunks == Sources \X (0 .. ImageSize)
Image(src) == [n \in 1 .. ImageSize |-> <<src, n>>]

Slots == 1 .. PIPE_SLOTS
END == 0
ABORT == PIPE_SLOTS + 1
Messages == Slots \union {END, ABORT}

Errors == {"ESP_OK", "ESP_FAIL", "ESP_ERR_INVALID_STATE", "ESP_ERR_INVALID_SIZE",
           "ESP_ERR_INVALID_CRC", "ESP_ERR_INVALID_RESPONSE"}

VARIABLES
    session,    \* s_session: state, announced total, expected digest, who began it
    flash,      \* what the session received and wrote to the target partition
    handles,    \* esp_ota handles that are open
    boot,       \* the image otadata names for the next boot
    armed,      \* s_expect_armed / s_expect
    sActive,    \* s_active
    sFree,      \* s_free
    sFull,      \* s_full
    sDone,      \* s_done: the binary semaphore
    sWriterErr, \* s_writer_err
    sEndErr,    \* s_end_err
    sSlot,      \* s_slot
    writer,     \* the writer task: where it is and the message in its hand
    leaving,    \* writers between `s_active = false` and their last give
    pull,       \* the download task
    upload,     \* the HTTP task in ota_upload_handler
    sent,       \* history: chunks handed to ota_pipe_write in this attempt
    drained,    \* history: chunks the writer took from slots in this attempt
    clean,      \* history: no writer was leaving at its begin, no wait ran out, no upload interfered
    lateBegin   \* history: ota_pipe_begin once gave up before its writer opened

sessionVars == <<session, flash, handles, boot, armed>>
pipeVars == <<sActive, sFree, sFull, sDone, sWriterErr, sEndErr, sSlot, writer, leaving>>
history == <<sent, drained, clean, lateBegin>>
vars == <<sessionVars, pipeVars, pull, upload, history>>

----------------------------------------------------------------------------
(* ota_session.c: each operation as its result and its effect; `flashOk` is *)
(* what the flash driver answers.                                           *)

SessionWith(st) == session' = [session EXCEPT !.state = st]

\* ota_manager_begin: refused while a session receives, otherwise the armed
\* digest is consumed, hit or miss.
BeginResult(flashOk) ==
    IF session.state = "RECEIVING" THEN "ESP_ERR_INVALID_STATE"
    ELSE IF flashOk THEN "ESP_OK" ELSE "ESP_FAIL"

ota_session_begin(src, total, flashOk) ==
    IF session.state = "RECEIVING"
    THEN UNCHANGED sessionVars
    ELSE /\ session' = [state |-> IF flashOk THEN "RECEIVING" ELSE "FAILED",
                        total |-> total, expect |-> armed, by |-> src]
         /\ flash' = << >>
         /\ handles' = IF flashOk THEN handles + 1 ELSE handles
         /\ armed' = NULL
         /\ UNCHANGED boot

\* The first chunk carries the head: a damaged one is no image of ours.
HeadOk(chunk) == flash # << >> \/ chunk[2] = 1

WriteResult(chunk, flashOk) ==
    IF session.state # "RECEIVING" THEN "ESP_ERR_INVALID_STATE"
    ELSE IF session.total # 0 /\ Len(flash) >= session.total
         THEN "ESP_ERR_INVALID_SIZE"
    ELSE IF ~HeadOk(chunk) THEN "ESP_ERR_INVALID_RESPONSE"
    ELSE IF flashOk THEN "ESP_OK" ELSE "ESP_FAIL"

\* mutant of fail: the backend is never aborted
fail_keeps_handle(aborts) == SessionWith("FAILED") /\ UNCHANGED handles

\* fail(): the backend's handle is given back and the session is FAILED.
fail(aborts) ==
    /\ SessionWith("FAILED")
    /\ handles' = IF aborts THEN handles - 1 ELSE handles

ota_session_write(chunk, flashOk) ==
    /\ UNCHANGED <<boot, armed>>
    /\ CASE session.state # "RECEIVING" -> UNCHANGED <<session, flash, handles>>
         [] WriteResult(chunk, flashOk) = "ESP_OK" ->
              /\ flash' = Append(flash, chunk)
              /\ UNCHANGED <<session, handles>>
         [] OTHER -> fail(TRUE) /\ UNCHANGED flash

\* What the checks before esp_ota_end refuse.
EndRefusal ==
    IF flash = << >> \/ (session.total # 0 /\ Len(flash) < session.total)
    THEN "ESP_ERR_INVALID_SIZE"
    ELSE IF session.expect # NULL /\ flash # Image(session.expect)
    THEN "ESP_ERR_INVALID_CRC"
    ELSE "ESP_OK"

\* External: esp_ota_end validates the image, so only a whole one passes, and
\* esp_ota_set_boot_partition may fail; the handle is gone either way.
esp_ota_end(flashOk) == flashOk /\ \E src \in Sources : flash = Image(src)

EndResult(flashOk) ==
    IF session.state # "RECEIVING" THEN "ESP_ERR_INVALID_STATE"
    ELSE IF EndRefusal # "ESP_OK" THEN EndRefusal
    ELSE IF esp_ota_end(flashOk) THEN "ESP_OK" ELSE "ESP_FAIL"

ota_session_end(flashOk) ==
    /\ UNCHANGED <<flash, armed>>
    /\ CASE session.state # "RECEIVING" -> UNCHANGED <<session, handles, boot>>
         [] session.state = "RECEIVING" /\ EndRefusal # "ESP_OK" ->
              fail(TRUE) /\ UNCHANGED boot
         [] OTHER ->
              /\ handles' = handles - 1
              /\ IF esp_ota_end(flashOk)
                 THEN SessionWith("READY") /\ boot' = flash
                 ELSE SessionWith("FAILED") /\ UNCHANGED boot

\* mutant of ota_session_abort: the backend is aborted whatever the state
ota_session_abort_always ==
    /\ session' = [session EXCEPT !.state = "IDLE", !.total = 0, !.expect = NULL]
    /\ handles' = handles - 1
    /\ flash' = << >>
    /\ UNCHANGED <<boot, armed>>

ota_session_abort ==
    /\ session' = [session EXCEPT !.state = "IDLE", !.total = 0, !.expect = NULL]
    /\ handles' = IF session.state = "RECEIVING" THEN handles - 1 ELSE handles
    /\ flash' = << >>
    /\ UNCHANGED <<boot, armed>>

ota_manager_expect_sha256(digest) ==
    armed' = digest /\ UNCHANGED <<session, flash, handles, boot>>

----------------------------------------------------------------------------
(* The writer task.                                                         *)

Give == sDone' = 1
WriterAt(pc) == writer' = [writer EXCEPT !.pc = pc]

WriterBegin(flashOk) ==
    /\ writer.pc = "begin"
    /\ ota_session_begin("pull", ImageSize, flashOk)
    /\ sWriterErr' = BeginResult(flashOk)
    /\ WriterAt(IF BeginResult(flashOk) = "ESP_OK" THEN "tell" ELSE "disarm")
    /\ UNCHANGED <<sActive, sFree, sFull, sDone, sEndErr, sSlot, leaving, pull, upload, history>>

\* `not consumed: disarm`, a second call under the lock.
WriterDisarm ==
    /\ writer.pc = "disarm"
    /\ ota_manager_expect_sha256(NULL)
    /\ WriterAt("tell")
    /\ UNCHANGED <<sActive, sFree, sFull, sDone, sWriterErr, sEndErr, sSlot, leaving,
                   pull, upload, history>>

WriterTell ==
    /\ writer.pc = "tell"
    /\ Give
    /\ WriterAt("loop")
    /\ UNCHANGED <<sessionVars, sActive, sFree, sFull, sWriterErr, sEndErr, sSlot, leaving,
                   pull, upload, history>>

WriterReceive ==
    /\ writer.pc = "loop"
    /\ sFull # << >>
    /\ writer' = [pc |-> "got", msg |-> Head(sFull)]
    /\ sFull' = Tail(sFull)
    /\ UNCHANGED <<sessionVars, sActive, sFree, sDone, sWriterErr, sEndErr, sSlot, leaving,
                   pull, upload, history>>

\* mutant of WriterEnd: the result of ota_manager_end is dropped
WriterEnd_result_dropped(flashOk) ==
    /\ writer.pc = "got"
    /\ writer.msg = END
    /\ IF sWriterErr = "ESP_OK" THEN ota_session_end(flashOk) ELSE UNCHANGED sessionVars
    /\ WriterAt("leave")
    /\ UNCHANGED <<sActive, sFree, sFull, sDone, sWriterErr, sEndErr, sSlot, leaving, pull, upload,
                   history>>

WriterEnd(flashOk) ==
    /\ writer.pc = "got"
    /\ writer.msg = END
    /\ IF sWriterErr = "ESP_OK"
       THEN ota_session_end(flashOk) /\ sEndErr' = EndResult(flashOk)
       ELSE UNCHANGED sessionVars /\ sEndErr' = sWriterErr
    /\ WriterAt("leave")
    /\ UNCHANGED <<sActive, sFree, sFull, sDone, sWriterErr, sSlot, leaving, pull, upload,
                   history>>

WriterAbort ==
    /\ writer.pc = "got"
    /\ writer.msg = ABORT
    /\ ota_session_abort
    /\ sEndErr' = "ESP_ERR_INVALID_STATE"
    /\ WriterAt("leave")
    /\ UNCHANGED <<sActive, sFree, sFull, sDone, sWriterErr, sSlot, leaving, pull, upload,
                   history>>

\* mutant of WriterWrite: a slot that was not written is not drained
WriterWrite_keeps_slot(flashOk) ==
    /\ writer.pc = "got"
    /\ writer.msg \in Slots
    /\ IF sWriterErr = "ESP_OK"
       THEN /\ ota_session_write(sSlot[writer.msg], flashOk)
            /\ sWriterErr' = WriteResult(sSlot[writer.msg], flashOk)
            /\ sFree' = Append(sFree, writer.msg)
       ELSE UNCHANGED <<sessionVars, sWriterErr, sFree>>
    /\ drained' = Append(drained, sSlot[writer.msg])
    /\ writer' = [pc |-> "loop", msg |-> END]
    /\ UNCHANGED <<sActive, sFull, sDone, sEndErr, sSlot, leaving, pull, upload,
                   sent, clean, lateBegin>>

\* A slot: written to flash unless an earlier write failed, and drained even
\* after a failure.
WriterWrite(flashOk) ==
    /\ writer.pc = "got"
    /\ writer.msg \in Slots
    /\ IF sWriterErr = "ESP_OK"
       THEN /\ ota_session_write(sSlot[writer.msg], flashOk)
            /\ sWriterErr' = WriteResult(sSlot[writer.msg], flashOk)
       ELSE UNCHANGED <<sessionVars, sWriterErr>>
    /\ drained' = Append(drained, sSlot[writer.msg])
    /\ sFree' = Append(sFree, writer.msg)
    /\ writer' = [pc |-> "loop", msg |-> END]
    /\ UNCHANGED <<sActive, sFull, sDone, sEndErr, sSlot, leaving, pull, upload,
                   sent, clean, lateBegin>>

\* mutant of WriterLeave: s_active stays set
WriterLeave_stays_active ==
    /\ writer.pc = "leave"
    /\ writer' = [pc |-> "none", msg |-> END]
    /\ leaving' = leaving + 1
    /\ UNCHANGED <<sessionVars, sActive, sFree, sFull, sDone, sWriterErr, sEndErr, sSlot, pull,
                   upload, history>>

\* s_active is cleared first; the last give is a step of its own.
WriterLeave ==
    /\ writer.pc = "leave"
    /\ sActive' = FALSE
    /\ writer' = [pc |-> "none", msg |-> END]
    /\ leaving' = leaving + 1
    /\ UNCHANGED <<sessionVars, sFree, sFull, sDone, sWriterErr, sEndErr, sSlot, pull, upload,
                   history>>

\* mutant of WriterGone: the last give is missing
WriterGone_silent ==
    /\ leaving > 0
    /\ leaving' = leaving - 1
    /\ UNCHANGED <<sessionVars, sActive, sFree, sFull, sDone, sWriterErr, sEndErr, sSlot, writer,
                   pull, upload, history>>

WriterGone ==
    /\ leaving > 0
    /\ leaving' = leaving - 1
    /\ Give
    /\ UNCHANGED <<sessionVars, sActive, sFree, sFull, sWriterErr, sEndErr, sSlot, writer,
                   pull, upload, history>>

WriterStep ==
    \/ \E ok \in BOOLEAN : WriterBegin(ok) \/ WriterEnd(ok) \/ WriterWrite(ok)
    \/ WriterDisarm \/ WriterTell \/ WriterReceive \/ WriterAbort \/ WriterLeave
    \/ WriterGone

----------------------------------------------------------------------------
(* The download task: fwu_fetch_image, image_attempt and the ota_pipe calls *)
(* they make.                                                               *)

PullAt(pc) == pull' = [pull EXCEPT !.pc = pc]

\* An attempt that failed: try again, or give up.
AttemptFails(retry) ==
    IF retry /\ pull.attempt < MaxAttempts
    THEN pull' = [pull EXCEPT !.pc = "attempt", !.attempt = @ + 1, !.retry = FALSE]
    ELSE pull' = [pull EXCEPT !.pc = "failed", !.attempt = 1, !.retry = FALSE]

FetchImage ==
    /\ pull.pc \in {"idle", "ok", "failed"}
    /\ pull.fetches < MaxFetches
    /\ pull' = [pc |-> "attempt", slot |-> END, attempt |-> 1, retry |-> FALSE,
                fetches |-> pull.fetches + 1]
    /\ UNCHANGED <<sessionVars, pipeVars, upload, history>>

\* mutant of PipeBegin: the check of s_active is missing
PipeBegin_while_active ==
    /\ pull.pc = "attempt"
    /\ ota_manager_expect_sha256("pull")
    /\ sFree' = [i \in 1 .. PIPE_SLOTS |-> i]
    /\ sFull' = << >>
    /\ sDone' = 0
    /\ PullAt("create")
    /\ sent' = << >>
    /\ drained' = << >>
    /\ clean' = (leaving = 0)
    /\ UNCHANGED <<sActive, sWriterErr, sEndErr, sSlot, writer, leaving, lateBegin, upload>>

\* ota_pipe_begin: refused while a pipe is open, otherwise the queues are
\* reset and the digest is armed for the writer's begin.
PipeBegin ==
    /\ pull.pc = "attempt"
    /\ IF sActive
       THEN /\ AttemptFails(FALSE)
            /\ UNCHANGED <<sessionVars, pipeVars, history>>
       ELSE /\ ota_manager_expect_sha256("pull")
            /\ sFree' = [i \in 1 .. PIPE_SLOTS |-> i]
            /\ sFull' = << >>
            /\ sDone' = 0
            /\ PullAt("create")
            /\ sent' = << >>
            /\ drained' = << >>
            /\ clean' = (leaving = 0)
            /\ UNCHANGED <<sActive, sWriterErr, sEndErr, sSlot, writer, leaving, lateBegin>>
    /\ UNCHANGED upload

PipeCreate(created) ==
    /\ pull.pc = "create"
    /\ sWriterErr' = "ESP_OK"
    /\ sEndErr' = "ESP_OK"
    /\ IF created
       THEN /\ sActive' = TRUE
            /\ writer' = [pc |-> "begin", msg |-> END]
            /\ PullAt("opening")
            /\ UNCHANGED sessionVars
       ELSE /\ ota_manager_expect_sha256(NULL)
            /\ AttemptFails(FALSE)
            /\ UNCHANGED <<sActive, writer>>
    /\ UNCHANGED <<sFree, sFull, sDone, sSlot, leaving, upload, history>>

\* A wait on s_done: 30 s for the begin, 5 s after a failed begin, 10 s for an
\* abort, 90 s for the end.
Take == sDone = 1 /\ sDone' = 0
RunsOut == sDone = 0 /\ UNCHANGED sDone

SendFull(msg) == sFull' = Append(sFull, msg)

\* mutant of PipeOpened: a begin that failed leaves its writer waiting
PipeOpened_no_end ==
    /\ pull.pc = "opening"
    /\ Take
    /\ PullAt(IF sWriterErr = "ESP_OK" THEN "stream" ELSE "refused")
    /\ UNCHANGED <<sessionVars, sActive, sFree, sFull, sWriterErr, sEndErr, sSlot, writer,
                   leaving, upload, history>>

PipeOpened ==
    /\ pull.pc = "opening"
    /\ Take
    /\ IF sWriterErr = "ESP_OK"
       THEN PullAt("stream") /\ UNCHANGED sFull
       ELSE PullAt("refused") /\ SendFull(END)
    /\ UNCHANGED <<sessionVars, sActive, sFree, sWriterErr, sEndErr, sSlot, writer, leaving,
                   upload, history>>

PipeOpenTimeout ==
    /\ pull.pc = "opening"
    /\ RunsOut
    /\ AttemptFails(FALSE)
    /\ clean' = FALSE
    /\ lateBegin' = TRUE
    /\ UNCHANGED <<sessionVars, sActive, sFree, sFull, sWriterErr, sEndErr, sSlot, writer,
                   leaving, upload, sent, drained>>

PipeRefused(inTime) ==
    /\ pull.pc = "refused"
    /\ IF inTime THEN Take ELSE RunsOut
    /\ AttemptFails(FALSE)
    /\ clean' = (clean /\ inTime)
    /\ UNCHANGED <<sessionVars, sActive, sFree, sFull, sWriterErr, sEndErr, sSlot, writer,
                   leaving, upload, sent, drained, lateBegin>>

\* mutant of PipeWriteTake: the slot is looked at, not taken
PipeWriteTake_peeks ==
    /\ pull.pc = "stream"
    /\ Len(sent) < ImageSize
    /\ sActive
    /\ sWriterErr = "ESP_OK"
    /\ sFree # << >>
    /\ pull' = [pull EXCEPT !.pc = "put", !.slot = Head(sFree)]
    /\ UNCHANGED <<sessionVars, pipeVars, upload, history>>

\* ota_pipe_write, as far as the slot: the HTTP stream delivered a chunk.
PipeWriteTake ==
    /\ pull.pc = "stream"
    /\ Len(sent) < ImageSize
    /\ sActive
    /\ sWriterErr = "ESP_OK"
    /\ sFree # << >>
    /\ pull' = [pull EXCEPT !.pc = "put", !.slot = Head(sFree)]
    /\ sFree' = Tail(sFree)
    /\ UNCHANGED <<sessionVars, sActive, sFull, sDone, sWriterErr, sEndErr, sSlot, writer,
                   leaving, upload, history>>

\* The memcpy into the slot and the send; `chunk` is what the server sent.
PipeWritePut(damaged) ==
    LET chunk == <<"pull", IF damaged THEN 0 ELSE Len(sent) + 1>>
    IN  /\ pull.pc = "put"
        /\ sSlot' = [sSlot EXCEPT ![pull.slot] = chunk]
        /\ SendFull(pull.slot)
        /\ sent' = Append(sent, chunk)
        /\ pull' = [pull EXCEPT !.pc = "stream", !.slot = END]
        /\ UNCHANGED <<sessionVars, sActive, sFree, sDone, sWriterErr, sEndErr, writer, leaving,
                       upload, drained, clean, lateBegin>>

\* ota_pipe_abort: nothing to do without a pipe, otherwise ABORT and a wait.
PipeAbort(retry) ==
    IF ~sActive
    THEN AttemptFails(retry) /\ UNCHANGED sFull
    ELSE /\ SendFull(ABORT)
         /\ pull' = [pull EXCEPT !.pc = "aborting", !.retry = retry]

\* ota_pipe_write refuses (no pipe, or the writer's error): image_data ends
\* the stream and the session is aborted, with no retry.
PipeWriteRefused ==
    /\ pull.pc = "stream"
    /\ Len(sent) < ImageSize
    /\ ~sActive \/ sWriterErr # "ESP_OK"
    /\ PipeAbort(FALSE)
    /\ UNCHANGED <<sessionVars, sActive, sFree, sDone, sWriterErr, sEndErr, sSlot, writer,
                   leaving, upload, history>>

\* No slot came free within FWU_PIPE_WAIT_MS.
PipeWriteTimeout ==
    /\ pull.pc = "stream"
    /\ Len(sent) < ImageSize
    /\ sActive
    /\ sWriterErr = "ESP_OK"
    /\ sFree = << >>
    /\ PipeAbort(FALSE)
    /\ clean' = FALSE
    /\ UNCHANGED <<sessionVars, sActive, sFree, sDone, sWriterErr, sEndErr, sSlot, writer,
                   leaving, upload, sent, drained, lateBegin>>

\* The stream ended short, with a server error (retried), with a refusal, a
\* size that is not the manifest's, or the user's abort (not retried).
StreamFails(retry) ==
    /\ pull.pc = "stream"
    /\ PipeAbort(retry)
    /\ UNCHANGED <<sessionVars, sActive, sFree, sDone, sWriterErr, sEndErr, sSlot, writer,
                   leaving, upload, history>>

PipeAborted(inTime) ==
    /\ pull.pc = "aborting"
    /\ IF inTime THEN Take ELSE RunsOut
    /\ AttemptFails(pull.retry)
    /\ clean' = (clean /\ inTime)
    /\ UNCHANGED <<sessionVars, sActive, sFree, sFull, sWriterErr, sEndErr, sSlot, writer,
                   leaving, upload, sent, drained, lateBegin>>

\* ota_pipe_end, once the whole image went in.
PipeEnd ==
    /\ pull.pc = "stream"
    /\ Len(sent) = ImageSize
    /\ IF sActive
       THEN SendFull(END) /\ PullAt("ending")
       ELSE UNCHANGED sFull /\ AttemptFails(FALSE)
    /\ UNCHANGED <<sessionVars, sActive, sFree, sDone, sWriterErr, sEndErr, sSlot, writer,
                   leaving, upload, history>>

PipeEnded ==
    /\ pull.pc = "ending"
    /\ Take
    /\ IF sEndErr = "ESP_OK" THEN pull' = [pull EXCEPT !.pc = "ok", !.attempt = 1] ELSE AttemptFails(FALSE)
    /\ UNCHANGED <<sessionVars, sActive, sFree, sFull, sWriterErr, sEndErr, sSlot, writer,
                   leaving, upload, history>>

PipeEndTimeout ==
    /\ pull.pc = "ending"
    /\ RunsOut
    /\ AttemptFails(FALSE)
    /\ clean' = FALSE
    /\ UNCHANGED <<sessionVars, sActive, sFree, sFull, sWriterErr, sEndErr, sSlot, writer,
                   leaving, upload, sent, drained, lateBegin>>

\* The steps the download task takes by itself once it is scheduled.
PullStep ==
    \/ PipeBegin
    \/ \E created \in BOOLEAN : PipeCreate(created)
    \/ PipeOpened
    \/ PipeRefused(TRUE)
    \/ PipeWriteTake
    \/ PipeWriteRefused
    \/ \E damaged \in BOOLEAN : PipeWritePut(damaged)
    \/ PipeAborted(TRUE)
    \/ PipeEnd
    \/ PipeEnded

PullTimeout ==
    \/ PipeOpenTimeout \/ PipeRefused(FALSE) \/ PipeWriteTimeout \/ PipeAborted(FALSE)
    \/ PipeEndTimeout

PullFails == \E retry \in BOOLEAN : StreamFails(retry)

----------------------------------------------------------------------------
(* The HTTP task in ota_upload_handler.                                     *)

UploadAt(pc) ==
    IF pc = "idle"
    THEN upload' = [upload EXCEPT !.pc = "idle", !.kind = "raw", !.left = 0]
    ELSE upload' = [upload EXCEPT !.pc = pc]
Interferes == clean' = FALSE
ByUpload == UNCHANGED <<pipeVars, pull, sent, drained, lateBegin>>

\* A request: an optional ?sha256= is armed before the body is looked at.
UploadArms(kind, digest) ==
    /\ upload.pc = "idle"
    /\ upload.requests < MaxUploads
    /\ upload' = [pc |-> "armed", kind |-> kind, left |-> ImageSize,
                  requests |-> upload.requests + 1]
    /\ IF digest = NULL
       THEN UNCHANGED <<sessionVars, clean>>
       ELSE ota_manager_expect_sha256(digest) /\ Interferes
    /\ ByUpload

\* A raw request without a body disarms and answers 400.
UploadEmpty ==
    /\ upload.pc = "armed"
    /\ upload.kind = "raw"
    /\ ota_manager_expect_sha256(NULL)
    /\ UploadAt("idle")
    /\ Interferes
    /\ ByUpload

\* A multipart body with no image part, or broken before one: nothing is
\* started and the request fails.
UploadNoPart ==
    /\ upload.pc = "armed"
    /\ upload.kind = "multipart"
    /\ UploadAt("fail")
    /\ UNCHANGED <<sessionVars, clean>>
    /\ ByUpload

\* The size is announced by a raw body only.
UploadBegin(flashOk) ==
    /\ upload.pc = "armed"
    /\ ota_session_begin("upload", IF upload.kind = "raw" THEN ImageSize ELSE 0, flashOk)
    /\ UploadAt(CASE BeginResult(flashOk) = "ESP_OK" -> "receive"
                  [] BeginResult(flashOk) = "ESP_ERR_INVALID_STATE" -> "idle"
                  [] OTHER -> "fail")
    /\ clean' = (clean /\ BeginResult(flashOk) = "ESP_ERR_INVALID_STATE")
    /\ ByUpload

\* The next chunk of the body.
UploadReceive(flashOk) ==
    LET chunk == <<"upload", ImageSize - upload.left + 1>>
    IN  /\ upload.pc = "receive"
        /\ upload.left > 0
        /\ ota_session_write(chunk, flashOk)
        /\ IF WriteResult(chunk, flashOk) = "ESP_OK"
           THEN upload' = [upload EXCEPT !.left = @ - 1]
           ELSE UploadAt("fail")
        /\ Interferes
        /\ ByUpload

\* The connection breaks, or no memory for the receive buffer.
UploadBreaks ==
    /\ upload.pc = "receive"
    /\ UploadAt("fail")
    /\ UNCHANGED <<sessionVars, clean>>
    /\ ByUpload

\* A multipart body may end anywhere; a raw one has its announced length.
UploadEnd(flashOk) ==
    /\ upload.pc = "receive"
    /\ upload.kind = "raw" => upload.left = 0
    /\ ota_session_end(flashOk)
    /\ UploadAt(IF EndResult(flashOk) = "ESP_OK" THEN "idle" ELSE "fail")
    /\ Interferes
    /\ ByUpload

\* ota_respond_fail: `leave a clean IDLE for the retry`.
UploadFails ==
    /\ upload.pc = "fail"
    /\ ota_session_abort
    /\ UploadAt("idle")
    /\ Interferes
    /\ ByUpload

UploadStep ==
    \/ \E kind \in {"raw", "multipart"}, d \in {NULL, "upload"} : UploadArms(kind, d)
    \/ UploadEmpty \/ UploadNoPart \/ UploadBreaks \/ UploadFails
    \/ \E ok \in BOOLEAN : UploadBegin(ok) \/ UploadReceive(ok) \/ UploadEnd(ok)

----------------------------------------------------------------------------
Init ==
    /\ session = [state |-> "IDLE", total |-> 0, expect |-> NULL, by |-> NULL]
    /\ flash = << >>
    /\ handles = 0
    /\ boot = << >>
    /\ armed = NULL
    /\ sActive = FALSE
    /\ sFree = << >>
    /\ sFull = << >>
    /\ sDone = 0
    /\ sWriterErr = "ESP_OK"
    /\ sEndErr = "ESP_OK"
    /\ sSlot = [s \in Slots |-> <<"pull", 0>>]
    /\ writer = [pc |-> "none", msg |-> END]
    /\ leaving = 0
    /\ pull = [pc |-> "idle", slot |-> END, attempt |-> 1, retry |-> FALSE, fetches |-> 0]
    /\ upload = [pc |-> "idle", kind |-> "raw", left |-> 0, requests |-> 0]
    /\ sent = << >>
    /\ drained = << >>
    /\ clean = FALSE
    /\ lateBegin = FALSE

Next == FetchImage \/ WriterStep \/ PullStep \/ PullTimeout \/ PullFails \/ UploadStep

Spec == Init /\ [][Next]_vars

\* The tasks that are scheduled run; no fairness on timeouts, on the network
\* failing or on the client of an upload.
FairSpec == Spec /\ WF_vars(WriterStep) /\ WF_vars(PullStep)

----------------------------------------------------------------------------
TypeOK ==
    /\ session \in [state : {"IDLE", "RECEIVING", "READY", "FAILED"}, total : {0, ImageSize},
                    expect : Sources \union {NULL}, by : Sources \union {NULL}]
    /\ flash \in Seq(Chunks)
    /\ boot \in Seq(Chunks)
    /\ handles \in Nat
    /\ armed \in Sources \union {NULL}
    /\ sActive \in BOOLEAN
    /\ sFree \in Seq(Slots)
    /\ sFull \in Seq(Messages)
    /\ sDone \in {0, 1}
    /\ sWriterErr \in Errors
    /\ sEndErr \in Errors
    /\ sSlot \in [Slots -> Chunks]
    /\ writer \in [pc : {"none", "begin", "disarm", "tell", "loop", "got", "leave"},
                   msg : Messages]
    /\ leaving \in Nat
    /\ pull \in [pc : {"idle", "attempt", "create", "opening", "refused", "stream", "put",
                       "aborting", "ending", "ok", "failed"},
                 slot : Slots \union {END}, attempt : Nat, retry : BOOLEAN, fetches : Nat]
    /\ upload \in [pc : {"idle", "armed", "receive", "fail"}, kind : {"raw", "multipart"},
                   left : 0 .. ImageSize, requests : Nat]
    /\ sent \in Seq(Chunks)
    /\ drained \in Seq(Chunks)
    /\ clean \in BOOLEAN
    /\ lateBegin \in BOOLEAN

Times(x, seq) == Cardinality({i \in DOMAIN seq : seq[i] = x})

\* The places that hold slot s: s_free, s_full, the producer, the writer.
Holders(s) ==
    Times(s, sFree) + Times(s, sFull)
      + (IF pull.pc = "put" /\ pull.slot = s THEN 1 ELSE 0)
      + (IF writer.pc = "got" /\ writer.msg = s THEN 1 ELSE 0)

\* While a pipe is open every slot is in exactly one place, so the download
\* task never fills a slot the writer still reads and no slot leaks: through
\* failed writes (ota_pipe.c drains them all the same), aborts with slots in
\* the queue, waits that run out and the queues_reset of the next attempt.
SlotInOnePlace == sActive => \A s \in Slots : Holders(s) = 1

\* The places of s_full that hold a slot, not END or ABORT.
SlotsQueued == {i \in DOMAIN sFull : sFull[i] \in Slots}

\* The chunks between ota_pipe_write and ota_manager_write, oldest first.
InHand == IF writer.pc = "got" /\ writer.msg \in Slots THEN <<sSlot[writer.msg]>> ELSE << >>
InFlight == InHand \o [i \in SlotsQueued |-> sSlot[sFull[i]]]

\* END and ABORT overtake no chunk, and the writer takes the chunks of an
\* attempt in the order the download task gave them, none lost, doubled or
\* overwritten in its slot.
ChunksInOrder ==
    /\ \A i \in SlotsQueued, j \in DOMAIN sFull \ SlotsQueued : i < j
    /\ sent = drained \o InFlight

\* The pipe as ChunkPipe sees it.
Pipe == INSTANCE ChunkPipe WITH
    Capacity <- PIPE_SLOTS, open <- sActive, accepted <- sent, chan <- InFlight,
    delivered <- drained

\* The slots, the two queues, the reset, END and ABORT implement a bounded
\* channel: a chunk that ota_pipe_write took is drained before the pipe closes,
\* even when its attempt was aborted or given up, and no attempt opens or
\* resets a pipe that still carries the chunks of another.
ImplementsChunkPipe == Pipe!Spec

\* esp_ota_begin's handle is released exactly once on every path of
\* ota_session.c and by either transport: one handle while a session
\* receives, none otherwise.
OneHandle == handles = IF session.state = "RECEIVING" THEN 1 ELSE 0

\* When ota_pipe_end answers ESP_OK the image that boots next is the one the
\* manifest's digest names, whole: a write, a begin or an end that failed is never
\* reported as ESP_OK.  Only for an attempt that is `clean`: (1) when it began no
\* writer of an earlier attempt was still between s_active = false and its last
\* give; (2) none of its waits ran out; (3) no upload touched the session or the
\* armed digest meanwhile.  Without (1) or (2) a late give may answer for another
\* call, without (3) the digests may be exchanged; nothing is claimed of these.
PullOkMeansImage == pull.pc = "ok" /\ clean => boot = Image("pull")

\* END or ABORT is on its way to the writer, or has reached it.
Dismissed ==
    \/ writer.pc = "leave"
    \/ writer.pc = "got" /\ writer.msg \notin Slots
    \/ sActive /\ \E i \in DOMAIN sFull : sFull[i] \notin Slots

\* Neither task of the pipe waits in vain (the waits of ota_pipe.c are for
\* ever or for minutes): a begin has a writer that will tell its result, a
\* write without a free slot one that will free it, and END, ABORT and a
\* refused begin one that will leave; and a writer whose producer is gone has
\* been told so, unless ota_pipe_begin gave up first.
WaitsServed ==
    /\ pull.pc = "opening" => sDone = 1 \/ writer.pc \in {"begin", "disarm", "tell"}
    /\ pull.pc = "stream" => sFree # << >> \/ sFull # << >> \/ writer.pc = "got"
    /\ pull.pc \in {"refused", "aborting", "ending"} => sDone = 1 \/ leaving > 0 \/ Dismissed
    /\ sActive /\ pull.pc \notin {"opening", "stream", "put"} => Dismissed \/ lateBegin

\* Every fetch returns: no call of the pipe waits for ever, not even the
\* portMAX_DELAY sends and without counting on its timeouts.
PullReturns == pull.pc = "attempt" ~> pull.pc \in {"ok", "failed"}

\* The pipe is free again after every session, unless ota_pipe_begin gave up
\* before its writer opened: nobody then tells that writer to leave.
PipeFreed == sActive ~> ~sActive \/ lateBegin

\* `another session was receiving: never abort it` (api_http_ota.c): the
\* session the pipe's writer opened ends by the writer's doing only.
UploadNeverAbortsPull ==
    [][session.state = "RECEIVING" /\ session.by = "pull" /\ session'.state = "IDLE"
         => writer' # writer]_vars
=============================================================================
