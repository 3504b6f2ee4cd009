----------------------------- MODULE BatchJobs -----------------------------
(***************************************************************************)
(* The durable transcription jobs of services/batch_jobs.py: the SQLite    *)
(* rows and the job directories that survive the process, the in-memory    *)
(* queue and active set that do not, the HTTP requests that run            *)
(* concurrently in the thread pool, and the one worker thread.             *)
(*                                                                         *)
(* BatchJobStore takes its lock for one SQL statement (or one transaction) *)
(* at a time, so that is the grain of an action here: what a request read  *)
(* in one action may be stale in its next one.  A request that is refused  *)
(* (404, 409, 413...) changes nothing and has no action.                   *)
(*                                                                         *)
(* Columns no code path branches on are left out: phase, progress_current, *)
(* progress_unit, the error texts and the transcript itself.               *)
(***************************************************************************)
EXTENDS WindowPlan, FiniteSets, SequencesExt

CONSTANTS
  WindowSeconds,  \* settings.batch_window_seconds
  OverlapSeconds, \* settings.batch_window_overlap_seconds
  Jobs,           \* job ids (uuid4)
  Keys,           \* pairs of owner and Idempotency-Key
  NoKey,          \* the key of no job
  NoJob,          \* the job of an idle request or worker
  Poison,         \* the None that stop() queues
  Requests,       \* threads of the pool that serve HTTP requests
  UploadLength,   \* declared size of a recording, in bytes
  MaxChunk,       \* settings.batch_upload_chunk_bytes
  Duration,       \* duration sf.info reads from a complete recording
  MaxQueue,       \* bound on the entries of the queue (none in the code)
  DiskFaults      \* whether audio can be damaged while the server is down

Geometry == [window |-> WindowSeconds, overlap |-> OverlapSeconds]

Total == WindowCount(Geometry, Duration)

\* Settings.validate() refuses any other pair.
ASSUME WindowAssumption ==
  /\ WindowSeconds \in Nat \ {0}
  /\ OverlapSeconds \in Nat
  /\ OverlapSeconds < WindowSeconds

ASSUME JobAssumption ==
  /\ IsFiniteSet(Jobs)
  /\ NoJob \notin Jobs
  /\ Poison \notin Jobs
  /\ Duration \in Nat \ {0}
  /\ DiskFaults \in BOOLEAN

\* A recording has many more bytes than windows: a window index that counts
\* bytes (see Snapshot) starts past the end of the audio before it reaches
\* the last byte.
ASSUME UploadAssumption ==
  /\ UploadLength \in Nat \ {0}
  /\ MaxChunk \in Nat \ {0}
  /\ MaxQueue \in Nat \ {0}
  /\ Total < UploadLength
  /\ WindowStart(Geometry, UploadLength - 1) >= Duration

VARIABLES
  row,      \* row[j]: the row of job j in transcription_jobs and its windows
  dirs,     \* jobs whose directory exists on disk
  source,   \* source[j]: bytes of jobs/<j>/source.ogg, Absent if no file
  temp,     \* jobs whose directory holds a window-<i>.wav
  queue,    \* BatchJobService._queue
  active,   \* BatchJobService._active
  worker,   \* the worker thread
  request,  \* request[t]: what thread t of the pool is doing
  server    \* "down", "open" (store opened), "up", "stopping"

vars == <<row, dirs, source, temp, queue, active, worker, request, server>>

disk == <<dirs, source, temp>>

Absent == -1

States == {"none", "uploading", "queued", "processing", "succeeded",
           "failed", "cancelled"}

\* The states cleanup_expired may remove.
Finished == {"uploading", "succeeded", "failed", "cancelled"}

NoRow ==
  [key |-> NoKey, state |-> "none", offset |-> 0, probed |-> FALSE, total |-> 0,
   windows |-> {}, clipped |-> {}, cancelRequested |-> FALSE, expired |-> FALSE]

\* clipped: the windows that were transcribed while source.ogg was shorter
\* than the recording.  The code does not know; it is what the window holds.
NewRow(k) == [NoRow EXCEPT !.key = k, !.state = "uploading", !.total = UploadLength]

IdleRequest == [pc |-> "idle", job |-> NoJob, key |-> NoKey, from |-> 0, upto |-> 0]

NoWorker ==
  [pc |-> "off", job |-> NoJob, total |-> 0, index |-> 0, completed |-> {},
   whole |-> FALSE, todo |-> {}]

Exists(j) == row[j].state # "none"

Idle(t) == server = "up" /\ request[t].pc = "idle"

\* uuid4 never issues an id twice.  An id nothing mentions any more cannot be
\* told from one that was never issued, and may be issued again here.
Fresh(j) ==
  /\ ~Exists(j)
  /\ j \notin dirs \cup active \cup ToSet(queue) \cup worker.todo
  /\ worker.job # j
  /\ \A t \in Requests : request[t].job # j

----------------------------------------------------------------------------
(* The UPDATE statements of BatchJobStore.  Each matches the row by id: it  *)
(* does nothing to a job that was deleted, and moves expires_at forward.    *)

Update(j, r) ==
  row' = IF Exists(j)
           THEN [row EXCEPT ![j] = [r EXCEPT !.expired = FALSE]]
           ELSE row

\* Mutants of QueueRow: the duration is not stored...
QueueRowUnprobed(j) ==
  Update(j, [row[j] EXCEPT !.state = "queued", !.total = Total, !.cancelRequested = FALSE])

\* ... or only the windows that remain are counted.
QueueRowRemaining(j) ==
  Update(j, [row[j] EXCEPT !.state = "queued", !.probed = TRUE, !.cancelRequested = FALSE,
                           !.total = Total - Cardinality(row[j].windows)])

QueueRow(j) ==
  Update(j, [row[j] EXCEPT !.state = "queued", !.probed = TRUE,
                           !.total = Total, !.cancelRequested = FALSE])

\* Mutant of ReopenRow: the upload starts over.
ReopenRowAfresh(j) ==
  Update(j, [row[j] EXCEPT !.state = "uploading", !.total = UploadLength, !.offset = 0,
                           !.cancelRequested = FALSE])

ReopenRow(j) ==
  Update(j, [row[j] EXCEPT !.state = "uploading", !.total = UploadLength,
                           !.cancelRequested = FALSE])

CancelRow(j) ==
  Update(j, [row[j] EXCEPT !.state = "cancelled", !.cancelRequested = TRUE])

BeginRow(j) ==
  Update(j, [row[j] EXCEPT !.state = "processing", !.cancelRequested = FALSE])

PhaseRow(j) == Update(j, [row[j] EXCEPT !.total = 1])

SucceedRow(j) ==
  Update(j, [row[j] EXCEPT !.state = "succeeded", !.total = 1,
                           !.cancelRequested = FALSE])

FailedRow(r) ==
  [r EXCEPT !.state = "failed", !.cancelRequested = FALSE, !.expired = FALSE]

FailRow(j) == Update(j, FailedRow(row[j]))

\* INSERT OR REPLACE of window i.
SaveWindowRow(j, i, whole) ==
  Update(j, [row[j] EXCEPT !.windows = @ \cup {i},
                           !.clipped = IF whole THEN @ \ {i} ELSE @ \cup {i}])

DropRow(j) == row' = [row EXCEPT ![j] = NoRow]

----------------------------------------------------------------------------
(* HTTP requests.                                                           *)

Goto(t, pc) == request' = [request EXCEPT ![t].pc = pc]

Return(t) == request' = [request EXCEPT ![t] = IdleRequest]

Call(t, pc, j) ==
  request' = [request EXCEPT ![t] = [IdleRequest EXCEPT !.pc = pc, !.job = j]]

At(t, pc) == server = "up" /\ request[t].pc = pc

KeyUsed(k) == \E i \in Jobs : row[i].key = k

\* create: a key already used is answered for by its job, and any other one asks
\* for space on the disk first...
CreateLookup(t, k) ==
  /\ Idle(t)
  /\ request' = [request EXCEPT ![t] = [IdleRequest EXCEPT
                   !.pc = IF KeyUsed(k) THEN "create" ELSE "admit", !.key = k]]
  /\ UNCHANGED <<row, disk, queue, active, worker, server>>

\* ... which may be refused...
CreateAdmit(t) ==
  /\ At(t, "admit")
  /\ Goto(t, "create") \/ Return(t)
  /\ UNCHANGED <<row, disk, queue, active, worker, server>>

\* ... then BatchJobStore.create looks the key up again, in the hold of the lock
\* of the mkdir, the touch and the INSERT: a key used by now returns its job...
CreateFound(t) ==
  /\ At(t, "create")
  /\ KeyUsed(request[t].key)
  /\ Return(t)
  /\ UNCHANGED <<row, disk, queue, active, worker, server>>

\* ... and no other request sees a job half made...
CreateRow(t, j) ==
  /\ At(t, "create")
  /\ ~KeyUsed(request[t].key)
  /\ Fresh(j)
  /\ row' = [row EXCEPT ![j] = NewRow(request[t].key)]
  /\ dirs' = dirs \cup {j}
  /\ source' = [source EXCEPT ![j] = 0]
  /\ Return(t)
  /\ UNCHANGED <<temp, queue, active, worker, server>>

\* What mkdir and touch leave of a job that gets no row.
HalfMade(j) ==
  /\ Fresh(j)
  /\ dirs' = dirs \cup {j}
  /\ source' \in {source, [source EXCEPT ![j] = 0]}
  /\ UNCHANGED temp

\* ... but one of the three may fail: the touch leaves the directory of the
\* mkdir, and the rmtree after the INSERT ignores its own errors.
CreateFails(t) ==
  /\ At(t, "create")
  /\ ~KeyUsed(request[t].key)
  /\ UNCHANGED disk \/ \E j \in Jobs : HalfMade(j)
  /\ Return(t)
  /\ UNCHANGED <<row, queue, active, worker, server>>

\* Mutant of UploadCheck: the declared length does not bound the chunk.
UploadCheckUnbounded(t, j, size) ==
  /\ Idle(t)
  /\ row[j].state = "uploading"
  /\ request' = [request EXCEPT ![t] =
                   [pc |-> "write", job |-> j, key |-> NoKey,
                    from |-> row[j].offset, upto |-> row[j].offset + size]]
  /\ UNCHANGED <<row, disk, queue, active, worker, server>>

\* upload: the job is read and the chunk checked against that snapshot...
UploadCheck(t, j, size) ==
  /\ Idle(t)
  /\ row[j].state = "uploading"
  /\ row[j].offset + size <= UploadLength
  /\ request' = [request EXCEPT ![t] =
                   [pc |-> "write", job |-> j, key |-> NoKey,
                    from |-> row[j].offset, upto |-> row[j].offset + size]]
  /\ UNCHANGED <<row, disk, queue, active, worker, server>>

\* ... the chunk is written in place and fsynced: all of it, or a part of it
\* before an error; open("r+b") refuses a file that is gone...
UploadWrite(t) ==
  LET r == request[t]
      written == {b \in r.from .. r.upto : source[r.job] # Absent}
  IN /\ At(t, "write")
     /\ \/ /\ r.upto \in written
           /\ source' = [source EXCEPT ![r.job] = IF @ < r.upto THEN r.upto ELSE @]
           /\ Goto(t, "commit")
        \/ /\ \/ source' = source
              \/ \E b \in written :
                   source' = [source EXCEPT ![r.job] = IF @ < b THEN b ELSE @]
           /\ Return(t)
     /\ UNCHANGED <<row, dirs, temp, queue, active, worker, server>>

\* ... and the offset is committed, whatever the row holds by now.
UploadCommit(t) ==
  LET j == request[t].job
  IN /\ At(t, "commit")
     /\ Update(j, [row[j] EXCEPT !.offset = request[t].upto])
     /\ Return(t)
     /\ UNCHANGED <<disk, queue, active, worker, server>>

\* Mutant of CompleteCheck: an unfinished upload is accepted.
CompleteCheckEarly(t, j) ==
  /\ Idle(t)
  /\ row[j].state = "uploading"
  /\ Call(t, "probe", j)
  /\ UNCHANGED <<row, disk, queue, active, worker, server>>

\* complete: a job that is queued, running or done is returned as it is; one
\* whose upload is complete is probed...
CompleteCheck(t, j) ==
  /\ Idle(t)
  /\ row[j].state = "uploading"
  /\ row[j].offset = UploadLength
  /\ Call(t, "probe", j)
  /\ UNCHANGED <<row, disk, queue, active, worker, server>>

\* ... and refused when the audio is missing, is not Ogg, is empty or too
\* long, or the disk too full...
CompleteProbe(t) ==
  /\ At(t, "probe")
  /\ \/ source[request[t].job] # Absent /\ Goto(t, "enqueue")
     \/ Return(t)
  /\ UNCHANGED <<row, disk, queue, active, worker, server>>

\* ... or queued, whatever the row holds by now...
CompleteQueue(t) ==
  /\ At(t, "enqueue")
  /\ QueueRow(request[t].job)
  /\ Goto(t, "completed")
  /\ UNCHANGED <<disk, queue, active, worker, server>>

\* ... store.queue reads the row back (404 when it is gone)...
CompleteReread(t) ==
  /\ At(t, "completed")
  /\ IF Exists(request[t].job) THEN Goto(t, "put") ELSE Return(t)
  /\ UNCHANGED <<row, disk, queue, active, worker, server>>

\* ... and the id is handed to the worker.  MaxQueue bounds the model.
Put(t) ==
  /\ At(t, "put")
  /\ Len(queue) < MaxQueue
  /\ queue' = Append(queue, request[t].job)
  /\ Return(t)
  /\ UNCHANGED <<row, disk, active, worker, server>>

\* cancel runs on the event loop: its one UPDATE carries its own guard, so
\* what it read before does not matter.
Cancel(t, j) ==
  /\ Idle(t)
  /\ row[j].state \notin {"none", "succeeded", "cancelled"}
  /\ CancelRow(j)
  /\ UNCHANGED <<disk, queue, active, worker, request, server>>

\* resume: refused while the worker still has the job (job_still_stopping)...
ResumeCheck(t, j) ==
  /\ Idle(t)
  /\ Exists(j)
  /\ j \notin active
  /\ Call(t, "resume", j)
  /\ UNCHANGED <<row, disk, queue, active, worker, server>>

\* Mutant of ResumeRead: a job that succeeded is run again.
ResumeReadAny(t) ==
  LET r == row[request[t].job]
  IN /\ At(t, "resume")
     /\ IF r.state \in {"cancelled", "failed", "succeeded"}
          THEN Goto(t, "requeue")
          ELSE Return(t)
     /\ UNCHANGED <<row, disk, queue, active, worker, server>>

\* ... store.resume reads the job: one that needs no resuming is returned,
\* and put again if it is queued; one whose upload or probe is incomplete is
\* reopened, any other is queued...
ResumeRead(t) ==
  LET r == row[request[t].job]
  IN /\ At(t, "resume")
     /\ \/ r.state \in {"none", "uploading", "processing", "succeeded"} /\ Return(t)
        \/ r.state = "queued" /\ Goto(t, "put")
        \/ /\ r.state \in {"cancelled", "failed"}
           /\ IF r.offset < UploadLength \/ ~r.probed
                THEN Goto(t, "reopen")
                ELSE Goto(t, "requeue")
     /\ UNCHANGED <<row, disk, queue, active, worker, server>>

ResumeReopen(t) ==
  /\ At(t, "reopen")
  /\ ReopenRow(request[t].job)
  /\ Goto(t, "resumed")
  /\ UNCHANGED <<disk, queue, active, worker, server>>

ResumeQueue(t) ==
  /\ At(t, "requeue")
  /\ QueueRow(request[t].job)
  /\ Goto(t, "resumed")
  /\ UNCHANGED <<disk, queue, active, worker, server>>

\* Mutant of ResumeReread: the resumed job is not handed to the worker.
ResumeRereadOnly(t) ==
  /\ At(t, "resumed")
  /\ Return(t)
  /\ UNCHANGED <<row, disk, queue, active, worker, server>>

\* ... and put if the row, read back, is queued.
ResumeReread(t) ==
  /\ At(t, "resumed")
  /\ IF row[request[t].job].state = "queued" THEN Goto(t, "put") ELSE Return(t)
  /\ UNCHANGED <<row, disk, queue, active, worker, server>>

\* delete: refused while the worker has the job; the store then looks the job
\* and its directory up...
DeleteCheck(t, j) ==
  /\ Idle(t)
  /\ Exists(j)
  /\ j \notin active
  /\ Call(t, "remove", j)
  /\ UNCHANGED <<row, disk, queue, active, worker, server>>

\* Mutant of DeleteLookup: the row goes before the files.
DeleteLookupRowFirst(t) ==
  /\ At(t, "remove")
  /\ IF Exists(request[t].job) THEN Goto(t, "drop") ELSE Return(t)
  /\ UNCHANGED <<row, disk, queue, active, worker, server>>

DeleteLookup(t) ==
  LET j == request[t].job
  IN /\ At(t, "remove")
     /\ CASE ~Exists(j)             -> Return(t)
          [] Exists(j) /\ j \in dirs -> Goto(t, "unlink")
          [] OTHER                  -> Goto(t, "drop")
     /\ UNCHANGED <<row, disk, queue, active, worker, server>>

\* ... rmtree empties the directory, raising if it is gone...
Unlink(j) ==
  /\ source' = [source EXCEPT ![j] = Absent]
  /\ temp' = temp \ {j}
  /\ UNCHANGED dirs

DeleteUnlink(t) ==
  LET j == request[t].job
  IN /\ At(t, "unlink")
     /\ IF j \in dirs
          THEN Unlink(j) /\ Goto(t, "rmdir")
          ELSE UNCHANGED disk /\ Return(t)
     /\ UNCHANGED <<row, queue, active, worker, server>>

\* ... and removes it, raising if it is gone or a file appeared in it...
Removable(j) == j \in dirs /\ j \notin temp

Rmdir(j) == dirs' = dirs \ {j} /\ UNCHANGED <<source, temp>>

DeleteRmdir(t) ==
  LET j == request[t].job
  IN /\ At(t, "rmdir")
     /\ IF Removable(j)
          THEN Rmdir(j) /\ Goto(t, "drop")
          ELSE UNCHANGED disk /\ Return(t)
     /\ UNCHANGED <<row, queue, active, worker, server>>

\* ... and only then is the row deleted, its windows with it.
DeleteDrop(t) ==
  /\ At(t, "drop")
  /\ DropRow(request[t].job)
  /\ Return(t)
  /\ UNCHANGED <<disk, queue, active, worker, server>>

RequestStep(t) ==
  \/ CreateAdmit(t) \/ CreateFound(t) \/ CreateFails(t) \/ \E j \in Jobs : CreateRow(t, j)
  \/ UploadWrite(t) \/ UploadCommit(t)
  \/ CompleteProbe(t) \/ CompleteQueue(t) \/ CompleteReread(t) \/ Put(t)
  \/ ResumeRead(t) \/ ResumeReopen(t) \/ ResumeQueue(t) \/ ResumeReread(t)
  \/ DeleteLookup(t) \/ DeleteUnlink(t) \/ DeleteRmdir(t) \/ DeleteDrop(t)

ClientCall(t) ==
  \/ \E k \in Keys : CreateLookup(t, k)
  \/ \E j \in Jobs :
    \/ \E size \in 1..MaxChunk : UploadCheck(t, j, size)
    \/ CompleteCheck(t, j)
    \/ Cancel(t, j)
    \/ ResumeCheck(t, j)
    \/ DeleteCheck(t, j)

----------------------------------------------------------------------------
(* The worker thread.                                                       *)

Running == server \in {"up", "stopping"}

WorkerAt(pc) == Running /\ worker.pc = pc

Step(pc) == worker' = [worker EXCEPT !.pc = pc]

\* _cancelled: also true once stop() was called or the row is gone.
Cancelled(j) ==
  \/ server = "stopping"
  \/ ~Exists(j)
  \/ row[j].cancelRequested
  \/ row[j].state = "cancelled"

\* The top of the loop tests the stop event before it waits on the queue.
Loop ==
  /\ WorkerAt("loop")
  /\ IF server = "stopping" THEN Step("off") ELSE Step("get")
  /\ UNCHANGED <<row, disk, queue, active, request, server>>

Take ==
  /\ WorkerAt("get")
  /\ queue # <<>>
  /\ queue' = Tail(queue)
  /\ worker' = IF Head(queue) = Poison
                 THEN [worker EXCEPT !.pc = "off"]
                 ELSE [worker EXCEPT !.pc = "begin", !.job = Head(queue)]
  /\ UNCHANGED <<row, disk, active, request, server>>

\* queue.get(timeout=60) found nothing: expired jobs are looked for.
GetTimeout ==
  /\ WorkerAt("get")
  /\ queue = <<>>
  /\ Step("cleanup")
  /\ UNCHANGED <<row, disk, queue, active, request, server>>

LeaveJob == [NoWorker EXCEPT !.pc = "cleanup"]

\* begin_processing: only a queued job is begun...
Begin ==
  /\ WorkerAt("begin")
  /\ IF row[worker.job].state = "queued"
       THEN BeginRow(worker.job) /\ Step("snapshot")
       ELSE UNCHANGED row /\ worker' = LeaveJob
  /\ UNCHANGED <<disk, queue, active, request, server>>

\* ... and read back outside the lock (404 when it is gone)...
Snapshot ==
  /\ WorkerAt("snapshot")
  /\ worker' = IF Exists(worker.job)
                 THEN [worker EXCEPT !.pc = "activate", !.total = row[worker.job].total]
                 ELSE LeaveJob
  /\ UNCHANGED <<row, disk, queue, active, request, server>>

\* ... and only then is it visible to resume and delete as running.
Activate ==
  /\ WorkerAt("activate")
  /\ active' = active \cup {worker.job}
  /\ Step("windows")
  /\ UNCHANGED <<row, disk, queue, request, server>>

\* Mutant of ReadWindows: the checkpoints are ignored.
ReadNoWindows ==
  /\ WorkerAt("windows")
  /\ worker' = [worker EXCEPT !.pc = "check", !.completed = {}]
  /\ UNCHANGED <<row, disk, queue, active, request, server>>

ReadWindows ==
  /\ WorkerAt("windows")
  /\ worker' = [worker EXCEPT !.pc = "check", !.completed = row[worker.job].windows]
  /\ UNCHANGED <<row, disk, queue, active, request, server>>

\* One turn of the loop over the windows: stop, skip, or transcribe.
CheckWindow ==
  /\ WorkerAt("check")
  /\ worker' = CASE worker.index >= worker.total -> [worker EXCEPT !.pc = "last"]
                 [] worker.index < worker.total /\ Cancelled(worker.job) ->
                      [worker EXCEPT !.pc = "done"]
                 [] worker.index < worker.total /\ ~Cancelled(worker.job)
                      /\ worker.index \in worker.completed ->
                      [worker EXCEPT !.index = @ + 1]
                 [] OTHER -> [worker EXCEPT !.pc = "read"]
  /\ UNCHANGED <<row, disk, queue, active, request, server>>

\* _transcribe_window reads its part of the recording, which fails when the
\* file is gone or the window starts past its end, and may fail when the file
\* is shorter than the recording or cannot be decoded; on its way out it
\* removes the temporary file an interrupted run may have left...
ReadAudio ==
  LET bytes == source[worker.job]
  IN /\ WorkerAt("read")
     /\ \/ /\ bytes > 0
           /\ WindowStart(Geometry, worker.index) < Duration
           /\ worker' = [worker EXCEPT !.pc = "temp", !.whole = (bytes >= UploadLength)]
           /\ UNCHANGED temp
        \/ temp' = temp \ {worker.job} /\ Step("failing")
     /\ UNCHANGED <<row, dirs, source, queue, active, request, server>>

\* ... writes it to window-<index>.wav beside the recording...
WriteTemp ==
  /\ WorkerAt("temp")
  /\ \/ /\ worker.job \in dirs
        /\ temp' = temp \cup {worker.job}
        /\ Step("infer")
     \/ temp' = temp \ {worker.job} /\ Step("failing")
  /\ UNCHANGED <<row, dirs, source, queue, active, request, server>>

\* ... runs the model, which may fail, and removes the file in any case.
Infer ==
  /\ WorkerAt("infer")
  /\ temp' = temp \ {worker.job}
  /\ Step("save") \/ Step("failing")
  /\ UNCHANGED <<row, dirs, source, queue, active, request, server>>

\* save_window: the foreign key refuses a window of a deleted job.
SaveWindow ==
  /\ WorkerAt("save")
  /\ SaveWindowRow(worker.job, worker.index, worker.whole)
  /\ IF Exists(worker.job) THEN Step("saved") ELSE Step("failing")
  /\ UNCHANGED <<disk, queue, active, request, server>>

CheckSaved ==
  /\ WorkerAt("saved")
  /\ worker' = IF Cancelled(worker.job)
                 THEN [worker EXCEPT !.pc = "done"]
                 ELSE [worker EXCEPT !.pc = "check", !.index = @ + 1]
  /\ UNCHANGED <<row, disk, queue, active, request, server>>

CheckLast ==
  /\ WorkerAt("last")
  /\ IF Cancelled(worker.job) THEN Step("done") ELSE Step("diarize")
  /\ UNCHANGED <<row, disk, queue, active, request, server>>

\* set_phase("diarizing") overwrites progress_total.
Diarize ==
  /\ WorkerAt("diarize")
  /\ PhaseRow(worker.job)
  /\ Step("finalize")
  /\ UNCHANGED <<disk, queue, active, request, server>>

\* _finalize refuses an incomplete set of windows, and may fail to label the
\* speakers.
Finalize ==
  /\ WorkerAt("finalize")
  /\ \/ /\ Cardinality(row[worker.job].windows) = worker.total
        /\ Step("finalized")
     \/ Step("failing")
  /\ UNCHANGED <<row, disk, queue, active, request, server>>

CheckFinalized ==
  /\ WorkerAt("finalized")
  /\ IF Cancelled(worker.job) THEN Step("done") ELSE Step("publish")
  /\ UNCHANGED <<row, disk, queue, active, request, server>>

\* set_phase("finalizing").
Publish ==
  /\ WorkerAt("publish")
  /\ PhaseRow(worker.job)
  /\ Step("succeed")
  /\ UNCHANGED <<disk, queue, active, request, server>>

Succeed ==
  /\ WorkerAt("succeed")
  /\ SucceedRow(worker.job)
  /\ Step("done")
  /\ UNCHANGED <<disk, queue, active, request, server>>

Fail ==
  /\ WorkerAt("failing")
  /\ FailRow(worker.job)
  /\ Step("done")
  /\ UNCHANGED <<disk, queue, active, request, server>>

\* Mutant of Deactivate: the job stays active.
DeactivateNot ==
  /\ WorkerAt("done")
  /\ worker' = LeaveJob
  /\ UNCHANGED <<row, disk, queue, active, request, server>>

\* The finally clause of _run_job.
Deactivate ==
  /\ WorkerAt("done")
  /\ active' = active \ {worker.job}
  /\ worker' = LeaveJob
  /\ UNCHANGED <<row, disk, queue, request, server>>

\* cleanup_expired selects under the lock...
SelectExpired ==
  /\ WorkerAt("cleanup")
  /\ worker' = [worker EXCEPT !.pc = "sweep",
                  !.todo = {j \in Jobs : row[j].expired /\ row[j].state \in Finished}]
  /\ UNCHANGED <<row, disk, queue, active, request, server>>

SweepEnd ==
  /\ WorkerAt("sweep")
  /\ worker.todo = {}
  /\ Step("loop")
  /\ UNCHANGED <<row, disk, queue, active, request, server>>

\* ... and deletes each job it selected without looking at it again.  A job
\* another request deleted is skipped (404); an error of the file system is
\* not caught, and ends the thread.
SweepLookup(j) ==
  /\ WorkerAt("sweep")
  /\ j \in worker.todo
  /\ worker' = CASE ~Exists(j) -> [worker EXCEPT !.todo = @ \ {j}]
                 [] Exists(j) /\ j \in dirs ->
                      [worker EXCEPT !.pc = "unlink", !.job = j, !.todo = @ \ {j}]
                 [] OTHER ->
                      [worker EXCEPT !.pc = "drop", !.job = j, !.todo = @ \ {j}]
  /\ UNCHANGED <<row, disk, queue, active, request, server>>

Die == worker' = [NoWorker EXCEPT !.pc = "dead"]

SweepUnlink ==
  /\ WorkerAt("unlink")
  /\ IF worker.job \in dirs
       THEN Unlink(worker.job) /\ Step("rmdir")
       ELSE UNCHANGED disk /\ Die
  /\ UNCHANGED <<row, queue, active, request, server>>

SweepRmdir ==
  /\ WorkerAt("rmdir")
  /\ IF Removable(worker.job)
       THEN Rmdir(worker.job) /\ Step("drop")
       ELSE UNCHANGED disk /\ Die
  /\ UNCHANGED <<row, queue, active, request, server>>

SweepDrop ==
  /\ WorkerAt("drop")
  /\ DropRow(worker.job)
  /\ worker' = [worker EXCEPT !.pc = "sweep", !.job = NoJob]
  /\ UNCHANGED <<disk, queue, active, request, server>>

WorkerStep ==
  \/ Loop \/ Take \/ GetTimeout
  \/ Begin \/ Snapshot \/ Activate \/ ReadWindows
  \/ CheckWindow \/ ReadAudio \/ WriteTemp \/ Infer \/ SaveWindow \/ CheckSaved
  \/ CheckLast \/ Diarize \/ Finalize \/ CheckFinalized \/ Publish \/ Succeed
  \/ Fail \/ Deactivate
  \/ SelectExpired \/ SweepEnd \/ (\E j \in Jobs : SweepLookup(j))
  \/ SweepUnlink \/ SweepRmdir \/ SweepDrop

----------------------------------------------------------------------------
(* The life of the process and of its disk.                                 *)

\* What the end of the process leaves behind: the database and the disk.
Forget ==
  /\ server' = "down"
  /\ queue' = <<>>
  /\ active' = {}
  /\ worker' = NoWorker
  /\ request' = [t \in Requests |-> IdleRequest]

\* The process is killed, or the power fails.
Crash ==
  /\ server # "down"
  /\ Forget
  /\ UNCHANGED <<row, disk>>

\* ... in the middle of create, after mkdir or touch and before the INSERT.
CrashInCreate(j) ==
  /\ \E t \in Requests : At(t, "create") /\ ~KeyUsed(request[t].key)
  /\ HalfMade(j)
  /\ Forget
  /\ UNCHANGED row

\* stop(): uvicorn has let the requests in flight finish.
Stop ==
  /\ server = "up"
  /\ \A t \in Requests : request[t].pc = "idle"
  /\ server' = "stopping"
  /\ queue' = Append(queue, Poison)
  /\ UNCHANGED <<row, disk, active, worker, request>>

\* Mutant of Stopped: a worker that died is waited for.
StoppedIfAlive ==
  /\ server = "stopping"
  /\ worker.pc = "off"
  /\ Forget
  /\ UNCHANGED <<row, disk>>

\* ... the worker was joined and the store closed.
Stopped ==
  /\ server = "stopping"
  /\ worker.pc \in {"off", "dead"}
  /\ Forget
  /\ UNCHANGED <<row, disk>>

\* expires_at passes.  The update that leaves queued or processing moves it,
\* and nothing reads it before.
Expire(j) ==
  /\ row[j].state \in Finished
  /\ row' = [row EXCEPT ![j].expired = TRUE]
  /\ UNCHANGED <<disk, queue, active, worker, request, server>>

\* Audio is lost or cut short while the server is down (external).
LoseAudio(j) ==
  /\ DiskFaults
  /\ server = "down"
  /\ \E left \in Absent .. (source[j] - 1) :
       source' = [source EXCEPT ![j] = left]
  /\ UNCHANGED <<row, dirs, temp, queue, active, worker, request, server>>

\* Mutant of RecoveredRow: the committed offset is believed.
RecoveredRowAsIs(j) ==
  LET r == row[j]
  IN IF r.state \notin {"none", "succeeded"} /\ source[j] = Absent THEN FailedRow(r) ELSE r

\* Mutant of RecoveredRow: a missing recording is passed over.
RecoveredRowUnfailed(j) ==
  IF Exists(j) /\ source[j] # Absent
    THEN [row[j] EXCEPT !.offset = IF source[j] < @ THEN source[j] ELSE @]
    ELSE row[j]

\* _recover_disk_offsets: what one row becomes, and what its file becomes.
RecoveredRow(j) ==
  LET r == row[j]
  IN CASE r.state = "none" -> r
       [] r.state # "none" /\ source[j] = Absent ->
            IF r.state = "succeeded" THEN r ELSE FailedRow(r)
       [] OTHER -> [r EXCEPT !.offset = IF source[j] < @ THEN source[j] ELSE @]

RecoveredSource(j) ==
  IF Exists(j) /\ source[j] > row[j].offset THEN row[j].offset ELSE source[j]

\* BatchJobStore.__init__
Open ==
  /\ server = "down"
  /\ server' = "open"
  /\ row' = [j \in Jobs |-> RecoveredRow(j)]
  /\ source' = [j \in Jobs |-> RecoveredSource(j)]
  /\ UNCHANGED <<dirs, temp, queue, active, worker, request>>

\* start(): cleanup_expired, alone in the process...
StartCleanup(j) ==
  /\ server = "open"
  /\ row[j].expired
  /\ row[j].state \in Finished
  /\ DropRow(j)
  /\ dirs' = dirs \ {j}
  /\ source' = [source EXCEPT ![j] = Absent]
  /\ temp' = temp \ {j}
  /\ UNCHANGED <<queue, active, worker, request, server>>

\* Mutant of RequeuedRow: the job starts over.
RequeuedRowAfresh(r) ==
  IF r.state = "processing"
    THEN [r EXCEPT !.state = "queued", !.total = Total, !.cancelRequested = FALSE,
                   !.expired = FALSE, !.windows = {}, !.clipped = {}]
    ELSE r

\* ... then recover_queued: what was being processed is queued again, every
\* queued job is put, and the worker starts.
RequeuedRow(r) ==
  IF r.state = "processing"
    THEN [r EXCEPT !.state = "queued", !.total = Total, !.cancelRequested = FALSE,
                   !.expired = FALSE]
    ELSE r

\* Mutant of Orders: nothing is put back into the queue.
NoOrders(S) == {<<>>}

\* SELECT without ORDER BY: the jobs of S in some order.
Orders(S) == {q \in [1..Cardinality(S) -> S] : ToSet(q) = S}

Start ==
  /\ server = "open"
  /\ \A j \in Jobs : ~(row[j].expired /\ row[j].state \in Finished)
  /\ row' = [j \in Jobs |-> RequeuedRow(row[j])]
  /\ queue' \in Orders({j \in Jobs : row[j].state \in {"queued", "processing"}})
  /\ worker' = [NoWorker EXCEPT !.pc = "loop"]
  /\ server' = "up"
  /\ UNCHANGED <<disk, active, request>>

Environment ==
  \/ Crash \/ Stop \/ Stopped \/ Open \/ Start
  \/ \E j \in Jobs : CrashInCreate(j) \/ Expire(j) \/ LoseAudio(j) \/ StartCleanup(j)

----------------------------------------------------------------------------
Init ==
  /\ row = [j \in Jobs |-> NoRow]
  /\ dirs = {}
  /\ source = [j \in Jobs |-> Absent]
  /\ temp = {}
  /\ queue = <<>>
  /\ active = {}
  /\ worker = NoWorker
  /\ request = [t \in Requests |-> IdleRequest]
  /\ server = "down"

Next ==
  \/ \E t \in Requests : ClientCall(t) \/ RequestStep(t)
  \/ WorkerStep
  \/ Environment

Spec == Init /\ [][Next]_vars

\* The operating system schedules the worker and the threads of the pool, and
\* join() returns once the worker has ended.  Nothing obliges a client to
\* call, nor a server that is down to be started again.
Fairness ==
  /\ WF_vars(WorkerStep)
  /\ WF_vars(Stopped)
  /\ \A t \in Requests : WF_vars(RequestStep(t))

FairSpec == Spec /\ Fairness

----------------------------------------------------------------------------
(* What the component promises.                                             *)

RequestPCs == {"idle", "admit", "create", "write", "commit", "probe", "enqueue", "completed", "put",
               "resume", "reopen", "requeue", "resumed",
               "remove", "unlink", "rmdir", "drop"}

WorkerPCs == {"off", "dead", "loop", "get", "begin", "snapshot", "activate",
              "windows", "check", "read", "temp", "infer", "save", "saved",
              "last", "diarize", "finalize", "finalized", "publish", "succeed",
              "failing", "done", "cleanup", "sweep", "unlink", "rmdir", "drop"}

\* The indices a window may have: the planned ones, and the few more whose
\* start is inside the recording because windows overlap.
Audible == {i \in 0 .. UploadLength - 1 : WindowStart(Geometry, i) < Duration}

Rows ==
  [key : Keys \cup {NoKey}, state : States, offset : 0..UploadLength,
   probed : BOOLEAN, total : 0..UploadLength, windows : SUBSET Audible,
   clipped : SUBSET Audible, cancelRequested : BOOLEAN, expired : BOOLEAN]

WorkerRecords ==
  [pc : WorkerPCs, job : Jobs \cup {NoJob}, total : 0..UploadLength,
   index : 0..UploadLength, completed : SUBSET Audible, whole : BOOLEAN,
   todo : SUBSET Jobs]

RequestRecords ==
  [pc : RequestPCs, job : Jobs \cup {NoJob}, key : Keys \cup {NoKey},
   from : 0..UploadLength, upto : 0..UploadLength]

\* Every variable stays in its domain.
TypeOK ==
  /\ row \in [Jobs -> Rows]
  /\ dirs \subseteq Jobs
  /\ source \in [Jobs -> Absent..UploadLength]
  /\ temp \subseteq Jobs
  /\ queue \in Seq(Jobs \cup {Poison})
  /\ active \subseteq Jobs
  /\ worker \in WorkerRecords
  /\ request \in [Requests -> RequestRecords]
  /\ server \in {"down", "open", "up", "stopping"}

\* No recording, and no window cut from one, is on disk without a row that
\* expiry or a client can still delete: not after a crash between rmtree and
\* the DELETE, nor when a window is being written while its job is deleted.
AudioHasOwner ==
  \A j \in Jobs : (source[j] > 0 \/ j \in temp) => Exists(j)

\* An offset the server acknowledged is on disk, whichever requests raced to
\* write it and wherever the process was killed.
CommittedIsOnDisk ==
  Running => \A j \in Jobs :
    Exists(j) /\ source[j] # Absent => row[j].offset <= source[j]

\* No job is lost between the row and the in-memory queue: a queued row has
\* an entry, or a request or the worker that is about to deal with it.
QueuedIsScheduled ==
  server = "up" => \A j \in Jobs :
    row[j].state = "queued" =>
      \/ j \in ToSet(queue)
      \/ worker.pc = "begin" /\ worker.job = j
      \/ \E t \in Requests : /\ request[t].job = j
                             /\ request[t].pc \in {"completed", "resumed", "put"}

\* recover_queued and the worker convert the duration of a job they find
\* processing or queued: it is never NULL there.
RunnableIsProbed ==
  \A j \in Jobs :
    row[j].state \in {"queued", "processing", "succeeded"} => row[j].probed

\* A result is assembled from every window of the recording and no other,
\* however often the job was cancelled, resumed, restarted or re-counted.
SucceededIsComplete ==
  \A j \in Jobs :
    row[j].state = "succeeded" => row[j].windows = Indices(Geometry, Duration)

\* A window that was committed is never transcribed again.
NoWindowRedone ==
  worker.pc \in {"read", "temp", "infer", "save"}
    => worker.index \notin row[worker.job].windows

\* The flag the worker polls and the state the client sees never disagree.
CancelFlagAgrees ==
  \A j \in Jobs : row[j].cancelRequested <=> row[j].state = "cancelled"

\* No cancel, resume, failure or restart loses a committed window.
CheckpointsSurvive ==
  [][\A j \in Jobs : Exists(j) /\ Exists(j)' => row[j].windows \subseteq row'[j].windows]_vars

\* A restart ends with the database and the disk in agreement, whatever was lost
\* while the server was down or half deleted when it was killed: a job has what
\* its offset says, and one without its recording is failed, never queued.
RestartAgreesWithDisk ==
  [][server = "open" /\ server' = "up" => \A j \in Jobs : Exists(j)' =>
       IF source'[j] = Absent
         THEN row'[j].state \in {"succeeded", "failed"} /\ j \notin ToSet(queue')
         ELSE row'[j].offset = source'[j]]_vars

(* With one request at a time.                                              *)

\* No result is made from a recording cut short.
SucceededHeardAll ==
  \A j \in Jobs : row[j].state = "succeeded" => row[j].clipped = {}

\* While the server runs, the committed offset only moves forward.
OffsetAdvances ==
  [][Running => \A j \in Jobs : Exists(j)' => row[j].offset <= row'[j].offset]_vars

(* Progress.                                                                *)

StaysUp == <>[](server = "up")

\* If the server stays up, a queued job is run to an end.
QueuedIsRun ==
  StaysUp => \A j \in Jobs :
    (row[j].state = "queued" /\ worker.pc # "dead")
      ~> (row[j].state \notin {"queued", "processing"} \/ worker.pc = "dead")

\* A cancelled job leaves the worker, so that it can be resumed or deleted.
CancelledStops ==
  \A j \in Jobs :
    (row[j].state = "cancelled" /\ j \in active) ~> (j \notin active)

\* stop() returns: the worker ends at its next check.
StopEnds == (server = "stopping") ~> (server = "down")
=============================================================================
