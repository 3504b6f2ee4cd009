# Formal models of nota-asr-server

TLA+ specifications of the parts of nota-asr-server that keep state and run
concurrently, model-checked with TLC on small instances, with theorems checked
by TLAPS for every value of the constants.

Work in this directory:

    tlc -workers 2 -config Races.cfg MCBatchJobs      # any run of PROJECT.json
    tlapm BatchJobsProofs.tla                         # any module with theorems

`PROJECT.json` lists the components, the runs, what every definition models
(`map`), the hazards the properties are aimed at, the disagreements found
between code and documents, and the theorems.

## The system

| Part | State | Operations | Hard behaviour |
| --- | --- | --- | --- |
| Batch jobs (`services/batch_jobs.py`, `api/batch_routes.py`) | SQLite rows and windows, `jobs/<id>/source.ogg` and `window-<i>.wav`, in-memory queue, active set, stop event | create, upload, complete, status, cancel, resume, result, delete; the worker's run of a job; expiry; start and stop | requests in a thread pool race the worker and each other between two holds of the store's lock; crash between a file and its row; retried requests |
| Window plan (`_window_count`, `_transcribe_window`, `_finalize`) | none | plan windows, choose the window that keeps an utterance | rounding, overlap longer than the stride |
| Application (`application.py`, `cli.py`) | the process | preload, start, serve, stop | what shutdown waits for |
| Model manager and backends (`services/model_manager.py`, `backends/`) | backends by alias, load errors, inference gate, captured clustering input, speaker backend | get_backend, transcribe, transcribe_window, cluster, speaker embedding | lazy loading read outside the lock, bounded concurrency, several locks, failing loads |
| Model store (`services/model_store.py`) | installed components, staging directories, markers | install, verify, status, reference | a crash between any two file operations, two installers, a changing hub |
| Speaker turns and transcript text (`backends/turn_alignment.py`, `_finalize` and `_append_without_overlap` of `batch_jobs.py`) | the lists and the text being built | chunk, merge, smooth, cut segments at turns, append | intervals that overlap, rounding to token boundaries, counting characters |
| Speaker clustering (`backends/speaker_clustering.py`) | none | cluster centers | floating point |
| Speaker samples (`backends/speaker_embedding.py`, `api/speaker_routes.py`) | temporary files | extract, analyze | short turns, the last window of a clip, margins, what may be enrolled |
| Synchronous API (`api/routes.py`, `services/audio_storage.py`) | temporary files | transcribe | cleanup on every path: refusal, failure, cancellation, a file that cannot be removed |
| Settings (`config.py`) | configuration | load, validate | four sources, relative paths, settings that change between two starts |
| Windows manager (`manager/src`) | server child, migration, download, configuration, list of models | start, stop, restart, migrate, install, poll, edit and save settings | user actions while a thread or a child works, servers it did not start, its own death |

How they interact: the HTTP routes call the batch service on pool threads
(`run_in_threadpool`), except status, cancel and result, which run on the event
loop. The service owns one worker thread, fed by a `queue.Queue`; the worker
calls the model manager for each window; the store's lock is held for one SQL
statement or transaction at a time. A restart opens the store (which repairs
offsets), removes expired jobs, requeues unfinished ones and starts the worker.
The model manager is shared by the worker and by the pool threads of the
synchronous routes; it takes paths from the model store, which other processes
(`nota-asr-server models install`) write. The Windows manager is a separate
process that talks to the server by HTTP and to its configuration and model
directories on disk.

What makes each part correct: see `hazards` in `PROJECT.json`, which gives for
each place where the code can go wrong the properties that would show it.

## Modules

| Module | What it is |
| --- | --- |
| `WindowPlan` | the geometry of processing windows, as operators |
| `WindowPlanProofs` | what they promise, proved for every plan |
| `Settings` | where settings come from and which source wins, as operators |
| `WindowRestart` | one recording, from its completion to its transcript, by a server restarted under changing settings |
| `WindowRestartProofs` | its three properties, for any settings and any number of edits and restarts |
| `BatchJobs` | the durable batch jobs: rows, disk, queue, requests, worker, crashes |
| `MCBatchJobs` | symmetry sets, a view and a promise of the documents that the code does not keep |
| `JobLifecycle` | what a client may observe of its jobs: the abstract specification |
| `BatchJobsRefinement` | `BatchJobs` implements `JobLifecycle` |
| `BatchJobsProofs` | types and safety of `BatchJobs`, what a job has heard when it succeeds, and what one client may rely on |
| `ModelInstall` | installation of components by command-line processes, and the references a server takes |
| `ComponentShelf` | what an installation promises: the abstract specification |
| `MCModelInstall` | a catalogue of two models that share a component |
| `ModelInstallProofs` | types, atomicity and verification of what is installed and served |
| `ModelLoading` | lazy loading and use of the models by the threads of a server |
| `ModelLoadingProofs` | the proofs of all its safety properties |
| `SpeakerTurns` | chunks of speech, the turns merged and smoothed from them, the speaker of a token |
| `TranscriptText` | extends it: segments cut at turns, and the text of the transcript |
| `SpeakerTurnsProofs` | the proofs of all safety properties of both: merging, smoothing, cutting, appending |
| `MCTranscriptText` | a promise of the documents about the text that the code does not keep |
| `SpeakerSamples` | what `analyze()` accepts of voice samples, as operators |
| `AudioRequests` | a request with audio and its temporary files, from the upload to the answer |
| `AudioRequestsProofs` | the proofs of its three properties |
| `ServerManager` | the Windows manager, the servers and installers it shares a machine with, and its user |
| `MCServerManager` | which of two interchangeable ports and directories comes first, what the directories hold to begin with, and which model has which components |
| `ServerManagerProofs` | its safety theorems |

### WindowPlan

Times are whole ticks. The code computes with floats; positions are integers
because the settings are whole seconds and only order and equality matter. The
boundary between two windows is a mean, so midpoints and boundaries are kept
doubled instead of halved. The operators take the geometry, a record with the
window and the overlap, as an argument: it is a constant of `BatchJobs`, and in
`WindowRestart` that of the running server. `Keeps` uses the planned end of a window where the
code uses the measured end of the decoded audio (`window.end`), which is the
planned one when the container's duration is right.

### Settings and WindowRestart

`Settings` is `Settings.from_sources()` for the three settings that decide where
jobs are kept and how recordings are cut: which `.env` is read (beside the
`server.toml` that was named, or else in the working directory), which source
wins, and against which directory a relative path is resolved. A source is a
partial function, and `Over` lays one over another. Every other setting goes through
the same layers.

`WindowRestart` follows one recording through stops and starts. Its state is the
four sources, the settings of the running server, and the job: its state, its
count of windows, and what each committed window heard. `Recovered` is
`recover_queued`, which counts the windows of a job that was being processed
anew and leaves the count of a queued one alone; `Counted` is what `complete()`
and `resume()` do. The fields `plan`, `cut` and `mixed` are history, read by no
action: whether geometries met (Findings says what happens then). Everything
around the job (requests, crashes inside a step, files) is `BatchJobs`', which
has fixed settings.

Abstractions: settings are edited while the server is down, since they are read
once at its start. `--config` and `NOTA_CONFIG_FILE` are one source (`config` of
the process environment) and name a `server.toml` by its directory, as an
absolute path. A data directory is its own path, or `Relative`, which resolves to the
directory it is resolved against. Window indices, starts and ends are
`WindowPlan`'s, for the geometry of the moment.

### BatchJobs

State: `row` is the table of jobs with the windows of each, `dirs`, `source`
and `temp` are the directories and the two kinds of files the code branches on,
`queue`, `active` and `worker` are the fields of `BatchJobService`, `request` is
what each pool thread is doing, `server` the life of the process.

One action is one hold of the store's lock, one access to the file system or
one access to the queue. A request or the worker keeps between two actions what
the code keeps in local variables, so a stale read is stale in the model:
`UploadCommit` writes the offset of the row read by `UploadCheck`, and
`CompleteQueue` updates whatever the row has become since `CompleteCheck`.
`rmtree` is two steps, emptying the directory and removing it, each of which
raises if the directory is not as it was listed.

A `create` is three steps. `CreateLookup` looks the key up, `CreateAdmit` asks for
space in later holds of the lock, and then `BatchJobStore.create` looks the key up
again and makes the directory, the file and the row in one hold: `CreateFound`,
`CreateRow`, or `CreateFails`, after which the directory and the file may be left
(`HalfMade`), as after a crash between them (`CrashInCreate`). An INSERT that
fails has no effect on the rows. No property is stated of the key: the schema
declares it unique, so no mistake of `create` could show in the rows.

Left out because nothing branches on it: phase, progress_current, progress
unit, error texts, result text. `progress_total` is kept (`total`): the worker
iterates up to it and `_finalize` compares with it. `clipped` is history: the
windows cut from a recording that was not whole. It is read by no action, so the
run `races`, which has no property about it but its type, looks at states without
it (`VIEW Unheard`).

Abstractions, and why they are sound for the properties stated:

* Time is not counted. `expired` says that `expires_at` has passed; every
  UPDATE that moves `expires_at` clears it, except the offset repair at
  startup, which does not move it either. It is only set in a state from which
  something reads it.
* Two uuid4 never collide; an identifier nobody mentions any more may be used
  again, which keeps the state space finite (`Fresh`).
* A chunk is a number of bytes. Overwriting bytes with the chunk of a retry is
  not distinguished from writing them the first time: the checksum of each
  chunk is checked before.
* `Finalize` and `Infer` succeed or fail freely. A SQL statement that fails has
  no effect; a process that dies instead (`Crash`) stands for one that fails
  where the code does not catch it.
* `MaxQueue` bounds the queue, which the code does not; `Put` waits, it never
  drops. `Stop` is not bounded.
* An expired job can be deleted at startup in one step (`StartCleanup`): the
  process is alone then.
* `LoseAudio` is the environment: a file lost or cut while the server is down
  (`DiskFaults`), which the recovery code is written for.
* A window index never reaches the byte count of the recording before it
  passes the end of the audio (`UploadAssumption`). A row reopened for upload
  counts bytes in the column a run reads as a number of windows; the
  assumption says a recording has more bytes than windows, so such a run ends
  at an empty read, as it does in the code.

### JobLifecycle

A client that sends one request at a time sees `none`, `uploading`, `queued`,
`processing`, `succeeded`, `failed`, `cancelled`. The abstract specification
says which state may follow which, that one job is worked on at a time, that a
result is never withdrawn but by deleting the job, and, with its fairness, that
work on a job ends. `Finish` allows a job cancelled while running to end as
succeeded or failed: that is what the code does (see Findings); TLC refutes an
abstract specification without it.

The refinement holds without disk faults. With them TLC shows a succeeded job
going back to queued even with one client: the audio of a queued job is lost
while the server is down, the restarted job is caught by a cancel and a resume
in the gap before it becomes active, is put twice, and `complete`'s stale
queueing revives it after the first entry succeeded.

### ModelInstall

State: the four directories of a component (`cache`, `assembled`, `dest`,
`previous`), what the hub serves (`upstream`), the place of each installing
process in `install_model` and `_install_component`. `Reference` is what a
server is given, which hashes nothing. A directory is a function from file names to contents.
The content of a file is the version it was taken from, and a digest is the
function that was hashed, so two digests are equal exactly when the files are.

One action is one file operation of `_install_component`: fetching, copying or
removing one file, creating a directory, writing the marker, renaming. `Fail`
is a kill, a full disk or a network error between any two of them; the local
variables are lost and the disk stays. Two renames (`Retire`, `Expose`) put a
component up: between them it is absent.

Abstractions: hashing a tree is one step (the tree of a lone installer does not
change meanwhile; rivals are checked for repair only, not for what they expose).
Files are written whole: a torn file has another hash, which `Damaged` files
and missing ones stand for. What was renamed before a crash is renamed after
it; the code does not fsync. `os.replace` is that of POSIX: onto nothing or an
empty directory. The licence question and the progress events are left out.

`ComponentShelf` is what a user of the store sees of a component: absent,
broken or good. Good stays good, and it becomes good from absent in one step.

### ModelLoading

State: `backend` and `loads` (the backends by alias, and how many AutoModels
were ever constructed), `failed` (`_load_errors`), the holders of the locks and
of the permits, `capture` (the last clustering input, by the thread it came
from), the speaker backend, and the local state of each thread. A backend is
`absent`, `unloaded`, `raw` (`_model` is assigned, `loaded` answers true) or
`whole` (its clustering is wrapped); `raw` is visible to others because the
fast path of `get_backend` takes no lock.

One action is one read or write of a shared field or the taking or giving back
of a lock. `Call` is a request, or the worker, entering one of the five
operations; a window without diarization is a `transcribe`. Each step that may
raise has a disjunct in which it does.

Abstractions: the `_load_lock` inside a FunASR backend is left out because
`load` is only reached under the manager's lock or with the model loaded; the
inference lock of the speaker model is left out because nothing waits inside
it. `traced`, `stored` and `trace` are the local variables of
`transcribe_window` and, for `stored`, history: the thread's own inference went
through the wrapped clustering. `Pause` lets the bounded number of calls start
over when nobody is inside the server.

### SpeakerTurns and TranscriptText

State: the regions of speech, the loop over the chunks of the last region
(`candidate`, `lastEnd`), the labelled chunks and the turns merged from them;
then the segment being heard, its tokens and the text. One action is one
iteration of a loop of the code: `OpenRegion` and `LabelChunk` of
`_camplus_chunk_intervals` with the body of `_merge_turns`, `CloseSegment` of
the loop over segments in `refine_segments_with_turns` and `_finalize`, so a
property of the turns is checked at every prefix. Smoothing, the speaker of a
token and the cut are functions of the turns.

Abstractions: regions and chunks lie on ticks, and what is computed by halving
is doubled; the 1e-4 and 0.001 tolerances of the code absorb its floating
point, which ticks do not have. Chunks are labelled in the order of their start
and end, which is that of the `sorted` in the code because the regions of the
voice activity detector do not overlap. The label of a chunk is any speaker:
`build_speaker_turns` takes the cluster of the local speaker or a prototype
that is nearer. A text is a sequence of letters and spaces; a piece of a segment
is the positions it is cut at, its speaker, and the text between (`TextOf`).
The letters up to a position are counted by `LetterCount`, where
`_surface_index_for_count` keeps a counter. One window is
modelled: the midpoint rule between windows is `WindowPlan`'s. The text of a
window without segments is not modelled.

### SpeakerSamples and AudioRequests

`AudioRequests` is one request to one of the three routes that take audio. Its
state is the place of the handler, the paths it knows, the temporary files that
exist, and what the analysis was given and returned. `Create`, `Copied`,
`CopyFails`, `CloseFails` and `CopyCancelled` are `persist_upload` (`CloseFails` is
`upload.close()` raising after the file is written); `RemoveFile` and `Respond`
the `finally` clause of the handler. `Cluster` and `Compare` let CAM++ group the clips and
match the windows in any way; from there `Analysis` (module `SpeakerSamples`)
computes what `analyze()` does: windows, turns, smoothing, merging, margins, the
dominant group, the accepted ranges and the preview.

A turn of `_speaker_turns` is known by its first window: `Starts` are the first
windows, `Begin` and `End` the boundaries, half way between the end of a window and
the start of the next. Smoothing relabels windows, turn by turn from the first;
merging is then to take `Starts` again. What is accepted is a set: nothing
depends on its order but `max()`, which keeps the first of several (`Before`).

Abstractions: times are multiples of 25 ms, in which all the constants of the
code are whole (even durations keep the halved boundaries whole); where the
code compares floats for a threshold that is met exactly, rounding could decide
otherwise. A clip is at least 3 seconds, so no window is padded. The threads
and permits behind the call are `ModelLoading`'s.

### ServerManager

State: `file` is server.toml; `edit` the settings being edited (`config` and
`port_input`), `saved` the `saved_model_root`, `listed` the aliases last said to
be installed; `store` what each directory has of each component, `made` and `used`
the directories that exist and that are not empty; `proc` the server processes,
each with the token it was given and the one it was last sent, `held` the one in
`NotaManagerApp.server`, `told` the port and the token noted in it; `external`;
`window` what the window's thread is doing; `migration`, `installers` and
`download` the background work.

The window runs one handler at a time, so a handler that does not wait is one
action. `start_server` is two: the process exists before it is put into the
job that ends with the Manager. A stop is two: asking (`BeginStop`), and, when
the child has exited or was killed, dropping the `ServerProcess`, whose `Drop`
runs `stop` again and asks a second time (`DropHeld`, in `StopServer` and in
`PollServer`). A request carries the noted token to whoever listens on the noted
port by then, or is lost (`Asked`); that server compares it with its own when it
gets to it (`Hear`, `Matches`). Servers, installers and the migration thread go
on meanwhile. The migration thread takes a step per component that is copied and
per model that is verified, and one to make way and one to rename.

An installer is a process with the steps that decide what is lost: it reads
server.toml (`ReadRoot`), verifies a component (`Check`), fills its staging
directory (`BeginFetch`), moves away what is there without looking again
(`Retire`), puts up what it assembled (`Expose`), and removes the staging
(`Sweep`). It fails, is killed or is cancelled between any two, and the disk
stays as it was; its Manager may have been told of a failure before it ends, by a
line that is no event (`GarbledOutput`), and then a second download can start
beside it. `met` is history: another installer that had checked the same
component, or a migration that was renamed onto the directory, has met this one
since it looked. `spoiled` is history too: an installer that has met the
migration has moved a component away in the migration's destination.
`ModelInstall` has the files of a component and every operation on them.

Around the Manager are servers (`ReadSettings`, `Bind`, `Leave`), the installers,
a user who may edit server.toml, start servers or install by hand, and the death
of the Manager (`Crash`) at any point.

Abstractions: a model directory has of each component nothing, a good tree or a
bad one, which the quick look of `component_status` takes for installed; verifying
is `ModelInstall`'s `Verifies`. What a lone installer exposes is good; what one
that has met another exposes may be bad, and `Expose` is onto a free place
(`os.replace` onto a directory with files raises: `InstallFails`). A component
copied while an installer replaces it may arrive bad. A copy that fails leaves the
destination as it is. Saving may fail, reading server.toml by the Manager does
not. `NOTA_MODEL_DIR` and `NOTA_PORT` are assumed unset for the children: set, they
would override the file that the Manager writes. The sixty seconds of `stop()`
may pass at any time, or not at all while the server still exits. Processes and
tokens are numbered in the order of their use, and reused when nothing holds
them. What a dead Manager had in memory is cleared (`Gone`): `Open` sets all of
it anew.

## Runs

| Run | Instance | States | Shows |
| --- | --- | --- | --- |
| `window_plan` | 1 recording of 3 to 8 ticks, windows of 2 to 4, overlaps up to 3, 2 directories, 2 edits | 5 379 196 | a transcript is whole, nothing fails for its plan, the working directory does not matter |
| `races` | 1 job of 2 overlapping windows, 2 requests, 3-byte recording in 1-byte chunks, disk faults | 1 946 597 | consistency of rows, disk and queue; checkpoints; results are complete; a restart leaves rows that agree with their files |
| `one_client` | 2 jobs that share one key, 1 request, 2 windows, with fairness | 257 430 | what one client at a time may rely on: refinement of `JobLifecycle`, queued jobs run, cancelled jobs stop, stop() returns |
| `install` | 2 components, 2 files each, 1 installer, 2 mishaps, damaged starts | 188 040 | refinement of `ComponentShelf`, a server is given verified components, a retry succeeds |
| `rivals` | 1 component, 2 installers, damaged starts | 555 845 | nothing two installers leave behind blocks a later one |
| `loading` | 2 threads, 2 models, 1 permit, with fairness | 374 283 | loaded once, own traces, few speaker models, every call returns |
| `transcript` | up to 3 regions of speech, 2 speakers, 3 letters | 173 199 | turns in order, all speech with a speaker, segments cut without loss at the right tokens |
| `audio_requests` | 1 request, up to 2 samples of 3.5 to 8.75 s | 1 594 024 | no file stays, only what matches is enrolled, the preview is part of it |
| `server_manager` | 2 ports, 2 directories, 1 model of 1 component, 2 servers, 2 installers, 4 commands and accidents | 899 489 | no server is abandoned or stopped by mistake, a good component is lost only where installers or a migration meet, a migration is verified, Exit ends |
| `worker_death`, `recording_truncated`, `text_lost` | smallest instance that shows it | | see Findings |

Bounds. One job suffices for every safety property of `BatchJobs` but those
about sharing, because actions of different jobs meet only in the queue, the
worker and the key table, which `one_client` covers with two jobs that share a
key: the second is created when the first was deleted, perhaps with its entry still
queued or its run not over; that jobs which exist at once do no harm is proved. Two requests
suffice to make any stale snapshot: a third would only interleave a third stale
write of the same kinds; that it does no harm is proved (`BatchJobsProofs`). Two windows with an overlap give a
first, a last, a resumed and a superfluous index. A recording uploaded byte by
byte gives an offset before, at and after each chunk. One queue entry lets an
entry wait behind the job being run, for that job or for the other, if one of
them was deleted: no run has two live jobs in the queue.

In `window_plan` the windows of 2 and 4 ticks with overlaps of 0, 1 and 3, and
the default of 3 and 1, give strides from 1 to 4 and an overlap longer than the
stride; the recordings end within, at the end of and one tick after a window.
Two edits change the window and the overlap together, or one of them back, or
where the settings come from. Every geometry, and any number of edits, is
covered by `WindowPlanProofs` and `WindowRestartProofs`.

Two components, one pinned by the catalogue and one not, shared by two models,
give a component to skip and one to install; two files, one of them required,
give every partial copy and a file whose loss the cheap check does not see.
`MaxMishaps` = 2 lets a retry fail where the first attempt did. Two threads
and one permit put one inside the gate and one waiting or loading; that more
permits do no harm is proved (`ModelLoadingProofs`), and only `Answered` rests
on the instance. `MaxCalls` bounds the calls of one busy period, not of the
behaviour.

A chunk of four ticks shifted by two and regions of one, five and seven ticks
give a region without a whole chunk, one whose last chunk is moved back so that
three chunks overlap, and one with whole chunks in between; three regions with
and without silence give a short turn at either end, in the middle and next to
another. Tokens with and without extent, and with and without a pause, begin
before, at and after a change of speaker. Three letters, with a space before
each or not, are enough for a cut after a space; `MaxOverlap` of two for a
repetition shorter than the text, as long as it and longer than the bound.

The samples of `audio_requests` have a clip of one turn that is just long enough,
clips whose last window is moved back by less and by more than half of itself
(5.5 and 5.75 s), one that is long enough to be cut in three by windows that do
not match and still be enrolled, and one of which the preview is shorter than
what is enrolled. Two samples form one group or two, of equal or of different
lengths. More samples and every even duration are covered by `AudioRequestsProofs`.

Four commands in `server_manager`, with opening the Manager and everything that
processes do by themselves not counted, are enough for each of the sequences its
properties are about: starting a server, taking it down, starting another on its
port and stopping; choosing a directory, migrating, installing there and killing
that installer; or two installers and an accident to either. Two ports and two
directories are interchangeable (`MCInit` fixes the first of each). The first
directory begins with a component that is good or damaged, and loses it when a
replacement is interrupted; the second is empty at first, as it must be to migrate
there, and not there once a migration has removed it. What users do
beyond that, any number of components and directories with anything in them are
covered by the theorems (`ServerManagerProofs` proves them for every
`MaxCommands`).

Fairness (`Fairness`). The worker thread, the pool threads and the thread that
joins the worker are scheduled by the operating system, and none waits for a
condition that comes and goes, so weak fairness of each is what the code has.
No client is obliged to call, no server to be restarted, nothing to expire or
crash. `GetTimeout` (60 s without an entry) is the worker's own step.
`QueuedIsRun` is stated for a server that stays up with its worker alive: the
worker can die (finding `worker_death`).

In `install` and `rivals` each installer is its own fairly scheduled process;
no operator is obliged to start one. `AnInstallationSucceeds` is conditional on
no more mishaps, the hub serving what the catalogue pins and no rival starting:
under these the code must end, whatever is on the disk. In `loading` each
thread inside a call is scheduled (weak fairness). No lock is assumed to be fair, as Python's are not:
in a busy period without end a thread could wait for ever, so the property is
checked for busy periods of at most `MaxCalls` calls.
In `server_manager` only the handlers of the window run to their end; nothing is
assumed of servers, installers, the migration or the user, so `ExitEnds` rests
on the timeout of `stop()` alone.

## Findings

Three are runs TLC refutes, of a statement in the documents:

* `worker_death`: "Jobs that are not acknowledged are removed after
  `NOTA_BATCH_JOB_RETENTION_SECONDS`" (docs/operations.md). A DELETE racing the
  sweep's `rmtree` ends the worker thread, and with it every later sweep.
* `recording_truncated`: recordings "survive normal restarts" (README.md). A
  delayed duplicate upload lowers the committed offset of a complete recording,
  and the next start truncates it.
* `text_lost`: the refinement of segments "never discards transcript text"
  (docs/model-strategy.md). `_append_without_overlap` takes a piece that begins
  like the text ends for a repetition: when one speaker ends and the next
  begins with the same word, the text has it once. The segments keep both.

Met while modelling, and part of the models as the code has them:

* A cancel committed after the worker's last `_cancelled()` is overwritten by
  `succeed` or `fail` (batch_jobs.py:1085); `JobLifecycle!Finish` allows it.
* The sweep deletes the jobs it selected without looking again whether they are
  still expired (batch_jobs.py:733).
* A duplicate `complete` requeues a job that has succeeded in the meantime
  (batch_jobs.py:986): a result goes away for a while. `ImplementsLifecycle`,
  which forbids it, therefore holds for one request at a time.
* `reference()` believes the marker (model_store.py:244): a component damaged
  after its installation is served. `ServedIsVerified` says that this is the
  only way.
* Two installers of one component share its staging directories
  (model_store.py:382): one can expose what the other has changed after it was
  hashed. `ExposedIsVerified` is for one installer at a time.
* After a crash between the second rename and the removal of the staging area
  the cache stays, because the next installation skips the verified component
  (model_store.py:289).
* Between funasr_backend.py:99 and 101 a request on the fast path of
  `get_backend` is given a model whose clustering is not wrapped yet: its window
  gets no trace of its own, and a short recording the upstream clustering.
  The theorem `RawOnlyMeanwhile` confines it to the loading itself.
* Two adjacent turns shorter than 0.7 seconds exchange their speakers
  (turn_alignment.py:390 reads the turns as merged), where ADR 0010 has short
  turns absorbed into the nearest stable speaker. `AbsorbedByNearest` is about
  short turns between stable ones.
* A segment that begins with a word the text happens to end with is appended
  without a separator: "hello" and "hello world" become "helloworld"
  (batch_jobs.py:1353).
* With `max_concurrent_inferences` above one, as many CAM++ models can be built
  (model_manager.py:158); with the default of one, it is one
  (`VoicesBounded`).
* `recover_queued` counts the windows anew for jobs that were being processed
  only (batch_jobs.py:659). A job that was queued when the server stopped keeps
  its count, and is cut under the new settings: with a smaller window it
  succeeds without the end of the recording; with a larger one it fails for an
  empty read. Committed windows of the old geometry are combined with new ones,
  which can leave a gap or fail with too many windows, and stays so after a
  `resume`. README.md has recordings survive normal restarts, ADR 0005 and
  architecture.md that work continues at the last window; none of them says that
  the settings must stay. `TranscriptIsWhole` and `PlanIsFeasible` are about
  every other job.
* The default data directory is relative to the working directory even with an
  explicit server.toml, and so is a relative one in the process environment
  (config.py:252): started elsewhere, the server does not find its jobs.
* `_smooth_short_turns` relabels turns below 0.7 seconds
  (speaker_embedding.py:355). When the last window but one of a clip does not
  match, its turn can be that short, as the last window is moved back: a clip
  of 5.5 seconds is then enrolled from 0.25 to 5.25, with audio of a
  window that does not sound like the speaker. ADR 0008 has short turns rejected, and
  api-contract.md boundary-spanning windows not enrolled. `EnrolledIsStable`
  confines it to the last two windows of a clip.
* `persist_upload` removes its file in `except Exception` (audio_storage.py:68),
  which a cancellation is not; if `upload.close()` raises in its `finally`
  (audio_storage.py:72) after the file was written, nobody is told the path; the
  loop over several files (speaker_routes.py:239) ends at the first that cannot be
  removed.
  `NothingLeft` is about every other end.
* The Manager asks the server to stop on the port it noted at the start
  (process.rs:90). If server.toml or `NOTA_PORT` said another one, or the model is
  still loading, the request reaches nobody, and the server is killed after sixty
  seconds, during which the window does not react.
* During a migration the Manager can start a server, save other settings
  or use the new directory at once; "the configuration has not changed"
  (main.rs:273) is then not true, and the rest of what is being edited is saved
  with the migration (main.rs:266), whose success is reported even if saving
  failed. Starting a migration does not look for a running download. A
  migration that fails leaves its staging directory.
* An installer moves the installed component aside on the strength of a check it
  made before the download (model_store.py:289, 391). Alone, killed between the two
  renames, it leaves a component that did not verify absent instead of damaged;
  with another installer, or when a migration is renamed onto its directory while
  it downloads, it can take away a good one. `ModelsKept` confines the loss of a
  good component to these meetings, `SwitchIsVerified` is about a migration that
  no such installer spoils.
* A line of an installer's output that is no event ends the thread that reads it
  (cli.rs:134): the window shows a failed download, its `CliTask` is dropped, and
  the installer goes on, out of reach of its Cancel. The next download is then a
  second installer.
* A stop asks twice: `Drop` runs `stop` again (process.rs:105), also when
  `poll_server` drops a child that exited by itself. The second request goes to
  whoever has the port by then; the token keeps it from stopping that server
  (`OnlyHeldIsAsked`).
* A `create` that fails after its mkdir leaves the directory (batch_jobs.py:258;
  the `rmtree` at 291 covers the INSERT alone, and ignores its own errors).
  Nothing removes a directory without a row.
* A download goes on when the Manager exits or dies: only the server is in a
  job. A hand edit of server.toml since the last reload is overwritten by the
  next save.

## Proofs

`WindowPlanProofs`: for every window length, overlap below it and positive
duration, `CountBounds`, `PlanCovers`, `KeptOnce`, `KeeperHears`: what makes a
transcript whole under one geometry. The argument: starts are a stride apart and
a stride is at most a window, so consecutive windows touch; the ceiling makes
the last one reach the end; boundaries ascend, so exactly one index lies
between its two boundaries.

`WindowRestartProofs`: all three properties of `window_plan`, for any
settings, directories, recordings and number of edits. `RestartInvariant` has
two halves. `SourcesInv` says that each source gives a setting a value of its
kind; with it the settings of a start are numbers, so that `validate()` leaves
a geometry. `JobInv` ties the job to its history: its count is that of
the geometry it was counted under, and unless geometries met (`Unmixed`) every
committed window is the planned one of that geometry, below the count, and the
server that runs has it too. Then `FeasiblePlans` is a conjunct, and a finished
job has exactly the planned windows, of which `WindowPlanProofs` says the rest
(`WholeTranscripts`). The settings a start reads are compared layer by
layer for `DirectoryIgnored`.

`BatchJobsProofs`: `TypeCorrect`, for any number of jobs, keys and concurrent
requests and any recording. `TypeOK` is not inductive, because a request or the
worker that acts on a row must hold a job and a window index within bounds;
`TypeInv` adds that each thread past its first step holds a job, that the
worker's index is below its total while it transcribes, and that it is the
index of an audible window once the audio was read. The module first says in
one lemma per UPDATE what the statement leaves alone (`QueueRowEffect` ...), so
that no later proof opens a row.

Seven safety properties, six of them checked by the run `races`, follow from two summaries of a step.

* `RowMove` says what a step may do to the key, the state, the cancel flag, the
  probe and the windows of one row; `RowMoves` proves it of every step. From
  it: `CancelFlag`, `Checkpoints` (an action property) and, with
  `ProbedInv` (the job of a running worker stays probed), `Probed`.
* `ThreadMove` says which jobs the threads and the queue may take up. With it
  `FilesInv` is inductive: a file implies a directory; audio implies a row; a
  job some thread holds has a row or has no directory; a thread that emptied a
  directory sees no recording appear in it, one that removed it sees no
  directory appear; a thread about to commit an offset has written it; the
  committed offset is within the file. `AudioOwned` and `CommittedOnDisk` are
  parts of it. The middle conjuncts are what makes the first two inductive:
  the window the worker writes into a directory being deleted is why they are
  needed.
* `NothingForgotten` is inductive over the types alone: each place that takes
  an entry off the queue or leaves a row queued hands it to the next.
* `RestartAgrees` (an action property) needs one more fact, of the moment after
  `Open`: every row was compared with its file, and the start only removes expired
  jobs and requeues, so what was failed is not put and what is put has the file
  its offset says.

`ResultComplete` and `NoneRedone`: `set_phase` overwrites
`progress_total`, so the count the worker goes by can be the length of an upload
or 1. `RowsInv` says that it is 1 only when every planned window is committed,
and that a succeeded job has exactly the planned windows; `RunInv` follows the
worker through its loop: while the job exists, it has left no window behind
(`0 .. index - 1` are committed) and the only committed windows ahead are those
it read at the start. A count too large does no harm because an index past the
plan is an empty read (`UploadAssumption`). `Outside` summarises what every step
but the worker's may do to the windows and the count of a row: nothing, delete
the row, or recount it; no request can give a row windows. Requests that delete
or cancel under the worker are why `RunInv` is conditional on the row.

`FollowsLifecycle`, `HeardAll` and `OffsetsAdvance` assume a client that sends
one request at a time (`OneClient`) and that no audio is lost or cut while the
server is down (`~DiskFaults`), as the run `one_client` does; with either left
out TLC refutes them (Findings, and `recording_truncated`). They hold for any
number of jobs, any chunks and any crashes. `OneInv` strengthens the invariants
above by what a lone client changes. A row is as its request read it until that
request writes it, but for what the worker does to it (`CallSound`); so an
offset is never ahead of its file and only complete recordings are probed
(`RowClean`). The job of the worker stays processing, queued or cancelled until
the worker ends it, and once the worker has made it active no resume is let
through: one that slips into the gap before is over by the time the worker has
anything to transcribe (`WorkSound`, and the places of a resume in `CallSound`).
`FollowsLifecycle` maps each action to an action of `JobLifecycle` or to none:
the update of begin_processing to `Begin`, the update that ends a run to
`Finish`, every other way out of the run, a crash included, to `Abandon`, the
start to `Recover`; uploads, windows, files and the queue stutter. That the
work ends, the fairness of `ImplementsLifecycle`, stays with TLC.

`ModelInstallProofs`: `TypeCorrect` holds for any number of installers. The
other three assume `Exclusive`: one installer at a time. Their
invariant `SafeInv` says that at most one installer is at work (`OneAtWork`) and
what it knows of its component at each place (`Knows`): until it is done nothing
installed verifies; the copy has no marker until it was checked; the digest kept
for the marker is the copy's; what is about to be renamed verifies; before the
last rename the destination is free. `OnlyVerifiedExposed` and `Atomic` are read
off at `Retire` and `Expose`. `ServedVerified` needs `CleanInv`: whatever is
installed verifies, or has decayed since.

`ModelLoadingProofs`: six safety properties, for any number of threads,
models and permits. The inductive invariant has four parts besides the types.
`LoadInv` ties the load lock to the one thread between `Lock` and `Unlock` and
to the state of the backend it works on; from it come `OneLoad`,
`RawOnlyMeanwhile` and `Readiness`. `TraceInv` says whose input a capture may
be while a traced thread holds the inference lock. `GateInv` says that the
threads in an inference are in the gate and, as long as the speaker field is
empty, so is every thread that built a speaker model or is about to: the
cardinality of the gate then bounds them, and once the field is set no further
thread builds one, except those already inside.

`SpeakerTurnsProofs`: the four safety properties of the turns that `transcript`
checks, and their types, for every length and shift of the chunks (a shift below
the length) and any regions.
The invariant `TurnsInv` adds to the types where the last chunk of a region lies
(`LoopInv`), that no chunk begins or ends after the last (`LatestInv`), and that
the last turn ends with the last chunk and begins before its centre
(`MergeInv`); without the last part a cut could fall before the start of the
turn it shortens. `MergeTurnMerges` says once what `MergeTurn` returns: turns in
order in which everything before the boundary keeps its speaker and the rest of
the chunk gets the chunk's. Chunks that overlap are equally long, so the
boundary, the middle of the overlap, is where the two centres are equally near:
`StepNearest` extends `NearestInv` by one chunk from that. `CoverInv` says that
the chunks reach what was opened of the regions, that and no more, and that no
merged turn bridges a silence; `SpeechIsGiven` is read off when the chunks of the
last region are done. Smoothing relabels turns and merges by a recursive
function over the list. `SmoothInOrder` says what it returns: turns in order
that cover what the list covers, each moment with the adjusted speaker of its turn.
The induction theorems of the library cannot be instantiated, so the induction
over the list is one over a set of numbers with 0 and the successor of each
member, which the least number of its complement refutes.
`SmoothedInOrder` and `ShortAbsorbed` follow.

The same module proves of `TranscriptText`, for any letters, segments, tokens and
repetitions: its types, `SegmentsReproduced` (`PiecesReproduce`), and three facts
no run states.
The invariant `TextInv` adds to that of the turns that a segment being heard
belongs to the next region (`WordsInv`), and that its tokens lie in that region,
are no more than its letters and, when they are as many, each is the letter of its
position (`TokensInv`). Three arguments carry `SegmentsReproduced`.

* Counting: `Compact` takes no letter twice, so `LetterCount` grows by one at
  each letter and stays at a space; each count up to the number of letters is
  that of exactly one letter, and it is the position `SurfaceIndexForCount`
  chooses. Positions ascend with counts.
* Cutting: `Cutting` is the invariant of the loop over the tokens. The pieces so
  far are adjacent from 0 to the surface of token e, each token up to e lies in
  a piece of its own speaker, and the tokens after e have one speaker. At the last
  token the pieces reach the end of the text.
* Whose token it is: `Best` is the invariant of the search for the turn with
  the longest overlap, the first among equals. A token lies in its region, and
  all of the region was given to somebody (`SpeechIsGiven`): it shares time
  with a turn, or has no extent and lies in one. So no token of a complete
  segment falls back.

Appending: `Strip` keeps every letter, and an overlap is an end of the transcript
that the piece begins with; so the letters of the stripped piece end the new
transcript whether or not some were left out as a repetition, and what
was there before is not touched. From it `TextStays` (a step only extends the transcript) and
`PiecesAreRead` (once a segment is in, the letters of each of its pieces can be read
in the transcript, one after another). They bound the finding
`text_lost`: what is taken for a repetition of the tape may be a word that
was said twice, and then it is written once, but no piece becomes unreadable.
`WordingKeepsTurns` says that refining and appending leave the turns alone, so
that the theorems about `SpeakerTurns` hold of `TranscriptText`.

`AudioRequestsProofs`: the three properties of `audio_requests`, for any number
of samples between 3 and 12 seconds, any grouping and any outcome of the
comparisons. `NoneLeft` rests on the handler knowing, until it removes them, each file on
the disk but the one being copied, and none of them twice (`PathsInv`, `FilesInv`).
`WorkInv` says that what was analysed is still what the analysis was made of,
with every window compared; the rest is about `Analysis`. In a clip of n windows
they start 30 ticks apart but for the last, which ends with the clip
(`WindowIs`), so a turn is shorter than `ShortTurn` only if it is the last window but
one (`LongStays`): smoothing leaves all labels as they were except
that one (`SmoothedIs`). By the margins each moment of what is left of a
matching turn is then in a window of that turn that matches (`RangeHeard`), and
in no window of another turn but the last two of the clip (`RangeClear`); two turns
are apart by two margins (`RangesApart`). `StableIsEnrolled` puts
these together. For `PreviewEnrolled` the `CHOOSE`s need a witness: there is a
dominant group because (audio, clips, label) is a strict total order
(`DominantIs`), and a longest turn because no two of one clip start together
(`LongestIs`); the longest stable turn is long enough to be enrolled if any is.

`ServerManagerProofs`: all four safety properties of `server_manager`, and the
types, for any number of servers, directories, components, models, ports,
installers, tokens and commands. The invariant `SafeInv` has, besides the types of
each group of variables, five parts. `WindowInv` ties `held` to the window: while
it stops or assigns there is a server to stop, and a server that is held is in the
job, except between the spawn and the assignment, which is the one exception of
`NeverAbandons`. `TokenInv` says where a token can be: no two servers have the
same, the Manager has noted that of the server it holds, and a request under way
carries that of the server being stopped, or one that no living server has;
`OnlyHeldAsked` is read off when the tokens are compared. It has to hold across
the drop of a server, whose token is still sent while the server is already gone,
and across a spawn, which draws a token nobody has.
`WorkInv` follows the installers: what one that has met nobody found not to verify
is still not good, two at work on one component have both met, and their
directories are not empty; `Kept` is then a matter of `Retire` and `Expose`.
`StoreInv` says that a directory with components exists and is not empty, since
only an empty directory is removed or renamed onto. `MigrationInv` says what the
migration has done at each place: the source exists, and, unless it was spoiled,
the aliases no longer to be verified are good in the destination;
`SwitchVerified` is read off at `PollMigration`. `ExitEnds` is liveness.

The assumptions are those of the modules: `JobAssumption`, `UploadAssumption`,
`WindowAssumption`, `SettingsAssumption`, `RestartAssumption`,
`InstallAssumption`, `TreesAssumption`, `LoadingAssumption`, `TurnsAssumption`,
`TextAssumption`, `RequestAssumption`, `ManagerAssumption`; and, in the statement of the theorems
that need them, `OneClient`, `~DiskFaults` and `Exclusive`.

Only model-checked: liveness (`QueuedIsRun`, `CancelledStops`, `StopEnds`,
`AnInstallationSucceeds`, `Answered`, `ExitEnds`, and the fairness in
`ImplementsLifecycle`), which with ENABLED is beyond the prover. Every other
property of a passing run is a theorem. What the three runs with a violation refute
is, of course, only found by TLC.

## Not modelled

* Numerical work: recognition, embeddings, clustering, prototypes. Where its
  outcome decides something, the models allow every outcome.
* Disk admission (`_require_free_disk`, `reserved_upload_bytes`). The code
  compares what is free with what other uploads reserved, outside the lock that
  inserts the new reservation, and `complete()` and `resume()` do not compare
  with the reservations of others: concurrent creates can all be admitted. No
  document promises more than a check, so there is no property to state; a disk
  that is full is an error of a write, which the models of the jobs and of the
  store allow everywhere.
* The listing of expired jobs that is acted on later (batch_jobs.py:733): the
  model has it, no property survives it (Findings).
* Hotwords, the displayed phase and progress, error texts, response formats,
  authentication: no state, or nothing branches on it.
* The Manager's logs, autostart entry and uninstaller, and its drawing.
* `scripts/`, `examples/` and deployment files: sequential tools around the
  server.

## Plan

Done: `WindowPlan` with `Settings` and `WindowRestart`; `BatchJobs` with
`JobLifecycle`; `ModelInstall` with `ComponentShelf`; `ModelLoading`;
`SpeakerTurns` and `TranscriptText`; `SpeakerSamples` and `AudioRequests`;
`ServerManager`; and the theorems listed in `PROJECT.json`.

What would come next: what the trace of a later window adds to the turns; the
text of a window without segments.
