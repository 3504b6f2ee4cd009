--------------------------- MODULE WindowRestart ---------------------------
(***************************************************************************)
(* One recording, from its completion to its transcript, by a server that  *)
(* is stopped and started under settings that may have changed: how many   *)
(* windows the job counts, which are committed, and what they hear.        *)
(* BatchJobs has the same job with fixed settings and everything around it.*)
(***************************************************************************)
EXTENDS Settings, WindowPlan, FiniteSets

CONSTANTS
  Durations,    \* lengths of the recording
  Windows,      \* values of batch_window_seconds
  Overlaps,     \* values of batch_window_overlap_seconds
  Unset,        \* an edit that takes a setting away
  Down,         \* the server is not running
  MaxEdits      \* bound on the edits

\* A recording is not empty.  What an edit gives a setting parses as a number;
\* whether the number makes sense is for validate() to say.
ASSUME RestartAssumption ==
  /\ Durations \subseteq Nat \ {0}
  /\ Windows \subseteq Int /\ Overlaps \subseteq Int

VARIABLES
  environ, dotenv, toml, cwd,  \* the sources of settings
  running,                     \* the Settings of the server, or Down
  duration,                    \* of the recording
  job,                         \* its row, and its windows
  edits                        \* edits made so far

vars == <<environ, dotenv, toml, cwd, running, duration, job, edits>>
sources == <<environ, dotenv, toml, cwd, edits>>

Geometry(s) == [window |-> s.window, overlap |-> s.overlap]
NoGeometry == [window |-> 0, overlap |-> 0]

\* windows[i] is what window i heard.  The rest is history: the geometries
\* under which the windows were counted (plan) and cut (cut); and mixed, whether
\* windows of two geometries met, or a queued job was taken up under another
\* geometry than it was counted for.
NoJob == [state |-> "none", data |-> Relative, total |-> 0, windows |-> Nothing,
          plan |-> NoGeometry, cut |-> NoGeometry, mixed |-> FALSE]

\* Under s, what is committed would meet windows of another geometry.
Meets(s) == DOMAIN job.windows # {} /\ job.cut # Geometry(s)

\* The server that is running has the job in its store.
Known(states) == running # Down /\ job.state \in states /\ job.data = running.data

Goto(state) == job' = [job EXCEPT !.state = state]
Stays == UNCHANGED <<sources, running, duration>>

-----------------------------------------------------------------------------
(* Settings *)

With(source, name, value) ==
  IF value = Unset THEN [n \in DOMAIN source \ {name} |-> source[n]]
                   ELSE Over([n \in {name} |-> value], source)

Values(name) ==
  CASE name = "window" -> Windows
    [] name = "overlap" -> Overlaps
    [] name = "data" -> Dirs \cup {Relative}
    [] name = "config" -> Dirs

\* Settings are read when the server starts: it does not matter when, before
\* that, they were edited.
Edit ==
  /\ running = Down /\ edits < MaxEdits
  /\ edits' = edits + 1
  /\ \/ \E name \in {"window", "overlap", "data", "config"} :
          \E value \in Values(name) \cup {Unset} :
            /\ \/ environ' = With(environ, name, value) /\ UNCHANGED <<dotenv, toml>>
               \/ \E d \in Dirs : /\ dotenv' = [dotenv EXCEPT ![d] = With(@, name, value)]
                                  /\ UNCHANGED <<environ, toml>>
               \/ \E d \in Dirs : /\ name # "config"
                                  /\ toml' = [toml EXCEPT ![d] = With(@, name, value)]
                                  /\ UNCHANGED <<environ, dotenv>>
            /\ UNCHANGED cwd
     \/ /\ cwd' \in Dirs
        /\ UNCHANGED <<environ, dotenv, toml>>
  /\ UNCHANGED <<running, duration, job>>

-----------------------------------------------------------------------------
(* The job *)

\* queue, resume and recovery count the windows anew; what is committed stays.
Counted(s) ==
  [job EXCEPT !.state = "queued",
              !.total = WindowCount(s, duration),
              !.plan = Geometry(s),
              !.mixed = @ \/ Meets(s)]

TakenUp(s) == [job EXCEPT !.mixed = @ \/ (job.state = "queued" /\ job.plan # Geometry(s))]

\* Mutant of Recovered: a job that was being processed keeps its count.
RecoveredAsIs(s) ==
  IF job.state = "processing" THEN [job EXCEPT !.state = "queued"] ELSE TakenUp(s)

\* recover_queued counts the windows of a job that was being processed; a
\* queued one keeps its count.
Recovered(s) == IF job.state = "processing" THEN Counted(s) ELSE TakenUp(s)

\* Only valid settings let the server start.
Start ==
  /\ running = Down
  /\ LET s == FromSources(environ, dotenv, toml, cwd)
     IN /\ Valid(s)
        /\ running' = s
        /\ job' = IF job.data = s.data THEN Recovered(s) ELSE job
  /\ UNCHANGED <<sources, duration>>

Stop ==
  /\ running # Down
  /\ running' = Down
  /\ UNCHANGED <<sources, duration, job>>

\* create, upload and complete
Complete ==
  /\ running # Down /\ job.state = "none"
  /\ job' = [Counted(running) EXCEPT !.data = running.data]
  /\ Stays

Cancel == Known({"queued", "processing"}) /\ Goto("cancelled") /\ Stays

Resume == Known({"cancelled", "failed"}) /\ job' = Counted(running) /\ Stays

\* begin_processing
Begin == Known({"queued"}) /\ Goto("processing") /\ Stays

Missing == (0 .. job.total - 1) \ DOMAIN job.windows

\* _transcribe_window and save_window, of the first window that is missing;
\* an empty read fails the job.
TranscribeWindow ==
  /\ Known({"processing"})
  /\ \E i \in Missing :
       /\ \A j \in Missing : i <= j
       /\ job' = IF WindowStart(running, i) < duration
                   THEN [job EXCEPT !.windows = Over([n \in {i} |-> Window(running, i, duration)], @),
                                    !.cut = Geometry(running),
                                    !.mixed = @ \/ Meets(running)]
                   ELSE [job EXCEPT !.state = "failed"]
  /\ Stays

\* _finalize wants as many windows as were counted.
Finalize ==
  /\ Known({"processing"}) /\ Missing = {}
  /\ Goto(IF Cardinality(DOMAIN job.windows) = job.total THEN "succeeded" ELSE "failed")
  /\ Stays

Init ==
  /\ environ \in {Nothing} \cup [config : Dirs]
  /\ dotenv = [d \in Dirs |-> Nothing]
  /\ \E w \in Windows, o \in Overlaps :
       toml = [d \in Dirs |-> [window |-> w, overlap |-> o]]
  /\ cwd \in Dirs
  /\ running = Down
  /\ duration \in Durations
  /\ job = NoJob
  /\ edits = 0

Next ==
  Edit \/ Start \/ Stop \/ Complete \/ Cancel \/ Resume \/ Begin \/ TranscribeWindow
    \/ Finalize

Spec == Init /\ [][Next]_vars

DirSymmetry == Permutations(Dirs)

-----------------------------------------------------------------------------
(* Properties *)

\* However often the server was restarted, a transcript keeps every utterance
\* once, from a window that heard it, unless windows of two geometries met in
\* it or a queued job was started under another geometry than it was counted
\* for (_window_count, recover_queued, _transcribe_window, _finalize).
TranscriptIsWhole ==
  job.state = "succeeded" /\ ~job.mixed =>
    \A mid \in 0 .. 2 * duration - 1 :
      /\ \E i \in DOMAIN job.windows : Keeps(job.windows, i, mid) /\ Hears(job.windows, i, mid)
      /\ \A i, j \in DOMAIN job.windows :
           Keeps(job.windows, i, mid) /\ Keeps(job.windows, j, mid) => i = j

\* Neither an empty read nor a window too many or too few fails a job, but for
\* the same exceptions.
PlanIsFeasible == job.state = "failed" => job.mixed

\* With an explicit server.toml, what it or the .env beside it says does not
\* depend on where the server is started (docs/operations.md): jobs are found
\* again, and cut as before, unless the data directory is left to the default or
\* is a relative path in the process environment.
WorkingDirectoryIsIgnored ==
  LET Beside(name) == Sets(toml[environ.config], name) \/ Sets(dotenv[environ.config], name)
  IN Sets(environ, "config") /\ Beside("data") /\ ~Sets(environ, "data") =>
       \A d \in Dirs :
         FromSources(environ, dotenv, toml, d) = FromSources(environ, dotenv, toml, cwd)
=============================================================================
