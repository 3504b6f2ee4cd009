------------------------ MODULE WindowRestartProofs ------------------------
(***************************************************************************)
(* Theorems about WindowRestart and Settings, for any sources of settings  *)
(* and any edits of them, any recording, and any stops and starts.         *)
(***************************************************************************)
EXTENDS WindowRestart, WindowPlanProofs, FiniteSetTheorems

-----------------------------------------------------------------------------
(* The sources of settings *)

\* The settings of a source that are read before they are validated.
IsSource(source) ==
  /\ Sets(source, "window") => source.window \in Int
  /\ Sets(source, "overlap") => source.overlap \in Int
  /\ Sets(source, "config") => source.config \in Dirs

SourcesInv ==
  /\ cwd \in Dirs
  /\ IsSource(environ)
  /\ dotenv = [d \in Dirs |-> dotenv[d]] /\ \A d \in Dirs : IsSource(dotenv[d])
  /\ toml = [d \in Dirs |-> toml[d]] /\ \A d \in Dirs : IsSource(toml[d])

LEMMA Layered ==
  ASSUME NEW f, NEW g, NEW x
  PROVE  /\ Sets(Over(f, g), x) <=> Sets(f, x) \/ Sets(g, x)
         /\ Sets(f, x) => Over(f, g)[x] = f[x]
         /\ ~Sets(f, x) /\ Sets(g, x) => Over(f, g)[x] = g[x]
  BY DEF Over, Sets

LEMMA WithIsSource ==
  ASSUME NEW source, IsSource(source),
         NEW name \in {"window", "overlap", "data", "config"}, NEW value \in Values(name) \cup {Unset}
  PROVE  IsSource(With(source, name, value))
  <1> DEFINE new == With(source, name, value)
  <1>1. CASE value = Unset
    <2>1. new = [n \in DOMAIN source \ {name} |-> source[n]]
      BY <1>1 DEF With
    <2> QED  BY <2>1 DEF IsSource, Sets
  <1>2. CASE value # Unset
    <2>1. new = Over([n \in {name} |-> value], source)
      BY <1>2 DEF With
    <2> HIDE DEF new
    <2>2. /\ Sets(new, "window") => (name = "window" /\ new["window"] = value)
                                    \/ (Sets(source, "window") /\ new["window"] = source["window"])
          /\ Sets(new, "overlap") => (name = "overlap" /\ new["overlap"] = value)
                                     \/ (Sets(source, "overlap") /\ new["overlap"] = source["overlap"])
          /\ Sets(new, "config") => (name = "config" /\ new["config"] = value)
                                    \/ (Sets(source, "config") /\ new["config"] = source["config"])
      <3> DEFINE one == [n \in {name} |-> value]
      <3>1. \A n : (Sets(one, n) <=> n = name) /\ (n = name => one[n] = value)
        BY DEF Sets
      <3>2. new = Over(one, source)
        BY <2>1
      <3> HIDE DEF one
      <3>3. ASSUME NEW n, Sets(new, n)
            PROVE  (n = name /\ new[n] = value) \/ (Sets(source, n) /\ new[n] = source[n])
        BY <3>1, <3>2, <3>3, Layered
      <3> QED  BY <3>3
    <2>3. /\ name = "window" => value \in Int
          /\ name = "overlap" => value \in Int
          /\ name = "config" => value \in Dirs
      BY <1>2, RestartAssumption DEF Values
    <2>4. IsSource(new)
      BY <2>2, <2>3 DEF IsSource
    <2> QED  BY <2>4 DEF new
  <1> QED  BY <1>1, <1>2

LEMMA ResolvedIsSource ==
  ASSUME NEW source, IsSource(source), NEW place
  PROVE  IsSource(Resolved(source, place))
  BY DEF Resolved, IsSource, Sets

LEMMA LayeredIsSource ==
  ASSUME NEW f, NEW g, IsSource(f), IsSource(g)
  PROVE  IsSource(Over(f, g))
  <1> DEFINE new == Over(f, g)
  <1>1. ASSUME NEW n, Sets(new, n)
        PROVE  (Sets(f, n) /\ new[n] = f[n]) \/ (Sets(g, n) /\ new[n] = g[n])
    BY <1>1, Layered
  <1> HIDE DEF new
  <1>2. IsSource(new)
    BY <1>1 DEF IsSource
  <1> QED  BY <1>2 DEF new

LEMMA SettingsAreNumbers ==
  ASSUME SourcesInv
  PROVE  LET s == FromSources(environ, dotenv, toml, cwd) IN s.window \in Int /\ s.overlap \in Int
  <1> DEFINE place == EnvDir(environ, cwd)
             a == Resolved(environ, cwd)
             b == Resolved(dotenv[place], place)
             c == ConfigSource(environ, dotenv, toml, cwd)
             e == Resolved(Defaults, cwd)
             all == Over(a, Over(b, Over(c, e)))
  <1>1. place \in Dirs
    BY DEF SourcesInv, EnvDir, IsSource
  <1>2. IsSource(Nothing)
    BY DEF IsSource, Sets, Nothing
  <1>3. IsSource(c)
    BY <1>1, <1>2, ResolvedIsSource DEF ConfigSource, SourcesInv, IsSource
  <1>4. IsSource(a) /\ IsSource(b)
    BY <1>1, ResolvedIsSource DEF SourcesInv
  <1>5. IsSource(e) /\ Sets(e, "window") /\ Sets(e, "overlap")
    <2>1. IsSource(Defaults) /\ Sets(Defaults, "window") /\ Sets(Defaults, "overlap")
      BY SettingsAssumption DEF Defaults, IsSource, Sets
    <2> QED  BY <2>1, ResolvedIsSource DEF Resolved, Sets
  <1> HIDE DEF a, b, c, e
  <1>6. IsSource(all)
    BY <1>3, <1>4, <1>5, LayeredIsSource
  <1>7. Sets(all, "window") /\ Sets(all, "overlap")
    <2>1. Sets(Over(c, e), "window") /\ Sets(Over(c, e), "overlap")
      BY <1>5, Layered
    <2>2. Sets(Over(b, Over(c, e)), "window") /\ Sets(Over(b, Over(c, e)), "overlap")
      BY <2>1, Layered
    <2> QED  BY <2>2, Layered
  <1> HIDE DEF all
  <1> QED  BY <1>6, <1>7 DEF IsSource, FromSources, all, a, b, c, e

-----------------------------------------------------------------------------
(* The invariant *)

\* The windows of a job in which no two geometries met are those of its plan.
Unmixed ==
  /\ job.windows = [i \in DOMAIN job.windows |-> Window(job.cut, i, duration)]
  /\ DOMAIN job.windows # {} => job.cut = job.plan
  /\ DOMAIN job.windows \subseteq 0 .. job.total - 1
  /\ Known({"queued", "processing"}) => job.plan = Geometry(running)
  /\ job.state = "succeeded" => DOMAIN job.windows = 0 .. job.total - 1
  /\ job.state # "failed"

JobInv ==
  /\ duration \in Nat \ {0}
  /\ running # Down => Cuts(running)
  /\ job = [state |-> job.state, data |-> job.data, total |-> job.total, windows |-> job.windows,
            plan |-> job.plan, cut |-> job.cut, mixed |-> job.mixed]
  /\ job.mixed \in BOOLEAN
  /\ job.state = "none" => DOMAIN job.windows = {}
  /\ job.state # "none" => Cuts(job.plan) /\ job.total = WindowCount(job.plan, duration)
  /\ ~job.mixed => Unmixed

RestartInv == SourcesInv /\ JobInv

LEMMA GeometryOf ==
  ASSUME NEW s, Cuts(s)
  PROVE  /\ Cuts(Geometry(s))
         /\ \A d : WindowCount(s, d) = WindowCount(Geometry(s), d)
         /\ \A i, d : Window(s, i, d) = Window(Geometry(s), i, d)
         /\ \A i : WindowStart(s, i) = WindowStart(Geometry(s), i)
  <1>1. Geometry(s).window = s.window /\ Geometry(s).overlap = s.overlap
    BY DEF Geometry
  <1> QED  BY <1>1 DEF Cuts, WindowCount, Window, WindowStart, WindowEnd, Stride

-----------------------------------------------------------------------------
(* It holds at first, and every action keeps it *)

LEMMA InitKeeps ==
  ASSUME Init
  PROVE  RestartInv
  <1>1. IsSource(Nothing)
    BY DEF IsSource, Sets, Nothing
  <1>2. SourcesInv
    <2>1. IsSource(environ)
      BY <1>1 DEF Init, IsSource, Sets
    <2>2. dotenv = [d \in Dirs |-> dotenv[d]] /\ \A d \in Dirs : IsSource(dotenv[d])
      BY <1>1 DEF Init
    <2>3. PICK w \in Windows, o \in Overlaps :
            toml = [d \in Dirs |-> [window |-> w, overlap |-> o]]
      BY DEF Init
    <2>4. IsSource([window |-> w, overlap |-> o])
      BY RestartAssumption DEF IsSource, Sets
    <2> QED  BY <2>1, <2>2, <2>3, <2>4 DEF Init, SourcesInv
  <1>3. JobInv
    BY RestartAssumption DEF Init, JobInv, Unmixed, NoJob, Nothing, Known
  <1> QED  BY <1>2, <1>3 DEF RestartInv

\* An edit of the settings leaves numbers in them.
LEMMA EditKeeps ==
  ASSUME RestartInv, Edit
  PROVE  RestartInv'
  <1>1. JobInv'
    BY DEF RestartInv, Edit, JobInv, Unmixed, Known
  <1>2. CASE cwd' \in Dirs /\ UNCHANGED <<environ, dotenv, toml>>
    BY <1>1, <1>2 DEF RestartInv, SourcesInv
  <1>3. ASSUME NEW name \in {"window", "overlap", "data", "config"},
               NEW value \in Values(name) \cup {Unset},
               \/ environ' = With(environ, name, value) /\ UNCHANGED <<dotenv, toml>>
               \/ \E d \in Dirs : /\ dotenv' = [dotenv EXCEPT ![d] = With(@, name, value)]
                                  /\ UNCHANGED <<environ, toml>>
               \/ \E d \in Dirs : /\ toml' = [toml EXCEPT ![d] = With(@, name, value)]
                                  /\ UNCHANGED <<environ, dotenv>>,
               UNCHANGED cwd
        PROVE  SourcesInv'
    <2>1. CASE environ' = With(environ, name, value) /\ UNCHANGED <<dotenv, toml>>
      <3>1. IsSource(environ')
        BY <2>1, WithIsSource DEF RestartInv, SourcesInv
      <3> QED  BY <1>3, <2>1, <3>1 DEF RestartInv, SourcesInv
    <2>2. ASSUME NEW d \in Dirs, dotenv' = [dotenv EXCEPT ![d] = With(@, name, value)],
                 UNCHANGED <<environ, toml>>
          PROVE  SourcesInv'
      <3>1. IsSource(With(dotenv[d], name, value))
        BY WithIsSource DEF RestartInv, SourcesInv
      <3>2. dotenv' = [e \in Dirs |-> IF e = d THEN With(dotenv[d], name, value) ELSE dotenv[e]]
        BY <2>2 DEF RestartInv, SourcesInv
      <3>3. dotenv' = [e \in Dirs |-> dotenv'[e]] /\ \A e \in Dirs : IsSource(dotenv'[e])
        BY <3>1, <3>2 DEF RestartInv, SourcesInv
      <3> QED  BY <1>3, <2>2, <3>3 DEF RestartInv, SourcesInv
    <2>3. ASSUME NEW d \in Dirs, toml' = [toml EXCEPT ![d] = With(@, name, value)],
                 UNCHANGED <<environ, dotenv>>
          PROVE  SourcesInv'
      <3>1. IsSource(With(toml[d], name, value))
        BY WithIsSource DEF RestartInv, SourcesInv
      <3>2. toml' = [e \in Dirs |-> IF e = d THEN With(toml[d], name, value) ELSE toml[e]]
        BY <2>3 DEF RestartInv, SourcesInv
      <3>3. toml' = [e \in Dirs |-> toml'[e]] /\ \A e \in Dirs : IsSource(toml'[e])
        BY <3>1, <3>2 DEF RestartInv, SourcesInv
      <3> QED  BY <1>3, <2>3, <3>3 DEF RestartInv, SourcesInv
    <2> QED  BY <1>3, <2>1, <2>2, <2>3
  <1> QED  BY <1>1, <1>2, <1>3 DEF Edit, RestartInv

\* Counting the windows anew keeps the invariant: what is committed is of the
\* geometry they are counted for, or two geometries met.
LEMMA CountedForm ==
  ASSUME JobInv, NEW s
  PROVE  /\ Counted(s) = [state |-> "queued", data |-> job.data, total |-> WindowCount(s, duration),
                          windows |-> job.windows, plan |-> Geometry(s), cut |-> job.cut,
                          mixed |-> job.mixed \/ Meets(s)]
         /\ TakenUp(s) = [state |-> job.state, data |-> job.data, total |-> job.total,
                          windows |-> job.windows, plan |-> job.plan, cut |-> job.cut,
                          mixed |-> job.mixed \/ (job.state = "queued" /\ job.plan # Geometry(s))]
  <1> DEFINE old == [state |-> job.state, data |-> job.data, total |-> job.total,
                     windows |-> job.windows, plan |-> job.plan, cut |-> job.cut, mixed |-> job.mixed]
  <1>1. job = old
    BY DEF JobInv
  <1>2. Counted(s) = [old EXCEPT !.state = "queued", !.total = WindowCount(s, duration),
                                 !.plan = Geometry(s), !.mixed = @ \/ Meets(s)]
    BY <1>1 DEF Counted
  <1>3. TakenUp(s) = [old EXCEPT !.mixed = @ \/ (job.state = "queued" /\ job.plan # Geometry(s))]
    BY <1>1 DEF TakenUp
  <1> QED  BY <1>2, <1>3

LEMMA CountingKeeps ==
  ASSUME JobInv, NEW s, Cuts(s), running' = s, UNCHANGED duration,
         job' = [state |-> "queued", data |-> s.data, total |-> WindowCount(s, duration),
                 windows |-> job.windows, plan |-> Geometry(s), cut |-> job.cut,
                 mixed |-> job.mixed \/ Meets(s)]
  PROVE  JobInv'
  <1>1. /\ job'.state = "queued" /\ job'.data = s.data /\ job'.total = WindowCount(s, duration)
        /\ job'.windows = job.windows /\ job'.plan = Geometry(s) /\ job'.cut = job.cut
        /\ job'.mixed = (job.mixed \/ Meets(s))
    OBVIOUS
  <1>2. Cuts(Geometry(s)) /\ WindowCount(s, duration) = WindowCount(Geometry(s), duration)
    BY GeometryOf
  <1>3. ASSUME ~job'.mixed
        PROVE  Unmixed'
    <2>1. Unmixed /\ ~Meets(s)
      BY <1>1, <1>3 DEF JobInv
    <2>2. DOMAIN job.windows # {} => job.cut = Geometry(s) /\ job.plan = Geometry(s)
      BY <2>1 DEF Unmixed, Meets
    <2>3. DOMAIN job.windows \subseteq 0 .. WindowCount(s, duration) - 1
      <3>1. CASE DOMAIN job.windows = {}
        BY <3>1
      <3>2. CASE DOMAIN job.windows # {}
        BY <1>2, <2>1, <2>2, <3>2 DEF Unmixed, JobInv
      <3> QED  BY <3>1, <3>2
    <2> QED  BY <1>1, <2>1, <2>2, <2>3 DEF Unmixed, Known
  <1>4. job'.mixed \in BOOLEAN
    BY <1>1 DEF JobInv
  <1> QED  BY <1>1, <1>2, <1>3, <1>4 DEF JobInv

LEMMA StartKeeps ==
  ASSUME RestartInv, Start
  PROVE  RestartInv'
  <1> DEFINE s == FromSources(environ, dotenv, toml, cwd)
  <1>1. Cuts(s)
    BY SettingsAreNumbers DEF Start, Valid, Cuts, RestartInv
  <1>2. /\ running = Down /\ running' = s /\ UNCHANGED duration
        /\ job' = IF job.data = s.data THEN Recovered(s) ELSE job
    BY DEF Start
  <1>3. PICK r : r = s
    OBVIOUS
  <1>4. /\ Cuts(r) /\ running' = r /\ UNCHANGED duration /\ JobInv
        /\ job' = IF job.data = r.data THEN Recovered(r) ELSE job
    BY <1>1, <1>2, <1>3 DEF RestartInv
  <1> HIDE DEF s
  <1>5. ASSUME job.data = r.data, job.state = "processing"
        PROVE  JobInv'
    <2>1. job' = Counted(r)
      BY <1>4, <1>5 DEF Recovered
    <2>2. job' = [state |-> "queued", data |-> r.data, total |-> WindowCount(r, duration),
                  windows |-> job.windows, plan |-> Geometry(r), cut |-> job.cut,
                  mixed |-> job.mixed \/ Meets(r)]
      BY <1>4, <1>5, <2>1, CountedForm
    <2> QED  BY <1>4, <2>2, CountingKeeps
  <1>6. ASSUME job.data = r.data, job.state # "processing"
        PROVE  JobInv'
    <2>1. job' = [state |-> job.state, data |-> job.data, total |-> job.total,
                  windows |-> job.windows, plan |-> job.plan, cut |-> job.cut,
                  mixed |-> job.mixed \/ (job.state = "queued" /\ job.plan # Geometry(r))]
      BY <1>4, <1>6, CountedForm DEF Recovered
    <2>2. /\ job'.state = job.state /\ job'.data = job.data /\ job'.total = job.total
          /\ job'.windows = job.windows /\ job'.plan = job.plan /\ job'.cut = job.cut
          /\ job'.mixed = (job.mixed \/ (job.state = "queued" /\ job.plan # Geometry(r)))
      BY <2>1
    <2>3. job'.mixed \in BOOLEAN
      BY <1>4, <2>2 DEF JobInv
    <2>4. ASSUME ~job'.mixed
          PROVE  Unmixed'
      <3>1. Unmixed /\ (job.state = "queued" => job.plan = Geometry(r))
        BY <1>4, <2>2, <2>4 DEF JobInv
      <3>2. Known({"queued", "processing"})' => job'.plan = Geometry(running')
        BY <1>4, <1>6, <2>2, <3>1 DEF Known
      <3> QED  BY <1>4, <2>2, <3>1, <3>2 DEF Unmixed
    <2> QED  BY <1>4, <2>1, <2>2, <2>3, <2>4 DEF JobInv
  <1>7. ASSUME job.data # r.data
        PROVE  JobInv'
    <2>1. job' = job /\ ~Known({"queued", "processing"})'
      BY <1>4, <1>7 DEF Known
    <2>2. Unmixed => Unmixed'
      BY <1>4, <2>1 DEF Unmixed
    <2> QED  BY <1>4, <2>1, <2>2 DEF JobInv
  <1>8. SourcesInv'
    BY DEF Start, sources, SourcesInv, RestartInv
  <1>9. JobInv'
    BY <1>5, <1>6, <1>7
  <1> QED  BY <1>8, <1>9 DEF RestartInv

LEMMA StaysSources ==
  ASSUME SourcesInv, UNCHANGED <<environ, dotenv, toml, cwd>>
  PROVE  SourcesInv'
  BY DEF SourcesInv

LEMMA StopKeeps ==
  ASSUME RestartInv, Stop
  PROVE  RestartInv'
  <1>1. SourcesInv'
    BY StaysSources DEF Stop, sources, RestartInv
  <1>2. running' = Down /\ UNCHANGED <<duration, job>> /\ JobInv
    BY DEF Stop, RestartInv
  <1>3. Unmixed => Unmixed'
    BY <1>2 DEF Unmixed, Known
  <1>4. JobInv'
    BY <1>2, <1>3 DEF JobInv
  <1> QED  BY <1>1, <1>4 DEF RestartInv

LEMMA CompleteKeeps ==
  ASSUME RestartInv, Complete
  PROVE  RestartInv'
  <1>1. SourcesInv'
    BY StaysSources DEF Complete, Stays, sources, RestartInv
  <1>2. PICK r : r = running
    OBVIOUS
  <1>3. /\ JobInv /\ Cuts(r) /\ running' = r /\ UNCHANGED duration
        /\ job' = [Counted(r) EXCEPT !.data = r.data]
    BY <1>2 DEF Complete, Stays, RestartInv, JobInv
  <1>4. job' = [state |-> "queued", data |-> r.data, total |-> WindowCount(r, duration),
                windows |-> job.windows, plan |-> Geometry(r), cut |-> job.cut,
                mixed |-> job.mixed \/ Meets(r)]
    BY <1>3, CountedForm
  <1>5. JobInv'
    BY <1>3, <1>4, CountingKeeps
  <1> QED  BY <1>1, <1>5 DEF RestartInv

LEMMA ResumeKeeps ==
  ASSUME RestartInv, Resume
  PROVE  RestartInv'
  <1>1. SourcesInv'
    BY StaysSources DEF Resume, Stays, sources, RestartInv
  <1>2. PICK r : r = running
    OBVIOUS
  <1>3. /\ JobInv /\ Cuts(r) /\ running' = r /\ UNCHANGED duration
        /\ job.data = r.data /\ job' = Counted(r)
    BY <1>2 DEF Resume, Known, Stays, RestartInv, JobInv
  <1>4. job' = [state |-> "queued", data |-> r.data, total |-> WindowCount(r, duration),
                windows |-> job.windows, plan |-> Geometry(r), cut |-> job.cut,
                mixed |-> job.mixed \/ Meets(r)]
    BY <1>3, CountedForm
  <1>5. JobInv'
    BY <1>3, <1>4, CountingKeeps
  <1> QED  BY <1>1, <1>5 DEF RestartInv

\* A step that changes only the state of the job, to one that promises no more.
LEMMA GotoForm ==
  ASSUME JobInv, NEW state, Goto(state)
  PROVE  job' = [state |-> state, data |-> job.data, total |-> job.total, windows |-> job.windows,
                 plan |-> job.plan, cut |-> job.cut, mixed |-> job.mixed]
  <1>1. job = [state |-> job.state, data |-> job.data, total |-> job.total, windows |-> job.windows,
               plan |-> job.plan, cut |-> job.cut, mixed |-> job.mixed]
    BY DEF JobInv
  <1> QED  BY <1>1 DEF Goto

LEMMA GotoKeeps ==
  ASSUME RestartInv, NEW state \in {"cancelled", "processing", "succeeded", "failed"},
         Known({"queued", "processing"}), Goto(state), Stays,
         state = "succeeded" /\ ~job.mixed => DOMAIN job.windows = 0 .. job.total - 1,
         state = "failed" => job.mixed
  PROVE  RestartInv'
  <1>1. SourcesInv'
    BY StaysSources DEF Stays, sources, RestartInv
  <1>2. JobInv /\ UNCHANGED <<running, duration>>
    BY DEF Stays, RestartInv
  <1>3. job' = [state |-> state, data |-> job.data, total |-> job.total, windows |-> job.windows,
                plan |-> job.plan, cut |-> job.cut, mixed |-> job.mixed]
    BY <1>2, GotoForm
  <1>4. /\ job'.state = state /\ job'.data = job.data /\ job'.total = job.total
        /\ job'.windows = job.windows /\ job'.plan = job.plan /\ job'.cut = job.cut
        /\ job'.mixed = job.mixed
    BY <1>3
  <1>5. job.state # "none"
    BY DEF Known
  <1>6. ASSUME ~job'.mixed
        PROVE  Unmixed'
    <2>1. Unmixed
      BY <1>2, <1>4, <1>6 DEF JobInv
    <2>2. job'.plan = Geometry(running')
      BY <1>2, <1>4, <2>1 DEF Unmixed
    <2> QED  BY <1>2, <1>4, <1>6, <2>1, <2>2 DEF Unmixed
  <1>7. JobInv'
    BY <1>2, <1>3, <1>4, <1>5, <1>6 DEF JobInv
  <1> QED  BY <1>1, <1>7 DEF RestartInv

LEMMA FinalizeKeeps ==
  ASSUME RestartInv, Finalize
  PROVE  RestartInv'
  <1>1. Known({"queued", "processing"}) /\ Stays /\ JobInv
    BY DEF Finalize, Known, RestartInv
  <1>2. job.total \in Nat \ {0}
    BY <1>1, CountBounds DEF JobInv, Known
  <1>3. ~job.mixed => DOMAIN job.windows = 0 .. job.total - 1
    <2>1. 0 .. job.total - 1 \subseteq DOMAIN job.windows
      BY DEF Finalize, Missing
    <2> QED  BY <1>1, <2>1 DEF JobInv, Unmixed
  <1>4. ~job.mixed => Cardinality(DOMAIN job.windows) = job.total
    <2>1. PICK n : n = job.total
      OBVIOUS
    <2>2. Cardinality(0 .. n - 1) = n
      BY <1>2, <2>1, FS_Interval
    <2> QED  BY <1>3, <2>1, <2>2
  <1>5. PICK state \in {"succeeded", "failed"} :
           state = IF Cardinality(DOMAIN job.windows) = job.total THEN "succeeded" ELSE "failed"
    OBVIOUS
  <1>6. Goto(state)
    BY <1>5 DEF Finalize
  <1>7. state = "failed" => job.mixed
    BY <1>1, <1>4, <1>5 DEF JobInv
  <1> QED  BY <1>1, <1>3, <1>5, <1>6, <1>7, GotoKeeps

\* A window that is missing is heard as it was planned: the read is not empty.
LEMMA TranscribeWindowKeeps ==
  ASSUME RestartInv, TranscribeWindow
  PROVE  RestartInv'
  <1>1. SourcesInv'
    BY StaysSources DEF TranscribeWindow, Stays, sources, RestartInv
  <1>2. PICK r : r = running
    OBVIOUS
  <1>3. /\ JobInv /\ Cuts(r) /\ running' = r /\ UNCHANGED duration
        /\ running = r /\ r # Down /\ job.state = "processing" /\ job.data = r.data
    BY <1>2 DEF TranscribeWindow, Known, Stays, RestartInv, JobInv
  <1>4. PICK i \in Missing :
          job' = IF WindowStart(r, i) < duration
                   THEN [job EXCEPT !.windows = Over([n \in {i} |-> Window(r, i, duration)], @),
                                    !.cut = Geometry(r),
                                    !.mixed = @ \/ Meets(r)]
                   ELSE [job EXCEPT !.state = "failed"]
    BY <1>2 DEF TranscribeWindow
  <1>5. i \in 0 .. job.total - 1 /\ i \notin DOMAIN job.windows
    BY DEF Missing
  <1> DEFINE old == [state |-> job.state, data |-> job.data, total |-> job.total,
                     windows |-> job.windows, plan |-> job.plan, cut |-> job.cut, mixed |-> job.mixed]
  <1>6. job = old
    BY <1>3 DEF JobInv
  <1>7. Cuts(Geometry(r)) /\ WindowStart(r, i) = WindowStart(Geometry(r), i)
    BY <1>3, GeometryOf
  <1>8. ASSUME WindowStart(r, i) < duration
        PROVE  JobInv'
    <2> DEFINE new == Over([n \in {i} |-> Window(r, i, duration)], job.windows)
    <2>1. job' = [old EXCEPT !.windows = new, !.cut = Geometry(r), !.mixed = job.mixed \/ Meets(r)]
      BY <1>4, <1>6, <1>8
    <2> HIDE DEF new
    <2>2. /\ job' = [state |-> job.state, data |-> job.data, total |-> job.total,
                     windows |-> new, plan |-> job.plan, cut |-> Geometry(r),
                     mixed |-> job.mixed \/ Meets(r)]
          /\ job'.state = job.state /\ job'.data = job.data /\ job'.total = job.total
          /\ job'.windows = new /\ job'.plan = job.plan /\ job'.cut = Geometry(r)
          /\ job'.mixed = (job.mixed \/ Meets(r))
      BY <2>1
    <2>3. ASSUME ~job'.mixed
          PROVE  Unmixed'
      <3>1. Unmixed /\ ~Meets(r)
        BY <1>3, <2>2, <2>3 DEF JobInv
      <3>2. job.plan = Geometry(r)
        BY <1>3, <3>1 DEF Unmixed, Known
      <3>3. DOMAIN job.windows # {} => job.cut = Geometry(r)
        BY <3>1 DEF Meets
      <3>4. job.windows = [j \in DOMAIN job.windows |-> Window(job.cut, j, duration)]
        BY <3>1 DEF Unmixed
      <3>5. \A j \in DOMAIN job.windows : job.windows[j] = Window(Geometry(r), j, duration)
        BY <3>3, <3>4
      <3>6. Window(r, i, duration) = Window(Geometry(r), i, duration)
        BY <1>3, GeometryOf
      <3>7. new = [j \in {i} \cup DOMAIN job.windows |->
                     IF j = i THEN Window(r, i, duration) ELSE job.windows[j]]
        BY DEF new, Over, Sets
      <3>8. new = [j \in DOMAIN new |-> Window(Geometry(r), j, duration)]
            /\ DOMAIN new = {i} \cup DOMAIN job.windows
        BY <3>5, <3>6, <3>7
      <3>9. DOMAIN new \subseteq 0 .. job.total - 1
        BY <1>5, <3>1, <3>8 DEF Unmixed
      <3> QED  BY <1>3, <2>2, <3>2, <3>8, <3>9 DEF Unmixed, Known
    <2>4. job'.mixed \in BOOLEAN
      BY <1>3, <2>2 DEF JobInv
    <2> QED  BY <1>3, <2>2, <2>3, <2>4 DEF JobInv
  <1>9. ASSUME ~(WindowStart(r, i) < duration)
        PROVE  JobInv'
    <2>1. job' = [old EXCEPT !.state = "failed"]
      BY <1>4, <1>6, <1>9
    <2>2. job' = [state |-> "failed", data |-> job.data, total |-> job.total, windows |-> job.windows,
                  plan |-> job.plan, cut |-> job.cut, mixed |-> job.mixed]
      BY <2>1
    <2>3. job.mixed
      <3>1. SUFFICES ASSUME ~job.mixed PROVE FALSE
        OBVIOUS
      <3>2. job.plan = Geometry(r)
        BY <1>3, <3>1 DEF JobInv, Unmixed, Known
      <3>3. i \in Indices(Geometry(r), duration)
        BY <1>3, <1>5, <3>2 DEF JobInv, Indices
      <3>4. WindowStart(Geometry(r), i) < duration
        BY <1>3, <1>7, <3>3, PlanCovers DEF JobInv
      <3> QED  BY <1>7, <1>9, <3>4
    <2> QED  BY <1>3, <2>2, <2>3 DEF JobInv
  <1> QED  BY <1>1, <1>8, <1>9 DEF RestartInv

LEMMA NextKeeps ==
  ASSUME RestartInv, [Next]_vars
  PROVE  RestartInv'
  <1>1. CASE Edit
    BY <1>1, EditKeeps
  <1>2. CASE Start
    BY <1>2, StartKeeps
  <1>3. CASE Stop
    BY <1>3, StopKeeps
  <1>4. CASE Complete
    BY <1>4, CompleteKeeps
  <1>5. CASE Cancel
    BY <1>5, GotoKeeps DEF Cancel
  <1>6. CASE Resume
    BY <1>6, ResumeKeeps
  <1>7. CASE Begin
    <2>1. Known({"queued", "processing"})
      BY <1>7 DEF Begin, Known
    <2> QED  BY <1>7, <2>1, GotoKeeps DEF Begin
  <1>8. CASE TranscribeWindow
    BY <1>8, TranscribeWindowKeeps
  <1>9. CASE Finalize
    BY <1>9, FinalizeKeeps
  <1>10. CASE UNCHANGED vars
    <2>1. SourcesInv'
      BY <1>10, StaysSources DEF vars, RestartInv
    <2>2. UNCHANGED <<running, duration, job>> /\ JobInv
      BY <1>10 DEF vars, RestartInv
    <2>3. Unmixed => Unmixed'
      BY <2>2 DEF Unmixed, Known
    <2>4. JobInv'
      BY <2>2, <2>3 DEF JobInv
    <2> QED  BY <2>1, <2>4 DEF RestartInv
  <1> QED  BY <1>1, <1>2, <1>3, <1>4, <1>5, <1>6, <1>7, <1>8, <1>9, <1>10 DEF Next

-----------------------------------------------------------------------------
(* The theorems *)

THEOREM RestartInvariant == Spec => []RestartInv
  BY InitKeeps, NextKeeps, PTL DEF Spec

\* The windows of a job that succeeded are those of its plan, and of a plan
\* WindowPlanProofs says that every utterance is kept once, by a window that
\* heard it (_finalize, merge of the windows).
LEMMA PlannedIsWhole ==
  ASSUME RestartInv
  PROVE  TranscriptIsWhole
  <1>1. SUFFICES ASSUME job.state = "succeeded", ~job.mixed,
                        NEW mid \in 0 .. 2 * duration - 1
                 PROVE  /\ \E i \in DOMAIN job.windows :
                             Keeps(job.windows, i, mid) /\ Hears(job.windows, i, mid)
                        /\ \A i, j \in DOMAIN job.windows :
                             Keeps(job.windows, i, mid) /\ Keeps(job.windows, j, mid) => i = j
    BY DEF TranscriptIsWhole
  <1>2. PICK g, d, w : g = job.plan /\ d = duration /\ w = job.windows
    OBVIOUS
  <1>3. Cuts(g) /\ d \in Nat \ {0} /\ mid \in 0 .. 2 * d - 1 /\ mid \in Int
    BY <1>1, <1>2 DEF RestartInv, JobInv
  <1>4. DOMAIN w = Indices(g, d)
    BY <1>1, <1>2 DEF RestartInv, JobInv, Unmixed, Indices
  <1>5. WindowCount(g, d) \in Nat \ {0}
    BY <1>3, CountBounds
  <1>6. DOMAIN w # {}
    BY <1>4, <1>5 DEF Indices
  <1>7. w = Planned(g, d)
    BY <1>1, <1>2, <1>4, <1>6 DEF RestartInv, JobInv, Unmixed, Planned
  <1>8. PICK i \in Indices(g, d) :
          /\ Keeps(w, i, mid)
          /\ \A k \in Indices(g, d) : Keeps(w, k, mid) => k = i
    BY <1>3, <1>7, KeptOnce
  <1>9. Hears(w, i, mid)
    BY <1>3, <1>7, <1>8, KeeperHears
  <1> QED  BY <1>2, <1>4, <1>8, <1>9

\* TranscriptIsWhole: under any settings, in any order of edits, restarts,
\* cancels and resumes, a transcript keeps every utterance once, from a window
\* that heard it, unless two geometries met in the job.
THEOREM WholeTranscripts == Spec => []TranscriptIsWhole
  BY RestartInvariant, PlannedIsWhole, PTL

\* PlanIsFeasible: the count of windows and the windows agree, so a job that
\* keeps to one geometry fails neither on an empty read nor on the final count.
THEOREM FeasiblePlans == Spec => []PlanIsFeasible
  <1>1. RestartInv => PlanIsFeasible
    BY DEF RestartInv, JobInv, Unmixed, PlanIsFeasible
  <1> QED  BY <1>1, RestartInvariant, PTL

LEMMA ValueOf ==
  ASSUME NEW f, NEW g, NEW x, Sets(f, x) \/ Sets(g, x)
  PROVE  /\ Sets(Over(f, g), x)
         /\ Over(f, g)[x] = IF Sets(f, x) THEN f[x] ELSE g[x]
  BY Layered

\* Two lowest layers that give the same value to a setting, or of which the
\* layers above leave nothing to be seen, cannot be told apart.
LEMMA SameBelow ==
  ASSUME NEW a, NEW b, NEW c, NEW e, NEW f, NEW x, Sets(e, x), Sets(f, x),
         \/ e[x] = f[x]
         \/ Sets(b, x)
         \/ Sets(c, x)
  PROVE  Over(a, Over(b, Over(c, e)))[x] = Over(a, Over(b, Over(c, f)))[x]
  <1> DEFINE ce == Over(c, e)
             cf == Over(c, f)
             be == Over(b, ce)
             bf == Over(b, cf)
  <1>1. /\ Sets(ce, x) /\ ce[x] = IF Sets(c, x) THEN c[x] ELSE e[x]
        /\ Sets(cf, x) /\ cf[x] = IF Sets(c, x) THEN c[x] ELSE f[x]
    BY ValueOf
  <1> HIDE DEF ce, cf
  <1>2. /\ Sets(be, x) /\ be[x] = IF Sets(b, x) THEN b[x] ELSE ce[x]
        /\ Sets(bf, x) /\ bf[x] = IF Sets(b, x) THEN b[x] ELSE cf[x]
    BY <1>1, ValueOf
  <1>3. be[x] = bf[x]
    BY <1>1, <1>2
  <1> HIDE DEF be, bf
  <1>4. Over(a, be)[x] = Over(a, bf)[x]
    BY <1>2, <1>3, ValueOf
  <1> QED  BY <1>4 DEF be, bf, ce, cf

LEMMA DirectoryHasNoSay == WorkingDirectoryIsIgnored
  <1> DEFINE C == environ.config
             b == Resolved(dotenv[C], C)
             c == Resolved(toml[C], C)
             e(d) == Resolved(Defaults, d)
  <1>1. SUFFICES ASSUME Sets(environ, "config"), ~Sets(environ, "data"),
                        Sets(toml[C], "data") \/ Sets(dotenv[C], "data"),
                        NEW d \in Dirs
                 PROVE  FromSources(environ, dotenv, toml, d)
                          = FromSources(environ, dotenv, toml, cwd)
    BY DEF WorkingDirectoryIsIgnored
  <1>2. ASSUME NEW k
        PROVE  LET all == Over(environ, Over(b, Over(c, e(k))))
               IN FromSources(environ, dotenv, toml, k)
                    = [window |-> all.window, overlap |-> all.overlap, data |-> all.data]
    <2>1. EnvDir(environ, k) = C /\ ConfigSource(environ, dotenv, toml, k) = c
      BY <1>1 DEF EnvDir, ConfigSource
    <2>2. Resolved(environ, k) = environ
      BY <1>1 DEF Resolved
    <2> HIDE DEF b, c, e
    <2> QED  BY <2>1, <2>2 DEF FromSources, b, e
  <1>3. Sets(b, "data") \/ Sets(c, "data")
    BY <1>1 DEF Resolved, Sets
  <1>4. ASSUME NEW k
        PROVE  /\ Sets(e(k), "window") /\ e(k)["window"] = DefaultWindow
               /\ Sets(e(k), "overlap") /\ e(k)["overlap"] = DefaultOverlap
               /\ Sets(e(k), "data")
    BY DEF Resolved, Defaults, Sets
  <1> HIDE DEF b, c, e
  <1> DEFINE all(k) == Over(environ, Over(b, Over(c, e(k))))
  <1>5. /\ all(d)["window"] = all(cwd)["window"]
        /\ all(d)["overlap"] = all(cwd)["overlap"]
        /\ all(d)["data"] = all(cwd)["data"]
    BY <1>3, <1>4, SameBelow
  <1> QED  BY <1>2, <1>5

\* WorkingDirectoryIsIgnored: with an explicit server.toml that says, itself or
\* in the .env beside it, where the data is, the settings do not depend on the
\* directory the server is started in (Settings.from_sources, _resolve_path).
THEOREM DirectoryIgnored == Spec => []WorkingDirectoryIsIgnored
  BY DirectoryHasNoSay, PTL
=============================================================================
