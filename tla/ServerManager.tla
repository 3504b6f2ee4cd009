---------------------------- MODULE ServerManager ----------------------------
(***************************************************************************)
(* The Windows Manager (manager/src): its window, which runs one handler   *)
(* at a time, the thread that migrates the model directory, the command    *)
(* line processes that install models, and the server processes it starts  *)
(* and stops, beside those started by hand.  They share server.toml, the   *)
(* model directories and the ports of the machine.                         *)
(***************************************************************************)
EXTENDS Naturals, FiniteSets

CONSTANTS
  Ports,        \* server.port
  Roots,        \* directories chosen as models.root
  Models,       \* aliases of the catalogue
  Components,   \* keys of the catalogue
  ModelComponents, \* ModelComponents[m]: the components of m
  Preload,      \* models.preload
  Servers,      \* server processes, enough for those alive at once
  Installers,   \* "models install" processes, enough for those alive at once
  Tokens,       \* shutdown tokens, enough for the servers alive at once
  NoServer,     \* no process
  NoRoot,       \* settings not read yet
  NoComponent,  \* no component at work
  NoToken,      \* a server started without a token, and no request
  MaxCommands   \* bound on what users and accidents do

ASSUME ManagerAssumption ==
  /\ Preload \in Models
  /\ NoServer \notin Servers
  /\ NoRoot \notin Roots
  /\ NoComponent \notin Components
  /\ NoToken \notin Tokens
  /\ ModelComponents \in [Models -> SUBSET Components]
  /\ MaxCommands \in Nat

VARIABLES
  file,         \* server.toml: its port and its model root
  edit,         \* NotaManagerApp.config, and whether port_input is no port
  saved,        \* saved_model_root
  listed,       \* aliases that models says are installed
  store,        \* store[r][c]: what directory r has of component c
  made,         \* directories that exist
  used,         \* directories that are not empty
  proc,         \* the server processes
  held,         \* NotaManagerApp.server
  told,         \* port and token noted in the ServerProcess
  external,     \* external_server
  window,       \* what the window's thread is doing
  migration,    \* the migration thread and its channel
  installers,   \* the "models install" processes
  download,     \* NotaManagerApp.download and the last event of its channel
  commands      \* what users and accidents have done so far

vars == <<file, edit, saved, listed, store, made, used, proc, held, told, external,
          window, migration, installers, download, commands>>
settings == <<file, edit, saved, listed>>
disk == <<store, made, used>>
serverVars == <<proc, held, told, external>>
taskVars == <<migration, installers, download>>

-----------------------------------------------------------------------------
(* Server processes *)

NoProcess ==
  [pc |-> "none", port |-> CHOOSE p \in Ports : TRUE, jobbed |-> FALSE,
   token |-> NoToken, asked |-> NoToken]

NothingTold == [port |-> NoProcess.port, token |-> NoToken]

ServerAt(s, place) == proc[s].pc = place

\* Processes are interchangeable: a new one takes the first free place.
FreePlace(s) == ServerAt(s, "none") /\ s = CHOOSE u \in Servers : ServerAt(u, "none")
Alive(s) == proc[s].pc \notin {"none", "exited"}
Listening(port) == \E s \in Servers : ServerAt(s, "serving") /\ proc[s].port = port

\* A process the Manager holds keeps its exit code until it is waited for.
Ended(s) == IF s = held THEN [proc[s] EXCEPT !.pc = "exited"] ELSE NoProcess

\* health_check: whoever listens there may answer in time.
Answers(port) == IF Listening(port) THEN BOOLEAN ELSE {FALSE}

Command == commands < MaxCommands /\ commands' = commands + 1
Unasked == UNCHANGED commands

\* "serve" reads server.toml on its own: the port may have changed since the
\* Manager looked.
ReadSettings(s) ==
  /\ ServerAt(s, "spawned")
  /\ proc' = [proc EXCEPT ![s].pc = "loading", ![s].port = file.port]
  /\ UNCHANGED <<settings, disk, held, told, external, window, taskVars>> /\ Unasked

\* The default model is loaded, well or badly, before the port is bound.
Bind(s) ==
  /\ ServerAt(s, "loading")
  /\ proc' = [proc EXCEPT ![s] =
       IF Listening(@.port) THEN Ended(s) ELSE [@ EXCEPT !.pc = "serving"]]
  /\ UNCHANGED <<settings, disk, held, told, external, window, taskVars>> /\ Unasked

\* A draining server waits for its worker, and leaves.  Any server may die.
Leave(s) ==
  /\ Alive(s)
  /\ ~ServerAt(s, "draining") => Command
  /\ ServerAt(s, "draining") => Unasked
  /\ proc' = [proc EXCEPT ![s] = Ended(s)]
  /\ UNCHANGED <<settings, disk, held, told, external, window, taskVars>>

\* Somebody starts a server without the Manager.
StartByHand(s, port) ==
  /\ FreePlace(s) /\ ~Listening(port)
  /\ proc' = [proc EXCEPT ![s] = [NoProcess EXCEPT !.pc = "serving", !.port = port]]
  /\ UNCHANGED <<settings, disk, held, told, external, window, taskVars>> /\ Command

\* request_shutdown: the token goes to whoever listens on the port that was
\* noted, or is lost; no answer is awaited.  Asked(t) are the process tables
\* that a request may turn t into.
Asked(t) ==
  {t} \cup {[t EXCEPT ![s].asked = told.token] :
            s \in {u \in Servers : t[u].pc = "serving" /\ t[u].port = told.port}}

\* Mutant of Matches: the token of the request is not compared.
MatchesAny(s) == proc[s].asked # NoToken

Matches(s) == proc[s].asked = proc[s].token

\* manager_shutdown: a server with the token of the request drains, any other
\* answers 404.
Hear(s) ==
  /\ ServerAt(s, "serving") /\ proc[s].asked # NoToken
  /\ proc' = [proc EXCEPT ![s].pc = IF Matches(s) THEN "draining" ELSE @,
                          ![s].asked = NoToken]
  /\ UNCHANGED <<settings, disk, held, told, external, window, taskVars>> /\ Unasked

-----------------------------------------------------------------------------
(* The window: settings *)

Window(pc, then) == [pc |-> pc, then |-> then]
Ready == window = Window("ready", "idle")
Stays == UNCHANGED <<window, held, told, proc, external>>

InstalledIn(r) == {m \in Models : \A c \in ModelComponents[m] : store[r][c] # "absent"}

\* refresh_models runs "models list", which reads server.toml and may fail.
Refresh(root) == listed' \in {listed, InstalledIn(root)}

\* save_config: nothing is saved with a bad port, and writing may fail.
SaveConfig(e) ==
  \/ ~e.garbled /\ file' = [port |-> e.port, root |-> e.root] /\ saved' = e.root
  \/ UNCHANGED <<file, saved>>

\* A valid text sets the port at once; an invalid one leaves the last valid.
EditPort ==
  /\ Ready
  /\ \/ \E p \in Ports : edit' = [edit EXCEPT !.port = p, !.garbled = FALSE]
     \/ edit' = [edit EXCEPT !.garbled = TRUE]
  /\ Stays /\ UNCHANGED <<file, saved, listed, disk, taskVars>> /\ Command

EditRoot(r) ==
  /\ Ready
  /\ edit' = [edit EXCEPT !.root = r]
  /\ Stays /\ UNCHANGED <<file, saved, listed, disk, taskVars>> /\ Command

SaveSettings ==
  /\ Ready /\ edit.root = saved
  /\ SaveConfig(edit)
  /\ Stays /\ UNCHANGED <<edit, listed, disk, taskVars>> /\ Command

UseNewDirectory ==
  /\ Ready /\ edit.root # saved
  /\ SaveConfig(edit)
  /\ Refresh(file'.root)
  /\ Stays /\ UNCHANGED <<edit, disk, taskVars>> /\ Command

ReloadConfig ==
  /\ Ready
  /\ edit' = [port |-> file.port, root |-> file.root, garbled |-> FALSE]
  /\ saved' = file.root
  /\ Refresh(file.root)
  /\ Stays /\ UNCHANGED <<file, disk, taskVars>> /\ Command

RefreshModels ==
  /\ Ready
  /\ Refresh(file.root)
  /\ Stays /\ UNCHANGED <<file, edit, saved, disk, taskVars>> /\ Command

\* The file is opened in an editor and written by hand.
EditFile ==
  /\ \E p \in Ports, r \in Roots : file' = [port |-> p, root |-> r]
  /\ UNCHANGED <<edit, saved, listed, disk, serverVars, window, taskVars>> /\ Command

-----------------------------------------------------------------------------
(* The window: the server *)

ClickStart ==
  /\ Ready /\ held = NoServer /\ ~external
  /\ window' = Window("starting", "idle")
  /\ UNCHANGED <<settings, disk, serverVars, taskVars>> /\ Command

\* uuid4: a token that no process has.
Unknown(t) == \A s \in Servers : proc[s].token # t
Fresh(t) == Unknown(t) /\ t = CHOOSE u \in Tokens : Unknown(u)

\* start_server, up to command.spawn(), which may fail: it looks at the port
\* being edited.
StartServer ==
  /\ window.pc = "starting"
  /\ \E healthy \in Answers(edit.port) :
       \/ /\ external' = (healthy \/ external)
          /\ window' = Window("ready", "idle")
          /\ UNCHANGED <<proc, held, told>>
       \/ /\ ~healthy /\ Preload \in listed
          /\ \E s \in Servers, t \in Tokens :
               /\ FreePlace(s) /\ Fresh(t)
               /\ proc' = [proc EXCEPT ![s] = [NoProcess EXCEPT !.pc = "spawned", !.token = t]]
               /\ held' = s
               /\ told' = [port |-> edit.port, token |-> t]
          /\ window' = Window("assign", "idle")
          /\ UNCHANGED external
  /\ UNCHANGED <<settings, disk, taskVars>> /\ Unasked

\* Mutant of AssignJob: the child is not put in a job.
AssignNothing ==
  /\ window.pc = "assign"
  /\ external' = FALSE
  /\ window' = Window("ready", "idle")
  /\ UNCHANGED <<settings, disk, proc, held, told, taskVars>> /\ Unasked

\* The child is put in a job that is closed, and its processes killed, with
\* the last handle; a child that cannot be is killed at once.
AssignJob ==
  /\ window.pc = "assign"
  /\ \/ /\ proc' = [proc EXCEPT ![held].jobbed = TRUE]
        /\ external' = FALSE
        /\ UNCHANGED <<held, told>>
     \/ /\ proc' = [proc EXCEPT ![held] = NoProcess]
        /\ held' = NoServer
        /\ told' = NothingTold
        /\ UNCHANGED external
  /\ window' = Window("ready", "idle")
  /\ UNCHANGED <<settings, disk, taskVars>> /\ Unasked

\* stop asks, whatever becomes of the request, and waits.
BeginStop(then) ==
  /\ Ready /\ held # NoServer
  /\ window' = Window("stopping", then)
  /\ proc' \in Asked(proc)
  /\ UNCHANGED <<settings, disk, held, told, external, taskVars>> /\ Command

ClickStop == BeginStop("idle")
ClickRestart == BeginStop("restart")

\* The tray's Exit, with on_exit.
Exit ==
  \/ BeginStop("exit")
  \/ /\ Ready /\ held = NoServer
     /\ window' = Window("leaving", "idle")
     /\ UNCHANGED <<settings, disk, serverVars, taskVars>> /\ Command

AfterStop ==
  CASE window.then = "restart" -> Window("starting", "idle")
    [] window.then = "exit" -> Window("leaving", "idle")
    [] OTHER -> Window("ready", "idle")

\* The ServerProcess of a child that is gone is dropped: Drop runs stop again,
\* which asks whoever has the port now, and returns at once.
DropHeld ==
  /\ proc' \in Asked([proc EXCEPT ![held] = NoProcess])
  /\ held' = NoServer
  /\ told' = NothingTold

\* Mutant of StopServer: the child is waited for and never killed.
StopServerByWaiting ==
  /\ window.pc = "stopping"
  /\ ServerAt(held, "exited")
  /\ DropHeld
  /\ window' = AfterStop
  /\ UNCHANGED <<settings, disk, external, taskVars>> /\ Unasked

\* stop returns when the child has exited, or kills it after the timeout.
StopServer ==
  /\ window.pc = "stopping"
  /\ DropHeld
  /\ window' = AfterStop
  /\ UNCHANGED <<settings, disk, external, taskVars>> /\ Unasked

\* poll_server: an exited child is dropped, a living one asked for its health.
PollServer ==
  /\ Ready
  /\ IF held # NoServer /\ ServerAt(held, "exited")
       THEN DropHeld /\ UNCHANGED external
       ELSE /\ \E healthy \in Answers(edit.port) : external' = (healthy /\ held = NoServer)
            /\ UNCHANGED <<proc, held, told>>
  /\ UNCHANGED <<settings, disk, window, taskVars>> /\ Unasked

-----------------------------------------------------------------------------
(* Installers, and what a directory has of a component: nothing, a tree that *)
(* verifies, or one that the quick look takes for installed                  *)

Content == {"absent", "good", "bad"}

NoInstaller ==
  [pc |-> "none", model |-> Preload, root |-> NoRoot, mine |-> FALSE, left |-> {},
   part |-> NoComponent, met |-> FALSE]

InstallerAt(i, place) == installers[i].pc = place

\* An installer has found that a component does not verify, and is not done
\* with its directories.
WorksOn(i, r, c) ==
  /\ installers[i].pc \in {"found", "fetch", "retired", "exposed"}
  /\ installers[i].root = r /\ installers[i].part = c

\* What these installers found may have changed since.
Met(S) == [i \in Installers |-> [installers[i] EXCEPT !.met = @ \/ i \in S]]

Disowned == [i \in Installers |-> [installers[i] EXCEPT !.mine = FALSE]]

-----------------------------------------------------------------------------
(* The window and the thread: moving the models to another directory *)

NoMigration ==
  [pc |-> "none", src |-> NoRoot, dst |-> NoRoot, aliases |-> {}, copied |-> {}, left |-> {},
   staged |-> [c \in Components |-> "absent"], spoiled |-> FALSE]

MigrationGoto(place) == migration' = [migration EXCEPT !.pc = place]
Migrating == migration.pc \notin {"none", "done", "failed"} /\ window.pc # "closed"

\* start_model_migration, after its checks.  A download does not stop it.
StartMigration ==
  /\ Ready /\ migration.pc = "none" /\ held = NoServer
  /\ edit.root # saved /\ saved \in made /\ edit.root \notin used
  /\ migration' = [NoMigration EXCEPT !.pc = "copy", !.src = saved, !.dst = edit.root,
                                     !.aliases = listed]
  /\ UNCHANGED <<settings, disk, serverVars, window, installers, download>> /\ Command

\* copy_directory visits one component after the other; one that is being
\* replaced may be copied in parts.
CopyComponent(c) ==
  /\ Migrating /\ migration.pc = "copy" /\ c \notin migration.copied
  /\ \E content \in {store[migration.src][c]}
                      \cup (IF \E i \in Installers : WorksOn(i, migration.src, c)
                                                    /\ ~InstallerAt(i, "found")
                              THEN {"bad"} ELSE {}) :
       migration' = [migration EXCEPT !.staged[c] = content, !.copied = @ \cup {c}]
  /\ UNCHANGED <<settings, disk, serverVars, window, installers, download>> /\ Unasked

\* Mutant of Place: the destination is removed with what is in it.
PlaceOverAll ==
  /\ Migrating /\ migration.pc = "copy" /\ migration.copied = Components
  /\ store' = [store EXCEPT ![migration.dst] = [c \in Components |-> "absent"]]
  /\ made' = made \ {migration.dst}
  /\ used' = used \ {migration.dst}
  /\ MigrationGoto("rename")
  /\ UNCHANGED <<settings, serverVars, window, installers, download>> /\ Unasked

\* An existing destination is removed if it is still empty.
Place ==
  /\ Migrating /\ migration.pc = "copy" /\ migration.copied = Components
  /\ IF migration.dst \in used
       THEN MigrationGoto("failed") /\ UNCHANGED made
       ELSE MigrationGoto("rename") /\ made' = made \ {migration.dst}
  /\ UNCHANGED <<settings, store, used, serverVars, window, installers, download>> /\ Unasked

\* The copy takes the place of the destination.  Whether a directory that is
\* there again, and empty, is replaced depends on the platform.  An installer
\* that looked there before has met the migration.
RenameStaging ==
  /\ Migrating /\ migration.pc = "rename"
  /\ \/ /\ migration.dst \notin used
        /\ store' = [store EXCEPT ![migration.dst] = migration.staged]
        /\ made' = made \cup {migration.dst}
        /\ used' = IF migration.src \in used THEN used \cup {migration.dst} ELSE used
        /\ migration' = [migration EXCEPT !.pc = "verify", !.left = migration.aliases]
        /\ installers' = Met({i \in Installers : installers[i].root = migration.dst})
     \/ /\ migration.dst \in made
        /\ MigrationGoto("failed")
        /\ UNCHANGED <<disk, installers>>
  /\ UNCHANGED <<settings, serverVars, window, download>> /\ Unasked

\* Mutant of VerifyRoot: the models are verified by the saved settings.
VerifySavedRoot == file.root

\* The temporary settings name the destination.
VerifyRoot == migration.dst

\* verify_model runs "models verify", once for each alias that was listed.
VerifyModel(m) ==
  /\ Migrating /\ migration.pc = "verify" /\ m \in migration.left
  /\ IF \A c \in ModelComponents[m] : store[VerifyRoot][c] = "good"
       THEN migration' = [migration EXCEPT !.left = @ \ {m}]
       ELSE MigrationGoto("failed")
  /\ UNCHANGED <<settings, disk, serverVars, window, installers, download>> /\ Unasked

Verified ==
  /\ Migrating /\ migration.pc = "verify" /\ migration.left = {}
  /\ MigrationGoto("done")
  /\ UNCHANGED <<settings, disk, serverVars, window, installers, download>> /\ Unasked

\* Copying, renaming or running the command may fail, and the thread panic.
MigrationError ==
  /\ Migrating
  /\ MigrationGoto("failed")
  /\ UNCHANGED <<settings, disk, serverVars, window, installers, download>> /\ Command

\* poll_migration: a success is saved, together with whatever else is being
\* edited, and reported whether or not it could be saved.
PollMigration ==
  /\ Ready
  /\ \/ /\ migration.pc = "done"
        /\ edit' = [edit EXCEPT !.root = migration.dst]
        /\ SaveConfig(edit')
        /\ Refresh(file'.root)
     \/ /\ migration.pc = "failed"
        /\ edit' = [edit EXCEPT !.root = saved]
        /\ UNCHANGED <<file, saved, listed>>
  /\ migration' = NoMigration
  /\ Stays /\ UNCHANGED <<disk, installers, download>> /\ Unasked

-----------------------------------------------------------------------------
(* The window and the command line: installing a model *)

InstallVars == <<settings, serverVars, window>>

Launch(i, m, mine) ==
  /\ InstallerAt(i, "none") /\ i = CHOOSE j \in Installers : InstallerAt(j, "none")
  /\ installers' = [installers EXCEPT ![i] =
       [NoInstaller EXCEPT !.pc = "spawned", !.model = m, !.mine = mine]]

\* start_download, by the button of a model that is not listed as installed.
StartDownload(i, m) ==
  /\ Ready /\ m \notin listed
  /\ download = "none" /\ migration.pc = "none" /\ edit.root = saved
  /\ Launch(i, m, TRUE)
  /\ download' = "running"
  /\ UNCHANGED <<InstallVars, disk, migration>> /\ Command

\* "models install" in a terminal
InstallByHand(i, m) ==
  /\ Launch(i, m, FALSE)
  /\ UNCHANGED <<InstallVars, disk, migration, download>> /\ Command

\* The process reads server.toml on its own, and makes the directory.
ReadRoot(i) ==
  /\ InstallerAt(i, "spawned")
  /\ installers' = [installers EXCEPT ![i].pc = "check", ![i].root = file.root,
                                     ![i].left = ModelComponents[installers[i].model]]
  /\ made' = made \cup {file.root}
  /\ UNCHANGED <<InstallVars, store, used, migration, download>> /\ Unasked

\* Mutant of Check: every component is installed again.
CheckNothing(i, c) ==
  /\ InstallerAt(i, "check") /\ c \in installers[i].left
  /\ LET others == {j \in Installers \ {i} : WorksOn(j, installers[i].root, c)} IN
     installers' = [Met(others) EXCEPT ![i].pc = "found", ![i].part = c, ![i].met = others # {}]
  /\ UNCHANGED <<InstallVars, disk, migration, download>> /\ Unasked

\* install_model: a component that verifies is skipped.
Check(i, c) ==
  /\ InstallerAt(i, "check") /\ c \in installers[i].left
  /\ LET others == {j \in Installers \ {i} : WorksOn(j, installers[i].root, c)} IN
     installers' =
       IF store[installers[i].root][c] = "good"
         THEN [installers EXCEPT ![i].left = @ \ {c}]
         ELSE [Met(others) EXCEPT ![i].pc = "found", ![i].part = c, ![i].met = others # {}]
  /\ UNCHANGED <<InstallVars, disk, migration, download>> /\ Unasked

\* .downloads/<key> is made, and filled.
BeginFetch(i) ==
  /\ InstallerAt(i, "found")
  /\ made' = made \cup {installers[i].root}
  /\ used' = used \cup {installers[i].root}
  /\ installers' = [installers EXCEPT ![i].pc = "fetch"]
  /\ UNCHANGED <<InstallVars, store, migration, download>> /\ Unasked

\* os.replace(destination, previous): what was there is moved away, whatever
\* became of it since it was checked.
Retire(i) ==
  /\ InstallerAt(i, "fetch")
  /\ LET r == installers[i].root
         c == installers[i].part IN
     /\ store' = [store EXCEPT ![r][c] = "absent"]
     /\ migration' = [migration EXCEPT !.spoiled = @ \/ (installers[i].met /\ r = migration.dst)]
  /\ installers' = [installers EXCEPT ![i].pc = "retired"]
  /\ UNCHANGED <<InstallVars, made, used, download>> /\ Unasked

\* os.replace(assembled, destination), onto a directory that has no files: a
\* good tree or, after a meeting, one that two installers have assembled.
Expose(i) ==
  /\ InstallerAt(i, "retired")
  /\ LET r == installers[i].root
         c == installers[i].part IN
     /\ store[r][c] = "absent"
     /\ \E content \in {"good"} \cup (IF installers[i].met THEN {"bad"} ELSE {}) :
          store' = [store EXCEPT ![r][c] = content]
  /\ installers' = [installers EXCEPT ![i].pc = "exposed"]
  /\ UNCHANGED <<InstallVars, made, used, migration, download>> /\ Unasked

\* The retired tree and the staging are removed.
Sweep(i) ==
  /\ InstallerAt(i, "exposed")
  /\ installers' = [installers EXCEPT ![i].pc = "check", ![i].left = @ \ {installers[i].part},
                                     ![i].part = NoComponent, ![i].met = FALSE]
  /\ UNCHANGED <<InstallVars, disk, migration, download>> /\ Unasked

\* The thread that reads the child's output tells how it ended, unless it has
\* told already.
InstallerEnds(i, end) ==
  /\ installers' = [installers EXCEPT ![i] = NoInstaller]
  /\ download' = IF installers[i].mine /\ download = "running" THEN end ELSE download

\* The final verify_model
Conclude(i) ==
  /\ InstallerAt(i, "check") /\ installers[i].left = {}
  /\ InstallerEnds(i, IF \A c \in ModelComponents[installers[i].model] :
                            store[installers[i].root][c] = "good" THEN "done" ELSE "failed")
  /\ UNCHANGED <<InstallVars, disk, migration>> /\ Unasked

\* A download or a file operation fails, as it may whenever somebody else moves
\* the same files, or the process is killed: the disk stays as it is.
InstallFails(i) ==
  /\ ~InstallerAt(i, "none")
  /\ InstallerEnds(i, "failed")
  /\ Command \/ (installers[i].met /\ Unasked)
  /\ UNCHANGED <<InstallVars, disk, migration>>

\* cancel kills the child, as far as it got.
CancelDownload(i) ==
  /\ Ready /\ installers[i].mine
  /\ InstallerEnds(i, "failed")
  /\ UNCHANGED <<InstallVars, disk, migration>> /\ Command

\* A line that is no event ends the thread that reads the output: the download
\* has failed, and the child goes on.
GarbledOutput(i) ==
  /\ installers[i].mine /\ download = "running"
  /\ download' = "failed"
  /\ UNCHANGED <<InstallVars, disk, migration, installers>> /\ Command

\* poll_download: the CliTask is dropped, its child, if it still runs, is not.
PollDownload ==
  /\ Ready /\ download \in {"done", "failed"}
  /\ download' = "none"
  /\ installers' = Disowned
  /\ IF download = "done" THEN Refresh(file.root) ELSE UNCHANGED listed
  /\ Stays /\ UNCHANGED <<file, edit, saved, disk, migration>> /\ Unasked

-----------------------------------------------------------------------------
(* The Manager's life *)

\* NotaManagerApp::new; a first list of models that fails is empty.
Open ==
  /\ window.pc = "closed"
  /\ edit' = [port |-> file.port, root |-> file.root, garbled |-> FALSE]
  /\ saved' = file.root
  /\ listed' \in {{}, InstalledIn(file.root)}
  /\ external' = FALSE
  /\ download' = "none"
  /\ \E pc \in {"ready", "starting"} : window' = Window(pc, "idle")
  /\ UNCHANGED <<file, disk, proc, held, told, migration, installers>> /\ Unasked

\* The process ends: its threads end where they are, its handles are closed,
\* and the job takes the server with it.  Its other children live on.  What it
\* had in memory is gone; Open sets all of it anew, so any value will do.
Gone ==
  /\ window' = Window("closed", "idle")
  /\ proc' = [s \in Servers |-> IF proc[s].jobbed \/ (s = held /\ ~Alive(s))
                                 THEN NoProcess ELSE proc[s]]
  /\ held' = NoServer
  /\ told' = NothingTold
  /\ migration' = NoMigration
  /\ installers' = Disowned
  /\ edit' = [port |-> file.port, root |-> saved, garbled |-> FALSE]
  /\ listed' = {} /\ external' = FALSE /\ download' = "none"
  /\ UNCHANGED <<file, saved, disk>>

Close == window.pc = "leaving" /\ Gone /\ Unasked
Crash == window.pc # "closed" /\ Gone /\ Command

-----------------------------------------------------------------------------

\* Settings, and models that were installed earlier, some of them damaged
\* since; the second directory may exist.
Init ==
  /\ file \in [port : Ports, root : Roots]
  /\ edit = [port |-> file.port, root |-> file.root, garbled |-> FALSE]
  /\ saved = file.root
  /\ listed = {}
  /\ store \in [Roots -> [Components -> Content]]
  /\ used = {r \in Roots : \E c \in Components : store[r][c] # "absent"}
  /\ made \in {used \cup S : S \in SUBSET Roots}
  /\ proc = [s \in Servers |-> NoProcess]
  /\ held = NoServer
  /\ told = NothingTold
  /\ external = FALSE
  /\ window = Window("closed", "idle")
  /\ migration = NoMigration
  /\ installers = [i \in Installers |-> NoInstaller]
  /\ download = "none"
  /\ commands = 0

ServerNext ==
  \E s \in Servers :
    ReadSettings(s) \/ Bind(s) \/ Leave(s) \/ Hear(s) \/ \E p \in Ports : StartByHand(s, p)

SettingsNext ==
  EditPort \/ SaveSettings \/ UseNewDirectory \/ ReloadConfig \/ RefreshModels \/ EditFile
    \/ \E r \in Roots : EditRoot(r)

ControlNext ==
  ClickStart \/ StartServer \/ AssignJob \/ ClickStop \/ ClickRestart \/ Exit \/ StopServer
    \/ PollServer

MigrationNext ==
  StartMigration \/ Place \/ RenameStaging \/ Verified \/ MigrationError \/ PollMigration
    \/ (\E c \in Components : CopyComponent(c)) \/ (\E m \in Models : VerifyModel(m))

InstallNext ==
  \/ \E i \in Installers :
       \/ \E m \in Models : StartDownload(i, m) \/ InstallByHand(i, m)
       \/ \E c \in Components : Check(i, c)
       \/ ReadRoot(i) \/ BeginFetch(i) \/ Retire(i) \/ Expose(i) \/ Sweep(i)
       \/ Conclude(i) \/ InstallFails(i) \/ CancelDownload(i) \/ GarbledOutput(i)
  \/ PollDownload

Next ==
  ServerNext \/ SettingsNext \/ ControlNext \/ MigrationNext \/ InstallNext
    \/ Open \/ Close \/ Crash

Spec == Init /\ [][Next]_vars

\* The handlers of the window run to their end; nothing is assumed of servers,
\* of the user or of the other processes.
Fairness == WF_vars(StartServer \/ AssignJob \/ StopServer \/ Close)

-----------------------------------------------------------------------------
(* Properties *)

Process ==
  [pc : {"none", "spawned", "loading", "serving", "draining", "exited"}, port : Ports,
   jobbed : BOOLEAN, token : Tokens \cup {NoToken}, asked : Tokens \cup {NoToken}]

InstallerRecord ==
  [pc : {"none", "spawned", "check", "found", "fetch", "retired", "exposed"},
   model : Models, root : Roots \cup {NoRoot}, mine : BOOLEAN,
   left : SUBSET Components, part : Components \cup {NoComponent}, met : BOOLEAN]

MigrationRecord ==
  [pc : {"none", "copy", "rename", "verify", "done", "failed"},
   src : Roots \cup {NoRoot}, dst : Roots \cup {NoRoot},
   aliases : SUBSET Models, copied : SUBSET Components, left : SUBSET Models,
   staged : [Components -> Content], spoiled : BOOLEAN]

TypeOK ==
  /\ file \in [port : Ports, root : Roots]
  /\ edit \in [port : Ports, root : Roots, garbled : BOOLEAN]
  /\ saved \in Roots
  /\ listed \subseteq Models
  /\ store \in [Roots -> [Components -> Content]]
  /\ made \subseteq Roots /\ used \subseteq made
  /\ proc \in [Servers -> Process]
  /\ held \in Servers \cup {NoServer}
  /\ told \in [port : Ports, token : Tokens \cup {NoToken}]
  /\ external \in BOOLEAN
  /\ window \in [pc : {"closed", "ready", "starting", "assign", "stopping", "leaving"},
                 then : {"idle", "restart", "exit"}]
  /\ migration \in MigrationRecord
  /\ installers \in [Installers -> InstallerRecord]
  /\ download \in {"none", "running", "done", "failed"}
  /\ commands \in 0..MaxCommands

\* The Manager lets go of a living server, by a stop, a restart, a poll, its exit
\* or its own death, in no case but one: it dies before it has put the child it
\* just started in a job (ServerProcess::start; stop; Drop).
NeverAbandoned ==
  [][\A s \in Servers :
       s = held /\ Alive(s) /\ held' # s =>
         \/ ~Alive(s)'
         \/ window.pc = "assign" /\ window'.pc = "closed"]_vars

\* A server drains only while the Manager that holds it stops it: not one that
\* was started by hand, or lost by an earlier Manager, and has taken the port the
\* Manager noted, though the requests of stop and of Drop reach it (the token of
\* request_shutdown and manager_shutdown).
OnlyHeldIsAsked ==
  [][\A s \in Servers :
       ~ServerAt(s, "draining") /\ ServerAt(s, "draining")' =>
         s = held /\ window.pc = "stopping"]_vars

\* A good component is lost only to an installer that, since it looked at the
\* component, shared it with another installer or with a migration into its
\* directory: an installer alone, cancelled, killed, failed or orphaned at any
\* point, loses none, and a migration none either (install_model, which does not
\* look again before it moves the component aside; migrate_model_directory, which
\* removes nothing but an empty directory).
ModelsKept ==
  [][\A r \in Roots, c \in Components :
       store[r][c] = "good" =>
         \/ store'[r][c] = "good"
         \/ \E i \in Installers : WorksOn(i, r, c) /\ installers[i].met]_vars

\* A migration changes the saved directory only to one in which every model
\* that was listed as installed verifies, and the directory it came from still
\* exists (poll_migration), even if the user saves, edits or installs meanwhile;
\* unless an installer that met another or the migration has moved something
\* away there.
SwitchIsVerified ==
  [][saved' # saved /\ migration.pc # "none" /\ migration'.pc = "none" =>
       /\ migration.src \in made'
       /\ \/ migration.spoiled
          \/ \A m \in migration.aliases : \A c \in ModelComponents[m] :
               store'[saved'][c] = "good"]_vars

\* An Exit ends, with the Manager closed, whatever its server does: one that
\* does not hear the request, because it is still loading or listens on a port
\* other than the one the Manager knows, is killed (stop).
ExitEnds == (window.pc = "stopping" /\ window.then = "exit") ~> (window.pc = "closed")
=============================================================================
