------------------------- MODULE ServerManagerProofs -------------------------
(***************************************************************************)
(* The safety of ServerManager, for any number of servers, directories,    *)
(* models and ports.                                                       *)
(***************************************************************************)
EXTENDS ServerManager, TLAPS

\* The parts of the type invariant.
SettingsOK ==
  /\ file \in [port : Ports, root : Roots]
  /\ edit \in [port : Ports, root : Roots, garbled : BOOLEAN]
  /\ saved \in Roots
  /\ listed \subseteq Models

DiskOK ==
  /\ store \in [Roots -> [Components -> Content]]
  /\ made \subseteq Roots /\ used \subseteq made

ServersOK ==
  /\ proc \in [Servers -> Process]
  /\ held \in Servers \cup {NoServer}
  /\ told \in [port : Ports, token : Tokens \cup {NoToken}]
  /\ external \in BOOLEAN
  /\ window \in [pc : {"closed", "ready", "starting", "assign", "stopping", "leaving"},
                 then : {"idle", "restart", "exit"}]

MigrationOK == migration \in MigrationRecord

InstallersOK ==
  /\ installers \in [Installers -> InstallerRecord]
  /\ download \in {"none", "running", "done", "failed"}

CommandsOK == commands \in 0..MaxCommands

\* A handler that works on the child has one, and one that starts or leaves has
\* none; the child is a process, and in the job as soon as the handler that
\* started it is done.
WindowInv ==
  /\ window.pc \in {"closed", "starting", "leaving"} => held = NoServer
  /\ window.pc \in {"assign", "stopping"} => held # NoServer
  /\ held # NoServer => /\ proc[held].pc # "none"
                        /\ window.pc = "assign" \/ proc[held].jobbed

\* No two processes have the same token, the ServerProcess has the one of the
\* child, and a request carries the token of its server only while the Manager
\* that sent it stops this server.
TokenInv ==
  /\ \A s, t \in Servers : proc[s].token = proc[t].token /\ proc[s].token # NoToken => s = t
  /\ held # NoServer => proc[held].token = told.token /\ told.token # NoToken
  /\ \A s \in Servers :
       proc[s].asked # NoToken /\ proc[s].asked = proc[s].token =>
         s = held /\ window.pc = "stopping"

\* A directory with a component in it is not empty.
StoreInv == \A r \in Roots, c \in Components : store[r][c] # "absent" => r \in used

\* A migration goes from an existing directory to another one, what it has
\* copied shows that the first is not empty, and what it has verified is good
\* as long as nobody has spoiled it.
MigrationInv ==
  /\ migration.pc # "none" =>
       migration.src \in made /\ migration.dst \in Roots /\ migration.src # migration.dst
  /\ migration.pc \in {"copy", "rename"} =>
       \A c \in Components : migration.staged[c] # "absent" => migration.src \in used
  /\ migration.pc \in {"verify", "done"} /\ ~migration.spoiled =>
       \A m \in migration.aliases :
         m \in migration.left
           \/ \A c \in ModelComponents[m] : store[migration.dst][c] = "good"
  /\ migration.pc = "done" => migration.left = {}

Busy(i) == installers[i].pc \in {"found", "fetch", "retired", "exposed"}
SamePart(i, j) ==
  installers[i].root = installers[j].root /\ installers[i].part = installers[j].part

\* An installer that found a component unverified, and has met nobody since, is
\* right; two at the same component have met.
WorkInv ==
  /\ \A i \in Installers :
       /\ installers[i].pc \notin {"none", "spawned"} => installers[i].root \in Roots
       /\ Busy(i) => installers[i].part \in Components
       /\ installers[i].pc \in {"fetch", "retired", "exposed"} => installers[i].root \in used
       /\ installers[i].pc \in {"found", "fetch"} /\ ~installers[i].met =>
            store[installers[i].root][installers[i].part] # "good"
  /\ \A i, j \in Installers :
       i # j /\ Busy(i) /\ Busy(j) /\ SamePart(i, j) => installers[i].met

SafeInv ==
  /\ SettingsOK /\ CommandsOK /\ InstallersOK
  /\ ServersOK /\ WindowInv /\ TokenInv
  /\ DiskOK /\ StoreInv
  /\ MigrationOK /\ MigrationInv
  /\ WorkInv

USE DEF Content

-----------------------------------------------------------------------------
(* Types *)

LEMMA Typed == SafeInv => TypeOK
  BY DEF SafeInv, TypeOK, SettingsOK, CommandsOK, InstallersOK, ServersOK, DiskOK, MigrationOK

LEMMA FreshProcess ==
  ASSUME NEW p \in Ports
  PROVE  /\ NoProcess \in Process
         /\ NoProcess.pc = "none" /\ ~NoProcess.jobbed
         /\ NoProcess.token = NoToken /\ NoProcess.asked = NoToken
         /\ NothingTold \in [port : Ports, token : Tokens \cup {NoToken}]
         /\ NothingTold.token = NoToken
<1>1. (CHOOSE q \in Ports : TRUE) \in Ports
  OBVIOUS
<1> QED
  BY <1>1 DEF NoProcess, NothingTold, Process

LEMMA FreshMigration ==
  NoMigration \in MigrationRecord /\ NoMigration.pc = "none" /\ NoMigration.staged =
    [c \in Components |-> "absent"] /\ NoMigration.copied = {} /\ NoMigration.left = {}
  BY DEF NoMigration, MigrationRecord

LEMMA FreshInstaller ==
  NoInstaller \in InstallerRecord /\ NoInstaller.pc = "none" /\ NoInstaller.root = NoRoot
  BY ManagerAssumption DEF NoInstaller, InstallerRecord, ManagerAssumption

\* Every step is counted or is nobody's command.
LEMMA Counted == CommandsOK /\ (Command \/ Unasked) => CommandsOK'
  BY ManagerAssumption DEF CommandsOK, Command, Unasked, ManagerAssumption

LEMMA InitSafe == Init => SafeInv
<1> SUFFICES ASSUME Init PROVE SafeInv
  OBVIOUS
<1>1. SettingsOK /\ DiskOK /\ StoreInv
  BY DEF Init, SettingsOK, DiskOK, StoreInv
<1>2. CommandsOK
  BY ManagerAssumption DEF Init, CommandsOK, ManagerAssumption
<1>3. file.port \in Ports
  BY <1>1 DEF SettingsOK
<1>4. NoProcess \in Process /\ NoProcess.token = NoToken /\ NoProcess.asked = NoToken
        /\ NothingTold \in [port : Ports, token : Tokens \cup {NoToken}]
  BY <1>3, FreshProcess
<1>5. ServersOK
  BY <1>4 DEF Init, ServersOK, Window
<1>6. WindowInv /\ TokenInv
  BY <1>4 DEF Init, WindowInv, TokenInv, Window
<1>7. InstallersOK /\ WorkInv
  BY FreshInstaller DEF Init, InstallersOK, WorkInv, Busy
<1>8. MigrationOK /\ MigrationInv
  BY FreshMigration DEF Init, MigrationOK, MigrationInv
<1> QED
  BY <1>1, <1>2, <1>5, <1>6, <1>7, <1>8 DEF SafeInv

-----------------------------------------------------------------------------
(* What a step leaves alone *)

LEMMA SameSettings == SettingsOK /\ UNCHANGED settings => SettingsOK'
  BY DEF SettingsOK, settings

LEMMA SameServers ==
  ServersOK /\ WindowInv /\ TokenInv /\ UNCHANGED <<serverVars, window>> =>
    ServersOK' /\ WindowInv' /\ TokenInv'
  BY DEF ServersOK, WindowInv, TokenInv, serverVars

LEMMA SameInstallers ==
  InstallersOK /\ WorkInv /\ UNCHANGED <<installers, download, store, used>> =>
    InstallersOK' /\ WorkInv'
  BY DEF InstallersOK, WorkInv, Busy, SamePart

LEMMA SameDisk == DiskOK /\ StoreInv /\ UNCHANGED disk => DiskOK' /\ StoreInv'
  BY DEF DiskOK, StoreInv, disk

LEMMA SameMigration ==
  MigrationOK /\ MigrationInv /\ UNCHANGED <<disk, migration>> => MigrationOK' /\ MigrationInv'
  BY DEF MigrationOK, MigrationInv, disk

\* A step of the servers or of the settings leaves the models alone.
LEMMA SameModels ==
  ASSUME SafeInv, UNCHANGED <<disk, taskVars>>
  PROVE  /\ InstallersOK' /\ WorkInv' /\ DiskOK' /\ StoreInv' /\ MigrationOK' /\ MigrationInv'
  BY SameInstallers, SameDisk, SameMigration DEF SafeInv, taskVars, disk

\* A request changes no more than what its receiver is asked.
LEMMA Requested ==
  ASSUME NEW t \in [Servers -> Process], NEW u \in Asked(t),
         told \in [port : Ports, token : Tokens \cup {NoToken}]
  PROVE  /\ u \in [Servers -> Process]
         /\ \A s \in Servers :
              /\ u[s].pc = t[s].pc /\ u[s].jobbed = t[s].jobbed /\ u[s].token = t[s].token
              /\ u[s].asked = t[s].asked \/ u[s].asked = told.token
<1>1. CASE u = t
  BY <1>1
<1>2. ASSUME NEW s \in Servers, u = [t EXCEPT ![s].asked = told.token]
      PROVE  /\ u \in [Servers -> Process]
             /\ \A v \in Servers :
                  /\ u[v].pc = t[v].pc /\ u[v].jobbed = t[v].jobbed /\ u[v].token = t[v].token
                  /\ u[v].asked = t[v].asked \/ u[v].asked = told.token
  BY <1>2 DEF Process
<1> QED
  BY <1>1, <1>2 DEF Asked

-----------------------------------------------------------------------------
(* The server processes *)

\* One process changes, and keeps its token and what it is asked or loses them;
\* the child it may be stays a process of its job.
LEMMA OneProcess ==
  ASSUME ServersOK, WindowInv, TokenInv, UNCHANGED <<held, told, external, window>>,
         NEW s \in Servers, NEW p \in Process, proc' = [proc EXCEPT ![s] = p],
         s = held => p.pc # "none" /\ p.jobbed = proc[s].jobbed /\ p.token = proc[s].token,
         p.token \in {proc[s].token, NoToken},
         p.asked # NoToken => p.asked = proc[s].asked /\ p.token = proc[s].token
  PROVE  ServersOK' /\ WindowInv' /\ TokenInv'
<1>1. proc \in [Servers -> Process] /\ proc' \in [Servers -> Process]
  BY DEF ServersOK
<1>2. ServersOK' /\ WindowInv'
  BY <1>1 DEF ServersOK, WindowInv
<1>3. \A t \in Servers :
        /\ t # s => proc'[t] = proc[t]
        /\ proc'[t].token \in {proc[t].token, NoToken}
        /\ proc'[t].asked # NoToken =>
             proc'[t].asked = proc[t].asked /\ proc'[t].token = proc[t].token
  BY <1>1
<1>4. held # NoServer => proc'[held].token = proc[held].token
  BY <1>1 DEF ServersOK
<1> QED
  BY <1>2, <1>3, <1>4 DEF TokenInv

LEMMA ServerStep == SafeInv /\ ServerNext => SafeInv'
<1> SUFFICES ASSUME SafeInv, NEW s \in Servers,
                    \/ ReadSettings(s) \/ Bind(s) \/ Leave(s) \/ Hear(s)
                    \/ \E p \in Ports : StartByHand(s, p)
             PROVE  SafeInv'
  BY DEF ServerNext
<1>1. /\ UNCHANGED <<settings, disk, held, told, external, window, taskVars>>
      /\ Command \/ Unasked
  BY DEF ReadSettings, Bind, Leave, Hear, StartByHand
<1>2. SettingsOK' /\ CommandsOK' /\ InstallersOK' /\ WorkInv' /\ DiskOK' /\ StoreInv'
        /\ MigrationOK' /\ MigrationInv'
  BY <1>1, SameSettings, Counted, SameModels DEF SafeInv
<1>3. NoProcess \in Process /\ NoProcess.asked = NoToken /\ NoProcess.token = NoToken
        /\ file.port \in Ports
  BY FreshProcess DEF SafeInv, SettingsOK
<1>4. ServersOK /\ WindowInv /\ TokenInv
  BY DEF SafeInv
<1>5. proc[s] \in Process
  BY <1>4 DEF ServersOK
<1>6. s = held => proc[s].pc # "none"
  BY <1>4, ManagerAssumption DEF WindowInv, ManagerAssumption
<1> DEFINE Stands(p) ==
      /\ p \in Process
      /\ s = held => p.pc # "none" /\ p.jobbed = proc[s].jobbed /\ p.token = proc[s].token
      /\ p.token \in {proc[s].token, NoToken}
      /\ p.asked # NoToken => p.asked = proc[s].asked /\ p.token = proc[s].token
<1>7. ASSUME NEW p, Stands(p), proc' = [proc EXCEPT ![s] = p]
      PROVE  ServersOK' /\ WindowInv' /\ TokenInv'
  BY <1>1, <1>4, <1>7, OneProcess
<1>8. ServersOK' /\ WindowInv' /\ TokenInv'
  <2>1. CASE ReadSettings(s)
    <3> DEFINE p == [proc[s] EXCEPT !.pc = "loading", !.port = file.port]
    <3>1. Stands(p)
      BY <1>3, <1>5 DEF Process
    <3>2. proc' = [proc EXCEPT ![s] = p]
      BY <2>1 DEF ReadSettings
    <3> QED
      BY <3>1, <3>2, <1>7
  <2>2. Stands(Ended(s))
    BY <1>3, <1>5 DEF Ended, Process
  <2>3. CASE Bind(s)
    <3> DEFINE q == [proc[s] EXCEPT !.pc = "serving"]
    <3>1. Stands(q)
      BY <1>5 DEF Process
    <3>2. proc' = [proc EXCEPT ![s] = Ended(s)] \/ proc' = [proc EXCEPT ![s] = q]
      BY <2>3 DEF Bind
    <3> QED
      BY <3>1, <3>2, <2>2, <1>7
  <2>4. CASE Leave(s)
    BY <2>4, <2>2, <1>7 DEF Leave
  <2>5. CASE Hear(s)
    <3> DEFINE q == [proc[s] EXCEPT !.pc = IF Matches(s) THEN "draining" ELSE @,
                                    !.asked = NoToken]
    <3>1. Stands(q)
      BY <1>5, <1>6 DEF Process
    <3>2. proc' = [proc EXCEPT ![s] = q]
      BY <2>5 DEF Hear
    <3> QED
      BY <3>1, <3>2, <1>7
  <2>6. CASE \E p \in Ports : StartByHand(s, p)
    <3>1. PICK p \in Ports : StartByHand(s, p)
      BY <2>6
    <3> DEFINE q == [NoProcess EXCEPT !.pc = "serving", !.port = p]
    <3>2. s # held
      BY <3>1, <1>6 DEF StartByHand, FreePlace, ServerAt
    <3>3. Stands(q)
      BY <3>2, <1>3 DEF Process
    <3>4. proc' = [proc EXCEPT ![s] = q]
      BY <3>1 DEF StartByHand
    <3> QED
      BY <3>3, <3>4, <1>7
  <2> QED
    BY <2>1, <2>3, <2>4, <2>5, <2>6
<1> QED
  BY <1>2, <1>8 DEF SafeInv

-----------------------------------------------------------------------------
(* The window: settings *)

LEMMA SavedSettings ==
  ASSUME NEW e \in [port : Ports, root : Roots, garbled : BOOLEAN], SettingsOK, SaveConfig(e)
  PROVE  file' \in [port : Ports, root : Roots] /\ saved' \in Roots
  BY DEF SaveConfig, SettingsOK

LEMMA Refreshed ==
  ASSUME NEW r, listed \subseteq Models, Refresh(r)
  PROVE  listed' \subseteq Models
  BY DEF Refresh, InstalledIn

LEMMA SettingsStep == SafeInv /\ SettingsNext => SafeInv'
<1> SUFFICES ASSUME SafeInv, SettingsNext PROVE SafeInv'
  OBVIOUS
<1> USE DEF SettingsNext
<1>1. UNCHANGED <<disk, serverVars, window, taskVars>> /\ Command
  BY DEF EditPort, SaveSettings, UseNewDirectory, ReloadConfig, RefreshModels, EditFile, EditRoot,
         Stays, serverVars
<1>2. CommandsOK' /\ InstallersOK' /\ WorkInv' /\ ServersOK' /\ WindowInv' /\ TokenInv'
        /\ DiskOK' /\ StoreInv' /\ MigrationOK' /\ MigrationInv'
  BY <1>1, Counted, SameServers, SameModels DEF SafeInv
<1>3. SettingsOK
  BY DEF SafeInv
<1>4. edit \in [port : Ports, root : Roots, garbled : BOOLEAN] /\ listed \subseteq Models
  BY <1>3 DEF SettingsOK
<1>5. SettingsOK'
  <2>1. CASE EditPort
    BY <2>1, <1>3 DEF EditPort, SettingsOK
  <2>2. CASE SaveSettings
    BY <2>2, <1>3, <1>4, SavedSettings DEF SaveSettings, SettingsOK
  <2>3. CASE UseNewDirectory
    BY <2>3, <1>3, <1>4, SavedSettings, Refreshed DEF UseNewDirectory, SettingsOK
  <2>4. CASE ReloadConfig
    BY <2>4, <1>3, <1>4, Refreshed DEF ReloadConfig, SettingsOK
  <2>5. CASE RefreshModels
    BY <2>5, <1>3, <1>4, Refreshed DEF RefreshModels, SettingsOK
  <2>6. CASE EditFile
    BY <2>6, <1>3 DEF EditFile, SettingsOK
  <2>7. CASE \E r \in Roots : EditRoot(r)
    BY <2>7, <1>3 DEF EditRoot, SettingsOK
  <2> QED
    BY <2>1, <2>2, <2>3, <2>4, <2>5, <2>6, <2>7
<1> QED
  BY <1>2, <1>5 DEF SafeInv

-----------------------------------------------------------------------------
(* The window: the server *)

\* The Manager asks and waits.
LEMMA Begins ==
  ASSUME ServersOK, WindowInv, TokenInv, NEW then \in {"idle", "restart", "exit"},
         BeginStop(then)
  PROVE  ServersOK' /\ WindowInv' /\ TokenInv'
<1>1. /\ window.pc = "ready" /\ held # NoServer
      /\ window' = [pc |-> "stopping", then |-> then]
      /\ UNCHANGED <<held, told, external>> /\ proc' \in Asked(proc)
  BY DEF BeginStop, Ready, Window
<1>2. /\ proc \in [Servers -> Process] /\ held \in Servers
      /\ told \in [port : Ports, token : Tokens \cup {NoToken}]
  BY <1>1 DEF ServersOK
<1>3. /\ proc' \in [Servers -> Process]
      /\ \A s \in Servers :
           /\ proc'[s].pc = proc[s].pc /\ proc'[s].jobbed = proc[s].jobbed
           /\ proc'[s].token = proc[s].token
           /\ proc'[s].asked = proc[s].asked \/ proc'[s].asked = told.token
  BY <1>1, <1>2, Requested
<1>4. ServersOK'
  BY <1>1, <1>3 DEF ServersOK
<1>5. WindowInv'
  BY <1>1, <1>2, <1>3 DEF WindowInv
<1>6. ASSUME NEW s \in Servers, proc'[s].asked # NoToken, proc'[s].asked = proc'[s].token
      PROVE  s = held
  BY <1>1, <1>2, <1>3, <1>6 DEF TokenInv
<1>7. TokenInv'
  BY <1>1, <1>2, <1>3, <1>6 DEF TokenInv
<1> QED
  BY <1>4, <1>5, <1>7

\* The child is gone and its ServerProcess dropped: the second request finds no
\* server with its token.
LEMMA Drops ==
  ASSUME ServersOK, WindowInv, TokenInv, held # NoServer, DropHeld, NEW p \in Ports,
         external' \in BOOLEAN,
         window' \in [pc : {"ready", "starting", "leaving"}, then : {"idle"}]
  PROVE  ServersOK' /\ WindowInv' /\ TokenInv'
<1> DEFINE t == [proc EXCEPT ![held] = NoProcess]
<1>1. /\ proc \in [Servers -> Process] /\ held \in Servers
      /\ told \in [port : Ports, token : Tokens \cup {NoToken}]
  BY DEF ServersOK
<1>2. /\ NoProcess \in Process /\ NoProcess.token = NoToken /\ NoProcess.asked = NoToken
      /\ NothingTold \in [port : Ports, token : Tokens \cup {NoToken}]
  BY FreshProcess
<1>3. held' = NoServer /\ told' = NothingTold /\ proc' \in Asked(t)
  BY DEF DropHeld
<1>4. t \in [Servers -> Process]
  BY <1>1, <1>2
<1>5. /\ proc' \in [Servers -> Process]
      /\ \A s \in Servers :
           /\ proc'[s].token = t[s].token
           /\ proc'[s].asked = t[s].asked \/ proc'[s].asked = told.token
  <2> HIDE DEF t
  <2> QED
    BY <1>1, <1>3, <1>4, Requested
<1>6. \A s \in Servers :
        /\ s # held => t[s] = proc[s]
        /\ s = held => t[s].token = NoToken /\ t[s].asked = NoToken
  BY <1>1, <1>2
<1>7. ServersOK' /\ WindowInv'
  BY <1>2, <1>3, <1>5 DEF ServersOK, WindowInv
<1>8. ASSUME NEW s \in Servers, proc'[s].asked # NoToken, proc'[s].asked = proc'[s].token
      PROVE  FALSE
  <2> HIDE DEF t
  <2>1. s # held /\ t[s] = proc[s]
    BY <1>5, <1>6, <1>8
  <2>2. proc[s].token # told.token
    BY <2>1, <1>1, <1>5, <1>8 DEF TokenInv
  <2> QED
    BY <2>1, <2>2, <1>5, <1>8 DEF TokenInv
<1>9. \A s, u \in Servers :
        proc'[s].token = proc'[u].token /\ proc'[s].token # NoToken => s = u
  <2> HIDE DEF t
  <2> QED
    BY <1>5, <1>6 DEF TokenInv
<1> QED
  BY <1>3, <1>7, <1>8, <1>9 DEF TokenInv

\* A server is spawned with a token of its own.
LEMMA Spawned ==
  ASSUME ServersOK, WindowInv, TokenInv, NEW s \in Servers, NEW k \in Tokens, Unknown(k),
         window.pc = "starting", NEW q \in Ports,
         proc' = [proc EXCEPT ![s] = [NoProcess EXCEPT !.pc = "spawned", !.token = k]],
         held' = s, told' = [port |-> q, token |-> k], external' \in BOOLEAN,
         window' = [pc |-> "assign", then |-> "idle"]
  PROVE  ServersOK' /\ WindowInv' /\ TokenInv'
<1> DEFINE p == [NoProcess EXCEPT !.pc = "spawned", !.token = k]
<1>1. proc \in [Servers -> Process] /\ k # NoToken /\ s # NoServer
  BY ManagerAssumption DEF ServersOK, ManagerAssumption
<1>2. p \in Process /\ p.pc = "spawned" /\ p.token = k /\ p.asked = NoToken
  BY FreshProcess DEF Process
<1>3. proc' \in [Servers -> Process] /\ proc'[s] = p /\ \A u \in Servers \ {s} : proc'[u] = proc[u]
  BY <1>1, <1>2
<1> HIDE DEF p
<1>4. ServersOK' /\ WindowInv'
  <2>1. told' \in [port : Ports, token : Tokens \cup {NoToken}] /\ held' \in Servers
    OBVIOUS
  <2>2. ServersOK'
    BY <2>1, <1>3 DEF ServersOK
  <2>3. proc'[held'].pc = "spawned" /\ window'.pc = "assign"
    BY <1>2, <1>3
  <2>4. WindowInv'
    BY <2>3, <1>1 DEF WindowInv
  <2> QED
    BY <2>2, <2>4
<1>5. \A u, v \in Servers : proc'[u].token = proc'[v].token /\ proc'[u].token # NoToken => u = v
  BY <1>2, <1>3 DEF TokenInv, Unknown
<1>6. \A u \in Servers : proc'[u].asked # NoToken => proc'[u].asked # proc'[u].token
  BY <1>2, <1>3 DEF TokenInv
<1> QED
  BY <1>1, <1>2, <1>3, <1>4, <1>5, <1>6 DEF TokenInv

LEMMA ControlStep == SafeInv /\ ControlNext => SafeInv'
<1> SUFFICES ASSUME SafeInv, ControlNext PROVE SafeInv'
  OBVIOUS
<1> USE DEF ControlNext
<1>1. UNCHANGED <<settings, disk, taskVars>> /\ (Command \/ Unasked)
  BY DEF ClickStart, StartServer, AssignJob, ClickStop, ClickRestart, BeginStop, Exit, StopServer,
         PollServer
<1>2. SettingsOK' /\ CommandsOK' /\ InstallersOK' /\ WorkInv' /\ DiskOK' /\ StoreInv'
        /\ MigrationOK' /\ MigrationInv'
  BY <1>1, SameSettings, Counted, SameModels DEF SafeInv
<1>3. /\ NoProcess \in Process /\ NoProcess.token = NoToken /\ NoProcess.asked = NoToken
      /\ NothingTold \in [port : Ports, token : Tokens \cup {NoToken}] /\ edit.port \in Ports
  BY FreshProcess DEF SafeInv, SettingsOK
<1>4. ServersOK /\ WindowInv /\ TokenInv /\ NoServer \notin Servers
  BY ManagerAssumption DEF SafeInv, ManagerAssumption
<1>5. /\ proc \in [Servers -> Process] /\ held \in Servers \cup {NoServer}
      /\ told \in [port : Ports, token : Tokens \cup {NoToken}]
      /\ external \in BOOLEAN
      /\ window.pc \in {"closed", "ready", "starting", "assign", "stopping", "leaving"}
  BY <1>4 DEF ServersOK
<1>6. Ready => window.pc = "ready"
  BY DEF Ready, Window
<1>7. AfterStop \in [pc : {"ready", "starting", "leaving"}, then : {"idle"}]
  BY DEF AfterStop, Window
<1>8. \A port : \A healthy \in Answers(port) : healthy \in BOOLEAN
  BY DEF Answers
\* A step between two handlers that touches no process.
<1>9. ASSUME UNCHANGED <<proc, held, told>>, external' \in BOOLEAN, window.pc # "stopping",
             window' \in [pc : {"ready", "starting", "leaving"}, then : {"idle"}],
             window'.pc \in {"starting", "leaving"} => held = NoServer,
             held # NoServer => proc[held].jobbed
      PROVE  ServersOK' /\ WindowInv' /\ TokenInv'
  BY <1>9, <1>4 DEF ServersOK, WindowInv, TokenInv
<1>10. held # NoServer /\ window.pc # "assign" => proc[held].jobbed
  BY <1>4 DEF WindowInv
<1>11. ServersOK' /\ WindowInv' /\ TokenInv'
  <2>1. CASE ClickStart
    <3>1. /\ UNCHANGED <<proc, held, told, external>> /\ held = NoServer
          /\ window' = [pc |-> "starting", then |-> "idle"]
          /\ window.pc = "ready"
      BY <2>1, <1>6 DEF ClickStart, Window, serverVars
    <3> QED
      BY <3>1, <1>5, <1>9
  <2>2. CASE StartServer
    <3>1. window.pc = "starting" /\ held = NoServer
      BY <2>2, <1>4 DEF StartServer, WindowInv
    <3>2. PICK healthy \in Answers(edit.port) :
       \/ /\ external' = (healthy \/ external)
          /\ window' = Window("ready", "idle")
          /\ UNCHANGED <<proc, held, told>>
       \/ /\ ~healthy /\ Preload \in listed
          /\ \E s \in Servers, t \in Tokens :
               /\ FreePlace(s) /\ Fresh(t)
               /\ proc' = [proc EXCEPT ![s] = [NoProcess EXCEPT !.pc = "spawned", !.token = t]]
               /\ held' = s
               /\ told' = [port |-> edit.port, token |-> t]
          /\ window' = Window("assign", "idle")
          /\ UNCHANGED external
      BY <2>2 DEF StartServer
    <3>3. CASE /\ external' = (healthy \/ external) /\ window' = Window("ready", "idle")
               /\ UNCHANGED <<proc, held, told>>
      <4>1. external' \in BOOLEAN
        BY <3>3, <1>5, <1>8
      <4>2. window' = [pc |-> "ready", then |-> "idle"]
        BY <3>3 DEF Window
      <4> QED
        BY <3>1, <3>3, <4>1, <4>2, <1>9
    <3>4. CASE \E s \in Servers, t \in Tokens :
                 /\ FreePlace(s) /\ Fresh(t)
                 /\ proc' = [proc EXCEPT ![s] = [NoProcess EXCEPT !.pc = "spawned", !.token = t]]
                 /\ held' = s
                 /\ told' = [port |-> edit.port, token |-> t]
                 /\ window' = Window("assign", "idle")
                 /\ UNCHANGED external
      <4>1. PICK s \in Servers, t \in Tokens :
                 /\ FreePlace(s) /\ Fresh(t)
                 /\ proc' = [proc EXCEPT ![s] = [NoProcess EXCEPT !.pc = "spawned", !.token = t]]
                 /\ held' = s
                 /\ told' = [port |-> edit.port, token |-> t]
                 /\ window' = Window("assign", "idle")
                 /\ UNCHANGED external
        BY <3>4
      <4>2. Unknown(t) /\ window' = [pc |-> "assign", then |-> "idle"] /\ external' \in BOOLEAN
        BY <4>1, <1>5 DEF Fresh, Window
      <4> QED
        BY <4>1, <4>2, <3>1, <1>3, <1>4, Spawned
    <3> QED
      BY <3>2, <3>3, <3>4
  <2>3. CASE AssignJob
    <3>1. /\ window.pc = "assign" /\ held \in Servers /\ proc[held].pc # "none"
          /\ window' = [pc |-> "ready", then |-> "idle"]
      BY <2>3, <1>4, <1>5 DEF AssignJob, WindowInv, Window
    <3>2. CASE /\ proc' = [proc EXCEPT ![held].jobbed = TRUE] /\ external' = FALSE
               /\ UNCHANGED <<held, told>>
      <4> DEFINE p == [proc[held] EXCEPT !.jobbed = TRUE]
      <4>1. /\ p \in Process /\ p.pc = proc[held].pc /\ p.jobbed
            /\ p.token = proc[held].token /\ p.asked = proc[held].asked
        BY <3>1, <1>5 DEF Process
      <4>2. /\ proc' \in [Servers -> Process] /\ proc'[held] = p
            /\ \A u \in Servers \ {held} : proc'[u] = proc[u]
        BY <4>1, <3>1, <3>2, <1>5
      <4> HIDE DEF p
      <4>3. ServersOK' /\ WindowInv'
        BY <4>1, <4>2, <3>1, <3>2, <1>5 DEF ServersOK, WindowInv
      <4>4. \A u \in Servers : proc'[u].token = proc[u].token /\ proc'[u].asked = proc[u].asked
        BY <4>1, <4>2
      <4>5. TokenInv'
        BY <4>4, <3>1, <3>2, <1>4 DEF TokenInv
      <4> QED
        BY <4>3, <4>5
    <3>3. CASE /\ proc' = [proc EXCEPT ![held] = NoProcess] /\ held' = NoServer
               /\ told' = NothingTold /\ UNCHANGED external
      <4>1. /\ proc' \in [Servers -> Process] /\ proc'[held] = NoProcess
            /\ \A u \in Servers \ {held} : proc'[u] = proc[u]
        BY <3>1, <3>3, <1>3, <1>5
      <4>2. ServersOK' /\ WindowInv'
        BY <4>1, <3>1, <3>3, <1>3, <1>5 DEF ServersOK, WindowInv
      <4>3. TokenInv'
        BY <4>1, <3>1, <3>3, <1>3, <1>4 DEF TokenInv
      <4> QED
        BY <4>2, <4>3
    <3> QED
      BY <2>3, <3>2, <3>3 DEF AssignJob
  <2>4. CASE ClickStop \/ ClickRestart
    BY <2>4, <1>4, Begins DEF ClickStop, ClickRestart
  <2>5. CASE Exit
    <3>1. CASE BeginStop("exit")
      BY <3>1, <1>4, Begins
    <3>2. CASE /\ Ready /\ held = NoServer /\ window' = Window("leaving", "idle")
               /\ UNCHANGED serverVars
      <4>1. /\ UNCHANGED <<proc, held, told, external>> /\ held = NoServer
            /\ window' = [pc |-> "leaving", then |-> "idle"] /\ window.pc = "ready"
        BY <3>2, <1>6 DEF Window, serverVars
      <4> QED
        BY <4>1, <1>5, <1>9
    <3> QED
      BY <2>5, <3>1, <3>2 DEF Exit
  <2>6. CASE StopServer
    <3>1. DropHeld /\ window' = AfterStop /\ external' \in BOOLEAN /\ held # NoServer
      BY <2>6, <1>4, <1>5 DEF StopServer, WindowInv
    <3> QED
      BY <3>1, <1>3, <1>4, <1>7, Drops
  <2>7. CASE PollServer
    <3>1. window.pc = "ready" /\ window' = window /\ window = [pc |-> "ready", then |-> "idle"]
      BY <2>7, <1>6 DEF PollServer, Ready, Window
    <3>2. CASE held # NoServer /\ ServerAt(held, "exited")
      <4>1. DropHeld /\ external' \in BOOLEAN
        BY <2>7, <3>2, <1>5 DEF PollServer
      <4> QED
        BY <4>1, <3>1, <3>2, <1>3, <1>4, Drops
    <3>3. CASE ~(held # NoServer /\ ServerAt(held, "exited"))
      <4>1. UNCHANGED <<proc, held, told>> /\ external' \in BOOLEAN
        BY <2>7, <3>3, <1>8 DEF PollServer
      <4> QED
        BY <4>1, <3>1, <1>9, <1>10
    <3> QED
      BY <3>2, <3>3
  <2> QED
    BY <2>1, <2>2, <2>3, <2>4, <2>5, <2>6, <2>7
<1> QED
  BY <1>2, <1>11 DEF SafeInv

-----------------------------------------------------------------------------
(* Moving the models *)

\* Meeting changes nothing else of an installer.
LEMMA MetKeeps ==
  ASSUME InstallersOK, NEW S, installers' = Met(S), UNCHANGED download
  PROVE  /\ InstallersOK'
         /\ \A i \in Installers :
              /\ installers'[i].pc = installers[i].pc /\ installers'[i].root = installers[i].root
              /\ installers'[i].part = installers[i].part
              /\ installers[i].met => installers'[i].met
              /\ i \in S => installers'[i].met
<1>1. ASSUME NEW i \in Installers
      PROVE  /\ installers'[i] \in InstallerRecord
             /\ installers'[i].pc = installers[i].pc /\ installers'[i].root = installers[i].root
             /\ installers'[i].part = installers[i].part
             /\ installers'[i].met = (installers[i].met \/ i \in S)
  <2> DEFINE e == [installers[i] EXCEPT !.met = @ \/ i \in S]
  <2>1. installers[i] \in InstallerRecord
    BY DEF InstallersOK
  <2>2. (installers[i].met \/ i \in S) \in BOOLEAN
    BY <2>1 DEF InstallerRecord
  <2>3. /\ e \in InstallerRecord /\ e.pc = installers[i].pc /\ e.root = installers[i].root
        /\ e.part = installers[i].part /\ e.met = (installers[i].met \/ i \in S)
    BY <2>1, <2>2 DEF InstallerRecord
  <2> QED
    BY <2>3 DEF Met
<1> QED
  BY <1>1 DEF InstallersOK, Met

LEMMA MigrationStep == SafeInv /\ MigrationNext => SafeInv'
<1> SUFFICES ASSUME SafeInv, MigrationNext PROVE SafeInv'
  OBVIOUS
<1> USE DEF MigrationNext
<1>1. UNCHANGED <<serverVars, window, download>> /\ (Command \/ Unasked)
  BY DEF StartMigration, Place, RenameStaging, Verified, MigrationError, PollMigration,
         CopyComponent, VerifyModel, Stays, serverVars
<1>2. CommandsOK' /\ ServersOK' /\ WindowInv' /\ TokenInv'
  BY <1>1, Counted, SameServers DEF SafeInv
<1>3. /\ SettingsOK /\ DiskOK /\ StoreInv /\ MigrationOK /\ MigrationInv
      /\ InstallersOK /\ WorkInv
      /\ NoRoot \notin Roots
  BY ManagerAssumption DEF SafeInv, ManagerAssumption
<1>4. /\ saved \in Roots /\ edit.root \in Roots /\ listed \subseteq Models
      /\ edit \in [port : Ports, root : Roots, garbled : BOOLEAN]
  BY <1>3 DEF SettingsOK
<1>5. migration.src \in Roots \cup {NoRoot} /\ migration.dst \in Roots \cup {NoRoot}
      /\ migration.aliases \subseteq Models /\ migration.left \subseteq Models
      /\ migration.staged \in [Components -> Content]
      /\ migration.pc \in {"none", "copy", "rename", "verify", "done", "failed"}
  BY <1>3 DEF MigrationOK, MigrationRecord
\* Where the thread goes next, without touching the disk.
<1>6. ASSUME NEW place \in {"rename", "failed"}, Migrating, MigrationGoto(place)
      PROVE  MigrationOK' /\ migration.pc # "none"
             /\ \A f \in {"src", "dst", "aliases", "left", "staged", "spoiled"} :
                  migration'[f] = migration[f]
             /\ migration'.pc = place
  BY <1>6, <1>3 DEF MigrationOK, MigrationRecord, MigrationGoto, Migrating
<1>7. Migrating => migration.pc # "none"
  BY DEF Migrating
<1>8. SettingsOK' /\ DiskOK' /\ StoreInv' /\ MigrationOK' /\ MigrationInv'
  <2>1. CASE StartMigration
    <3>1. /\ migration' = [NoMigration EXCEPT !.pc = "copy", !.src = saved, !.dst = edit.root,
                                              !.aliases = listed]
          /\ UNCHANGED <<settings, disk>> /\ saved \in made /\ edit.root # saved
      BY <2>1 DEF StartMigration
    <3>2. /\ migration'.pc = "copy" /\ migration'.src = saved /\ migration'.dst = edit.root
          /\ migration'.staged = [c \in Components |-> "absent"]
          /\ MigrationOK'
      BY <3>1, <1>4, FreshMigration DEF MigrationOK, MigrationRecord
    <3>3. MigrationInv'
      BY <3>1, <3>2, <1>4 DEF MigrationInv, disk
    <3> QED
      BY <3>1, <3>2, <3>3, <1>3, SameSettings, SameDisk
  <2>2. ASSUME NEW c \in Components, CopyComponent(c)
        PROVE  SettingsOK' /\ DiskOK' /\ StoreInv' /\ MigrationOK' /\ MigrationInv'
    <3>1. PICK content \in {store[migration.src][c]}
                      \cup (IF \E i \in Installers : WorksOn(i, migration.src, c)
                                                    /\ ~InstallerAt(i, "found")
                              THEN {"bad"} ELSE {}) :
            migration' = [migration EXCEPT !.staged[c] = content, !.copied = @ \cup {c}]
      BY <2>2 DEF CopyComponent
    <3>2. UNCHANGED <<settings, disk>> /\ migration.pc = "copy" /\ migration.src \in Roots
      BY <2>2, <1>3, <1>5 DEF CopyComponent, MigrationInv, DiskOK
    <3>3. content \in Content /\ (content # "absent" => migration.src \in used)
      <4>1. CASE content = store[migration.src][c]
        BY <4>1, <3>2, <1>3 DEF DiskOK, StoreInv
      <4>2. CASE content = "bad" /\ \E i \in Installers : WorksOn(i, migration.src, c)
                                                         /\ ~InstallerAt(i, "found")
        BY <4>2, <1>3 DEF WorkInv, WorksOn, InstallerAt
      <4> QED
        BY <3>1, <4>1, <4>2
    <3>4. MigrationOK'
      BY <3>1, <3>3, <1>3 DEF MigrationOK, MigrationRecord
    <3>5. /\ migration'.pc = "copy" /\ migration'.src = migration.src
          /\ migration'.dst = migration.dst
          /\ migration'.staged = [migration.staged EXCEPT ![c] = content]
      BY <3>1, <3>2, <1>3 DEF MigrationOK, MigrationRecord
    <3>6. \A d \in Components : migration'.staged[d] # "absent" => migration.src \in used
      BY <3>2, <3>3, <3>5, <1>3, <1>5 DEF MigrationInv
    <3>7. MigrationInv'
      BY <3>2, <3>5, <3>6, <1>3 DEF MigrationInv, disk
    <3> QED
      BY <3>2, <3>4, <3>7, <1>3, SameSettings, SameDisk
  <2>3. CASE Place
    <3>1. /\ UNCHANGED settings /\ Migrating /\ migration.pc = "copy" /\ UNCHANGED <<store, used>>
      BY <2>3 DEF Place
    <3>2. CASE migration.dst \in used
      <4>1. UNCHANGED disk /\ MigrationGoto("failed")
        BY <2>3, <3>2 DEF Place, disk
      <4>2. MigrationOK' /\ MigrationInv'
        BY <4>1, <3>1, <1>3, <1>6 DEF MigrationInv, disk
      <4> QED
        BY <4>1, <4>2, <3>1, <1>3, SameSettings, SameDisk
    <3>3. CASE migration.dst \notin used
      <4>1. made' = made \ {migration.dst} /\ MigrationGoto("rename")
        BY <2>3, <3>3 DEF Place
      <4>2. DiskOK' /\ StoreInv'
        BY <4>1, <3>1, <3>3, <1>3 DEF DiskOK, StoreInv
      <4>3. MigrationOK' /\ MigrationInv'
        BY <4>1, <3>1, <1>3, <1>6 DEF MigrationInv
      <4> QED
        BY <4>2, <4>3, <3>1, <1>3, SameSettings
    <3> QED
      BY <3>2, <3>3
  <2>4. CASE RenameStaging
    <3>1. UNCHANGED settings /\ Migrating /\ migration.pc = "rename"
      BY <2>4 DEF RenameStaging
    <3>2. /\ migration.src \in made /\ migration.dst \in Roots /\ migration.src # migration.dst
          /\ \A c \in Components : migration.staged[c] # "absent" => migration.src \in used
      BY <3>1, <1>3 DEF MigrationInv
    <3>3. CASE /\ migration.dst \notin used
               /\ store' = [store EXCEPT ![migration.dst] = migration.staged]
               /\ made' = made \cup {migration.dst}
               /\ used' = IF migration.src \in used THEN used \cup {migration.dst} ELSE used
               /\ migration' = [migration EXCEPT !.pc = "verify", !.left = migration.aliases]
               /\ installers' = Met({i \in Installers : installers[i].root = migration.dst})
      <4>1. DiskOK'
        BY <3>2, <3>3, <1>3, <1>5 DEF DiskOK
      <4>2. ASSUME NEW r \in Roots, NEW c \in Components, store'[r][c] # "absent"
            PROVE  r \in used'
        BY <4>2, <3>2, <3>3, <1>3 DEF DiskOK, StoreInv
      <4>3. MigrationOK'
        BY <3>3, <1>3 DEF MigrationOK, MigrationRecord
      <4>4. /\ migration'.pc = "verify" /\ migration'.src = migration.src
            /\ migration'.dst = migration.dst /\ migration'.aliases = migration.aliases
            /\ migration'.left = migration.aliases
        BY <3>3, <1>3 DEF MigrationOK, MigrationRecord
      <4>5. MigrationInv'
        BY <4>4, <3>2, <3>3 DEF MigrationInv
      <4> QED
        BY <4>1, <4>2, <4>3, <4>5, <3>1, <1>3, SameSettings DEF StoreInv
    <3>4. CASE MigrationGoto("failed") /\ UNCHANGED disk
      <4>1. MigrationOK' /\ MigrationInv'
        BY <3>4, <3>1, <1>3, <1>6 DEF MigrationInv, disk
      <4> QED
        BY <4>1, <3>1, <3>4, <1>3, SameSettings, SameDisk
    <3> QED
      BY <2>4, <3>3, <3>4 DEF RenameStaging
  <2>5. ASSUME NEW m \in Models, VerifyModel(m)
        PROVE  SettingsOK' /\ DiskOK' /\ StoreInv' /\ MigrationOK' /\ MigrationInv'
    <3>1. UNCHANGED <<settings, disk>> /\ Migrating /\ migration.pc = "verify"
      BY <2>5 DEF VerifyModel
    <3>2. CASE MigrationGoto("failed")
      <4>1. MigrationOK' /\ MigrationInv'
        BY <3>1, <3>2, <1>3, <1>6 DEF MigrationInv, disk
      <4> QED
        BY <4>1, <3>1, <1>3, SameSettings, SameDisk
    <3>3. CASE /\ \A c \in ModelComponents[m] : store[VerifyRoot][c] = "good"
               /\ migration' = [migration EXCEPT !.left = @ \ {m}]
      <4>1. MigrationOK'
        BY <3>3, <1>3 DEF MigrationOK, MigrationRecord
      <4>2. /\ migration'.pc = "verify" /\ migration'.src = migration.src
            /\ migration'.dst = migration.dst /\ migration'.aliases = migration.aliases
            /\ migration'.left = migration.left \ {m} /\ migration'.spoiled = migration.spoiled
        BY <3>1, <3>3, <1>3 DEF MigrationOK, MigrationRecord
      <4>3. MigrationInv'
        BY <4>2, <3>1, <3>3, <1>3 DEF MigrationInv, VerifyRoot, disk
      <4> QED
        BY <4>1, <4>3, <3>1, <1>3, SameSettings, SameDisk
    <3> QED
      BY <2>5, <3>2, <3>3 DEF VerifyModel
  <2>6. CASE Verified
    <3>1. /\ UNCHANGED <<settings, disk>> /\ migration.pc = "verify" /\ migration.left = {}
          /\ migration' = [migration EXCEPT !.pc = "done"]
      BY <2>6 DEF Verified, MigrationGoto
    <3>2. MigrationOK'
      BY <3>1, <1>3 DEF MigrationOK, MigrationRecord
    <3>3. /\ migration'.pc = "done" /\ migration'.src = migration.src
          /\ migration'.dst = migration.dst /\ migration'.aliases = migration.aliases
          /\ migration'.left = {} /\ migration'.spoiled = migration.spoiled
      BY <3>1, <1>3 DEF MigrationOK, MigrationRecord
    <3>4. MigrationInv'
      BY <3>1, <3>3, <1>3 DEF MigrationInv, disk
    <3> QED
      BY <3>1, <3>2, <3>4, <1>3, SameSettings, SameDisk
  <2>7. CASE MigrationError
    <3>1. UNCHANGED <<settings, disk>> /\ Migrating /\ MigrationGoto("failed")
      BY <2>7 DEF MigrationError
    <3>2. MigrationOK' /\ MigrationInv'
      BY <3>1, <1>3, <1>6 DEF MigrationInv, disk
    <3> QED
      BY <3>1, <3>2, <1>3, SameSettings, SameDisk
  <2>8. CASE PollMigration
    <3>1. UNCHANGED disk /\ migration' = NoMigration
      BY <2>8 DEF PollMigration
    <3>2. MigrationOK' /\ MigrationInv'
      BY <3>1, FreshMigration DEF MigrationOK, MigrationInv
    <3>3. CASE /\ migration.pc = "done"
               /\ edit' = [edit EXCEPT !.root = migration.dst]
               /\ SaveConfig(edit')
               /\ Refresh(file'.root)
      <4>1. migration.dst \in Roots
        BY <3>3, <1>3 DEF MigrationInv
      <4>2. edit' \in [port : Ports, root : Roots, garbled : BOOLEAN]
        BY <3>3, <4>1, <1>4
      <4>3. file' \in [port : Ports, root : Roots] /\ saved' \in Roots
        BY <3>3, <4>2, <1>3, SavedSettings
      <4> QED
        BY <3>1, <3>2, <3>3, <4>2, <4>3, <1>3, <1>4, Refreshed, SameDisk DEF SettingsOK
    <3>4. CASE edit' = [edit EXCEPT !.root = saved] /\ UNCHANGED <<file, saved, listed>>
      BY <3>1, <3>2, <3>4, <1>3, <1>4, SameDisk DEF SettingsOK
    <3> QED
      BY <2>8, <3>3, <3>4 DEF PollMigration
  <2> QED
    BY <2>1, <2>2, <2>3, <2>4, <2>5, <2>6, <2>7, <2>8
<1>9. InstallersOK' /\ WorkInv'
  <2>1. CASE UNCHANGED <<installers, store, used>>
    BY <2>1, <1>1, <1>3, SameInstallers
  <2>2. CASE ~UNCHANGED <<installers, store, used>>
    <3>1. RenameStaging
      BY <2>2 DEF StartMigration, Place, Verified, MigrationError, PollMigration, CopyComponent,
         VerifyModel, Stays, disk
    <3>2. /\ migration.dst \in Roots /\ migration.dst \notin used
          /\ store' = [store EXCEPT ![migration.dst] = migration.staged]
          /\ used \subseteq used'
          /\ installers' = Met({i \in Installers : installers[i].root = migration.dst})
      BY <2>2, <3>1, <1>3 DEF RenameStaging, MigrationInv, Migrating, disk
    <3>3. InstallersOK' /\ \A i \in Installers :
            /\ installers'[i].pc = installers[i].pc /\ installers'[i].root = installers[i].root
            /\ installers'[i].part = installers[i].part
            /\ installers[i].met => installers'[i].met
            /\ installers[i].root = migration.dst => installers'[i].met
      BY <3>2, <1>1, <1>3, MetKeeps
    <3>4. ASSUME NEW i \in Installers, installers[i].root # migration.dst,
                 installers[i].root \in Roots
          PROVE  store'[installers[i].root] = store[installers[i].root]
      BY <3>2, <3>4, <1>3 DEF DiskOK
    <3>5. WorkInv'
      <4>1. ASSUME NEW i \in Installers, installers'[i].pc \in {"found", "fetch"},
                   ~installers'[i].met
            PROVE  store'[installers'[i].root][installers'[i].part] # "good"
        <5>1. /\ installers[i].pc \in {"found", "fetch"} /\ ~installers[i].met
              /\ installers[i].root # migration.dst
          BY <3>3, <4>1
        <5>2. installers[i].root \in Roots /\ store[installers[i].root][installers[i].part] # "good"
          BY <5>1, <1>3 DEF WorkInv
        <5> QED
          BY <5>1, <5>2, <3>3, <3>4
      <4>2. ASSUME NEW i \in Installers
            PROVE  /\ Busy(i)' <=> Busy(i)
                   /\ installers'[i].pc \notin {"none", "spawned"} => installers'[i].root \in Roots
                   /\ Busy(i)' => installers'[i].part \in Components
                   /\ installers'[i].pc \in {"fetch", "retired", "exposed"} =>
                        installers'[i].root \in used'
        BY <3>2, <3>3, <1>3 DEF WorkInv, Busy
      <4>3. ASSUME NEW i \in Installers, NEW j \in Installers, i # j, Busy(i)', Busy(j)',
                   SamePart(i, j)'
            PROVE  installers'[i].met
        <5>1. SamePart(i, j)
          BY <4>3, <3>3 DEF SamePart
        <5> QED
          BY <5>1, <4>2, <4>3, <3>3, <1>3 DEF WorkInv
      <4> QED
        BY <4>1, <4>2, <4>3 DEF WorkInv
    <3> QED
      BY <3>3, <3>5
  <2> QED
    BY <2>1, <2>2
<1> QED
  BY <1>2, <1>8, <1>9 DEF SafeInv

-----------------------------------------------------------------------------
(* Installing models *)

\* One installer changes, and no other finds that a component it holds for
\* unverified has become good without having met somebody.
LEMMA OneInstaller ==
  ASSUME InstallersOK, WorkInv, NEW i \in Installers, NEW e \in InstallerRecord,
         installers' = [installers EXCEPT ![i] = e], used \subseteq used',
         download' \in {"none", "running", "done", "failed"},
         e.pc \notin {"none", "spawned"} => e.root \in Roots,
         e.pc \in {"found", "fetch", "retired", "exposed"} =>
           Busy(i) /\ e.root = installers[i].root /\ e.part = installers[i].part
             /\ e.met = installers[i].met,
         e.pc \in {"fetch", "retired", "exposed"} => e.root \in used',
         e.pc \in {"found", "fetch"} /\ ~e.met => store'[e.root][e.part] # "good",
         \A j \in Installers \ {i} :
           installers[j].pc \in {"found", "fetch"} /\ ~installers[j].met =>
             store'[installers[j].root][installers[j].part] # "good"
  PROVE  InstallersOK' /\ WorkInv'
<1>1. installers' \in [Installers -> InstallerRecord] /\ installers'[i] = e
        /\ \A j \in Installers \ {i} : installers'[j] = installers[j]
  BY DEF InstallersOK
<1>2. InstallersOK'
  BY <1>1 DEF InstallersOK
<1>3. e.pc \in {"found", "fetch", "retired", "exposed"} => e.part \in Components
  BY DEF WorkInv
<1>4. ASSUME NEW j \in Installers
      PROVE  /\ installers'[j].pc \notin {"none", "spawned"} => installers'[j].root \in Roots
             /\ Busy(j)' => installers'[j].part \in Components
             /\ installers'[j].pc \in {"fetch", "retired", "exposed"} =>
                  installers'[j].root \in used'
             /\ installers'[j].pc \in {"found", "fetch"} /\ ~installers'[j].met =>
                  store'[installers'[j].root][installers'[j].part] # "good"
  <2>1. CASE j = i
    BY <2>1, <1>1, <1>3 DEF Busy
  <2>2. CASE j # i
    BY <2>2, <1>1 DEF WorkInv, Busy
  <2> QED
    BY <2>1, <2>2
<1>5. ASSUME NEW j \in Installers, NEW k \in Installers, j # k, Busy(j)', Busy(k)',
             SamePart(j, k)'
      PROVE  installers'[j].met
  <2>1. ASSUME NEW l \in Installers, Busy(l)'
        PROVE  /\ Busy(l) /\ installers'[l].root = installers[l].root
               /\ installers'[l].part = installers[l].part /\ installers'[l].met = installers[l].met
    BY <2>1, <1>1 DEF Busy
  <2> QED
    BY <1>5, <2>1 DEF WorkInv, SamePart
<1> QED
  BY <1>2, <1>4, <1>5 DEF WorkInv

\* A disk to which something is added disturbs no migration.
LEMMA Added ==
  ASSUME DiskOK, StoreInv, MigrationOK, MigrationInv, UNCHANGED <<store, migration>>,
         NEW r \in Roots, made' \in {made, made \cup {r}},
         used' = used \/ (used' = used \cup {r} /\ made' = made \cup {r})
  PROVE  DiskOK' /\ StoreInv' /\ MigrationOK' /\ MigrationInv' /\ used \subseteq used'
<1>1. made \subseteq made' /\ used \subseteq used'
  OBVIOUS
<1>2. DiskOK' /\ StoreInv'
  BY <1>1 DEF DiskOK, StoreInv
<1>3. MigrationOK' /\ MigrationInv'
  BY <1>1 DEF MigrationOK, MigrationInv
<1> QED
  BY <1>1, <1>2, <1>3

\* The first look at a component that does not verify: whoever works on it
\* already has met this installer.
LEMMA Finds ==
  ASSUME InstallersOK, WorkInv, UNCHANGED <<store, used, download>>, NEW i \in Installers,
         NEW c \in Components, installers[i].pc = "check",
         store[installers[i].root][c] # "good",
         NEW S, S = {j \in Installers \ {i} : WorksOn(j, installers[i].root, c)},
         installers' = [Met(S) EXCEPT ![i].pc = "found", ![i].part = c, ![i].met = S # {}]
  PROVE  InstallersOK' /\ WorkInv'
<1> DEFINE e == [[installers[i] EXCEPT !.met = @ \/ i \in S]
                   EXCEPT !.pc = "found", !.part = c, !.met = S # {}]
<1>1. installers \in [Installers -> InstallerRecord] /\ installers[i] \in InstallerRecord
        /\ installers[i].root \in Roots
  BY DEF InstallersOK, WorkInv
<1>2. /\ e \in InstallerRecord /\ e.pc = "found" /\ e.part = c /\ e.root = installers[i].root
      /\ e.met = (S # {})
  BY <1>1 DEF InstallerRecord
<1>3. ASSUME NEW j \in Installers, j # i
      PROVE  /\ installers'[j] \in InstallerRecord
             /\ installers'[j].pc = installers[j].pc /\ installers'[j].root = installers[j].root
             /\ installers'[j].part = installers[j].part
             /\ installers[j].met => installers'[j].met
             /\ j \in S => installers'[j].met
  <2> DEFINE d == [installers[j] EXCEPT !.met = @ \/ j \in S]
  <2>1. installers[j] \in InstallerRecord
    BY <1>1
  <2>2. (installers[j].met \/ j \in S) \in BOOLEAN
    BY <2>1 DEF InstallerRecord
  <2>3. /\ d \in InstallerRecord /\ d.pc = installers[j].pc /\ d.root = installers[j].root
        /\ d.part = installers[j].part /\ d.met = (installers[j].met \/ j \in S)
    BY <2>1, <2>2 DEF InstallerRecord
  <2>4. installers'[j] = d
    BY <1>3 DEF Met
  <2> QED
    BY <2>3, <2>4
<1>4. installers'[i] = e /\ DOMAIN installers' = Installers
  BY DEF Met
<1>5. installers' = [j \in Installers |-> installers'[j]]
  BY DEF Met
<1> HIDE DEF e
<1>6. InstallersOK'
  <2>1. \A j \in Installers : installers'[j] \in InstallerRecord
    BY <1>2, <1>3, <1>4
  <2>2. installers' \in [Installers -> InstallerRecord]
    BY <2>1, <1>5
  <2> QED
    BY <2>2 DEF InstallersOK
<1>7. ASSUME NEW j \in Installers
      PROVE  /\ installers'[j].pc \notin {"none", "spawned"} => installers'[j].root \in Roots
             /\ Busy(j)' => installers'[j].part \in Components
             /\ installers'[j].pc \in {"fetch", "retired", "exposed"} =>
                  installers'[j].root \in used'
             /\ installers'[j].pc \in {"found", "fetch"} /\ ~installers'[j].met =>
                  store'[installers'[j].root][installers'[j].part] # "good"
  <2>1. CASE j = i
    BY <2>1, <1>1, <1>2, <1>4 DEF Busy
  <2>2. CASE j # i
    <3>1. /\ installers[j].pc \notin {"none", "spawned"} => installers[j].root \in Roots
          /\ Busy(j) => installers[j].part \in Components
          /\ installers[j].pc \in {"fetch", "retired", "exposed"} => installers[j].root \in used
          /\ installers[j].pc \in {"found", "fetch"} /\ ~installers[j].met =>
               store[installers[j].root][installers[j].part] # "good"
      BY DEF WorkInv
    <3>2. /\ installers'[j].pc = installers[j].pc /\ installers'[j].root = installers[j].root
          /\ installers'[j].part = installers[j].part
          /\ installers[j].met => installers'[j].met
      BY <2>2, <1>3
    <3>3. Busy(j)' => Busy(j)
      BY <3>2 DEF Busy
    <3>4. store' = store /\ used' = used
      OBVIOUS
    <3>5. installers'[j].pc \notin {"none", "spawned"} => installers'[j].root \in Roots
      BY <3>1, <3>2
    <3>6. Busy(j)' => installers'[j].part \in Components
      BY <3>1, <3>2, <3>3
    <3>7. installers'[j].pc \in {"fetch", "retired", "exposed"} => installers'[j].root \in used'
      BY <3>1, <3>2, <3>4
    <3>8. ASSUME installers'[j].pc \in {"found", "fetch"}, ~installers'[j].met
          PROVE  store'[installers'[j].root][installers'[j].part] # "good"
      <4>1. store[installers[j].root][installers[j].part] # "good"
        BY <3>1, <3>2, <3>8
      <4>2. /\ store' = store /\ installers'[j].root = installers[j].root
            /\ installers'[j].part = installers[j].part
        BY <3>2, <3>4
      <4> QED
        BY <4>1, <4>2
    <3> QED
      BY <3>5, <3>6, <3>7, <3>8
  <2> QED
    BY <2>1, <2>2
<1>8. ASSUME NEW j \in Installers, NEW k \in Installers, j # k, Busy(j)', Busy(k)',
             SamePart(j, k)'
      PROVE  installers'[j].met
  <2>1. ASSUME NEW l \in Installers, l # i, Busy(l)', installers'[l].root = installers[i].root,
               installers'[l].part = c
        PROVE  l \in S
    BY <2>1, <1>3 DEF WorksOn, Busy
  <2>2. CASE j = i
    <3>1. k # i /\ installers'[k].root = installers[i].root /\ installers'[k].part = c
      BY <2>2, <1>8, <1>2, <1>4 DEF SamePart
    <3>2. k \in S
      BY <3>1, <2>1, <1>8
    <3> QED
      BY <3>2, <2>2, <1>2, <1>4
  <2>3. CASE k = i
    <3>0. installers'[j].root = installers'[k].root /\ installers'[j].part = installers'[k].part
      BY <1>8 DEF SamePart
    <3>1. j # i /\ installers'[j].root = installers[i].root /\ installers'[j].part = c
      <4>1. installers'[k] = e
        BY <2>3, <1>4
      <4>2. installers'[k].root = installers[i].root /\ installers'[k].part = c
        BY <4>1, <1>2
      <4> QED
        BY <3>0, <2>3, <1>8, <4>2
    <3>2. j \in S
      BY <3>1, <2>1, <1>8
    <3> QED
      BY <3>1, <3>2, <1>3
  <2>4. CASE j # i /\ k # i
    <3>1. Busy(j) /\ Busy(k) /\ SamePart(j, k)
      BY <2>4, <1>3, <1>8 DEF Busy, SamePart
    <3>2. installers[j].met
      BY <3>1, <1>8 DEF WorkInv
    <3> QED
      BY <3>2, <2>4, <1>3
  <2> QED
    BY <2>2, <2>3, <2>4
<1> QED
  BY <1>6, <1>7, <1>8 DEF WorkInv

\* What was there is moved aside: nothing verified is lost, unless its
\* installer has met somebody.
LEMMA Retires ==
  ASSUME DiskOK, StoreInv, MigrationOK, MigrationInv, InstallersOK, WorkInv,
         NEW i \in Installers, Retire(i)
  PROVE  /\ DiskOK' /\ StoreInv' /\ MigrationOK' /\ MigrationInv' /\ InstallersOK' /\ WorkInv'
<1>1. PICK r \in Roots, c \in Components : r = installers[i].root /\ c = installers[i].part
  BY DEF Retire, InstallerAt, WorkInv, Busy
<1>2. /\ installers[i].pc = "fetch" /\ installers[i] \in InstallerRecord
      /\ store' = [store EXCEPT ![r][c] = "absent"]
      /\ migration' = [migration EXCEPT !.spoiled = @ \/ (installers[i].met /\ r = migration.dst)]
      /\ installers' = [installers EXCEPT ![i].pc = "retired"]
      /\ UNCHANGED <<made, used, download>>
  BY <1>1 DEF Retire, InstallerAt, InstallersOK
<1>3. DiskOK'
  BY <1>2 DEF DiskOK
<1>4. \A q \in Roots, d \in Components :
        store'[q][d] = IF q = r /\ d = c THEN "absent" ELSE store[q][d]
  BY <1>2 DEF DiskOK
<1>5. StoreInv'
  BY <1>2, <1>4 DEF StoreInv
<1>6. (migration.spoiled \/ (installers[i].met /\ r = migration.dst)) \in BOOLEAN
  BY <1>2 DEF MigrationOK, MigrationRecord, InstallerRecord
<1>7. /\ migration' \in MigrationRecord
      /\ \A f \in {"pc", "src", "dst", "aliases", "left", "staged"} : migration'[f] = migration[f]
      /\ migration'.spoiled = (migration.spoiled \/ (installers[i].met /\ r = migration.dst))
  <2> DEFINE b == migration.spoiled \/ (installers[i].met /\ r = migration.dst)
  <2>1. b \in BOOLEAN /\ migration' = [migration EXCEPT !.spoiled = b]
    BY <1>2, <1>6
  <2> HIDE DEF b
  <2>2. /\ migration' \in MigrationRecord /\ migration'.spoiled = b
        /\ \A f \in {"pc", "src", "dst", "aliases", "left", "staged"} : migration'[f] = migration[f]
    BY <2>1 DEF MigrationOK, MigrationRecord
  <2> QED
    BY <2>2 DEF b
<1>8. ~installers[i].met => store[r][c] # "good"
  BY <1>1, <1>2 DEF WorkInv
<1>9. ASSUME ~migration'.spoiled, NEW d \in Components, migration.dst \in Roots,
             store[migration.dst][d] = "good"
      PROVE  store'[migration.dst][d] = "good"
  BY <1>4, <1>7, <1>8, <1>9
<1>10. MigrationInv'
  <2>1. /\ migration'.pc # "none" =>
             migration'.src \in made' /\ migration'.dst \in Roots
               /\ migration'.src # migration'.dst
        /\ migration'.pc \in {"copy", "rename"} =>
             \A d \in Components : migration'.staged[d] # "absent" => migration'.src \in used'
        /\ migration'.pc = "done" => migration'.left = {}
    BY <1>2, <1>7 DEF MigrationInv
  <2>2. ASSUME migration'.pc \in {"verify", "done"}, ~migration'.spoiled,
               NEW m \in migration'.aliases, m \notin migration'.left,
               NEW d \in ModelComponents[m]
        PROVE  store'[migration'.dst][d] = "good"
    <3>1. migration.dst \in Roots /\ m \in migration.aliases /\ m \notin migration.left
            /\ migration.pc \in {"verify", "done"} /\ ~migration.spoiled
      BY <1>7, <2>2 DEF MigrationInv
    <3>2. m \in Models /\ d \in Components
      BY <3>1, <2>2, ManagerAssumption DEF MigrationOK, MigrationRecord, ManagerAssumption
    <3>3. store[migration.dst][d] = "good"
      BY <3>1, <2>2 DEF MigrationInv
    <3> QED
      BY <3>1, <3>2, <3>3, <2>2, <1>9, <1>7
  <2> QED
    BY <2>1, <2>2 DEF MigrationInv
<1>11. InstallersOK' /\ WorkInv'
  <2> DEFINE e == [installers[i] EXCEPT !.pc = "retired"]
  <2>1. /\ e \in InstallerRecord /\ e.pc = "retired" /\ e.root = installers[i].root
        /\ e.part = installers[i].part /\ e.met = installers[i].met
    BY <1>2 DEF InstallerRecord
  <2>2. e.root \in Roots /\ e.root \in used' /\ Busy(i) /\ used \subseteq used'
    BY <2>1, <1>2 DEF WorkInv, Busy
  <2>3. installers' = [installers EXCEPT ![i] = e] /\ download' \in {"none", "running", "done", "failed"}
    BY <1>2 DEF InstallersOK
  <2>4. ASSUME NEW j \in Installers \ {i}, installers[j].pc \in {"found", "fetch"},
               ~installers[j].met
        PROVE  store'[installers[j].root][installers[j].part] # "good"
    <3>1. /\ installers[j].root \in Roots /\ installers[j].part \in Components
          /\ store[installers[j].root][installers[j].part] # "good"
      BY <2>4 DEF WorkInv, Busy
    <3> QED
      BY <3>1, <1>4
  <2> HIDE DEF e
  <2> QED
    BY <2>1, <2>2, <2>3, <2>4, OneInstaller
<1> QED
  BY <1>3, <1>5, <1>7, <1>10, <1>11 DEF MigrationOK

\* A tree is exposed where there is none: whoever else found the component
\* unverified has met this installer.
LEMMA Exposes ==
  ASSUME DiskOK, StoreInv, MigrationOK, MigrationInv, InstallersOK, WorkInv,
         NEW i \in Installers, Expose(i)
  PROVE  /\ DiskOK' /\ StoreInv' /\ MigrationOK' /\ MigrationInv' /\ InstallersOK' /\ WorkInv'
<1>1. PICK r \in Roots, c \in Components : r = installers[i].root /\ c = installers[i].part
  BY DEF Expose, InstallerAt, WorkInv, Busy
<1>2. /\ installers[i].pc = "retired" /\ installers[i] \in InstallerRecord
      /\ store[r][c] = "absent"
      /\ installers' = [installers EXCEPT ![i].pc = "exposed"]
      /\ UNCHANGED <<made, used, migration, download>>
  BY <1>1 DEF Expose, InstallerAt, InstallersOK
<1>3. PICK content \in {"good", "bad"} : store' = [store EXCEPT ![r][c] = content]
  BY <1>1 DEF Expose
<1>4. DiskOK'
  BY <1>2, <1>3 DEF DiskOK
<1>5. \A q \in Roots, d \in Components :
        store'[q][d] = IF q = r /\ d = c THEN content ELSE store[q][d]
  BY <1>3 DEF DiskOK
<1>6. r \in used
  BY <1>1, <1>2 DEF WorkInv
<1>7. StoreInv'
  BY <1>2, <1>5, <1>6 DEF StoreInv
<1>8. ASSUME NEW q \in Roots, NEW d \in Components, store[q][d] = "good"
      PROVE  store'[q][d] = "good"
  BY <1>2, <1>5, <1>8
<1>9. MigrationOK' /\ MigrationInv'
  <2>1. MigrationOK'
    BY <1>2 DEF MigrationOK
  <2>2. ASSUME migration.pc \in {"verify", "done"}, ~migration.spoiled,
               NEW m \in migration.aliases, m \notin migration.left,
               NEW d \in ModelComponents[m]
        PROVE  store'[migration.dst][d] = "good"
    <3>1. migration.dst \in Roots /\ store[migration.dst][d] = "good"
      BY <2>2 DEF MigrationInv
    <3>2. m \in Models /\ d \in Components
      BY <2>2, ManagerAssumption DEF MigrationOK, MigrationRecord, ManagerAssumption
    <3> QED
      BY <3>1, <3>2, <1>8
  <2> QED
    BY <2>1, <2>2, <1>2 DEF MigrationInv
<1>10. InstallersOK' /\ WorkInv'
  <2> DEFINE e == [installers[i] EXCEPT !.pc = "exposed"]
  <2>1. /\ e \in InstallerRecord /\ e.pc = "exposed" /\ e.root = installers[i].root
        /\ e.part = installers[i].part /\ e.met = installers[i].met
    BY <1>2 DEF InstallerRecord
  <2>2. e.root \in Roots /\ e.root \in used' /\ Busy(i) /\ used \subseteq used'
    BY <2>1, <1>2 DEF WorkInv, Busy
  <2>3. installers' = [installers EXCEPT ![i] = e] /\ download' \in {"none", "running", "done", "failed"}
    BY <1>2 DEF InstallersOK
  <2>4. ASSUME NEW j \in Installers \ {i}, installers[j].pc \in {"found", "fetch"},
               ~installers[j].met
        PROVE  store'[installers[j].root][installers[j].part] # "good"
    <3>1. /\ installers[j].root \in Roots /\ installers[j].part \in Components
          /\ store[installers[j].root][installers[j].part] # "good"
      BY <2>4 DEF WorkInv, Busy
    <3>2. ~(installers[j].root = r /\ installers[j].part = c)
      BY <2>4, <2>2, <1>1 DEF WorkInv, Busy, SamePart
    <3> QED
      BY <3>1, <3>2, <1>5
  <2> HIDE DEF e
  <2> QED
    BY <2>1, <2>2, <2>3, <2>4, OneInstaller
<1> QED
  BY <1>4, <1>7, <1>9, <1>10

\* An installer that ends frees its place.
LEMMA Ends ==
  ASSUME InstallersOK, WorkInv, UNCHANGED <<store, used>>, NEW i \in Installers,
         NEW end \in {"done", "failed"}, InstallerEnds(i, end)
  PROVE  InstallersOK' /\ WorkInv'
<1>1. installers' = [installers EXCEPT ![i] = NoInstaller]
        /\ download' \in {"none", "running", "done", "failed"}
  BY DEF InstallerEnds, InstallersOK
<1>2. NoInstaller \in InstallerRecord /\ NoInstaller.pc = "none"
  BY FreshInstaller
<1>3. \A j \in Installers \ {i} :
        installers[j].pc \in {"found", "fetch"} /\ ~installers[j].met =>
          store'[installers[j].root][installers[j].part] # "good"
  BY DEF WorkInv
<1> QED
  BY <1>1, <1>2, <1>3, OneInstaller

\* A Manager that is gone, or has dropped its task, owns no installer.
LEMMA Disowns ==
  ASSUME InstallersOK, WorkInv, UNCHANGED <<store, used>>, installers' = Disowned,
         download' \in {"none", "running", "done", "failed"}
  PROVE  InstallersOK' /\ WorkInv'
<1>1. ASSUME NEW i \in Installers
      PROVE  /\ installers'[i] \in InstallerRecord
             /\ installers'[i].pc = installers[i].pc /\ installers'[i].root = installers[i].root
             /\ installers'[i].part = installers[i].part
             /\ installers'[i].met = installers[i].met
  <2> DEFINE e == [installers[i] EXCEPT !.mine = FALSE]
  <2>1. installers[i] \in InstallerRecord
    BY DEF InstallersOK
  <2>2. /\ e \in InstallerRecord /\ e.pc = installers[i].pc /\ e.root = installers[i].root
        /\ e.part = installers[i].part /\ e.met = installers[i].met
    BY <2>1 DEF InstallerRecord
  <2>3. installers'[i] = e
    BY DEF Disowned
  <2> QED
    BY <2>2, <2>3
<1>2. installers' = [i \in Installers |-> installers'[i]]
  BY DEF Disowned
<1>3. InstallersOK'
  BY <1>1, <1>2 DEF InstallersOK
<1> QED
  BY <1>1, <1>3 DEF WorkInv, Busy, SamePart

LEMMA InstallStep == SafeInv /\ InstallNext => SafeInv'
<1> SUFFICES ASSUME SafeInv, InstallNext PROVE SafeInv'
  OBVIOUS
<1>1. UNCHANGED <<file, edit, saved, serverVars, window>> /\ (Command \/ Unasked)
  BY DEF InstallNext, StartDownload, InstallByHand, ReadRoot, Check, BeginFetch, Retire, Expose,
         Sweep, Conclude, InstallFails, CancelDownload, GarbledOutput, PollDownload, Stays,
         InstallVars, settings, serverVars
<1>2. CommandsOK' /\ ServersOK' /\ WindowInv' /\ TokenInv'
  BY <1>1, Counted, SameServers DEF SafeInv
<1>3. SettingsOK /\ InstallersOK /\ WorkInv /\ DiskOK /\ StoreInv /\ MigrationOK /\ MigrationInv
  BY DEF SafeInv
<1>4. file.root \in Roots /\ listed \subseteq Models
  BY <1>3 DEF SettingsOK
<1>5. \A i \in Installers : installers[i] \in InstallerRecord
  BY <1>3 DEF InstallersOK
<1>6. download \in {"none", "running", "done", "failed"}
  BY <1>3 DEF InstallersOK
<1>7. \A j \in Installers :
        installers[j].pc \in {"found", "fetch"} /\ ~installers[j].met =>
          store[installers[j].root][installers[j].part] # "good"
  BY <1>3 DEF WorkInv
<1>8. CASE PollDownload
  <2>1. /\ UNCHANGED <<disk, migration>> /\ installers' = Disowned /\ download' = "none"
        /\ listed' \subseteq Models
    BY <1>8, <1>4, Refreshed DEF PollDownload
  <2>2. SettingsOK'
    BY <2>1, <1>1, <1>3 DEF SettingsOK
  <2>3. InstallersOK' /\ WorkInv'
    BY <2>1, <1>3, Disowns DEF disk
  <2> QED
    BY <2>1, <2>2, <2>3, <1>2, <1>3, SameDisk, SameMigration DEF SafeInv
<1>9. ASSUME NEW i \in Installers,
             \/ \E m \in Models : StartDownload(i, m) \/ InstallByHand(i, m)
             \/ \E c \in Components : Check(i, c)
             \/ ReadRoot(i) \/ BeginFetch(i) \/ Retire(i) \/ Expose(i) \/ Sweep(i)
             \/ Conclude(i) \/ InstallFails(i) \/ CancelDownload(i) \/ GarbledOutput(i)
      PROVE  SafeInv'
  <2>1. UNCHANGED settings
    BY <1>9 DEF StartDownload, InstallByHand, ReadRoot, Check, BeginFetch, Retire, Expose,
         Sweep, Conclude, InstallFails, CancelDownload, GarbledOutput, InstallVars
  <2>2. SettingsOK'
    BY <2>1, <1>3, SameSettings
  <2> SUFFICES InstallersOK' /\ WorkInv' /\ DiskOK' /\ StoreInv' /\ MigrationOK' /\ MigrationInv'
    BY <2>2, <1>2 DEF SafeInv
  <2>3. UNCHANGED <<disk, migration>> => DiskOK' /\ StoreInv' /\ MigrationOK' /\ MigrationInv'
    BY <1>3, SameDisk, SameMigration
  <2>4. ASSUME NEW m \in Models, StartDownload(i, m) \/ InstallByHand(i, m)
        PROVE  InstallersOK' /\ WorkInv' /\ UNCHANGED <<disk, migration>>
    <3>1. PICK mine \in BOOLEAN : Launch(i, m, mine)
      BY <2>4 DEF StartDownload, InstallByHand
    <3> DEFINE e == [NoInstaller EXCEPT !.pc = "spawned", !.model = m, !.mine = mine]
    <3>2. e \in InstallerRecord /\ e.pc = "spawned"
      BY FreshInstaller DEF InstallerRecord
    <3>3. installers' = [installers EXCEPT ![i] = e]
      BY <3>1 DEF Launch
    <3>4. UNCHANGED <<disk, migration>> /\ download' \in {"none", "running", "done", "failed"}
      BY <2>4, <1>6 DEF StartDownload, InstallByHand
    <3> HIDE DEF e
    <3>5. InstallersOK' /\ WorkInv'
      BY <3>2, <3>3, <3>4, <1>3, <1>7, OneInstaller DEF disk
    <3> QED
      BY <3>4, <3>5
  <2>5. CASE ReadRoot(i)
    <3> DEFINE e == [installers[i] EXCEPT !.pc = "check", !.root = file.root,
                       !.left = ModelComponents[installers[i].model]]
    <3>1. ModelComponents[installers[i].model] \subseteq Components
      BY <1>5, ManagerAssumption DEF InstallerRecord, ManagerAssumption
    <3>2. e \in InstallerRecord /\ e.pc = "check" /\ e.root = file.root
      BY <3>1, <1>4, <1>5 DEF InstallerRecord
    <3>3. /\ installers' = [installers EXCEPT ![i] = e]
          /\ made' = made \cup {file.root} /\ UNCHANGED <<store, used, migration, download>>
      BY <2>5 DEF ReadRoot
    <3> HIDE DEF e
    <3>4. InstallersOK' /\ WorkInv'
      BY <3>2, <3>3, <1>3, <1>4, <1>6, <1>7, OneInstaller
    <3>5. DiskOK' /\ StoreInv' /\ MigrationOK' /\ MigrationInv'
      BY <3>3, <1>3, <1>4, Added
    <3> QED
      BY <3>4, <3>5
  <2>6. ASSUME NEW c \in Components, Check(i, c)
        PROVE  InstallersOK' /\ WorkInv' /\ UNCHANGED <<disk, migration>>
    <3>1. UNCHANGED <<disk, migration, download>> /\ installers[i].pc = "check"
      BY <2>6 DEF Check, InstallerAt
    <3>2. CASE store[installers[i].root][c] = "good"
      <4> DEFINE e == [installers[i] EXCEPT !.left = @ \ {c}]
      <4>1. e \in InstallerRecord /\ e.pc = "check" /\ e.root = installers[i].root
        BY <3>1, <1>5 DEF InstallerRecord
      <4>2. installers' = [installers EXCEPT ![i] = e] /\ e.root \in Roots
        BY <4>1, <2>6, <3>1, <3>2, <1>3 DEF Check, WorkInv
      <4> HIDE DEF e
      <4>3. InstallersOK' /\ WorkInv'
        BY <4>1, <4>2, <3>1, <1>3, <1>6, <1>7, OneInstaller DEF disk
      <4> QED
        BY <4>3, <3>1
    <3>3. CASE store[installers[i].root][c] # "good"
      <4> DEFINE S == {j \in Installers \ {i} : WorksOn(j, installers[i].root, c)}
      <4>1. installers' = [Met(S) EXCEPT ![i].pc = "found", ![i].part = c, ![i].met = S # {}]
        BY <2>6, <3>3 DEF Check
      <4>2. InstallersOK' /\ WorkInv'
        BY <4>1, <3>1, <3>3, <1>3, Finds DEF disk
      <4> QED
        BY <4>2, <3>1
    <3> QED
      BY <3>2, <3>3
  <2>7. CASE BeginFetch(i)
    <3> DEFINE e == [installers[i] EXCEPT !.pc = "fetch"]
    <3>1. /\ e \in InstallerRecord /\ e.pc = "fetch" /\ e.root = installers[i].root
          /\ e.part = installers[i].part /\ e.met = installers[i].met
      BY <1>5 DEF InstallerRecord
    <3>2. /\ installers' = [installers EXCEPT ![i] = e] /\ installers[i].pc = "found"
          /\ made' = made \cup {installers[i].root} /\ used' = used \cup {installers[i].root}
          /\ UNCHANGED <<store, migration, download>>
      BY <2>7 DEF BeginFetch, InstallerAt
    <3>3. installers[i].root \in Roots /\ Busy(i)
      BY <3>2, <1>3 DEF WorkInv, Busy
    <3> HIDE DEF e
    <3>4. InstallersOK' /\ WorkInv'
      BY <3>1, <3>2, <3>3, <1>3, <1>6, <1>7, OneInstaller
    <3>5. DiskOK' /\ StoreInv' /\ MigrationOK' /\ MigrationInv'
      BY <3>2, <3>3, <1>3, Added
    <3> QED
      BY <3>4, <3>5
  <2>8. CASE Retire(i)
    BY <2>8, <1>3, Retires
  <2>9. CASE Expose(i)
    BY <2>9, <1>3, Exposes
  <2>10. CASE Sweep(i)
    <3> DEFINE e == [installers[i] EXCEPT !.pc = "check", !.left = @ \ {installers[i].part},
                       !.part = NoComponent, !.met = FALSE]
    <3>1. e \in InstallerRecord /\ e.pc = "check" /\ e.root = installers[i].root
      BY <1>5 DEF InstallerRecord
    <3>2. /\ installers' = [installers EXCEPT ![i] = e] /\ installers[i].pc = "exposed"
          /\ UNCHANGED <<disk, migration, download>>
      BY <2>10 DEF Sweep, InstallerAt
    <3>3. installers[i].root \in Roots
      BY <3>2, <1>3 DEF WorkInv
    <3> HIDE DEF e
    <3>4. InstallersOK' /\ WorkInv'
      BY <3>1, <3>2, <3>3, <1>3, <1>6, <1>7, OneInstaller DEF disk
    <3> QED
      BY <3>2, <3>4, <2>3
  <2>11. CASE Conclude(i) \/ InstallFails(i) \/ CancelDownload(i)
    <3>1. /\ UNCHANGED <<disk, migration>>
          /\ \E end \in {"done", "failed"} : InstallerEnds(i, end)
      BY <2>11 DEF Conclude, InstallFails, CancelDownload
    <3>2. InstallersOK' /\ WorkInv'
      BY <3>1, <1>3, Ends DEF disk
    <3> QED
      BY <3>1, <3>2, <2>3
  <2>12. CASE GarbledOutput(i)
    <3>1. UNCHANGED <<disk, migration, installers>> /\ download' = "failed"
      BY <2>12 DEF GarbledOutput
    <3>2. InstallersOK' /\ WorkInv'
      BY <3>1, <1>3 DEF InstallersOK, WorkInv, Busy, SamePart, disk
    <3> QED
      BY <3>1, <3>2, <2>3
  <2> QED
    BY <1>9, <2>3, <2>4, <2>5, <2>6, <2>7, <2>8, <2>9, <2>10, <2>11, <2>12
<1> QED
  BY <1>8, <1>9 DEF InstallNext

-----------------------------------------------------------------------------
(* The Manager's life *)

LEMMA OpenStep == SafeInv /\ Open => SafeInv'
<1> SUFFICES ASSUME SafeInv, Open PROVE SafeInv'
  OBVIOUS
<1>1. /\ UNCHANGED <<file, disk, proc, held, told, migration, installers>> /\ Unasked
      /\ external' = FALSE /\ download' = "none" /\ window.pc = "closed"
      /\ window' \in [pc : {"ready", "starting"}, then : {"idle"}]
  BY DEF Open, Window
<1>2. SettingsOK'
  BY DEF SafeInv, SettingsOK, Open, InstalledIn
<1>3. ServersOK' /\ WindowInv' /\ TokenInv'
  BY <1>1 DEF SafeInv, ServersOK, WindowInv, TokenInv
<1>4. InstallersOK' /\ WorkInv'
  BY <1>1 DEF SafeInv, InstallersOK, WorkInv, Busy, SamePart, disk
<1> QED
  BY <1>1, <1>2, <1>3, <1>4, Counted, SameDisk, SameMigration DEF SafeInv

\* What becomes of the processes when the Manager is gone.
LEMMA GoneStep == SafeInv /\ Gone /\ (Command \/ Unasked) => SafeInv'
<1> SUFFICES ASSUME SafeInv, Gone, Command \/ Unasked PROVE SafeInv'
  OBVIOUS
<1>1. /\ UNCHANGED <<file, saved, disk>>
      /\ edit' = [port |-> file.port, root |-> saved, garbled |-> FALSE]
      /\ listed' = {} /\ external' = FALSE /\ download' = "none"
      /\ migration' = NoMigration /\ held' = NoServer /\ told' = NothingTold
      /\ window' = [pc |-> "closed", then |-> "idle"]
      /\ installers' = Disowned
  BY DEF Gone, Window
<1>2. /\ NoProcess \in Process /\ NoProcess.token = NoToken /\ NoProcess.asked = NoToken
      /\ NothingTold \in [port : Ports, token : Tokens \cup {NoToken}]
  BY FreshProcess DEF SafeInv, SettingsOK
<1>3. /\ proc' \in [Servers -> Process]
      /\ \A s \in Servers : proc'[s] = IF proc[s].jobbed \/ (s = held /\ ~Alive(s))
                                         THEN NoProcess ELSE proc[s]
  BY <1>2 DEF Gone, SafeInv, ServersOK
<1>4. ServersOK' /\ WindowInv'
  BY <1>1, <1>2, <1>3 DEF SafeInv, ServersOK, WindowInv
\* A server that is being stopped is in its job.
<1>5. ASSUME NEW s \in Servers, proc'[s].asked # NoToken PROVE proc'[s].asked # proc'[s].token
  BY <1>2, <1>3, <1>5 DEF SafeInv, TokenInv, WindowInv
<1>6. TokenInv'
  BY <1>1, <1>2, <1>3, <1>5 DEF SafeInv, TokenInv
<1>7. InstallersOK' /\ WorkInv'
  <2>1. download' \in {"none", "running", "done", "failed"} /\ InstallersOK /\ WorkInv
    BY <1>1 DEF SafeInv, InstallersOK
  <2> QED
    BY <2>1, <1>1, Disowns DEF disk
<1>8. MigrationOK' /\ MigrationInv'
  BY <1>1, FreshMigration DEF MigrationOK, MigrationInv
<1>9. SettingsOK'
  BY <1>1 DEF SafeInv, SettingsOK
<1> QED
  BY <1>1, <1>4, <1>6, <1>7, <1>8, <1>9, Counted, SameDisk DEF SafeInv

LEMMA StutterStep == SafeInv /\ UNCHANGED vars => SafeInv'
<1> SUFFICES ASSUME SafeInv, UNCHANGED vars PROVE SafeInv'
  OBVIOUS
<1>1. UNCHANGED <<settings, disk, serverVars, window, taskVars>> /\ Unasked
  BY DEF vars, settings, disk, serverVars, taskVars, Unasked
<1> QED
  BY <1>1, Counted, SameSettings, SameServers, SameModels DEF SafeInv

LEMMA NextSafe == SafeInv /\ [Next]_vars => SafeInv'
  BY ServerStep, SettingsStep, ControlStep, MigrationStep, InstallStep, OpenStep, GoneStep,
     StutterStep DEF Next, Close, Crash

\* The invariant of every reachable state.
THEOREM Safe == Spec => []SafeInv
  BY InitSafe, NextSafe, PTL DEF Spec

\* The variables of the Manager keep their types.
THEOREM TypeCorrect == Spec => []TypeOK
  BY Safe, Typed, PTL

-----------------------------------------------------------------------------
(* The steps of the servers *)

\* A step lets go of a living server only by ending it, or by the death of a
\* Manager that has not put it in its job yet.
LEMMA LetsGo ==
  ASSUME SafeInv, [Next]_vars, NEW s \in Servers, s = held, Alive(s), held' # s
  PROVE  ~Alive(s)' \/ (window.pc = "assign" /\ window'.pc = "closed")
<1>1. ~UNCHANGED <<held, serverVars>>
  OBVIOUS
<1>2. NoProcess.pc = "none" /\ proc \in [Servers -> Process] /\ held # NoServer
  BY FreshProcess, ManagerAssumption
     DEF SafeInv, SettingsOK, ServersOK, ManagerAssumption
<1>3. UNCHANGED held \/ AssignJob \/ StopServer \/ StartServer \/ PollServer \/ Gone
  BY <1>1 DEF Next, ServerNext, ReadSettings, Bind, Leave, Hear, StartByHand, SettingsNext, EditPort,
     SaveSettings, UseNewDirectory, ReloadConfig, RefreshModels, EditFile, EditRoot, Stays,
     ControlNext, ClickStart, ClickStop, ClickRestart, BeginStop, Exit, MigrationNext,
     StartMigration, Place, RenameStaging, Verified, MigrationError, PollMigration, CopyComponent,
     VerifyModel, InstallNext, StartDownload, InstallByHand, ReadRoot, Check, BeginFetch, Retire,
     Expose, Sweep, Conclude, InstallFails, CancelDownload, GarbledOutput, PollDownload,
     InstallVars, Open, Close, Crash, serverVars, vars
<1>4. CASE AssignJob
  BY <1>2, <1>4 DEF AssignJob, Alive
<1>5. ASSUME DropHeld PROVE ~Alive(s)'
  <2> DEFINE t == [proc EXCEPT ![held] = NoProcess]
  <2>1. t \in [Servers -> Process] /\ t[s].pc = "none"
    BY <1>2, FreshProcess DEF SafeInv, SettingsOK
  <2>2. proc' \in Asked(t) /\ told \in [port : Ports, token : Tokens \cup {NoToken}]
    BY <1>5 DEF DropHeld, SafeInv, ServersOK
  <2> HIDE DEF t
  <2>3. proc'[s].pc = t[s].pc
    BY <2>1, <2>2, Requested
  <2> QED
    BY <2>1, <2>3 DEF Alive
<1>8. CASE StopServer \/ PollServer
  BY <1>2, <1>5, <1>8 DEF StopServer, PollServer
<1>6. CASE StartServer
  BY <1>2, <1>6 DEF StartServer, SafeInv, WindowInv
<1>7. CASE Gone
  BY <1>2, <1>7 DEF Gone, Window, Alive, SafeInv, WindowInv
<1> QED
  BY <1>3, <1>4, <1>6, <1>7, <1>8

\* No server that the Manager holds outlives its hold, except one whose start
\* the Manager's death cut short.
THEOREM NeverAbandons == Spec => NeverAbandoned
<1>1. SafeInv /\ [Next]_vars =>
        [\A s \in Servers :
           s = held /\ Alive(s) /\ held' # s =>
             \/ ~Alive(s)'
             \/ window.pc = "assign" /\ window'.pc = "closed"]_vars
  BY LetsGo
<1> QED
  BY <1>1, Safe, PTL DEF Spec, NeverAbandoned

\* A server drains when it hears its own token, which by TokenInv comes from
\* the Manager that holds it, and is stopping it.
LEMMA Draining ==
  ASSUME SafeInv, [Next]_vars, NEW s \in Servers, ~ServerAt(s, "draining"),
         ServerAt(s, "draining")'
  PROVE  s = held /\ window.pc = "stopping"
<1>1. /\ NoProcess.pc = "none" /\ proc \in [Servers -> Process] /\ NoProcess \in Process
      /\ told \in [port : Ports, token : Tokens \cup {NoToken}]
  BY FreshProcess DEF SafeInv, SettingsOK, ServersOK
<1>2. /\ ~UNCHANGED proc
      /\ \A t \in Servers : \A p :
           proc' = [proc EXCEPT ![t] = p] => p.pc = "draining" \/ proc'[s] = proc[s]
  BY <1>1 DEF ServerAt
<1>3. \/ ServerNext \/ StartServer \/ AssignJob \/ StopServer \/ PollServer \/ Gone
      \/ \E then \in {"idle", "restart", "exit"} : BeginStop(then)
  BY <1>2 DEF Next, SettingsNext, EditPort,
     SaveSettings, UseNewDirectory, ReloadConfig, RefreshModels, EditFile, EditRoot, Stays,
     ControlNext, ClickStart, ClickStop, ClickRestart, Exit, MigrationNext, serverVars,
     StartMigration, Place, RenameStaging, Verified, MigrationError, PollMigration, CopyComponent,
     VerifyModel, InstallNext, StartDownload, InstallByHand, ReadRoot, Check, BeginFetch, Retire,
     Expose, Sweep, Conclude, InstallFails, CancelDownload, GarbledOutput, PollDownload,
     InstallVars, Open, Close, Crash, vars
<1>4. CASE ServerNext
  <2>1. PICK t \in Servers : ReadSettings(t) \/ Bind(t) \/ Leave(t) \/ Hear(t)
                               \/ \E p \in Ports : StartByHand(t, p)
    BY <1>4 DEF ServerNext
  <2>2. proc[t] \in Process
    BY <1>1
  <2>3. CASE Hear(t)
    <3>1. proc[s] \in Process
      BY <1>1
    <3>2. t = s /\ Matches(s) /\ proc[s].asked # NoToken
      BY <2>3, <2>2, <3>1, <1>1, <1>2 DEF Hear, ServerAt, Process
    <3> QED
      BY <3>2 DEF Matches, SafeInv, TokenInv
  <2>4. CASE ~Hear(t)
    <3>0. proc'[t].pc # "draining" /\ proc' = [proc EXCEPT ![t] = proc'[t]]
      <4>1. CASE ReadSettings(t)
        BY <4>1, <2>2, <1>1 DEF ReadSettings, Process
      <4>2. CASE Bind(t)
        BY <4>2, <2>2, <1>1 DEF Bind, Ended, Process
      <4>3. CASE Leave(t)
        BY <4>3, <2>2, <1>1 DEF Leave, Ended, Process
      <4>4. CASE \E p \in Ports : StartByHand(t, p)
        BY <4>4, <1>1 DEF StartByHand, NoProcess
      <4> QED
        BY <2>1, <2>4, <4>1, <4>2, <4>3, <4>4
    <3> QED
      BY <3>0, <1>1 DEF ServerAt
  <2> QED
    BY <2>3, <2>4
<1>5. CASE StartServer
  BY <1>5, <1>1 DEF StartServer, ServerAt, NoProcess
<1>6. CASE AssignJob
  BY <1>6, <1>1 DEF AssignJob, ServerAt, Process
\* A request changes no place.
<1>7. ASSUME NEW t \in [Servers -> Process], proc' \in Asked(t),
             t[s].pc = "draining" => proc[s].pc = "draining"
      PROVE  FALSE
  BY <1>1, <1>7, Requested DEF ServerAt
<1>8. CASE StopServer \/ PollServer
  <2> DEFINE t == [proc EXCEPT ![held] = NoProcess]
  <2>1. DropHeld
    BY <1>2, <1>8 DEF StopServer, PollServer
  <2>2. t \in [Servers -> Process] /\ (t[s].pc = "draining" => proc[s].pc = "draining")
    BY <1>1
  <2>3. proc' \in Asked(t)
    BY <2>1 DEF DropHeld
  <2> QED
    BY <2>2, <2>3, <1>7
<1>9. CASE Gone
  BY <1>9, <1>1 DEF Gone, ServerAt
<1>10. CASE \E then \in {"idle", "restart", "exit"} : BeginStop(then)
  BY <1>10, <1>1, <1>7 DEF BeginStop
<1> QED
  BY <1>3, <1>4, <1>5, <1>6, <1>8, <1>9, <1>10

\* Only the server the Manager holds is made to drain, while it is being stopped.
THEOREM OnlyHeldAsked == Spec => OnlyHeldIsAsked
<1>1. SafeInv /\ [Next]_vars =>
        [\A s \in Servers :
           ~ServerAt(s, "draining") /\ ServerAt(s, "draining")' =>
             s = held /\ window.pc = "stopping"]_vars
  BY Draining
<1> QED
  BY <1>1, Safe, PTL DEF Spec, OnlyHeldIsAsked

-----------------------------------------------------------------------------
(* The steps of the models *)

LEMMA Keeps ==
  ASSUME SafeInv, [Next]_vars, NEW r \in Roots, NEW c \in Components, store[r][c] = "good"
  PROVE  \/ store'[r][c] = "good"
         \/ \E i \in Installers : WorksOn(i, r, c) /\ installers[i].met
<1>1. \/ UNCHANGED store \/ RenameStaging
      \/ \E i \in Installers : Retire(i) \/ Expose(i)
  BY DEF Next, ServerNext, ReadSettings, Bind, Leave, Hear, StartByHand, SettingsNext, EditPort,
     SaveSettings, UseNewDirectory, ReloadConfig, RefreshModels, EditFile, EditRoot, disk,
     ControlNext, ClickStart, ClickStop, ClickRestart, BeginStop, Exit, MigrationNext,
     StartServer, AssignJob, StopServer, PollServer,
     StartMigration, Place, Verified, MigrationError, PollMigration, CopyComponent,
     VerifyModel, InstallNext, StartDownload, InstallByHand, ReadRoot, Check, BeginFetch, Sweep,
     Conclude, InstallFails, CancelDownload, GarbledOutput, PollDownload, Open, Close, Crash,
     Gone, vars
<1>2. CASE UNCHANGED store
  BY <1>2
<1>3. CASE RenameStaging
  BY <1>3 DEF RenameStaging, SafeInv, DiskOK, StoreInv, disk
<1>4. ASSUME NEW i \in Installers, Retire(i) \/ Expose(i)
      PROVE  store'[r][c] = "good" \/ (WorksOn(i, r, c) /\ installers[i].met)
  <2>1. PICK q \in Roots, d \in Components : q = installers[i].root /\ d = installers[i].part
    BY <1>4 DEF Retire, Expose, InstallerAt, SafeInv, WorkInv, Busy
  <2>2. CASE Retire(i)
    <3>1. store' = [store EXCEPT ![q][d] = "absent"] /\ installers[i].pc = "fetch"
      BY <2>1, <2>2 DEF Retire, InstallerAt
    <3>2. q # r \/ d # c => store'[r][c] = "good"
      BY <3>1 DEF SafeInv, DiskOK
    <3>3. q = r /\ d = c => WorksOn(i, r, c) /\ installers[i].met
      BY <2>1, <3>1 DEF SafeInv, WorkInv, WorksOn
    <3> QED
      BY <3>2, <3>3
  <2>3. CASE Expose(i)
    <3>1. PICK content : store' = [store EXCEPT ![q][d] = content]
      BY <2>1, <2>3 DEF Expose
    <3>2. store[q][d] = "absent"
      BY <2>1, <2>3 DEF Expose
    <3> QED
      BY <3>1, <3>2 DEF SafeInv, DiskOK
  <2> QED
    BY <1>4, <2>2, <2>3
<1> QED
  BY <1>1, <1>2, <1>3, <1>4

\* A good component is lost only to an installer that met somebody at it.
THEOREM Kept == Spec => ModelsKept
<1>1. SafeInv /\ [Next]_vars =>
        [\A r \in Roots, c \in Components :
           store[r][c] = "good" =>
             \/ store'[r][c] = "good"
             \/ \E i \in Installers : WorksOn(i, r, c) /\ installers[i].met]_vars
  BY Keeps
<1> QED
  BY <1>1, Safe, PTL DEF Spec, ModelsKept

LEMMA Switches ==
  ASSUME SafeInv, [Next]_vars, saved' # saved, migration.pc # "none", migration'.pc = "none"
  PROVE  /\ migration.src \in made'
         /\ \/ migration.spoiled
            \/ \A m \in migration.aliases : \A c \in ModelComponents[m] :
                 store'[saved'][c] = "good"
<1>1. ~UNCHANGED migration /\ ~UNCHANGED settings
  BY DEF settings
<1>2. PollMigration
  BY <1>1 DEF Next, ServerNext, ReadSettings, Bind, Leave, Hear, StartByHand, SettingsNext,
     EditPort, SaveSettings, UseNewDirectory, ReloadConfig, RefreshModels, EditFile, EditRoot,
     taskVars, ControlNext, ClickStart, ClickStop, ClickRestart, BeginStop, Exit, MigrationNext,
     StartServer, AssignJob, StopServer, PollServer,
     StartMigration, Place, RenameStaging, Verified, MigrationError, CopyComponent,
     VerifyModel, InstallNext, StartDownload, InstallByHand, ReadRoot, Check, BeginFetch, Retire,
     Expose, Sweep, Conclude, InstallFails, CancelDownload, GarbledOutput, PollDownload,
     InstallVars, Open, Close, Crash, Gone, vars
<1>3. /\ migration.pc = "done" /\ edit' = [edit EXCEPT !.root = migration.dst]
      /\ saved' = edit'.root /\ UNCHANGED disk
  BY <1>2 DEF PollMigration, SaveConfig
<1>4. saved' = migration.dst
  BY <1>3 DEF SafeInv, SettingsOK
<1>5. migration.src \in made'
  BY <1>3 DEF SafeInv, MigrationInv, disk
<1>6. ASSUME ~migration.spoiled, NEW m \in migration.aliases, NEW c \in ModelComponents[m]
      PROVE  store[migration.dst][c] = "good"
  BY <1>3, <1>6 DEF SafeInv, MigrationInv
<1> QED
  BY <1>3, <1>4, <1>5, <1>6 DEF disk

\* The settings switch only to a directory whose models verify, unless an
\* installer that met somebody moved one away.
THEOREM SwitchVerified == Spec => SwitchIsVerified
<1>1. SafeInv /\ [Next]_vars =>
        [saved' # saved /\ migration.pc # "none" /\ migration'.pc = "none" =>
           /\ migration.src \in made'
           /\ \/ migration.spoiled
              \/ \A m \in migration.aliases : \A c \in ModelComponents[m] :
                   store'[saved'][c] = "good"]_vars
  BY Switches
<1> QED
  BY <1>1, Safe, PTL DEF Spec, SwitchIsVerified
=============================================================================
