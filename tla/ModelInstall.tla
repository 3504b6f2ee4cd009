---------------------------- MODULE ModelInstall ----------------------------
(***************************************************************************)
(* Installation of model components (services/model_store.py, class        *)
(* ModelStore) by command-line processes, with crashes between any two     *)
(* file operations, and the component references a server takes.           *)
(*                                                                         *)
(* A component owns four directories: the downloader's cache and the       *)
(* assembled copy (.downloads/<key>/cache and /assembled), the installed   *)
(* tree (components/<key>/<revision>) and the tree it replaces             *)
(* (<revision>.previous).  A directory is NoTree or a function from the    *)
(* names of its files to their contents.  A file's content is the upstream *)
(* version it was taken from; the marker's content is the digest it        *)
(* records, and a digest stands for what was hashed.                       *)
(***************************************************************************)
EXTENDS Naturals, Sequences, FiniteSets

CONSTANTS
  Installers,        \* processes that run "models install"
  Models,            \* aliases of the catalogue
  Components,        \* keys of the catalogue
  ModelComponents,   \* ModelComponents[m]: the sequence of components of m
  Pinned,            \* components with a snapshot_sha256 in the catalogue
  Files,             \* names of the files of a snapshot
  Required,          \* required_files
  Marker,            \* ".nota-installed.json"
  Released,          \* content of the files the catalogue was written for
  Drifted,           \* content of the files after the upstream changed
  Decayed,           \* content of an installed file damaged or lost on disk
  NoTree,            \* a directory that does not exist
  OtherDigest,       \* a digest that no set of files has
  Exclusive,         \* one installer at a time
  MaxMishaps         \* bound on crashes, errors and upstream changes

ASSUME InstallAssumption ==
  /\ Marker \notin Files
  /\ IsFiniteSet(Files)
  /\ Required \subseteq Files
  /\ Pinned \subseteq Components
  /\ Models # {}
  /\ ModelComponents \in [Models -> Seq(Components)]
  /\ Released # Drifted
  /\ MaxMishaps \in Nat
  /\ Exclusive \in BOOLEAN

VARIABLES
  upstream,    \* upstream[c]: content the hub serves for c
  cache,       \* .downloads/<key>/cache
  assembled,   \* .downloads/<key>/assembled
  dest,        \* components/<key>/<revision>
  previous,    \* components/<key>/<revision>.previous
  installer,   \* local state of each installer
  mishaps      \* crashes, errors and upstream changes so far

vars == <<upstream, cache, assembled, dest, previous, installer, mishaps>>
disk == <<cache, assembled, dest, previous>>

-----------------------------------------------------------------------------
(* Trees *)

Contents == {Released, Drifted, Decayed}
FileTrees == UNION {[S -> Contents] : S \in SUBSET Files}
Digests == FileTrees \cup {OtherDigest}
Trees == {t \in UNION {[S -> Contents \cup Digests] : S \in SUBSET (Files \cup {Marker})} :
            \A f \in DOMAIN t : t[f] \in IF f = Marker THEN Digests ELSE Contents}

ASSUME TreesAssumption ==
  /\ OtherDigest \notin FileTrees
  /\ NoTree \notin Trees \cup Digests

EmptyTree == [f \in {} |-> Released]

Exists(t) == t # NoTree
Names(t) == IF Exists(t) THEN DOMAIN t ELSE {}
With(t, f, content) == [g \in DOMAIN t \cup {f} |-> IF g = f THEN content ELSE t[g]]
Without(t, f) == [g \in DOMAIN t \ {f} |-> t[g]]
AllFiles(content) == [f \in Files |-> content]

\* rmtree goes file by file, and then removes the directory.
Removals(t) == IF Names(t) = {} THEN {NoTree} ELSE {Without(t, f) : f \in Names(t)}

\* snapshot_digest(root, exclude=marker), as verify_component takes it
Digest(t) == [f \in DOMAIN t \ {Marker} |-> t[f]]

\* snapshot_digest(assembled), which counts a marker in as any other file
DigestOfAll(t) == IF Marker \in DOMAIN t THEN OtherDigest ELSE Digest(t)

-----------------------------------------------------------------------------
(* What the store says of a component *)

\* component_status: marker and required files are there, nothing is hashed.
StatusInstalled(c) == Exists(dest[c]) /\ Required \cup {Marker} \subseteq DOMAIN dest[c]

\* snapshot_sha256 of the catalogue or, without one, of the marker
Expected(c, t) == IF c \in Pinned THEN AllFiles(Released) ELSE t[Marker]

\* verify_component does not raise.
Verifies(c, t) ==
  /\ Exists(t)
  /\ Required \cup {Marker} \subseteq DOMAIN t
  /\ Digest(t) = Expected(c, t)

\* reference: the path when the status says installed; without one the policy
\* gives the server a hub identifier ("on_demand") or an error ("explicit").
Reference(c) == IF StatusInstalled(c) THEN dest[c] ELSE NoTree

Decays(t) == \E f \in DOMAIN t : t[f] = Decayed

ModelVerifies(m) == \A i \in DOMAIN ModelComponents[m] :
                      Verifies(ModelComponents[m][i], dest[ModelComponents[m][i]])

-----------------------------------------------------------------------------
(* Installers.  An idle one has the record Idle; outcome is what the last  *)
(* install_model of the process answered.                                  *)

Idle(outcome) ==
  [pc |-> "idle", model |-> CHOOSE m \in Models : TRUE, left |-> <<>>,
   todo |-> {}, missed |-> FALSE, digest |-> NoTree, outcome |-> outcome]

At(p, place) == installer[p].pc = place
Current(p) == Head(installer[p].left)
Goto(p, place) == installer' = [installer EXCEPT ![p].pc = place]
GotoWith(p, place, todo) ==
  installer' = [installer EXCEPT ![p].pc = place, ![p].todo = todo]
Raise(p) == installer' = [installer EXCEPT ![p] = Idle("error")]

\* A mishap is counted, so that there are finitely many of them.
Mishap == mishaps < MaxMishaps /\ mishaps' = mishaps + 1
Smoothly == UNCHANGED <<mishaps, upstream>>

\* "models install": the manager runs one download at a time.  A model whose
\* licence was not acknowledged is refused before anything is touched.
Start(p, m) ==
  /\ At(p, "idle")
  /\ Exclusive => \A q \in Installers : At(q, "idle")
  /\ installer' = [installer EXCEPT ![p] =
       [Idle("none") EXCEPT !.pc = "check", !.model = m, !.left = ModelComponents[m]]]
  /\ UNCHANGED disk /\ Smoothly

\* Mutant of Check: every component is installed again.
CheckNothing(p) ==
  /\ At(p, "check") /\ installer[p].left # <<>>
  /\ GotoWith(p, "fetch", Files)
  /\ UNCHANGED disk /\ Smoothly

\* A component that verifies is skipped, any other is installed.
Check(p) ==
  /\ At(p, "check") /\ installer[p].left # <<>>
  /\ IF Verifies(Current(p), dest[Current(p)])
       THEN installer' = [installer EXCEPT ![p].left = Tail(@)]
       ELSE GotoWith(p, "fetch", Files)
  /\ UNCHANGED disk /\ Smoothly

\* The final verify_model.
Conclude(p) ==
  /\ At(p, "check") /\ installer[p].left = <<>>
  /\ installer' = [installer EXCEPT ![p] =
       [Idle(IF ModelVerifies(@.model) THEN "ok" ELSE "error") EXCEPT !.model = installer[p].model]]
  /\ UNCHANGED disk /\ Smoothly

\* The downloader takes one file after the other; a file it already has in
\* the revision the hub serves is kept, which is the same.
Fetch(p) ==
  /\ At(p, "fetch")
  /\ \E f \in installer[p].todo :
       LET c == Current(p)
           had == IF Exists(cache[c]) THEN cache[c] ELSE EmptyTree IN
       /\ cache' = [cache EXCEPT ![c] = With(had, f, upstream[c])]
       /\ installer' = [installer EXCEPT ![p].todo = @ \ {f}]
  /\ UNCHANGED <<assembled, dest, previous>> /\ Smoothly

Fetched(p) ==
  /\ At(p, "fetch") /\ installer[p].todo = {}
  /\ Goto(p, "clear")
  /\ UNCHANGED disk /\ Smoothly

\* Mutant of Clear: the leftovers are kept.
ClearNothing(p) ==
  /\ At(p, "clear")
  /\ Goto(p, "make")
  /\ UNCHANGED disk /\ Smoothly

\* rmtree(assembled), what an interrupted installation left there
Clear(p) ==
  /\ At(p, "clear")
  /\ LET c == Current(p) IN
     IF Exists(assembled[c])
       THEN /\ \E t \in Removals(assembled[c]) : assembled' = [assembled EXCEPT ![c] = t]
            /\ UNCHANGED installer
       ELSE Goto(p, "make") /\ UNCHANGED assembled
  /\ UNCHANGED <<cache, dest, previous>> /\ Smoothly

\* copytree lists the snapshot, creates the directory, which must not exist,
Make(p) ==
  /\ At(p, "make")
  /\ LET c == Current(p) IN
     IF Exists(cache[c]) /\ ~Exists(assembled[c])
       THEN /\ assembled' = [assembled EXCEPT ![c] = EmptyTree]
            /\ GotoWith(p, "copy", Names(cache[c]))
       ELSE Raise(p) /\ UNCHANGED assembled
  /\ UNCHANGED <<cache, dest, previous>> /\ Smoothly

\* and copies file by file; one that cannot be copied is reported at the end.
Copy(p) ==
  /\ At(p, "copy")
  /\ \E f \in installer[p].todo :
       LET c == Current(p)
           copied == f \in Names(cache[c]) /\ Exists(assembled[c]) IN
       /\ assembled' = IF copied
            THEN [assembled EXCEPT ![c] = With(@, f, cache[c][f])] ELSE assembled
       /\ installer' = [installer EXCEPT ![p].todo = @ \ {f},
                                             ![p].missed = @ \/ ~copied]
  /\ UNCHANGED <<cache, dest, previous>> /\ Smoothly

\* Mutant of Acceptable: the digest is not compared.
AcceptableUnhashed(c, t) == Required \subseteq DOMAIN t

\* The copy is hashed and compared with the catalogue.
Acceptable(c, t) ==
  /\ c \in Pinned => DigestOfAll(t) = AllFiles(Released)
  /\ Required \subseteq DOMAIN t

Inspect(p) ==
  /\ At(p, "copy") /\ installer[p].todo = {}
  /\ LET c == Current(p) IN
     IF /\ ~installer[p].missed
        /\ Exists(assembled[c])
        /\ Acceptable(c, assembled[c])
       THEN installer' = [installer EXCEPT ![p].pc = "mark",
                            ![p].digest = DigestOfAll(assembled[c])]
       ELSE Raise(p)
  /\ UNCHANGED disk /\ Smoothly

\* The installation marker, with the digest computed before.
Mark(p) ==
  /\ At(p, "mark")
  /\ LET c == Current(p) IN
     IF Exists(assembled[c])
       THEN /\ assembled' = [assembled EXCEPT ![c] = With(@, Marker, installer[p].digest)]
            /\ installer' = [installer EXCEPT ![p].pc = "make way", ![p].digest = NoTree]
       ELSE Raise(p) /\ UNCHANGED assembled
  /\ UNCHANGED <<cache, dest, previous>> /\ Smoothly

\* rmtree(previous), before and after the two renames
DropPrevious(p, place, next) ==
  /\ At(p, place)
  /\ LET c == Current(p) IN
     IF Exists(previous[c])
       THEN /\ \E t \in Removals(previous[c]) : previous' = [previous EXCEPT ![c] = t]
            /\ UNCHANGED installer
       ELSE Goto(p, next) /\ UNCHANGED previous
  /\ UNCHANGED <<cache, assembled, dest>> /\ Smoothly

MakeWay(p) == DropPrevious(p, "make way", "retire")

\* A directory cannot be renamed onto one that has files.
Free(t) == Names(t) = {}

\* os.replace(destination, previous)
Retire(p) ==
  /\ At(p, "retire")
  /\ LET c == Current(p) IN
     \/ /\ ~Exists(dest[c])
        /\ Goto(p, "expose") /\ UNCHANGED <<dest, previous>>
     \/ /\ Exists(dest[c]) /\ Free(previous[c])
        /\ previous' = [previous EXCEPT ![c] = dest[c]]
        /\ dest' = [dest EXCEPT ![c] = NoTree]
        /\ Goto(p, "expose")
     \/ /\ Exists(dest[c]) /\ ~Free(previous[c])
        /\ Raise(p) /\ UNCHANGED <<dest, previous>>
  /\ UNCHANGED <<cache, assembled>> /\ Smoothly

\* os.replace(assembled, destination): from here on the component is installed.
Expose(p) ==
  /\ At(p, "expose")
  /\ LET c == Current(p) IN
     IF Exists(assembled[c]) /\ Free(dest[c])
       THEN /\ dest' = [dest EXCEPT ![c] = assembled[c]]
            /\ assembled' = [assembled EXCEPT ![c] = NoTree]
            /\ Goto(p, "discard")
       ELSE Raise(p) /\ UNCHANGED <<dest, assembled>>
  /\ UNCHANGED <<cache, previous>> /\ Smoothly

Discard(p) == DropPrevious(p, "discard", "sweep")

\* rmtree(download_root): the cache, and whatever is assembled beside it
Sweep(p) ==
  /\ At(p, "sweep")
  /\ LET c == Current(p) IN
     \/ /\ Exists(cache[c])
        /\ \E t \in Removals(cache[c]) : cache' = [cache EXCEPT ![c] = t]
        /\ UNCHANGED <<assembled, installer>>
     \/ /\ Exists(assembled[c])
        /\ \E t \in Removals(assembled[c]) : assembled' = [assembled EXCEPT ![c] = t]
        /\ UNCHANGED <<cache, installer>>
     \/ /\ ~Exists(cache[c]) /\ ~Exists(assembled[c])
        /\ installer' = [installer EXCEPT ![p].pc = "check", ![p].left = Tail(@)]
        /\ UNCHANGED <<cache, assembled>>
  /\ UNCHANGED <<dest, previous>> /\ Smoothly

Alone(p) == \A q \in Installers \ {p} : At(q, "idle")

\* The process is killed, the machine stops, the download or a file operation
\* fails, as it may whenever another installer moves the same files: the disk
\* stays as it is.
Fail(p) ==
  /\ ~At(p, "idle")
  /\ Mishap \/ (~Alone(p) /\ UNCHANGED mishaps)
  /\ Raise(p)
  /\ UNCHANGED upstream /\ UNCHANGED disk

Step(p) ==
  \/ Check(p) \/ Conclude(p) \/ Fetch(p) \/ Fetched(p) \/ Clear(p) \/ Make(p)
  \/ Copy(p) \/ Inspect(p) \/ Mark(p) \/ MakeWay(p) \/ Retire(p) \/ Expose(p)
  \/ Discard(p) \/ Sweep(p)

-----------------------------------------------------------------------------
(* Environment *)

\* The publisher changes a mutable revision, or withdraws the change.
Publish(c) ==
  /\ Mishap
  /\ upstream' = [upstream EXCEPT ![c] = IF @ = Released THEN Drifted ELSE Released]
  /\ UNCHANGED installer /\ UNCHANGED disk

-----------------------------------------------------------------------------
Complete == With(AllFiles(Released), Marker, AllFiles(Released))

\* Damaged installations: a required file is gone, or a file is not what was
\* installed.
Damaged == {Without(Complete, f) : f \in Required} \cup {With(Complete, f, Decayed) : f \in Files}

Init ==
  /\ upstream = [c \in Components |-> Released]
  /\ cache = [c \in Components |-> NoTree]
  /\ assembled = [c \in Components |-> NoTree]
  /\ previous = [c \in Components |-> NoTree]
  /\ dest \in [Components -> {NoTree, Complete} \cup Damaged]
  /\ installer = [p \in Installers |-> Idle("none")]
  /\ mishaps = 0

Next ==
  \/ \E p \in Installers : Step(p) \/ Fail(p) \/ \E m \in Models : Start(p, m)
  \/ \E c \in Components : Publish(c)

Spec == Init /\ [][Next]_vars

\* A running process takes its next step; nothing obliges it to fail, nor an
\* operator to start one.
FairSpec == Spec /\ \A p \in Installers : WF_vars(Step(p))

-----------------------------------------------------------------------------
(* Properties *)

Places == {"idle", "check", "fetch", "clear", "make", "copy", "mark", "make way",
           "retire", "expose", "discard", "sweep"}

\* The directories hold files of the snapshot and the marker, an installer at
\* work has a component before it, except while it checks, and a digest before
\* it writes the marker.
TypeOK ==
  /\ upstream \in [Components -> {Released, Drifted}]
  /\ cache \in [Components -> FileTrees \cup {NoTree}]
  /\ assembled \in [Components -> Trees \cup {NoTree}]
  /\ dest \in [Components -> Trees \cup {NoTree}]
  /\ previous \in [Components -> Trees \cup {NoTree}]
  /\ mishaps \in 0..MaxMishaps
  /\ installer \in [Installers ->
       [pc : Places, model : Models, left : Seq(Components), todo : SUBSET Files,
        missed : BOOLEAN,
        digest : Digests \cup {NoTree}, outcome : {"none", "ok", "error"}]]
  /\ \A p \in Installers :
       /\ installer[p].left = <<>> => installer[p].pc \in {"idle", "check"}
       /\ At(p, "mark") => installer[p].digest \in Digests

\* A tree that appears where a component is installed is complete, has the
\* catalogue's digest and the marker that goes with it, whatever interrupted
\* installations left in the staging directories (_install_component, the
\* staging, checking and renaming of one component).
ExposedIsVerified ==
  [][\A c \in Components :
       dest'[c] # dest[c] /\ Exists(dest'[c]) => Verifies(c, dest'[c])]_vars

\* What the shelf shows of a component: nothing, something that does not
\* verify, or a component that does.
Shelf == [c \in Components |->
            IF ~Exists(dest[c]) THEN "absent"
            ELSE IF Verifies(c, dest[c]) THEN "good" ELSE "broken"]

Abstract == INSTANCE ComponentShelf WITH shelf <- Shelf

\* Seen from outside, a component becomes good in one step and stays good: it
\* is never replaced by a broken one, nor taken away to be installed again by
\* a later or repeated installation (install_model skips what verifies).
InstallsAtomically == Abstract!Spec

\* Whatever the server is given a path for verifies unless it decayed, although
\* reference() looks at the marker and the required files only and hashes
\* nothing: an interrupted installation never leaves a tree that passes the
\* cheap check.
ServedIsVerified ==
  \A c \in Components :
    LET t == Reference(c) IN Exists(t) /\ ~Decays(t) => Verifies(c, t)

\* Whatever earlier crashes or rival installers left behind, an installation
\* that starts alone, when the failures are over and the hub serves what the
\* catalogue pins, ends with the model installed unless a rival starts: no
\* leftover of the staging directories stops it for good.
Favourable(m) ==
  /\ mishaps = MaxMishaps
  /\ \A i \in DOMAIN ModelComponents[m] : upstream[ModelComponents[m][i]] = Released

AnInstallationSucceeds ==
  \A p \in Installers, m \in Models :
    (/\ At(p, "check") /\ installer[p].model = m
     /\ installer[p].left = ModelComponents[m] /\ Favourable(m) /\ Alone(p))
      ~> (ModelVerifies(m) \/ ~Alone(p))
=============================================================================
