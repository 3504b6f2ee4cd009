------------------------- MODULE ModelInstallProofs -------------------------
(***************************************************************************)
(* Theorems about ModelInstall: its types, for any number of installers at *)
(* once; and, with one installer at a time, that components are installed  *)
(* atomically and that a server is given nothing but verified ones.        *)
(***************************************************************************)
EXTENDS ModelInstall, TLAPS

-----------------------------------------------------------------------------
(* Trees *)

LEMMA FileTreeDef ==
  \A t : t \in FileTrees <=> t \in [DOMAIN t -> Contents] /\ DOMAIN t \subseteq Files
  BY DEF FileTrees

LEMMA TreeDef ==
  \A t : t \in Trees <=>
    /\ t \in [DOMAIN t -> Contents \cup Digests]
    /\ DOMAIN t \subseteq Files \cup {Marker}
    /\ \A f \in DOMAIN t : t[f] \in IF f = Marker THEN Digests ELSE Contents
  BY DEF Trees

LEMMA FileTreesAreTrees == FileTrees \subseteq Trees
  BY FileTreeDef, TreeDef, InstallAssumption

LEMMA TreesExist ==
  /\ \A t \in FileTrees : Exists(t)
  /\ \A t \in Trees : Exists(t)
  BY TreesAssumption, FileTreesAreTrees DEF Exists

LEMMA EmptyTreeType == EmptyTree \in FileTrees
  BY FileTreeDef DEF EmptyTree

LEMMA WithFile ==
  ASSUME NEW f \in Files, NEW v \in Contents
  PROVE  /\ \A t \in FileTrees : With(t, f, v) \in FileTrees
         /\ \A t \in Trees : With(t, f, v) \in Trees
  <1>1. ASSUME NEW t \in FileTrees PROVE With(t, f, v) \in FileTrees
    BY FileTreeDef DEF With
  <1>2. ASSUME NEW t \in Trees PROVE With(t, f, v) \in Trees
    <2> DEFINE w == With(t, f, v)
    <2>1. f # Marker
      BY InstallAssumption
    <2>2. w \in [DOMAIN w -> Contents \cup Digests] /\ DOMAIN w = DOMAIN t \cup {f}
      BY TreeDef DEF With
    <2>3. \A g \in DOMAIN w : w[g] = IF g = f THEN v ELSE t[g]
      BY DEF With
    <2>4. w \in Trees
      <3> HIDE DEF w
      <3> QED  BY <2>1, <2>2, <2>3, TreeDef
    <2> QED  BY <2>4
  <1> QED  BY <1>1, <1>2

LEMMA WithMarker ==
  ASSUME NEW d \in Digests, NEW t \in Trees
  PROVE  With(t, Marker, d) \in Trees
  <1> DEFINE w == With(t, Marker, d)
  <1>2. w \in [DOMAIN w -> Contents \cup Digests] /\ DOMAIN w = DOMAIN t \cup {Marker}
    BY TreeDef DEF With
  <1>3. \A g \in DOMAIN w : w[g] = IF g = Marker THEN d ELSE t[g]
    BY DEF With
  <1>4. w \in Trees
    <2> HIDE DEF w
    <2> QED  BY <1>2, <1>3, TreeDef
  <1> QED  BY <1>4

LEMMA WithoutType ==
  ASSUME NEW f
  PROVE  /\ \A t \in FileTrees : Without(t, f) \in FileTrees
         /\ \A t \in Trees : Without(t, f) \in Trees
  <1>1. ASSUME NEW t \in FileTrees PROVE Without(t, f) \in FileTrees
    BY FileTreeDef DEF Without
  <1>2. ASSUME NEW t \in Trees PROVE Without(t, f) \in Trees
    <2> DEFINE w == Without(t, f)
    <2>1. w \in [DOMAIN w -> Contents \cup Digests] /\ DOMAIN w = DOMAIN t \ {f}
      BY TreeDef DEF Without
    <2>2. \A g \in DOMAIN w : w[g] = t[g]
      BY DEF Without
    <2>3. w \in Trees
      <3> HIDE DEF w
      <3> QED  BY <2>1, <2>2, TreeDef
    <2> QED  BY <2>3
  <1> QED  BY <1>1, <1>2

LEMMA RemovalsType ==
  /\ \A t \in FileTrees \cup {NoTree} : Removals(t) \subseteq FileTrees \cup {NoTree}
  /\ \A t \in Trees \cup {NoTree} : Removals(t) \subseteq Trees \cup {NoTree}
  BY WithoutType DEF Removals, Names, Exists

LEMMA DigestType ==
  ASSUME NEW t \in Trees
  PROVE  Digest(t) \in FileTrees /\ DigestOfAll(t) \in Digests
  <1> DEFINE d == Digest(t)
  <1>1. d \in [DOMAIN d -> Contents] /\ DOMAIN d = DOMAIN t \ {Marker}
    <2>1. \A g \in DOMAIN t \ {Marker} : t[g] \in Contents
      BY TreeDef
    <2> QED  BY <2>1 DEF Digest
  <1>2. d \in FileTrees
    <2> HIDE DEF d
    <2> QED  BY <1>1, TreeDef, FileTreeDef
  <1> QED  BY <1>2 DEF DigestOfAll, Digests

\* Hashing a tree without marker gives the tree; a marker does not count.
LEMMA DigestOfFiles ==
  ASSUME NEW t \in FileTrees, NEW d
  PROVE  /\ Digest(t) = t /\ DigestOfAll(t) = t
         /\ Digest(With(t, Marker, d)) = t
         /\ With(t, Marker, d)[Marker] = d
         /\ DOMAIN With(t, Marker, d) = DOMAIN t \cup {Marker}
  <1>1. t = [g \in DOMAIN t |-> t[g]] /\ Marker \notin DOMAIN t
    BY FileTreeDef, InstallAssumption
  <1>2. Digest(t) = t
    BY <1>1 DEF Digest
  <1>3. DigestOfAll(t) = t
    BY <1>1, <1>2 DEF DigestOfAll
  <1>4. DOMAIN With(t, Marker, d) \ {Marker} = DOMAIN t
    BY <1>1 DEF With
  <1>5. \A g \in DOMAIN t : With(t, Marker, d)[g] = t[g]
    BY <1>1 DEF With
  <1>6. Digest(With(t, Marker, d)) = [g \in DOMAIN t |-> t[g]]
    BY <1>4, <1>5 DEF Digest
  <1> QED  BY <1>1, <1>2, <1>3, <1>6 DEF With

\* A checked copy that gets its own digest as marker verifies.
LEMMA MarkedVerifies ==
  ASSUME NEW c \in Components, NEW t \in FileTrees, Acceptable(c, t)
  PROVE  Verifies(c, With(t, Marker, t))
  <1>1. t \in Digests /\ With(t, Marker, t) \in Trees
    BY WithMarker, FileTreesAreTrees DEF Digests
  <1>2. c \in Pinned => t = AllFiles(Released)
    BY DigestOfFiles DEF Acceptable
  <1>3. Required \subseteq DOMAIN t
    BY DEF Acceptable
  <1> QED  BY <1>1, <1>2, <1>3, DigestOfFiles, TreesExist DEF Verifies, Expected

LEMMA CompleteVerifies ==
  /\ Complete \in Trees
  /\ \A c \in Components : Verifies(c, Complete)
  <1>1. AllFiles(Released) \in FileTrees /\ DOMAIN AllFiles(Released) = Files
    BY FileTreeDef DEF AllFiles, Contents
  <1>2. \A c \in Components : Acceptable(c, AllFiles(Released))
    BY <1>1, DigestOfFiles, InstallAssumption DEF Acceptable
  <1> QED  BY <1>1, <1>2, MarkedVerifies, WithMarker, FileTreesAreTrees DEF Complete, Digests

LEMMA DamagedType == Damaged \subseteq Trees
  BY CompleteVerifies, WithoutType, WithFile DEF Damaged, Contents

-----------------------------------------------------------------------------
(* Types *)

InstallerRecords ==
  [pc : Places, model : Models, left : Seq(Components), todo : SUBSET Files,
   missed : BOOLEAN, digest : Digests \cup {NoTree}, outcome : {"none", "ok", "error"}]

\* An installer has a component before it unless it is idle or checks, and a
\* digest when it is to write the marker.
Sound(r) ==
  /\ r \in InstallerRecords
  /\ r.left = <<>> => r.pc \in {"idle", "check"}
  /\ r.pc = "mark" => r.digest \in Digests

InstallersOK == installer \in [Installers -> InstallerRecords]
                /\ \A p \in Installers : Sound(installer[p])

DiskOK ==
  /\ cache \in [Components -> FileTrees \cup {NoTree}]
  /\ assembled \in [Components -> Trees \cup {NoTree}]
  /\ dest \in [Components -> Trees \cup {NoTree}]
  /\ previous \in [Components -> Trees \cup {NoTree}]

AroundOK ==
  /\ upstream \in [Components -> {Released, Drifted}]
  /\ mishaps \in 0..MaxMishaps

LEMMA TypeParts == TypeOK <=> InstallersOK /\ DiskOK /\ AroundOK
  BY DEF TypeOK, InstallersOK, DiskOK, AroundOK, Sound, InstallerRecords, At

LEMMA TypePartsNext == InstallersOK' /\ DiskOK' /\ AroundOK' => TypeOK'
  BY DEF TypeOK, InstallersOK, DiskOK, AroundOK, Sound, InstallerRecords, At

LEMMA IdleSound ==
  ASSUME NEW o \in {"none", "ok", "error"}, NEW m \in Models
  PROVE  /\ Idle(o) \in InstallerRecords
         /\ Sound(Idle(o))
         /\ Sound([Idle(o) EXCEPT !.model = m])
  <1>1. (CHOOSE x \in Models : TRUE) \in Models
    BY InstallAssumption
  <1>2. <<>> \in Seq(Components)
    OBVIOUS
  <1> QED  BY <1>1, <1>2 DEF Idle, InstallerRecords, Sound, Places

LEMMA OneInstaller ==
  ASSUME InstallersOK, NEW p \in Installers, NEW r, Sound(r),
         installer' = [installer EXCEPT ![p] = r]
  PROVE  InstallersOK'
  BY DEF InstallersOK, Sound

\* The component an installer works on.
LEMMA CurrentType ==
  ASSUME InstallersOK, NEW p \in Installers,
         installer[p].pc \notin {"idle", "check"} \/ installer[p].left # <<>>
  PROVE  /\ Current(p) \in Components
         /\ Tail(installer[p].left) \in Seq(Components)
  <1>1. installer[p].left \in Seq(Components) /\ installer[p].left # <<>>
    BY DEF InstallersOK, Sound, InstallerRecords
  <1> QED  BY <1>1 DEF Current

\* The records a step leaves.
LEMMA SoundRecords ==
  ASSUME InstallersOK, NEW p \in Installers
  PROVE  /\ \A place \in Places \ {"mark"} : ~At(p, "idle") /\ ~At(p, "check")
              => Sound([installer[p] EXCEPT !.pc = place])
         /\ \A place \in Places \ {"mark"}, todo \in SUBSET Files :
              installer[p].left # <<>> =>
                Sound([installer[p] EXCEPT !.pc = place, !.todo = todo])
         /\ \A todo \in SUBSET Files :
              Sound([installer[p] EXCEPT !.todo = todo])
         /\ \A todo \in SUBSET Files, missed \in BOOLEAN :
              Sound([installer[p] EXCEPT !.todo = todo, !.missed = missed])
         /\ \A d \in Digests :
              installer[p].left # <<>> =>
                Sound([installer[p] EXCEPT !.pc = "mark", !.digest = d])
         /\ installer[p].left # <<>> =>
              Sound([installer[p] EXCEPT !.pc = "make way", !.digest = NoTree])
         /\ \A rest \in Seq(Components) :
              Sound([installer[p] EXCEPT !.pc = "check", !.left = rest])
  BY DEF InstallersOK, Sound, InstallerRecords, At, Places

LEMMA InitType ==
  ASSUME Init
  PROVE  TypeOK
  <1>1. InstallersOK
    <2>1. PICK m \in Models : TRUE
      BY InstallAssumption
    <2> QED  BY IdleSound, <2>1 DEF Init, InstallersOK
  <1>2. DiskOK
    BY CompleteVerifies, DamagedType DEF Init, DiskOK
  <1>3. AroundOK
    BY InstallAssumption DEF Init, AroundOK
  <1> QED  BY <1>1, <1>2, <1>3, TypeParts

LEMMA InstallerSteps ==
  ASSUME TypeOK, NEW p \in Installers, Step(p)
  PROVE  InstallersOK'
  <1> USE DEF Goto, GotoWith
  <1>0. InstallersOK /\ DiskOK /\ Sound(installer[p]) /\ installer[p] \in InstallerRecords
    BY TypeParts DEF InstallersOK
  <1>i. Sound(Idle("error"))
    BY IdleSound, InstallAssumption
  <1>t. installer[p].left \in Seq(Components) /\ installer[p].todo \in SUBSET Files
        /\ installer[p].missed \in BOOLEAN /\ installer[p].model \in Models
    BY <1>0 DEF InstallerRecords
  <1>p. /\ ~At(p, "idle") /\ ~At(p, "check") => installer[p].left # <<>>
        /\ {"fetch", "clear", "make", "copy", "mark", "make way", "retire", "expose",
            "discard", "sweep", "check"} \subseteq Places
    BY <1>0 DEF Sound, At, Places
  <1>1. CASE Check(p)
    <2>1. CASE installer' = [installer EXCEPT ![p].left = Tail(@)]
      <3>1. [installer[p] EXCEPT !.left = Tail(@)]
              = [installer[p] EXCEPT !.pc = "check", !.left = Tail(@)]
        BY <1>1, <1>0 DEF Check, At, InstallerRecords
      <3>2. Sound([installer[p] EXCEPT !.left = Tail(@)])
        BY <1>0, <1>1, <3>1, SoundRecords, CurrentType DEF Check
      <3> QED  BY <1>0, <2>1, <3>2, OneInstaller
    <2>2. CASE GotoWith(p, "fetch", Files)
      <3>1. Sound([installer[p] EXCEPT !.pc = "fetch", !.todo = Files])
        BY <1>0, <1>1, <1>p, SoundRecords DEF Check
      <3>2. installer' = [installer EXCEPT ![p] =
                            [installer[p] EXCEPT !.pc = "fetch", !.todo = Files]]
        BY <1>0, <2>2 DEF InstallersOK
      <3> QED  BY <1>0, <3>1, <3>2, OneInstaller
    <2> QED  BY <1>1, <2>1, <2>2 DEF Check
  <1>2. CASE Conclude(p)
    <2>1. PICK o \in {"ok", "error"} :
            installer' = [installer EXCEPT ![p] = [Idle(o) EXCEPT !.model = installer[p].model]]
      BY <1>2 DEF Conclude
    <2>2. Sound([Idle(o) EXCEPT !.model = installer[p].model])
      BY <1>t, IdleSound
    <2> QED  BY <1>0, <2>1, <2>2, OneInstaller
  <1>3. CASE Fetch(p)
    <2>1. PICK f \in installer[p].todo :
            installer' = [installer EXCEPT ![p].todo = @ \ {f}]
      BY <1>3 DEF Fetch
    <2>2. Sound([installer[p] EXCEPT !.todo = @ \ {f}])
      BY <1>0, <1>t, SoundRecords
    <2> QED  BY <1>0, <2>1, <2>2, OneInstaller
  <1>4. CASE Fetched(p)
    BY <1>0, <1>p, <1>4, SoundRecords, OneInstaller DEF Fetched, At
  <1>5. CASE Clear(p)
    <2>1. CASE UNCHANGED installer
      BY <1>0, <2>1 DEF InstallersOK, Sound
    <2>2. CASE Goto(p, "make")
      BY <1>0, <1>p, <1>5, <2>2, SoundRecords, OneInstaller DEF Clear, At
    <2> QED  BY <1>5, <2>1, <2>2 DEF Clear
  <1>6. CASE Make(p)
    <2>1. CASE Raise(p)
      BY <1>0, <1>i, <2>1, OneInstaller DEF Raise
    <2>2. CASE GotoWith(p, "copy", Names(cache[Current(p)]))
      <3>1. Current(p) \in Components /\ installer[p].left # <<>>
        BY <1>0, <1>6, <1>p, CurrentType DEF Make, At
      <3>2. Names(cache[Current(p)]) \in SUBSET Files
        BY <1>0, <3>1, FileTreeDef DEF Names, DiskOK, Exists
      <3>3. Sound([installer[p] EXCEPT !.pc = "copy", !.todo = Names(cache[Current(p)])])
        BY <1>0, <1>p, <3>1, <3>2, SoundRecords
      <3>4. installer' = [installer EXCEPT ![p] =
              [installer[p] EXCEPT !.pc = "copy", !.todo = Names(cache[Current(p)])]]
        BY <1>0, <2>2 DEF InstallersOK
      <3> QED  BY <1>0, <3>3, <3>4, OneInstaller
    <2> QED  BY <1>6, <2>1, <2>2 DEF Make
  <1>7. CASE Copy(p)
    <2>1. PICK f \in installer[p].todo, copied \in BOOLEAN :
            installer' = [installer EXCEPT ![p].todo = @ \ {f}, ![p].missed = @ \/ ~copied]
      BY <1>7 DEF Copy
    <2>2. Sound([installer[p] EXCEPT !.todo = @ \ {f}, !.missed = @ \/ ~copied])
      BY <1>0, <1>t, SoundRecords
    <2> QED  BY <1>0, <2>1, <2>2, OneInstaller
  <1>8. CASE Inspect(p)
    <2>1. CASE Raise(p)
      BY <1>0, <1>i, <2>1, OneInstaller DEF Raise
    <2>2. CASE ~Raise(p)
      <3>1. Current(p) \in Components /\ installer[p].left # <<>>
        BY <1>0, <1>8, <1>p, CurrentType DEF Inspect, At
      <3>2. DigestOfAll(assembled[Current(p)]) \in Digests
        BY <1>0, <1>8, <2>2, <3>1, DigestType DEF Inspect, DiskOK, Exists
      <3>3. Sound([installer[p] EXCEPT !.pc = "mark", !.digest = DigestOfAll(assembled[Current(p)])])
        BY <1>0, <1>p, <3>1, <3>2, SoundRecords
      <3>4. installer' = [installer EXCEPT ![p] = [installer[p] EXCEPT
                            !.pc = "mark", !.digest = DigestOfAll(assembled[Current(p)])]]
        BY <1>0, <1>8, <2>2 DEF Inspect, InstallersOK
      <3> QED  BY <1>0, <3>3, <3>4, OneInstaller
    <2> QED  BY <2>1, <2>2
  <1>9. CASE Mark(p)
    <2>1. CASE Raise(p)
      BY <1>0, <1>i, <2>1, OneInstaller DEF Raise
    <2>2. CASE ~Raise(p)
      <3>1. Sound([installer[p] EXCEPT !.pc = "make way", !.digest = NoTree])
        BY <1>0, <1>9, <1>p, SoundRecords DEF Mark, At
      <3>2. installer' = [installer EXCEPT ![p] = [installer[p] EXCEPT
                            !.pc = "make way", !.digest = NoTree]]
        BY <1>0, <1>9, <2>2 DEF Mark, InstallersOK
      <3> QED  BY <1>0, <3>1, <3>2, OneInstaller
    <2> QED  BY <2>1, <2>2
  <1>10. CASE MakeWay(p) \/ Discard(p)
    <2>1. CASE UNCHANGED installer
      BY <1>0, <2>1 DEF InstallersOK, Sound
    <2>2. CASE ~UNCHANGED installer
      <3>1. PICK place \in {"retire", "sweep"} : Goto(p, place) /\ ~At(p, "idle") /\ ~At(p, "check")
        BY <1>10, <2>2 DEF MakeWay, Discard, DropPrevious, At
      <3>2. Sound([installer[p] EXCEPT !.pc = place])
        BY <1>0, <1>p, <3>1, SoundRecords
      <3> QED  BY <1>0, <3>1, <3>2, OneInstaller
    <2> QED  BY <2>1, <2>2
  <1>11. CASE Retire(p) \/ Expose(p)
    <2>1. CASE Raise(p)
      BY <1>0, <1>i, <2>1, OneInstaller DEF Raise
    <2>2. CASE ~Raise(p)
      <3>1. PICK place \in {"expose", "discard"} : Goto(p, place) /\ ~At(p, "idle") /\ ~At(p, "check")
        BY <1>11, <2>2 DEF Retire, Expose, At
      <3>2. Sound([installer[p] EXCEPT !.pc = place])
        BY <1>0, <1>p, <3>1, SoundRecords
      <3> QED  BY <1>0, <3>1, <3>2, OneInstaller
    <2> QED  BY <2>1, <2>2
  <1>12. CASE Sweep(p)
    <2>1. CASE UNCHANGED installer
      BY <1>0, <2>1 DEF InstallersOK, Sound
    <2>2. CASE ~UNCHANGED installer
      <3>1. installer' = [installer EXCEPT ![p].pc = "check", ![p].left = Tail(@)]
        BY <1>12, <2>2 DEF Sweep
      <3>2. Sound([installer[p] EXCEPT !.pc = "check", !.left = Tail(@)])
        BY <1>0, <1>12, SoundRecords, CurrentType DEF Sweep, At
      <3> QED  BY <1>0, <3>1, <3>2, OneInstaller
    <2> QED  BY <2>1, <2>2
  <1> QED
    BY <1>1, <1>2, <1>3, <1>4, <1>5, <1>6, <1>7, <1>8, <1>9, <1>10, <1>11, <1>12 DEF Step

\* A directory of one component takes another content.
LEMMA OneTree ==
  ASSUME NEW S, NEW d \in [Components -> S], NEW c \in Components, NEW t \in S
  PROVE  [d EXCEPT ![c] = t] \in [Components -> S]
  OBVIOUS

LEMMA DiskSteps ==
  ASSUME TypeOK, NEW p \in Installers, Step(p)
  PROVE  DiskOK'
  <1>0. InstallersOK /\ DiskOK /\ AroundOK
    BY TypeParts
  <1>c. ~At(p, "idle") /\ ~At(p, "check") => Current(p) \in Components
    BY <1>0, CurrentType DEF At
  <1>t. installer[p].todo \in SUBSET Files /\ installer[p].digest \in Digests \cup {NoTree}
    BY <1>0 DEF InstallersOK, InstallerRecords
  <1>1. CASE UNCHANGED disk
    BY <1>0, <1>1 DEF DiskOK, disk
  <1>2. CASE Fetch(p)
    <2> DEFINE c == Current(p)
               had == IF Exists(cache[c]) THEN cache[c] ELSE EmptyTree
    <2>1. c \in Components
      BY <1>2, <1>c DEF Fetch, At
    <2>2. PICK f \in installer[p].todo : cache' = [cache EXCEPT ![c] = With(had, f, upstream[c])]
      BY <1>2 DEF Fetch
    <2>3. had \in FileTrees /\ upstream[c] \in Contents /\ f \in Files
      BY <1>0, <1>t, <2>1, EmptyTreeType DEF DiskOK, AroundOK, Exists, Contents
    <2>4. With(had, f, upstream[c]) \in FileTrees
      BY <2>3, WithFile
    <2>5. cache' \in [Components -> FileTrees \cup {NoTree}]
      BY <1>0, <2>1, <2>2, <2>4 DEF DiskOK
    <2> QED  BY <1>0, <1>2, <2>5 DEF Fetch, DiskOK
  <1>3. CASE Clear(p)
    <2>1. CASE UNCHANGED assembled
      BY <1>0, <1>3, <2>1 DEF Clear, DiskOK
    <2>2. CASE ~UNCHANGED assembled
      <3>1. PICK t \in Removals(assembled[Current(p)]) :
              assembled' = [assembled EXCEPT ![Current(p)] = t]
        BY <1>3, <2>2 DEF Clear
      <3>2. t \in Trees \cup {NoTree}
        BY <1>0, <1>3, <1>c, <3>1, RemovalsType DEF Clear, At, DiskOK
      <3> QED  BY <1>0, <1>3, <3>1, <3>2 DEF Clear, DiskOK
    <2> QED  BY <2>1, <2>2
  <1>4. CASE Make(p)
    <2>1. CASE UNCHANGED assembled
      BY <1>0, <1>4, <2>1 DEF Make, DiskOK
    <2>2. CASE assembled' = [assembled EXCEPT ![Current(p)] = EmptyTree]
      BY <1>0, <1>4, <2>2, EmptyTreeType, FileTreesAreTrees DEF Make, DiskOK
    <2> QED  BY <1>4, <2>1, <2>2 DEF Make
  <1>5. CASE Copy(p)
    <2> DEFINE c == Current(p)
    <2>1. PICK f \in installer[p].todo :
            assembled' = IF f \in Names(cache[c]) /\ Exists(assembled[c])
                         THEN [assembled EXCEPT ![c] = With(@, f, cache[c][f])] ELSE assembled
      BY <1>5 DEF Copy
    <2>2. c \in Components /\ f \in Files
      BY <1>5, <1>c, <1>t DEF Copy, At
    <2>3. CASE f \in Names(cache[c]) /\ Exists(assembled[c])
      <3>1. cache[c][f] \in Contents
        BY <1>0, <2>2, <2>3, FileTreeDef DEF DiskOK, Names, Exists
      <3>2. assembled[c] \in Trees
        BY <1>0, <2>2, <2>3 DEF DiskOK, Exists
      <3>3. With(assembled[c], f, cache[c][f]) \in Trees
        BY <2>2, <3>1, <3>2, WithFile
      <3>4. assembled' \in [Components -> Trees \cup {NoTree}]
        BY <1>0, <2>1, <2>2, <2>3, <3>3 DEF DiskOK
      <3> QED  BY <1>0, <1>5, <3>4 DEF Copy, DiskOK
    <2>4. CASE UNCHANGED assembled
      BY <1>0, <1>5, <2>4 DEF Copy, DiskOK
    <2> QED  BY <2>1, <2>3, <2>4
  <1>6. CASE Mark(p)
    <2> DEFINE c == Current(p)
    <2>1. CASE UNCHANGED assembled
      BY <1>0, <1>6, <2>1 DEF Mark, DiskOK
    <2>2. CASE ~UNCHANGED assembled
      <3>1. /\ Exists(assembled[c]) /\ c \in Components
            /\ assembled' = [assembled EXCEPT ![c] = With(@, Marker, installer[p].digest)]
        BY <1>6, <1>c, <2>2 DEF Mark, At
      <3>2. assembled[c] \in Trees
        BY <1>0, <3>1 DEF DiskOK, Exists
      <3>3. With(assembled[c], Marker, installer[p].digest) \in Trees
        BY <1>0, <1>6, <3>2, WithMarker DEF InstallersOK, Sound, Mark, At
      <3>4. assembled' \in [Components -> Trees \cup {NoTree}]
        BY <1>0, <3>1, <3>3 DEF DiskOK
      <3> QED  BY <1>0, <1>6, <3>4 DEF Mark, DiskOK
    <2> QED  BY <2>1, <2>2
  <1>7. CASE MakeWay(p) \/ Discard(p)
    <2>1. UNCHANGED <<cache, assembled, dest>>
      BY <1>7 DEF MakeWay, Discard, DropPrevious
    <2>2. CASE UNCHANGED previous
      BY <1>0, <2>1, <2>2 DEF DiskOK
    <2>3. CASE ~UNCHANGED previous
      <3>1. PICK t \in Removals(previous[Current(p)]) :
              previous' = [previous EXCEPT ![Current(p)] = t]
        BY <1>7, <2>3 DEF MakeWay, Discard, DropPrevious
      <3>2. t \in Trees \cup {NoTree}
        BY <1>0, <1>7, <1>c, <3>1, RemovalsType DEF MakeWay, Discard, DropPrevious, At, DiskOK
      <3> QED  BY <1>0, <2>1, <3>1, <3>2 DEF DiskOK
    <2> QED  BY <2>2, <2>3
  <1>8. CASE Retire(p)
    <2>1. UNCHANGED <<cache, assembled>> /\ Current(p) \in Components
      BY <1>8, <1>c DEF Retire, At
    <2>2. CASE UNCHANGED <<dest, previous>>
      BY <1>0, <2>1, <2>2 DEF DiskOK
    <2>3. CASE /\ previous' = [previous EXCEPT ![Current(p)] = dest[Current(p)]]
               /\ dest' = [dest EXCEPT ![Current(p)] = NoTree]
      BY <1>0, <2>1, <2>3 DEF DiskOK
    <2> QED  BY <1>8, <2>2, <2>3 DEF Retire
  <1>9. CASE Expose(p)
    <2>1. UNCHANGED <<cache, previous>> /\ Current(p) \in Components
      BY <1>9, <1>c DEF Expose, At
    <2>2. CASE UNCHANGED <<dest, assembled>>
      BY <1>0, <2>1, <2>2 DEF DiskOK
    <2>3. CASE /\ dest' = [dest EXCEPT ![Current(p)] = assembled[Current(p)]]
               /\ assembled' = [assembled EXCEPT ![Current(p)] = NoTree]
      BY <1>0, <2>1, <2>3 DEF DiskOK
    <2> QED  BY <1>9, <2>2, <2>3 DEF Expose
  <1>10. CASE Sweep(p)
    <2>1. UNCHANGED <<dest, previous>> /\ Current(p) \in Components
      BY <1>10, <1>c DEF Sweep, At
    <2>2. CASE UNCHANGED <<cache, assembled>>
      BY <1>0, <2>1, <2>2 DEF DiskOK
    <2>3. ASSUME NEW t \in Removals(cache[Current(p)]), UNCHANGED assembled,
                 cache' = [cache EXCEPT ![Current(p)] = t]
          PROVE  DiskOK'
      <3>1. t \in FileTrees \cup {NoTree}
        BY <1>0, <2>1, <2>3, RemovalsType DEF DiskOK
      <3> QED  BY <1>0, <2>1, <2>3, <3>1 DEF DiskOK
    <2>4. ASSUME NEW t \in Removals(assembled[Current(p)]), UNCHANGED cache,
                 assembled' = [assembled EXCEPT ![Current(p)] = t]
          PROVE  DiskOK'
      <3>1. t \in Trees \cup {NoTree}
        BY <1>0, <2>1, <2>4, RemovalsType DEF DiskOK
      <3> QED  BY <1>0, <2>1, <2>4, <3>1 DEF DiskOK
    <2> QED  BY <1>10, <2>2, <2>3, <2>4 DEF Sweep
  <1>11. Check(p) \/ Conclude(p) \/ Fetched(p) \/ Inspect(p) => UNCHANGED disk
    BY DEF Check, Conclude, Fetched, Inspect
  <1> QED
    BY <1>1, <1>2, <1>3, <1>4, <1>5, <1>6, <1>7, <1>8, <1>9, <1>10, <1>11 DEF Step

LEMMA StepType ==
  ASSUME TypeOK, [Next]_vars
  PROVE  TypeOK'
  <1>0. InstallersOK /\ DiskOK /\ AroundOK
    BY TypeParts
  <1>1. ASSUME NEW p \in Installers, Step(p)
        PROVE  TypeOK'
    <2>1. Smoothly
      BY <1>1 DEF Step, Check, Conclude, Fetch, Fetched, Clear, Make, Copy, Inspect,
                  Mark, MakeWay, Retire, Expose, Discard, Sweep, DropPrevious
    <2>2. AroundOK'
      BY <1>0, <2>1 DEF AroundOK, Smoothly
    <2> QED  BY <1>1, <2>2, InstallerSteps, DiskSteps, TypePartsNext
  <1>2. ASSUME NEW p \in Installers, Fail(p)
        PROVE  TypeOK'
    <2>1. InstallersOK'
      BY <1>0, <1>2, IdleSound, InstallAssumption, OneInstaller DEF Fail, Raise
    <2>2. DiskOK' /\ AroundOK'
      BY <1>0, <1>2, InstallAssumption DEF Fail, Mishap, disk, DiskOK, AroundOK
    <2> QED  BY <2>1, <2>2, TypePartsNext
  <1>3. ASSUME NEW p \in Installers, NEW m \in Models, Start(p, m)
        PROVE  TypeOK'
    <2> DEFINE r == [Idle("none") EXCEPT !.pc = "check", !.model = m,
                                         !.left = ModelComponents[m]]
    <2>1. Sound(r)
      <3>1. Idle("none") \in InstallerRecords
        BY IdleSound
      <3>2. ModelComponents[m] \in Seq(Components)
        BY InstallAssumption
      <3> QED  BY <3>1, <3>2 DEF Sound, InstallerRecords, Places
    <2>2. InstallersOK'
      BY <1>0, <1>3, <2>1, OneInstaller DEF Start
    <2>3. DiskOK' /\ AroundOK'
      BY <1>0, <1>3 DEF Start, Smoothly, disk, DiskOK, AroundOK
    <2> QED  BY <2>2, <2>3, TypePartsNext
  <1>4. ASSUME NEW c \in Components, Publish(c)
        PROVE  TypeOK'
    <2>1. InstallersOK' /\ DiskOK'
      BY <1>0, <1>4 DEF Publish, disk, InstallersOK, Sound, DiskOK
    <2>2. AroundOK'
      BY <1>0, <1>4, InstallAssumption DEF Publish, Mishap, AroundOK
    <2> QED  BY <2>1, <2>2, TypePartsNext
  <1>5. CASE UNCHANGED vars
    BY <1>0, <1>5, TypePartsNext
       DEF vars, disk, InstallersOK, Sound, DiskOK, AroundOK
  <1> QED
    BY <1>1, <1>2, <1>3, <1>4, <1>5 DEF Next

\* Whatever number of installers runs, the directories hold files of the
\* snapshot and markers, and every installer has a component to work on
\* (_install_component).
THEOREM TypeCorrect == Spec => []TypeOK
  BY InitType, StepType, PTL DEF Spec

-----------------------------------------------------------------------------
(* One installer at a time *)

OneAtWork == \A p, q \in Installers : p # q => At(p, "idle") \/ At(q, "idle")

\* What an installer knows of the component it works on: nothing installed
\* verifies until it is done; the copy has no marker until it is checked, the
\* digest is the copy's, and what is about to be renamed verifies.
Knows(p) ==
  LET c == Current(p) IN
  /\ installer[p].pc \in {"fetch", "clear", "make", "copy", "mark", "make way", "retire", "expose"}
       => ~Verifies(c, dest[c])
  /\ At(p, "copy") => assembled[c] \in FileTrees
  /\ At(p, "mark") => /\ assembled[c] \in FileTrees
                      /\ installer[p].digest = assembled[c]
                      /\ Acceptable(c, assembled[c])
  /\ installer[p].pc \in {"make way", "retire", "expose"} => Verifies(c, assembled[c])
  /\ At(p, "expose") => dest[c] = NoTree

SafeInv == OneAtWork /\ \A p \in Installers : Knows(p)

LEMMA InitSafe ==
  ASSUME Init
  PROVE  SafeInv
  BY DEF Init, SafeInv, OneAtWork, Knows, At, Idle

\* A step of an installer leaves the others as they are.
LEMMA OthersStay ==
  ASSUME InstallersOK, NEW p \in Installers, Step(p) \/ Fail(p) \/ \E m \in Models : Start(p, m)
  PROVE  \A q \in Installers \ {p} : installer'[q] = installer[q]
  BY DEF InstallersOK, Step, Fail, Start, Check, Conclude, Fetch, Fetched, Clear, Make, Copy,
         Inspect, Mark, MakeWay, Retire, Expose, Discard, Sweep, DropPrevious, Goto, GotoWith, Raise

\* At rest, while checking and after the renames there is nothing to know.
LEMMA IdleKnows ==
  ASSUME NEW p \in Installers, installer'[p].pc \in {"idle", "check", "discard", "sweep"}
  PROVE  Knows(p)'
  BY DEF Knows, At

\* So it is enough to look at the installer that moves.
LEMMA OnlyMover ==
  ASSUME TypeOK, SafeInv, NEW p \in Installers,
         \A q \in Installers \ {p} : installer'[q] = installer[q] /\ At(q, "idle"),
         Knows(p)'
  PROVE  SafeInv'
  <1>1. \A q \in Installers \ {p} : installer'[q].pc = "idle"
    BY DEF At
  <1>2. \A q \in Installers : Knows(q)'
    BY <1>1, IdleKnows
  <1>3. OneAtWork'
    BY <1>1 DEF OneAtWork, At
  <1> QED  BY <1>2, <1>3 DEF SafeInv

LEMMA StepKnows ==
  ASSUME TypeOK, SafeInv, NEW p \in Installers, Step(p)
  PROVE  Knows(p)'
  <1> DEFINE c == Current(p)
  <1> USE DEF Goto, GotoWith
  <1>0. InstallersOK /\ DiskOK /\ Knows(p) /\ installer \in [Installers -> InstallerRecords]
        /\ installer[p] \in InstallerRecords /\ Sound(installer[p])
    BY TypeParts DEF InstallersOK, SafeInv
  <1>c. ~At(p, "idle") /\ ~At(p, "check") => c \in Components
    BY <1>0, CurrentType DEF At
  <1>1. CASE Check(p)
    <2>1. CASE installer' = [installer EXCEPT ![p].left = Tail(@)]
      BY <1>0, <1>1, <2>1, IdleKnows DEF Check, At, InstallerRecords
    <2>2. CASE ~Verifies(c, dest[c]) /\ GotoWith(p, "fetch", Files)
      BY <1>0, <1>1, <2>2 DEF Check, At, InstallerRecords, Knows, Current, disk
    <2> QED  BY <1>1, <2>1, <2>2 DEF Check
  <1>2. CASE Conclude(p)
    <2>1. installer'[p].pc = "idle"
      BY <1>0, <1>2 DEF Conclude, Idle
    <2> QED  BY <2>1, IdleKnows
  <1>3. CASE Fetch(p)
    BY <1>0, <1>3 DEF Fetch, At, InstallerRecords, Knows, Current
  <1>4. CASE Fetched(p)
    BY <1>0, <1>4 DEF Fetched, At, InstallerRecords, Knows, Current, disk
  <1>5. CASE Clear(p)
    BY <1>0, <1>5 DEF Clear, At, InstallerRecords, Knows, Current
  <1>6. CASE Make(p)
    <2>1. CASE Raise(p)
      BY <1>0, <2>1, IdleKnows DEF Raise, Idle
    <2>2. CASE /\ assembled' = [assembled EXCEPT ![c] = EmptyTree]
               /\ GotoWith(p, "copy", Names(cache[c]))
      <3>1. assembled'[c] = EmptyTree /\ installer'[p].pc = "copy"
            /\ installer'[p].left = installer[p].left
        BY <1>0, <1>6, <1>c, <2>2 DEF Make, At, DiskOK, InstallerRecords
      <3> QED  BY <1>0, <1>6, <3>1, EmptyTreeType DEF Make, At, Knows, Current
    <2> QED  BY <1>6, <2>1, <2>2 DEF Make
  <1>7. CASE Copy(p)
    <2>1. PICK f \in installer[p].todo :
            /\ assembled' = IF f \in Names(cache[c]) /\ Exists(assembled[c])
                            THEN [assembled EXCEPT ![c] = With(@, f, cache[c][f])] ELSE assembled
            /\ installer' = [installer EXCEPT ![p].todo = @ \ {f},
                 ![p].missed = @ \/ ~(f \in Names(cache[c]) /\ Exists(assembled[c]))]
      BY <1>7 DEF Copy
    <2>2. c \in Components /\ assembled[c] \in FileTrees /\ f \in Files /\ At(p, "copy")
      BY <1>0, <1>7, <1>c DEF Copy, At, Knows, InstallerRecords
    <2>3. assembled'[c] \in FileTrees
      <3>1. CASE f \in Names(cache[c]) /\ Exists(assembled[c])
        <4>1. cache[c][f] \in Contents
          BY <1>0, <2>2, <3>1, FileTreeDef DEF DiskOK, Names, Exists
        <4> QED  BY <1>0, <2>1, <2>2, <3>1, <4>1, WithFile DEF DiskOK
      <3>2. CASE assembled' = assembled
        BY <2>2, <3>2
      <3> QED  BY <2>1, <3>1, <3>2
    <2>4. installer'[p].pc = "copy" /\ installer'[p].left = installer[p].left
      BY <1>0, <2>1, <2>2 DEF At, InstallerRecords
    <2>5. dest' = dest
      BY <1>7 DEF Copy
    <2> QED  BY <1>0, <2>2, <2>3, <2>4, <2>5 DEF At, Knows, Current
  <1>8. CASE Inspect(p)
    <2>1. CASE Raise(p)
      BY <1>0, <2>1, IdleKnows DEF Raise, Idle
    <2>2. CASE ~Raise(p)
      <3>1. /\ Acceptable(c, assembled[c])
            /\ installer' = [installer EXCEPT ![p].pc = "mark",
                               ![p].digest = DigestOfAll(assembled[c])]
            /\ UNCHANGED disk /\ At(p, "copy")
        BY <1>8, <2>2 DEF Inspect
      <3>2. assembled[c] \in FileTrees /\ DigestOfAll(assembled[c]) = assembled[c]
        BY <1>0, <3>1, DigestOfFiles DEF Knows
      <3>3. /\ installer'[p].pc = "mark" /\ installer'[p].left = installer[p].left
            /\ installer'[p].digest = assembled[c]
        BY <1>0, <3>1, <3>2 DEF InstallerRecords
      <3> QED  BY <1>0, <3>1, <3>2, <3>3 DEF At, Knows, Current, disk
    <2> QED  BY <2>1, <2>2
  <1>9. CASE Mark(p)
    <2>1. CASE Raise(p)
      BY <1>0, <2>1, IdleKnows DEF Raise, Idle
    <2>2. CASE ~Raise(p)
      <3>1. /\ assembled' = [assembled EXCEPT ![c] = With(@, Marker, installer[p].digest)]
            /\ installer' = [installer EXCEPT ![p].pc = "make way", ![p].digest = NoTree]
            /\ At(p, "mark") /\ dest' = dest
        BY <1>9, <2>2 DEF Mark
      <3>2. /\ c \in Components /\ assembled[c] \in FileTrees
            /\ installer[p].digest = assembled[c] /\ Acceptable(c, assembled[c])
        BY <1>0, <1>c, <3>1 DEF At, Knows
      <3>3. assembled'[c] = With(assembled[c], Marker, assembled[c])
        BY <1>0, <3>1, <3>2 DEF DiskOK
      <3>4. Verifies(c, assembled'[c])
        BY <3>2, <3>3, MarkedVerifies
      <3>5. installer'[p].pc = "make way" /\ installer'[p].left = installer[p].left
        BY <1>0, <3>1 DEF InstallerRecords
      <3> QED  BY <1>0, <3>1, <3>4, <3>5 DEF At, Knows, Current
    <2> QED  BY <2>1, <2>2
  <1>10. CASE MakeWay(p)
    BY <1>0, <1>10 DEF MakeWay, DropPrevious, At, InstallerRecords, Knows, Current
  <1>11. CASE Retire(p)
    <2>1. CASE Raise(p)
      BY <1>0, <2>1, IdleKnows DEF Raise, Idle
    <2>2. CASE ~Raise(p)
      <3>1. /\ installer' = [installer EXCEPT ![p].pc = "expose"]
            /\ assembled' = assembled /\ At(p, "retire")
            /\ \/ ~Exists(dest[c]) /\ dest' = dest
               \/ dest' = [dest EXCEPT ![c] = NoTree]
        BY <1>11, <2>2 DEF Retire
      <3>2. dest'[c] = NoTree
        BY <1>0, <1>c, <3>1 DEF At, DiskOK, Exists
      <3>3. installer'[p].pc = "expose" /\ installer'[p].left = installer[p].left
        BY <1>0, <3>1 DEF InstallerRecords
      <3>4. ~Verifies(c, NoTree)
        BY DEF Verifies, Exists
      <3> QED  BY <1>0, <3>1, <3>2, <3>3, <3>4 DEF At, Knows, Current
    <2> QED  BY <2>1, <2>2
  <1>12. CASE Expose(p)
    <2>1. installer'[p].pc \in {"idle", "discard"}
      BY <1>0, <1>12 DEF Expose, Raise, Idle, InstallerRecords
    <2> QED  BY <2>1, IdleKnows
  <1>13. CASE Discard(p)
    <2>1. installer'[p].pc \in {"discard", "sweep"}
      BY <1>0, <1>13 DEF Discard, DropPrevious, At, InstallerRecords
    <2> QED  BY <2>1, IdleKnows
  <1>14. CASE Sweep(p)
    <2>1. installer'[p].pc \in {"sweep", "check"}
      BY <1>0, <1>14 DEF Sweep, At, InstallerRecords
    <2> QED  BY <2>1, IdleKnows
  <1> QED
    BY <1>1, <1>2, <1>3, <1>4, <1>5, <1>6, <1>7, <1>8, <1>9, <1>10, <1>11, <1>12, <1>13, <1>14
       DEF Step

LEMMA StepSafe ==
  ASSUME Exclusive, TypeOK, SafeInv, [Next]_vars
  PROVE  SafeInv'
  <1>0. InstallersOK
    BY TypeParts
  <1>1. ASSUME NEW p \in Installers, Step(p)
        PROVE  SafeInv'
    <2>1. ~At(p, "idle")
      BY <1>1 DEF Step, Check, Conclude, Fetch, Fetched, Clear, Make, Copy, Inspect, Mark,
                  MakeWay, Retire, Expose, Discard, Sweep, DropPrevious, At
    <2> QED  BY <1>0, <1>1, <2>1, OthersStay, StepKnows, OnlyMover DEF SafeInv, OneAtWork
  <1>2. ASSUME NEW p \in Installers, Fail(p)
        PROVE  SafeInv'
    <2>1. Knows(p)'
      BY <1>0, <1>2, IdleKnows DEF Fail, Raise, Idle, InstallersOK
    <2> QED  BY <1>0, <1>2, <2>1, OthersStay, OnlyMover DEF SafeInv, OneAtWork, Fail
  <1>3. ASSUME NEW p \in Installers, NEW m \in Models, Start(p, m)
        PROVE  SafeInv'
    <2>1. installer'[p].pc = "check"
      BY <1>0, <1>3 DEF Start, Idle, InstallersOK
    <2>2. \A q \in Installers : At(q, "idle")
      BY <1>3 DEF Start
    <2> QED  BY <1>0, <1>3, <2>1, <2>2, IdleKnows, OthersStay, OnlyMover
  <1>4. CASE UNCHANGED <<installer, assembled, dest>>
    BY <1>4 DEF SafeInv, OneAtWork, Knows, At, Current
  <1>5. (\E c \in Components : Publish(c)) \/ UNCHANGED vars => UNCHANGED <<installer, assembled, dest>>
    BY DEF Publish, vars, disk
  <1> QED  BY <1>1, <1>2, <1>3, <1>4, <1>5 DEF Next

\* What a step does to the installed trees: it takes one away that does not
\* verify, or puts one that verifies where there is none.
TakesAway(c) ==
  /\ Exists(dest[c]) /\ ~Verifies(c, dest[c])
  /\ dest' = [dest EXCEPT ![c] = NoTree]

PutsUp(c) ==
  /\ dest[c] = NoTree
  /\ \E t \in Trees : Verifies(c, t) /\ dest' = [dest EXCEPT ![c] = t]

LEMMA DestMoves ==
  ASSUME TypeOK, SafeInv, [Next]_vars
  PROVE  UNCHANGED dest \/ \E c \in Components : TakesAway(c) \/ PutsUp(c)
  <1>0. InstallersOK /\ DiskOK
    BY TypeParts
  <1>1. ASSUME NEW p \in Installers, Retire(p), ~UNCHANGED dest
        PROVE  TakesAway(Current(p)) /\ Current(p) \in Components
    BY <1>0, <1>1, CurrentType DEF Retire, At, SafeInv, Knows, TakesAway
  <1>2. ASSUME NEW p \in Installers, Expose(p), ~UNCHANGED dest
        PROVE  PutsUp(Current(p)) /\ Current(p) \in Components
    <2> DEFINE c == Current(p)
    <2>1. /\ c \in Components /\ dest[c] = NoTree /\ Verifies(c, assembled[c])
          /\ Exists(assembled[c]) /\ dest' = [dest EXCEPT ![c] = assembled[c]]
      BY <1>0, <1>2, CurrentType DEF Expose, At, SafeInv, Knows
    <2>2. assembled[c] \in Trees
      BY <1>0, <2>1 DEF DiskOK, Exists
    <2> QED  BY <2>1, <2>2 DEF PutsUp
  <1>3. ASSUME NEW p \in Installers,
               (Step(p) /\ ~Retire(p) /\ ~Expose(p)) \/ Fail(p) \/ \E m \in Models : Start(p, m)
        PROVE  UNCHANGED dest
    BY <1>3 DEF Step, Check, Conclude, Fetch, Fetched, Clear, Make, Copy, Inspect, Mark, MakeWay,
                Discard, Sweep, DropPrevious, Fail, Start, disk
  <1>4. (\E c \in Components : Publish(c)) \/ UNCHANGED vars => UNCHANGED dest
    BY DEF Publish, vars, disk
  <1> QED  BY <1>1, <1>2, <1>3, <1>4 DEF Next

LEMMA ShelfSteps ==
  ASSUME TypeOK, SafeInv, [Next]_vars
  PROVE  [Abstract!Next]_Shelf
  <1>0. DiskOK
    BY TypeParts
  <1>1. CASE UNCHANGED dest
    BY <1>1 DEF Shelf
  <1>2. ASSUME NEW c \in Components, TakesAway(c)
        PROVE  Abstract!TakeAway(c)
    <2>1. Shelf[c] = "broken"
      BY <1>2 DEF TakesAway, Shelf
    <2>2. Shelf' = [Shelf EXCEPT ![c] = "absent"]
      BY <1>0, <1>2 DEF TakesAway, Shelf, DiskOK, Exists
    <2> QED  BY <2>1, <2>2 DEF Abstract!TakeAway
  <1>3. ASSUME NEW c \in Components, PutsUp(c)
        PROVE  Abstract!PutUp(c)
    <2>1. PICK t \in Trees : Verifies(c, t) /\ dest' = [dest EXCEPT ![c] = t]
      BY <1>3 DEF PutsUp
    <2>2. Shelf[c] = "absent"
      BY <1>3 DEF PutsUp, Shelf, Exists
    <2>3. Shelf' = [Shelf EXCEPT ![c] = "good"]
      BY <1>0, <2>1, TreesExist DEF Shelf, DiskOK
    <2> QED  BY <2>2, <2>3 DEF Abstract!PutUp
  <1> QED  BY <1>1, <1>2, <1>3, DestMoves DEF Abstract!Next

\* One installer at a time installs atomically, whatever it finds in the
\* staging directories and wherever it is interrupted: a component that
\* verifies stays, one that does not is taken away before its replacement is
\* renamed into place (_install_component, install_model).
THEOREM Atomic == ASSUME Exclusive PROVE Spec => InstallsAtomically
  <1>1. Init => Abstract!Init
    BY DEF Init, Abstract!Init, Shelf
  <1>2. Spec => [](TypeOK /\ SafeInv)
    <2>1. TypeOK /\ SafeInv /\ [Next]_vars => (TypeOK /\ SafeInv)'
      BY StepType, StepSafe
    <2> QED  BY InitType, InitSafe, <2>1, PTL DEF Spec
  <1>3. TypeOK /\ SafeInv /\ [Next]_vars => [Abstract!Next]_Shelf
    BY ShelfSteps
  <1> QED  BY <1>1, <1>2, <1>3, PTL DEF Spec, InstallsAtomically, Abstract!Spec

\* Only a verified tree appears among the installed components.
THEOREM OnlyVerifiedExposed == ASSUME Exclusive PROVE Spec => ExposedIsVerified
  <1> DEFINE Appears == \A c \in Components :
                          dest'[c] # dest[c] /\ Exists(dest'[c]) => Verifies(c, dest'[c])
  <1>1. TypeOK /\ SafeInv /\ [Next]_vars => [Appears]_vars
    <2> SUFFICES ASSUME TypeOK, SafeInv, [Next]_vars
                 PROVE  Appears
      OBVIOUS
    <2>1. DiskOK
      BY TypeParts
    <2> QED  BY <2>1, DestMoves DEF TakesAway, PutsUp, DiskOK, Exists
  <1>2. Spec => [](TypeOK /\ SafeInv)
    <2>1. TypeOK /\ SafeInv /\ [Next]_vars => (TypeOK /\ SafeInv)'
      BY StepType, StepSafe
    <2> QED  BY InitType, InitSafe, <2>1, PTL DEF Spec
  <1> QED  BY <1>1, <1>2, PTL DEF Spec, ExposedIsVerified

-----------------------------------------------------------------------------
(* The server *)

LEMMA InitServed ==
  ASSUME Init
  PROVE  ServedIsVerified
  <1> SUFFICES ASSUME NEW c \in Components,
                      StatusInstalled(c), ~Decays(dest[c])
               PROVE  Verifies(c, dest[c])
    BY DEF ServedIsVerified, Reference, Exists
  <1>1. dest[c] \notin {Without(Complete, f) : f \in Required}
    BY DEF StatusInstalled, Without
  <1>2. dest[c] \notin {With(Complete, f, Decayed) : f \in Files}
    BY DEF Decays, With
  <1> QED  BY <1>1, <1>2, CompleteVerifies DEF Init, Damaged, StatusInstalled, Exists

\* A tree that is put up verifies, and every other stays as it was.
LEMMA StepServed ==
  ASSUME TypeOK, SafeInv, ServedIsVerified, [Next]_vars
  PROVE  ServedIsVerified'
  <1> SUFFICES ASSUME NEW c \in Components,
                      StatusInstalled(c)', ~Decays(dest[c])'
               PROVE  Verifies(c, dest[c])'
    BY DEF ServedIsVerified, Reference, Exists
  <1>1. DiskOK
    BY TypeParts
  <1>2. CASE dest'[c] = dest[c]
    BY <1>2 DEF ServedIsVerified, Reference, StatusInstalled, Decays, Exists, Verifies, Expected, Digest
  <1>3. CASE dest'[c] # dest[c]
    BY <1>1, <1>3, DestMoves
       DEF TakesAway, PutsUp, DiskOK, StatusInstalled, Exists, Verifies, Expected, Digest
  <1> QED  BY <1>2, <1>3

\* A server that trusts the marker and the required files is given nothing but
\* components whose digest was checked and what decayed since, if one
\* installer runs at a time (component_status, reference).
THEOREM ServedVerified ==
  ASSUME Exclusive PROVE Spec => []ServedIsVerified
  <1>1. Init => TypeOK /\ SafeInv /\ ServedIsVerified
    BY InitType, InitSafe, InitServed
  <1>2. TypeOK /\ SafeInv /\ ServedIsVerified /\ [Next]_vars
        => (TypeOK /\ SafeInv /\ ServedIsVerified)'
    BY StepType, StepSafe, StepServed
  <1> QED  BY <1>1, <1>2, PTL DEF Spec
=============================================================================
