------------------------- MODULE ModelLoadingProofs -------------------------
(***************************************************************************)
(* Theorems about ModelLoading, for any finite set of threads, any models  *)
(* and any number of permits of the inference gate.                        *)
(***************************************************************************)
EXTENDS ModelLoading, FiniteSetTheorems, TLAPS

-----------------------------------------------------------------------------
(* Types.  The object a speaker call returns was assigned before.          *)

TypeInv == TypeOK /\ \A t \in Threads : At(t, "return voice") => voice # NoThread

ThreadType ==
  [pc : Places, call : Kinds \cup {"none", "preload"}, model : Models, traced : BOOLEAN,
   stored : BOOLEAN, trace : Threads \cup {NoThread}, voice : Threads \cup {NoThread}]

\* What a step leaves of a thread keeps its type.
LEMMA GotoType ==
  ASSUME TypeOK, NEW t \in Threads, NEW place \in Places,
         place \notin {"lock voice", "load voice", "return voice"}, Goto(t, place)
  PROVE  /\ thread' \in [Threads -> ThreadType]
         /\ \A u \in Threads : /\ At(u, "return voice")' => At(u, "return voice")
                               /\ thread'[u].pc \in {"lock voice", "load voice"} => thread'[u].voice \in Threads
  <1> USE DEF At
  <1>1. thread \in [Threads -> ThreadType]
    BY DEF TypeOK, ThreadType
  <1>2. thread' = [thread EXCEPT ![t].pc = place]
    BY DEF Goto
  <1>3. [thread[t] EXCEPT !.pc = place] \in ThreadType
    BY <1>1 DEF ThreadType
  <1>4. /\ thread'[t] = [thread[t] EXCEPT !.pc = place]
        /\ \A u \in Threads \ {t} : thread'[u] = thread[u]
        /\ thread' \in [Threads -> ThreadType]
    BY <1>1, <1>2, <1>3
  <1>5. thread'[t].pc = place
    BY <1>1, <1>4 DEF ThreadType
  <1> QED  BY <1>4, <1>5 DEF TypeOK

LEMMA IdleType == Idle \in ThreadType
  BY LoadingAssumption DEF Idle, ThreadType, Places, Kinds

LEMMA AnswerType ==
  ASSUME TypeOK, NEW t \in Threads, Answer(t)
  PROVE  /\ thread' \in [Threads -> ThreadType]
         /\ \A u \in Threads : /\ At(u, "return voice")' => At(u, "return voice")
                               /\ thread'[u].pc \in {"lock voice", "load voice"} => thread'[u].voice \in Threads
         /\ serving' \in BOOLEAN
  <1> USE DEF At
  <1>1. thread \in [Threads -> ThreadType]
    BY DEF TypeOK, ThreadType
  <1>2. thread' = [thread EXCEPT ![t] = Idle] /\ serving' \in BOOLEAN
    BY DEF Answer, TypeOK
  <1>3. Idle.pc = "idle"
    BY DEF Idle
  <1> QED  BY <1>1, <1>2, <1>3, IdleType DEF TypeOK

\* The threads of TypeInv
ThreadsOK ==
  /\ thread \in [Threads -> ThreadType]
  /\ \A t \in Threads : thread[t].pc \in {"lock voice", "load voice"} => thread[t].voice \in Threads
  /\ \A t \in Threads : At(t, "return voice") => voice # NoThread

\* and its shared fields
SharedOK ==
  /\ backend \in [Models -> Backends]
  /\ loads \in [Models -> Nat]
  /\ failed \subseteq Models
  /\ loadLock \in Threads \cup {NoThread}
  /\ gate \subseteq Threads
  /\ inferLock \in [Models -> Threads \cup {NoThread}]
  /\ capture \in [Models -> Threads \cup {NoThread}]
  /\ voice \in Threads \cup {NoThread}
  /\ voices \in [Threads -> {"absent", "unloaded", "loaded"}]
  /\ voiceLock \in [Threads -> Threads \cup {NoThread}]
  /\ serving \in BOOLEAN
  /\ calls \in 0..MaxCalls

LEMMA TypeParts == TypeInv <=> ThreadsOK /\ SharedOK
  BY DEF TypeInv, TypeOK, ThreadsOK, SharedOK, ThreadType

LEMMA OfType == ASSUME ThreadsOK, NEW t \in Threads PROVE Of(t) \in Models
  BY DEF ThreadsOK, ThreadType, Of

LEMMA SharedStep ==
  ASSUME ThreadsOK, SharedOK, NEW t \in Threads, Step(t)
  PROVE  SharedOK'
  <1> USE OfType DEF SharedOK, loading, tracing, speaking, clients, AfterGet, Answer
  <1>1. CASE Get(t)  BY <1>1 DEF Get
  <1>2. CASE Lock(t)  BY <1>2 DEF Lock
  <1>3. CASE Build(t)  BY <1>3 DEF Build, RaiseLoadError, Backends
  <1>4. CASE Built(t)  BY <1>4 DEF Built, Unlock
  <1>5. CASE Load(t)
    <2>1. CASE /\ backend' = [backend EXCEPT ![Of(t)] = "raw"]
               /\ loads' = [loads EXCEPT ![Of(t)] = @ + 1]
               /\ UNCHANGED <<failed, loadLock, gate, clients>> /\ UNCHANGED <<tracing, speaking>>
      <3>1. loads' \in [Models -> Nat]
        BY <2>1
      <3> QED  BY <2>1, <3>1 DEF Backends
    <2>2. CASE RaiseLoadError(t) /\ UNCHANGED backend
      BY <2>2 DEF RaiseLoadError
    <2> QED  BY <1>5, <2>1, <2>2 DEF Load
  <1>6. CASE Wrap(t)  BY <1>6 DEF Wrap, Unlock, Backends
  <1>7. CASE Enter(t)  BY <1>7 DEF Enter
  <1>8. CASE Leave(t)  BY <1>8 DEF Leave
  <1>9. CASE Prepare(t)  BY <1>9 DEF Prepare
  <1>10. CASE Infer(t)  BY <1>10 DEF Infer
  <1>11. CASE Generate(t)  BY <1>11 DEF Generate
  <1>12. CASE Take(t)  BY <1>12 DEF Take
  <1>13. CASE Find(t)  BY <1>13 DEF Find
  <1>14. CASE MakeVoice(t)  BY <1>14 DEF MakeVoice
  <1>15. CASE ReturnVoice(t)  BY <1>15 DEF ReturnVoice
  <1>16. CASE LockVoice(t)
    <2>1. thread[t].voice \in Threads
      BY <1>16 DEF LockVoice, ThreadsOK, At
    <2> QED  BY <1>16, <2>1 DEF LockVoice
  <1>17. CASE LoadVoice(t)
    <2>1. thread[t].voice \in Threads
      BY <1>17 DEF LoadVoice, ThreadsOK, At
    <2> QED  BY <1>17, <2>1 DEF LoadVoice
  <1> QED
    BY <1>1, <1>2, <1>3, <1>4, <1>5, <1>6, <1>7, <1>8, <1>9, <1>10, <1>11, <1>12, <1>13,
       <1>14, <1>15, <1>16, <1>17 DEF Step

\* One thread gets a new local state.
LEMMA ThreadMoves ==
  ASSUME ThreadsOK, NEW t \in Threads, NEW r \in ThreadType,
         thread' = [thread EXCEPT ![t] = r],
         voice # NoThread => voice' # NoThread,
         r.pc \in {"lock voice", "load voice"} => r.voice \in Threads,
         r.pc = "return voice" => voice' # NoThread
  PROVE  ThreadsOK'
  BY DEF ThreadsOK, At

LEMMA GotoMoves ==
  ASSUME ThreadsOK, NEW t \in Threads, NEW place
  PROVE  Goto(t, place) <=> thread' = [thread EXCEPT ![t] = [thread[t] EXCEPT !.pc = place]]
  BY DEF ThreadsOK, Goto

\* A step moves one thread; the speaker backend is never unset.
LEMMA ThreadsStep ==
  ASSUME ThreadsOK, SharedOK, NEW t \in Threads, Step(t)
  PROVE  ThreadsOK'
  <1>0. voice # NoThread => voice' # NoThread
    BY LoadingAssumption DEF Step, Get, AfterGet, Lock, Build, RaiseLoadError, Built, Unlock, Load,
      Wrap, Enter, Leave, Prepare, Infer, Generate, Take, Find, MakeVoice, ReturnVoice, LockVoice,
      LoadVoice, speaking
  <1>1. TypeOK /\ thread[t] \in ThreadType
    BY TypeParts DEF TypeInv, ThreadsOK
  <1>2. ASSUME NEW place \in Places,
               place \notin {"lock voice", "load voice", "return voice"}, Goto(t, place)
        PROVE  ThreadsOK'
    BY <1>0, <1>1, <1>2, GotoType DEF ThreadsOK, At
  <1>3. ASSUME Answer(t) PROVE ThreadsOK'
    BY <1>0, <1>1, <1>3, AnswerType DEF ThreadsOK, At
  <1>4. ASSUME AfterGet(t) PROVE ThreadsOK'
    BY <1>2, <1>3, <1>4 DEF AfterGet, Places
  <1>5. CASE Get(t)  BY <1>5, <1>2, <1>4 DEF Get, Places
  <1>6. CASE Lock(t)  BY <1>6, <1>2 DEF Lock, Places
  <1>7. CASE Build(t)  BY <1>7, <1>2, <1>3 DEF Build, RaiseLoadError, Places
  <1>8. CASE Built(t)  BY <1>8, <1>2, <1>4 DEF Built, Unlock, Places
  <1>9. CASE Load(t)  BY <1>9, <1>2, <1>3 DEF Load, RaiseLoadError, Places
  <1>10. CASE Wrap(t)  BY <1>10, <1>4 DEF Wrap, Unlock
  <1>11. CASE Enter(t)
    <2> DEFINE place == CASE thread[t].call = "voice" -> "find"
                          [] thread[t].call = "cluster" -> "leave"
                          [] OTHER -> "prepare"
    <2>1. Goto(t, place)
      BY <1>11 DEF Enter
    <2>2. place \in {"find", "leave", "prepare"}
      OBVIOUS
    <2> QED  BY <1>2, <2>1, <2>2 DEF Places
  <1>12. CASE Leave(t)  BY <1>12, <1>3 DEF Leave
  <1>13. CASE Prepare(t)
    <2> DEFINE b == /\ thread[t].call = "window"
                    /\ Of(t) \in Tracing /\ backend[Of(t)] = "whole"
               r == [thread[t] EXCEPT !.pc = "infer", !.traced = b]
    <2>1. thread' = [thread EXCEPT ![t] = r]
      BY <1>13 DEF Prepare, ThreadsOK
    <2>2. b \in BOOLEAN
      OBVIOUS
    <2>3. r \in ThreadType /\ r.pc = "infer"
      <3> HIDE DEF b
      <3> QED  BY <1>1, <2>2 DEF ThreadType, Places
    <2> HIDE DEF r
    <2> QED  BY <1>0, <2>1, <2>3, ThreadMoves
  <1>14. CASE Infer(t)  BY <1>14, <1>2 DEF Infer, Places
  <1>15. CASE Generate(t)
    <2>1. CASE Goto(t, "take")
      BY <2>1, <1>2 DEF Places
    <2>2. CASE thread' = [thread EXCEPT ![t].pc = "take", ![t].stored = TRUE]
      <3> DEFINE r == [thread[t] EXCEPT !.pc = "take", !.stored = TRUE]
      <3>1. thread' = [thread EXCEPT ![t] = r]
        BY <2>2 DEF ThreadsOK
      <3>2. r \in ThreadType /\ r.pc = "take"
        BY <1>1 DEF ThreadType, Places
      <3> HIDE DEF r
      <3> QED  BY <1>0, <3>1, <3>2, ThreadMoves
    <2> QED  BY <1>15, <2>1, <2>2 DEF Generate
  <1>16. CASE Take(t)
    <2>1. CASE Goto(t, "leave")
      BY <2>1, <1>2 DEF Places
    <2>2. CASE thread' = [thread EXCEPT ![t].pc = "leave", ![t].trace = capture[Of(t)]]
      <3> DEFINE r == [thread[t] EXCEPT !.pc = "leave", !.trace = capture[Of(t)]]
      <3>1. thread' = [thread EXCEPT ![t] = r]
        BY <2>2 DEF ThreadsOK
      <3>2. capture[Of(t)] \in Threads \cup {NoThread}
        BY OfType DEF SharedOK
      <3>3. r \in ThreadType /\ r.pc = "leave"
        BY <1>1, <3>2 DEF ThreadType, Places
      <3> HIDE DEF r
      <3> QED  BY <1>0, <3>1, <3>3, ThreadMoves
    <2> QED  BY <1>16, <2>1, <2>2 DEF Take
  <1>17. CASE Find(t)
    <2>1. CASE voice = NoThread
      BY <1>17, <2>1, <1>2 DEF Find, Places
    <2>2. CASE voice # NoThread
      <3>1. Goto(t, "return voice") /\ voice' # NoThread
        BY <1>17, <2>2, <1>0 DEF Find
      <3> DEFINE r == [thread[t] EXCEPT !.pc = "return voice"]
      <3>2. thread' = [thread EXCEPT ![t] = r]
        BY <3>1, GotoMoves
      <3>3. r \in ThreadType /\ r.pc = "return voice"
        BY <1>1 DEF ThreadType, Places
      <3> HIDE DEF r
      <3> QED  BY <3>1, <3>2, <3>3, ThreadMoves
    <2> QED  BY <2>1, <2>2
  <1>18. CASE MakeVoice(t)
    <2>1. CASE Goto(t, "leave")
      BY <2>1, <1>2 DEF Places
    <2>2. CASE voice' = t /\ Goto(t, "return voice")
      <3>1. Goto(t, "return voice") /\ voice' # NoThread
        BY <2>2, LoadingAssumption
      <3> DEFINE r == [thread[t] EXCEPT !.pc = "return voice"]
      <3>2. thread' = [thread EXCEPT ![t] = r]
        BY <3>1, GotoMoves
      <3>3. r \in ThreadType /\ r.pc = "return voice"
        BY <1>1 DEF ThreadType, Places
      <3> HIDE DEF r
      <3> QED  BY <3>1, <3>2, <3>3, ThreadMoves
    <2> QED  BY <1>18, <2>1, <2>2 DEF MakeVoice
  <1>19. CASE ReturnVoice(t)
    <2>1. voice \in Threads /\ voice # NoThread /\ voice' = voice
      BY LoadingAssumption, <1>19 DEF ReturnVoice, ThreadsOK, SharedOK, speaking
    <2>2. thread' = [thread EXCEPT ![t].pc = "lock voice", ![t].voice = voice]
      BY <1>19 DEF ReturnVoice
    <2> DEFINE r == [thread[t] EXCEPT !.pc = "lock voice", !.voice = voice]
    <2>3. thread' = [thread EXCEPT ![t] = r]
      BY <2>2 DEF ThreadsOK
    <2>4. r \in ThreadType /\ r.pc = "lock voice" /\ r.voice \in Threads
      BY <1>1, <2>1 DEF ThreadType, Places
    <2> HIDE DEF r
    <2> QED  BY <2>1, <2>3, <2>4, ThreadMoves
  <1>20. CASE LockVoice(t)
    <2>1. CASE Goto(t, "leave")
      BY <2>1, <1>2 DEF Places
    <2>2. CASE At(t, "lock voice") /\ Goto(t, "load voice")
      <3> DEFINE r == [thread[t] EXCEPT !.pc = "load voice"]
      <3>1. thread' = [thread EXCEPT ![t] = r]
        BY <2>2, GotoMoves
      <3>2. thread[t].voice \in Threads
        BY <2>2 DEF ThreadsOK, At
      <3>3. r \in ThreadType /\ r.pc = "load voice" /\ r.voice = thread[t].voice
        BY <1>1 DEF ThreadType, Places
      <3> HIDE DEF r
      <3> QED  BY <1>0, <3>1, <3>2, <3>3, ThreadMoves
    <2> QED  BY <1>20, <2>1, <2>2 DEF LockVoice
  <1>21. CASE LoadVoice(t)  BY <1>21, <1>2 DEF LoadVoice, Places
  <1> QED
    BY <1>5, <1>6, <1>7, <1>8, <1>9, <1>10, <1>11, <1>12, <1>13, <1>14, <1>15, <1>16, <1>17,
       <1>18, <1>19, <1>20, <1>21 DEF Step

LEMMA TypeInit == Init => TypeInv
  <1> SUFFICES ASSUME Init PROVE ThreadsOK /\ SharedOK
    BY TypeParts
  <1>1. SharedOK
    <2>1. 0 \in 0..MaxCalls
      BY LoadingAssumption
    <2> QED  BY <2>1 DEF Init, SharedOK, Backends
  <1>2. Idle.pc = "idle"
    BY DEF Idle
  <1>3. ThreadsOK
    BY <1>2, IdleType DEF Init, ThreadsOK, At
  <1> QED  BY <1>1, <1>3

LEMMA TypeNext == TypeInv /\ [Next]_vars => TypeInv'
  <1> SUFFICES ASSUME ThreadsOK, SharedOK, [Next]_vars PROVE ThreadsOK' /\ SharedOK'
    BY TypeParts, PTL
  <1>1. ASSUME NEW t \in Threads, Step(t) PROVE ThreadsOK' /\ SharedOK'
    BY <1>1, SharedStep, ThreadsStep
  <1>2. ASSUME NEW t \in Threads, Preload(t) PROVE ThreadsOK' /\ SharedOK'
    <2>1. SharedOK'
      BY <1>2 DEF Preload, SharedOK, loading, tracing, speaking
    <2>2. ThreadsOK'
      <3> DEFINE r == [thread[t] EXCEPT !.pc = "get", !.call = "preload"]
      <3>1. thread' = [thread EXCEPT ![t] = r] /\ voice' = voice
        BY <1>2 DEF Preload, ThreadsOK, speaking
      <3>2. r \in ThreadType /\ r.pc = "get"
        <4>1. thread[t] \in ThreadType
          BY DEF ThreadsOK
        <4> QED  BY <4>1 DEF ThreadType, Places
      <3> HIDE DEF r
      <3> QED  BY <3>1, <3>2, ThreadMoves
    <2> QED  BY <2>1, <2>2
  <1>3. ASSUME NEW t \in Threads, NEW m \in Models, NEW kind \in Kinds, Call(t, m, kind)
        PROVE  ThreadsOK' /\ SharedOK'
    <2>1. SharedOK'
      BY <1>3, LoadingAssumption DEF Call, SharedOK, loading, tracing, speaking
    <2> DEFINE new == [Idle EXCEPT !.call = kind, !.model = m,
                                   !.pc = IF kind = "voice" THEN "gate" ELSE "get"]
    <2>2. new \in ThreadType /\ new.pc \in {"gate", "get"}
      BY IdleType DEF Idle, ThreadType, Places
    <2>3. thread' = [thread EXCEPT ![t] = new] /\ voice' = voice
      BY <1>3 DEF Call, speaking
    <2>4. ThreadsOK'
      <3> HIDE DEF new
      <3> QED  BY <2>2, <2>3 DEF ThreadsOK, At
    <2> QED  BY <2>1, <2>4
  <1>4. ASSUME Pause PROVE ThreadsOK' /\ SharedOK'
    <2>1. calls' = 0 /\ UNCHANGED <<gate, thread, serving>> /\ UNCHANGED <<loading, tracing, speaking>>
      BY <1>4 DEF Pause
    <2>2. calls' \in 0..MaxCalls
      BY <2>1, LoadingAssumption
    <2>3. ThreadsOK'
      BY <2>1 DEF ThreadsOK, At, speaking
    <2> QED  BY <2>1, <2>2, <2>3 DEF SharedOK, loading, tracing, speaking
  <1>5. ASSUME UNCHANGED vars PROVE ThreadsOK' /\ SharedOK'
    BY <1>5 DEF vars, ThreadsOK, SharedOK, At
  <1> QED  BY <1>1, <1>2, <1>3, <1>4, <1>5 DEF Next

LEMMA TypeAlways == Spec => []TypeInv
  BY TypeInit, TypeNext, PTL DEF Spec

\* Every field stays in its domain: the fields threads share without a lock,
\* the holders of the locks, and the place and the objects of each thread.
THEOREM TypeCorrect == Spec => []TypeOK
  <1>1. TypeInv => TypeOK
    BY DEF TypeInv
  <1> QED  BY <1>1, TypeAlways, PTL

-----------------------------------------------------------------------------
(* What a step does to the threads                                         *)

Still(t) == \A u \in Threads \ {t} : thread'[u] = thread[u]

LEMMA GotoEffect ==
  ASSUME ThreadsOK, NEW t \in Threads, NEW place, Goto(t, place)
  PROVE  /\ Still(t)
         /\ thread'[t].pc = place
         /\ thread'[t].model = thread[t].model
         /\ thread'[t].traced = thread[t].traced
         /\ thread'[t].stored = thread[t].stored
         /\ thread'[t].trace = thread[t].trace
  BY DEF ThreadsOK, ThreadType, Goto, Still

LEMMA AnswerEffect ==
  ASSUME ThreadsOK, NEW t \in Threads, Answer(t)
  PROVE  Still(t) /\ thread'[t] = Idle
  BY DEF ThreadsOK, ThreadType, Answer, Still

LEMMA IdleFields ==
  /\ Idle.pc = "idle" /\ Idle.traced = FALSE /\ Idle.stored = FALSE
  BY DEF Idle

\* The step that goes on after get_backend: the call is answered, or waits at
\* the gate.
LEMMA AfterGetEffect ==
  ASSUME ThreadsOK, NEW t \in Threads, AfterGet(t)
  PROVE  /\ Still(t)
         /\ thread'[t].pc \in {"idle", "gate"}
         /\ thread'[t].traced \in {FALSE, thread[t].traced}
         /\ thread'[t].stored \in {FALSE, thread[t].stored}
  BY GotoEffect, AnswerEffect, IdleFields DEF AfterGet

\* A call that begins.
LEMMA BeginEffect ==
  ASSUME ThreadsOK, NEW t \in Threads,
         Preload(t) \/ \E m \in Models, kind \in Kinds : Call(t, m, kind)
  PROVE  /\ Still(t)
         /\ At(t, "idle")
         /\ thread'[t].pc \in {"get", "gate"}
         /\ thread'[t].traced \in {FALSE, thread[t].traced}
         /\ thread'[t].stored \in {FALSE, thread[t].stored}
         /\ UNCHANGED loading /\ UNCHANGED tracing /\ UNCHANGED speaking /\ gate' = gate
  <1>1. CASE Preload(t)
    BY <1>1 DEF Preload, ThreadsOK, ThreadType, Still
  <1>2. ASSUME NEW m \in Models, NEW kind \in Kinds, Call(t, m, kind)
        PROVE  /\ Still(t) /\ At(t, "idle")
               /\ thread'[t].pc \in {"get", "gate"}
               /\ thread'[t].traced = FALSE /\ thread'[t].stored = FALSE
               /\ UNCHANGED loading /\ UNCHANGED tracing /\ UNCHANGED speaking /\ gate' = gate
    BY <1>2 DEF Call, ThreadsOK, Still, Idle
  <1> QED  BY <1>1, <1>2

-----------------------------------------------------------------------------
(* Loading                                                                 *)

Locked == {"build", "load", "wrap"}

\* The lock is held from Lock to Wrap; the holder finds the backend as it left
\* it, and everyone else finds a backend raw only during that time.
LoadInv ==
  /\ \A t \in Threads : thread[t].pc \in Locked => loadLock = t
  /\ \A t \in Threads : At(t, "load") => backend[Of(t)] = "unloaded"
  /\ \A t \in Threads : At(t, "wrap") => backend[Of(t)] = "raw"
  /\ \A m \in Models : loads[m] = IF Loaded(m) THEN 1 ELSE 0
  /\ \A m \in Models : m \in failed => backend[m] # "whole"
  /\ RawOnlyWhileLoading

\* A step of a thread outside get_backend's lock leaves all that alone.
LEMMA LoadFrame ==
  ASSUME LoadInv, ThreadsOK, NEW t \in Threads, Still(t), UNCHANGED loading,
         thread[t].pc \notin Locked, thread'[t].pc \notin Locked
  PROVE  LoadInv'
  BY DEF LoadInv, Still, loading, Locked, At, Of, Loaded, RawOnlyWhileLoading

LEMMA LoadStep ==
  ASSUME LoadInv, ThreadsOK, SharedOK, NEW t \in Threads, Step(t)
  PROVE  LoadInv'
  <1> USE DEF Locked, At
  <1>1. CASE Get(t)
    <2>1. Still(t) /\ thread'[t].pc \in {"idle", "gate", "lock"}
      BY <1>1, GotoEffect, AfterGetEffect DEF Get
    <2> QED  BY <1>1, <2>1, LoadFrame DEF Get
  <1>2. CASE Lock(t)
    <2>1. thread'[t].pc = "build" /\ Still(t) /\ loadLock = NoThread /\ loadLock' = t
      BY <1>2, GotoEffect DEF Lock
    <2>2. UNCHANGED <<backend, loads, failed>>
      BY <1>2 DEF Lock
    <2>3. \A m \in Models : backend[m] # "raw"
      BY <2>1, LoadingAssumption DEF LoadInv, RawOnlyWhileLoading
    <2>4. \A u \in Threads : thread[u].pc \notin Locked
      BY <2>1, LoadingAssumption DEF LoadInv
    <2> QED
      BY <2>1, <2>2, <2>3, <2>4 DEF LoadInv, Still, Of, Loaded, RawOnlyWhileLoading
  <1>3. ASSUME thread[t].pc \in {"build", "load"}, RaiseLoadError(t), UNCHANGED backend,
               ~Loaded(Of(t))
        PROVE  LoadInv'
    <2>1. Still(t) /\ thread'[t].pc = "idle" /\ failed' = failed \cup {Of(t)} /\ loads' = loads
      BY <1>3, AnswerEffect, IdleFields DEF RaiseLoadError
    <2>2. loadLock = t
      BY <1>3 DEF LoadInv
    <2>3. \A u \in Threads \ {t} : thread[u].pc \notin Locked
      BY <2>2 DEF LoadInv
    <2>4. \A m \in Models : backend[m] # "raw"
      BY <1>3, <2>2 DEF LoadInv, RawOnlyWhileLoading
    <2> QED
      BY <1>3, <2>1, <2>3, <2>4 DEF LoadInv, Still, Of, Loaded, RawOnlyWhileLoading
  <1>4. CASE Build(t)
    <2>1. CASE /\ backend' = [backend EXCEPT ![Of(t)] = "unloaded"]
               /\ Goto(t, "load") /\ UNCHANGED <<loads, failed, loadLock>>
      <3>1. Still(t) /\ thread'[t].pc = "load" /\ Of(t)' = Of(t)
        BY <2>1, GotoEffect DEF Of
      <3>2. loadLock = t /\ backend[Of(t)] = "absent" /\ Of(t) \in Models
        BY <1>4, OfType DEF Build, LoadInv
      <3>3. \A u \in Threads \ {t} : thread[u].pc \notin Locked
        BY <3>2 DEF LoadInv
      <3>4. \A m \in Models : backend[m] # "raw"
        BY <1>4, <3>2 DEF Build, LoadInv, RawOnlyWhileLoading
      <3> QED
        BY <2>1, <3>1, <3>2, <3>3, <3>4
        DEF LoadInv, Still, Of, Loaded, RawOnlyWhileLoading, SharedOK
    <2>2. CASE RaiseLoadError(t) /\ UNCHANGED backend
      BY <1>4, <2>2, <1>3 DEF Build, Loaded
    <2> QED  BY <1>4, <2>1, <2>2 DEF Build
  <1>5. CASE Built(t)
    <2>1. loadLock = t /\ UNCHANGED <<backend, loads, failed>> /\ Of(t) \in Models
      BY <1>5, OfType DEF Built, LoadInv
    <2>2. \A u \in Threads \ {t} : thread[u].pc \notin Locked
      BY <2>1 DEF LoadInv
    <2>3. \A m \in Models : backend[m] # "raw"
      BY <1>5, <2>1 DEF Built, LoadInv, RawOnlyWhileLoading
    <2>4. CASE Loaded(Of(t))
      <3>1. Still(t) /\ thread'[t].pc \in {"idle", "gate"}
        BY <1>5, <2>4, AfterGetEffect DEF Built, Unlock
      <3> QED
        BY <2>1, <2>2, <2>3, <3>1 DEF LoadInv, Still, Of, Loaded, RawOnlyWhileLoading
    <2>5. CASE ~Loaded(Of(t))
      <3>1. Still(t) /\ thread'[t].pc = "load" /\ Of(t)' = Of(t) /\ loadLock' = loadLock
        BY <1>5, <2>5, GotoEffect DEF Built, Of
      <3>2. backend[Of(t)] = "unloaded"
        BY <1>5, <2>1, <2>5 DEF Built, Loaded, SharedOK, Backends
      <3> QED
        BY <2>1, <2>2, <2>3, <3>1, <3>2 DEF LoadInv, Still, Of, Loaded, RawOnlyWhileLoading
    <2> QED  BY <2>4, <2>5
  <1>6. CASE Load(t)
    <2>1. CASE /\ backend' = [backend EXCEPT ![Of(t)] = "raw"]
               /\ loads' = [loads EXCEPT ![Of(t)] = @ + 1]
               /\ Goto(t, "wrap") /\ UNCHANGED <<failed, loadLock>>
      <3>1. Still(t) /\ thread'[t].pc = "wrap" /\ Of(t)' = Of(t)
        BY <2>1, GotoEffect DEF Of
      <3>2. loadLock = t /\ backend[Of(t)] = "unloaded" /\ Of(t) \in Models
        BY <1>6, OfType DEF Load, LoadInv
      <3>3. \A u \in Threads \ {t} : thread[u].pc \notin Locked
        BY <3>2 DEF LoadInv
      <3>4. \A m \in Models : backend[m] # "raw"
        BY <1>6, <3>2 DEF Load, LoadInv, RawOnlyWhileLoading
      <3>5. loads[Of(t)] = 0 /\ loads'[Of(t)] = 1 /\ backend'[Of(t)] = "raw"
        BY <2>1, <3>2 DEF LoadInv, Loaded, SharedOK
      <3>6. \A m \in Models \ {Of(t)} : loads'[m] = loads[m] /\ backend'[m] = backend[m]
        BY <2>1 DEF SharedOK
      <3> QED
        BY <2>1, <3>1, <3>2, <3>3, <3>4, <3>5, <3>6
        DEF LoadInv, Still, Of, Loaded, RawOnlyWhileLoading
    <2>2. CASE RaiseLoadError(t) /\ UNCHANGED backend
      BY <1>6, <2>2, <1>3 DEF Load, Loaded, LoadInv
    <2> QED  BY <1>6, <2>1, <2>2 DEF Load
  <1>7. CASE Wrap(t)
    <2>1. Still(t) /\ thread'[t].pc \in {"idle", "gate"}
      BY <1>7, AfterGetEffect DEF Wrap, Unlock
    <2>2. loadLock = t /\ backend[Of(t)] = "raw" /\ Of(t) \in Models
      BY <1>7, OfType DEF Wrap, LoadInv
    <2>3. \A u \in Threads \ {t} : thread[u].pc \notin Locked
      BY <2>2 DEF LoadInv
    <2>4. \A m \in Models \ {Of(t)} : backend[m] # "raw" /\ backend'[m] = backend[m]
      BY <1>7, <2>2 DEF Wrap, LoadInv, RawOnlyWhileLoading, SharedOK
    <2>5. backend'[Of(t)] = "whole" /\ failed' = failed \ {Of(t)} /\ loads' = loads
      BY <1>7, <2>2 DEF Wrap, SharedOK
    <2> QED
      BY <2>1, <2>2, <2>3, <2>4, <2>5 DEF LoadInv, Still, Of, Loaded, RawOnlyWhileLoading
  <1>8. CASE Enter(t)
    <2>1. Still(t) /\ thread'[t].pc \in {"find", "leave", "prepare"}
      BY <1>8, GotoEffect DEF Enter
    <2> QED  BY <1>8, <2>1, LoadFrame DEF Enter
  <1>9. CASE Leave(t)
    BY <1>9, AnswerEffect, IdleFields, LoadFrame DEF Leave
  <1>10. CASE Prepare(t)
    <2>1. Still(t) /\ thread'[t].pc = "infer"
      BY <1>10 DEF Prepare, Still, ThreadsOK, ThreadType
    <2> QED  BY <1>10, <2>1, LoadFrame DEF Prepare
  <1>11. CASE Infer(t)  BY <1>11, GotoEffect, LoadFrame DEF Infer
  <1>12. CASE Generate(t)
    <2>1. Still(t) /\ thread'[t].pc = "take"
      <3>1. CASE Goto(t, "take")
        BY <3>1, GotoEffect
      <3>2. CASE thread' = [thread EXCEPT ![t].pc = "take", ![t].stored = TRUE]
        BY <3>2 DEF Still, ThreadsOK, ThreadType
      <3> QED  BY <1>12, <3>1, <3>2 DEF Generate
    <2> QED  BY <1>12, <2>1, LoadFrame DEF Generate
  <1>13. CASE Take(t)
    <2>1. Still(t) /\ thread'[t].pc = "leave"
      <3>1. CASE Goto(t, "leave")
        BY <3>1, GotoEffect
      <3>2. CASE thread' = [thread EXCEPT ![t].pc = "leave", ![t].trace = capture[Of(t)]]
        BY <3>2 DEF Still, ThreadsOK, ThreadType
      <3> QED  BY <1>13, <3>1, <3>2 DEF Take
    <2> QED  BY <1>13, <2>1, LoadFrame DEF Take
  <1>14. CASE Find(t)
    <2>1. Still(t) /\ thread'[t].pc \in {"make voice", "return voice"}
      BY <1>14, GotoEffect DEF Find
    <2> QED  BY <1>14, <2>1, LoadFrame DEF Find
  <1>15. CASE MakeVoice(t)
    <2>1. Still(t) /\ thread'[t].pc \in {"return voice", "leave"}
      BY <1>15, GotoEffect DEF MakeVoice
    <2> QED  BY <1>15, <2>1, LoadFrame DEF MakeVoice
  <1>16. CASE ReturnVoice(t)
    <2>1. Still(t) /\ thread'[t].pc = "lock voice"
      BY <1>16 DEF ReturnVoice, Still, ThreadsOK, ThreadType
    <2> QED  BY <1>16, <2>1, LoadFrame DEF ReturnVoice
  <1>17. CASE LockVoice(t)
    <2>1. Still(t) /\ thread'[t].pc \in {"load voice", "leave"}
      BY <1>17, GotoEffect DEF LockVoice
    <2> QED  BY <1>17, <2>1, LoadFrame DEF LockVoice
  <1>18. CASE LoadVoice(t)
    <2>1. Still(t) /\ thread'[t].pc = "leave"
      BY <1>18, GotoEffect DEF LoadVoice
    <2> QED  BY <1>18, <2>1, LoadFrame DEF LoadVoice
  <1> QED
    BY <1>1, <1>2, <1>4, <1>5, <1>6, <1>7, <1>8, <1>9, <1>10, <1>11, <1>12, <1>13, <1>14,
       <1>15, <1>16, <1>17, <1>18 DEF Step

-----------------------------------------------------------------------------
(* The traces of windows                                                   *)

\* From Infer to Take a thread holds the inference lock of its model; before
\* its inference nothing is stored, and between Infer and Take the capture is
\* what it stored itself.
TraceInv ==
  /\ \A t \in Threads :
       /\ thread[t].pc \in {"generate", "take"} => inferLock[Of(t)] = t
       /\ thread[t].pc \notin {"infer", "generate", "take", "leave"} => ~thread[t].traced
       /\ thread[t].pc \notin {"take", "leave"} => ~thread[t].stored
       /\ At(t, "generate") /\ thread[t].traced => capture[Of(t)] = NoThread
       /\ At(t, "take") /\ thread[t].traced =>
            capture[Of(t)] = IF thread[t].stored THEN t ELSE NoThread
  /\ TraceIsOwn

\* A step of a thread outside the inference that leaves the captures alone.
LEMMA TraceFrame ==
  ASSUME TraceInv, ThreadsOK, NEW t \in Threads, Still(t), UNCHANGED tracing,
         thread[t].pc \notin {"infer", "generate", "take", "leave"},
         thread'[t].pc \notin {"infer", "generate", "take"},
         thread'[t].traced \in {FALSE, thread[t].traced},
         thread'[t].stored \in {FALSE, thread[t].stored}
  PROVE  TraceInv'
  <1>1. ~thread'[t].traced /\ ~thread'[t].stored
    BY DEF TraceInv
  <1>2. \A u \in Threads \ {t} : thread'[u] = thread[u]
    BY DEF Still
  <1> QED  BY <1>1, <1>2 DEF TraceInv, TraceIsOwn, tracing, At, Of

LEMMA TraceStep ==
  ASSUME TraceInv, ThreadsOK, SharedOK, NEW t \in Threads, Step(t)
  PROVE  TraceInv'
  <1> USE DEF At
  <1> DEFINE Keeps(places) == /\ Still(t) /\ UNCHANGED tracing
                              /\ thread'[t].pc \in places
                              /\ thread'[t].traced \in {FALSE, thread[t].traced}
                              /\ thread'[t].stored \in {FALSE, thread[t].stored}
  <1>1. CASE Get(t)
    <2>1. Keeps({"idle", "gate", "lock"})
      BY <1>1, GotoEffect, AfterGetEffect DEF Get
    <2> QED  BY <1>1, <2>1, TraceFrame DEF Get
  <1>2. CASE Lock(t)
    <2>1. Keeps({"build"})
      BY <1>2, GotoEffect DEF Lock
    <2> QED  BY <1>2, <2>1, TraceFrame DEF Lock
  <1>3. CASE Build(t)
    <2>1. Keeps({"load", "idle"})
      BY <1>3, GotoEffect, AnswerEffect, IdleFields DEF Build, RaiseLoadError
    <2> QED  BY <1>3, <2>1, TraceFrame DEF Build
  <1>4. CASE Built(t)
    <2>1. Keeps({"load", "idle", "gate"})
      BY <1>4, GotoEffect, AfterGetEffect DEF Built, Unlock
    <2> QED  BY <1>4, <2>1, TraceFrame DEF Built
  <1>5. CASE Load(t)
    <2>1. Keeps({"wrap", "idle"})
      BY <1>5, GotoEffect, AnswerEffect, IdleFields DEF Load, RaiseLoadError
    <2> QED  BY <1>5, <2>1, TraceFrame DEF Load
  <1>6. CASE Wrap(t)
    <2>1. Keeps({"idle", "gate"})
      BY <1>6, AfterGetEffect DEF Wrap, Unlock
    <2> QED  BY <1>6, <2>1, TraceFrame DEF Wrap
  <1>7. CASE Enter(t)
    <2>1. Keeps({"find", "leave", "prepare"})
      BY <1>7, GotoEffect DEF Enter
    <2> QED  BY <1>7, <2>1, TraceFrame DEF Enter
  <1>8. CASE Leave(t)
    <2>1. Still(t) /\ UNCHANGED tracing /\ thread'[t] = Idle
      BY <1>8, AnswerEffect DEF Leave
    <2>2. \A u \in Threads \ {t} : thread'[u] = thread[u]
      BY <2>1 DEF Still
    <2> QED  BY <2>1, <2>2, IdleFields DEF TraceInv, TraceIsOwn, tracing, Of
  <1>9. CASE Prepare(t)
    <2>1. Still(t) /\ UNCHANGED tracing /\ thread'[t].pc = "infer" /\ thread'[t].stored = thread[t].stored
      BY <1>9 DEF Prepare, Still, ThreadsOK, ThreadType
    <2>2. ~thread[t].stored
      BY <1>9 DEF Prepare, TraceInv
    <2>3. \A u \in Threads \ {t} : thread'[u] = thread[u]
      BY <2>1 DEF Still
    <2> QED  BY <2>1, <2>2, <2>3 DEF TraceInv, TraceIsOwn, tracing, Of
  <1>10. CASE Infer(t)
    <2>1. /\ Still(t) /\ thread'[t].pc = "generate" /\ Of(t)' = Of(t)
          /\ thread'[t].stored = thread[t].stored /\ thread'[t].traced = thread[t].traced
      BY <1>10, GotoEffect DEF Infer, Of
    <2>2. Of(t) \in Models /\ ~thread[t].stored /\ inferLock[Of(t)] = NoThread
      BY <1>10, OfType DEF Infer, TraceInv
    <2>3. \A u \in Threads \ {t} : thread'[u] = thread[u] /\ (thread[u].pc \in {"generate", "take"} => Of(u) # Of(t))
      BY <2>1, <2>2, LoadingAssumption DEF Still, TraceInv
    <2>4. inferLock'[Of(t)] = t /\ (thread[t].traced => capture'[Of(t)] = NoThread)
      BY <1>10, <2>2 DEF Infer, SharedOK
    <2>5. \A m \in Models \ {Of(t)} : inferLock'[m] = inferLock[m] /\ capture'[m] = capture[m]
      BY <1>10, <2>2 DEF Infer, SharedOK
    <2>6. \A u \in Threads : Of(u) \in Models
      BY OfType
    <2> QED  BY <2>1, <2>2, <2>3, <2>4, <2>5, <2>6 DEF TraceInv, TraceIsOwn, Of
  <1>11. CASE Generate(t)
    <2>1. Of(t) \in Models /\ inferLock[Of(t)] = t /\ inferLock' = inferLock /\ ~thread[t].stored
      BY <1>11, OfType DEF Generate, TraceInv
    <2>2. \A u \in Threads \ {t} : thread[u].pc \in {"generate", "take"} => Of(u) # Of(t)
      BY <2>1 DEF TraceInv
    <2>3. \A u \in Threads : Of(u) \in Models
      BY OfType
    <2>4. CASE Goto(t, "take") /\ UNCHANGED capture
      <3>1. /\ Still(t) /\ thread'[t].pc = "take" /\ Of(t)' = Of(t)
            /\ thread'[t].stored = thread[t].stored /\ thread'[t].traced = thread[t].traced
        BY <2>4, GotoEffect DEF Of
      <3>2. \A u \in Threads \ {t} : thread'[u] = thread[u]
        BY <3>1 DEF Still
      <3>3. thread[t].traced => capture[Of(t)] = NoThread
        BY <1>11 DEF Generate, TraceInv
      <3> QED  BY <2>1, <2>4, <3>1, <3>2, <3>3 DEF TraceInv, TraceIsOwn, Of
    <2>5. CASE /\ capture' = [capture EXCEPT ![Of(t)] = t]
               /\ thread' = [thread EXCEPT ![t].pc = "take", ![t].stored = TRUE]
      <3>1. /\ \A u \in Threads \ {t} : thread'[u] = thread[u]
            /\ thread'[t].pc = "take" /\ thread'[t].model = thread[t].model
            /\ thread'[t].stored = TRUE
        BY <2>5 DEF ThreadsOK, ThreadType
      <3>2. capture'[Of(t)] = t /\ \A m \in Models \ {Of(t)} : capture'[m] = capture[m]
        BY <2>1, <2>5 DEF SharedOK
      <3> QED  BY <2>1, <2>2, <2>3, <3>1, <3>2 DEF TraceInv, TraceIsOwn, Of
    <2> QED  BY <1>11, <2>4, <2>5 DEF Generate
  <1>12. CASE Take(t)
    <2>1. Of(t) \in Models /\ inferLock[Of(t)] = t
      BY <1>12, OfType DEF Take, TraceInv
    <2>2. \A u \in Threads \ {t} : thread[u].pc \in {"generate", "take"} => Of(u) # Of(t)
      BY <2>1 DEF TraceInv
    <2>3. \A u \in Threads : Of(u) \in Models
      BY OfType
    <2>4. \A m \in Models \ {Of(t)} : inferLock'[m] = inferLock[m] /\ capture'[m] = capture[m]
      BY <1>12, <2>1 DEF Take, SharedOK
    <2>5. CASE ~thread[t].traced
      <3>1. /\ Still(t) /\ thread'[t].pc = "leave" /\ thread'[t].traced = thread[t].traced
        BY <1>12, <2>5, GotoEffect DEF Take
      <3>2. \A u \in Threads \ {t} : thread'[u] = thread[u]
        BY <3>1 DEF Still
      <3> QED  BY <2>2, <2>3, <2>4, <2>5, <3>1, <3>2 DEF TraceInv, TraceIsOwn, Of
    <2>6. CASE thread[t].traced
      <3>1. thread' = [thread EXCEPT ![t].pc = "leave", ![t].trace = capture[Of(t)]]
        BY <1>12, <2>6 DEF Take
      <3>2. /\ \A u \in Threads \ {t} : thread'[u] = thread[u]
            /\ thread'[t].pc = "leave" /\ thread'[t].trace = capture[Of(t)]
            /\ thread'[t].stored = thread[t].stored
        BY <3>1 DEF ThreadsOK, ThreadType
      <3>3. capture[Of(t)] = IF thread[t].stored THEN t ELSE NoThread
        BY <1>12, <2>6 DEF Take, TraceInv
      <3> QED  BY <2>2, <2>3, <2>4, <3>2, <3>3 DEF TraceInv, TraceIsOwn, Of
    <2> QED  BY <2>5, <2>6 DEF ThreadsOK, ThreadType
  <1>13. CASE Find(t)
    <2>1. Keeps({"make voice", "return voice"})
      BY <1>13, GotoEffect DEF Find
    <2> QED  BY <1>13, <2>1, TraceFrame DEF Find
  <1>14. CASE MakeVoice(t)
    <2>1. Keeps({"return voice", "leave"})
      BY <1>14, GotoEffect DEF MakeVoice
    <2> QED  BY <1>14, <2>1, TraceFrame DEF MakeVoice
  <1>15. CASE ReturnVoice(t)
    <2>1. Keeps({"lock voice"})
      BY <1>15 DEF ReturnVoice, Still, ThreadsOK, ThreadType
    <2> QED  BY <1>15, <2>1, TraceFrame DEF ReturnVoice
  <1>16. CASE LockVoice(t)
    <2>1. Keeps({"load voice", "leave"})
      BY <1>16, GotoEffect DEF LockVoice
    <2> QED  BY <1>16, <2>1, TraceFrame DEF LockVoice
  <1>17. CASE LoadVoice(t)
    <2>1. Keeps({"leave"})
      BY <1>17, GotoEffect DEF LoadVoice
    <2> QED  BY <1>17, <2>1, TraceFrame DEF LoadVoice
  <1> QED
    BY <1>1, <1>2, <1>3, <1>4, <1>5, <1>6, <1>7, <1>8, <1>9, <1>10, <1>11, <1>12, <1>13,
       <1>14, <1>15, <1>16, <1>17 DEF Step

-----------------------------------------------------------------------------
(* The gate and the speaker backends                                       *)

Inside == {"prepare", "infer", "generate", "take", "find", "make voice", "return voice",
           "lock voice", "load voice", "leave"}

\* The threads that built a speaker backend or are about to
Committed == {t \in Threads : voices[t] # "absent" \/ At(t, "make voice")}

\* While the field is empty nobody has built one, so that the committed threads
\* are all inside the gate together; once it is set nobody commits any more.
GateInv ==
  /\ Cardinality(gate) <= MaxConcurrent
  /\ \A t \in Threads : thread[t].pc \in Inside => t \in gate
  /\ voice = NoThread => \A t \in Threads : voices[t] = "absent"
  /\ voice # NoThread => voices[voice] # "absent"
  /\ \A t \in Threads : thread[t].pc \in {"lock voice", "load voice"} =>
       voices[thread[t].voice] # "absent"
  /\ Cardinality(Committed) <= MaxConcurrent

LEMMA Sizes ==
  ASSUME SharedOK
  PROVE  /\ \A S, T \in SUBSET Threads : S \subseteq T => Cardinality(S) <= Cardinality(T)
         /\ \A S \in SUBSET Threads : Cardinality(S) \in Nat
         /\ \A S \in SUBSET Threads, t \in Threads : Cardinality(S \cup {t}) <= Cardinality(S) + 1
  <1>1. \A S \in SUBSET Threads : IsFiniteSet(S)
    BY LoadingAssumption, FS_Subset
  <1>2. \A S, T \in SUBSET Threads : S \subseteq T => Cardinality(S) <= Cardinality(T)
    BY <1>1, FS_Subset
  <1>3. \A S \in SUBSET Threads : Cardinality(S) \in Nat
    BY <1>1, FS_CardinalityType
  <1>4. \A S \in SUBSET Threads, t \in Threads : Cardinality(S \cup {t}) <= Cardinality(S) + 1
    <2> SUFFICES ASSUME NEW S \in SUBSET Threads, NEW t \in Threads
                 PROVE  Cardinality(S \cup {t}) <= Cardinality(S) + 1
      OBVIOUS
    <2>1. CASE t \in S
      <3>1. S \cup {t} = S
        BY <2>1
      <3> QED  BY <3>1, <1>3
    <2>2. CASE t \notin S
      <3>1. IsFiniteSet(S) /\ Cardinality(S) \in Nat
        BY <1>1, <1>3
      <3>2. Cardinality(S \cup {t}) = Cardinality(S) + 1
        BY <2>2, <3>1, FS_AddElement
      <3> QED  BY <3>1, <3>2
    <2> QED  BY <2>1, <2>2
  <1> QED  BY <1>2, <1>3, <1>4

LEMMA NoMore ==
  ASSUME SharedOK, NEW S \in SUBSET Threads, NEW T \in SUBSET Threads, S \subseteq T,
         Cardinality(T) <= MaxConcurrent
  PROVE  Cardinality(S) <= MaxConcurrent
  <1>1. Cardinality(S) <= Cardinality(T) /\ Cardinality(S) \in Nat /\ Cardinality(T) \in Nat
    BY Sizes
  <1>2. MaxConcurrent \in Nat
    BY LoadingAssumption
  <1> QED  BY <1>1, <1>2

\* A step that commits nobody, lets nobody in and builds nothing.
LEMMA GateFrame ==
  ASSUME GateInv, ThreadsOK, SharedOK, NEW t \in Threads, Still(t),
         UNCHANGED <<voice, voices>>, gate' = gate,
         thread'[t].pc \in Inside => thread[t].pc \in Inside,
         thread'[t].pc \notin {"make voice", "lock voice", "load voice"}
  PROVE  GateInv'
  <1>1. \A u \in Threads \ {t} : thread'[u] = thread[u]
    BY DEF Still
  <1>2. Committed' \subseteq Committed /\ Committed \subseteq Threads
    BY <1>1 DEF Committed, At
  <1>3. Cardinality(Committed') <= MaxConcurrent
    BY <1>2, NoMore DEF GateInv
  <1> QED  BY <1>1, <1>3 DEF GateInv

LEMMA GateStep ==
  ASSUME GateInv, ThreadsOK, SharedOK, NEW t \in Threads, Step(t)
  PROVE  GateInv'
  <1> USE DEF At
  <1> DEFINE Keeps(places) == /\ Still(t) /\ UNCHANGED <<voice, voices>> /\ gate' = gate
                              /\ thread'[t].pc \in places
  <1>1. CASE Get(t)
    <2>1. Keeps({"idle", "gate", "lock"})
      BY <1>1, GotoEffect, AfterGetEffect DEF Get, speaking
    <2> QED  BY <1>1, <2>1, GateFrame DEF Get, Inside
  <1>2. CASE Lock(t)
    <2>1. Keeps({"build"})
      BY <1>2, GotoEffect DEF Lock, speaking
    <2> QED  BY <1>2, <2>1, GateFrame DEF Lock, Inside
  <1>3. CASE Build(t)
    <2>1. Keeps({"load", "idle"})
      BY <1>3, GotoEffect, AnswerEffect, IdleFields DEF Build, RaiseLoadError, speaking
    <2> QED  BY <1>3, <2>1, GateFrame DEF Build, Inside
  <1>4. CASE Built(t)
    <2>1. Keeps({"load", "idle", "gate"})
      BY <1>4, GotoEffect, AfterGetEffect DEF Built, Unlock, speaking
    <2> QED  BY <1>4, <2>1, GateFrame DEF Built, Inside
  <1>5. CASE Load(t)
    <2>1. Keeps({"wrap", "idle"})
      BY <1>5, GotoEffect, AnswerEffect, IdleFields DEF Load, RaiseLoadError, speaking
    <2> QED  BY <1>5, <2>1, GateFrame DEF Load, Inside
  <1>6. CASE Wrap(t)
    <2>1. Keeps({"idle", "gate"})
      BY <1>6, AfterGetEffect DEF Wrap, Unlock, speaking
    <2> QED  BY <1>6, <2>1, GateFrame DEF Wrap, Inside
  <1>7. CASE Enter(t)
    <2>1. /\ Still(t) /\ thread'[t].pc \in {"find", "leave", "prepare"}
          /\ UNCHANGED <<voice, voices>> /\ gate' = gate \cup {t} /\ Cardinality(gate) < MaxConcurrent
      BY <1>7, GotoEffect DEF Enter, speaking
    <2>2. \A u \in Threads \ {t} : thread'[u] = thread[u]
      BY <2>1 DEF Still
    <2>3. Committed' \subseteq Committed /\ Committed \subseteq Threads
      BY <2>1, <2>2 DEF Committed
    <2>4. Cardinality(Committed') <= MaxConcurrent
      BY <2>3, NoMore DEF GateInv
    <2>5. Cardinality(gate') <= MaxConcurrent
      <3>1. gate \in SUBSET Threads
        BY DEF SharedOK
      <3>2. Cardinality(gate') <= Cardinality(gate) + 1 /\ Cardinality(gate) \in Nat /\ Cardinality(gate') \in Nat
        BY <2>1, <3>1, Sizes
      <3> QED  BY <2>1, <3>2, LoadingAssumption
    <2> QED  BY <2>1, <2>2, <2>4, <2>5 DEF GateInv
  <1>8. CASE Leave(t)
    <2>1. Still(t) /\ thread'[t].pc = "idle" /\ UNCHANGED <<voice, voices>> /\ gate' = gate \ {t}
      BY <1>8, AnswerEffect, IdleFields DEF Leave, speaking
    <2>2. \A u \in Threads \ {t} : thread'[u] = thread[u]
      BY <2>1 DEF Still
    <2>3. Committed' \subseteq Committed /\ Committed \subseteq Threads
      BY <2>1, <2>2 DEF Committed
    <2>4. Cardinality(Committed') <= MaxConcurrent /\ Cardinality(gate') <= MaxConcurrent
      BY <2>1, <2>3, NoMore DEF GateInv, SharedOK
    <2> QED  BY <2>1, <2>2, <2>4 DEF GateInv, Inside
  <1>9. CASE Prepare(t)
    <2>1. Keeps({"infer"})
      BY <1>9 DEF Prepare, Still, ThreadsOK, ThreadType, speaking
    <2> QED  BY <1>9, <2>1, GateFrame DEF Prepare, Inside
  <1>10. CASE Infer(t)
    <2>1. Keeps({"generate"})
      BY <1>10, GotoEffect DEF Infer, speaking
    <2> QED  BY <1>10, <2>1, GateFrame DEF Infer, Inside
  <1>11. CASE Generate(t)
    <2>1. Keeps({"take"})
      <3>1. CASE Goto(t, "take")
        BY <1>11, <3>1, GotoEffect DEF Generate, speaking
      <3>2. CASE thread' = [thread EXCEPT ![t].pc = "take", ![t].stored = TRUE]
        BY <1>11, <3>2 DEF Generate, Still, ThreadsOK, ThreadType, speaking
      <3> QED  BY <1>11, <3>1, <3>2 DEF Generate
    <2> QED  BY <1>11, <2>1, GateFrame DEF Generate, Inside
  <1>12. CASE Take(t)
    <2>1. Keeps({"leave"})
      <3>1. CASE Goto(t, "leave")
        BY <1>12, <3>1, GotoEffect DEF Take, speaking
      <3>2. CASE thread' = [thread EXCEPT ![t].pc = "leave", ![t].trace = capture[Of(t)]]
        BY <1>12, <3>2 DEF Take, Still, ThreadsOK, ThreadType, speaking
      <3> QED  BY <1>12, <3>1, <3>2 DEF Take
    <2> QED  BY <1>12, <2>1, GateFrame DEF Take, Inside
  <1>13. CASE Find(t)
    <2>1. Still(t) /\ UNCHANGED <<voice, voices, gate>>
      BY <1>13, GotoEffect DEF Find, speaking
    <2>2. CASE voice # NoThread
      <3>1. thread'[t].pc = "return voice"
        BY <1>13, <2>2, GotoEffect DEF Find
      <3> QED  BY <1>13, <2>1, <3>1, GateFrame DEF Find, Inside
    <2>3. CASE voice = NoThread
      <3>1. thread'[t].pc = "make voice" /\ \A u \in Threads \ {t} : thread'[u] = thread[u]
        BY <1>13, <2>1, <2>3, GotoEffect DEF Find, Still
      <3>2. t \in gate
        BY <1>13 DEF Find, GateInv, Inside
      <3>3. Committed' \subseteq gate /\ gate \subseteq Threads
        BY <2>1, <2>3, <3>1, <3>2 DEF Committed, GateInv, Inside, SharedOK
      <3>4. Cardinality(Committed') <= MaxConcurrent
        BY <3>3, NoMore DEF GateInv
      <3> QED  BY <2>1, <2>3, <3>1, <3>2, <3>4 DEF GateInv
    <2> QED  BY <2>2, <2>3
  <1>14. CASE MakeVoice(t)
    <2>1. CASE Goto(t, "leave") /\ UNCHANGED <<voice, voices>>
      <3>1. Keeps({"leave"})
        BY <1>14, <2>1, GotoEffect DEF MakeVoice
      <3> QED  BY <1>14, <3>1, GateFrame DEF MakeVoice, Inside
    <2>2. CASE /\ voices' = [voices EXCEPT ![t] = "unloaded"]
               /\ voice' = t /\ Goto(t, "return voice")
      <3>1. /\ thread'[t].pc = "return voice" /\ gate' = gate
            /\ \A u \in Threads \ {t} : thread'[u] = thread[u]
        BY <1>14, <2>2, GotoEffect DEF MakeVoice, Still
      <3>2. t \in gate
        BY <1>14 DEF MakeVoice, GateInv, Inside
      <3>3. voices'[t] = "unloaded" /\ \A u \in Threads \ {t} : voices'[u] = voices[u]
        BY <2>2 DEF SharedOK
      <3>4. Committed' \subseteq Committed /\ Committed \subseteq Threads
        BY <1>14, <3>1, <3>3 DEF Committed, MakeVoice
      <3>5. Cardinality(Committed') <= MaxConcurrent
        BY <3>4, NoMore DEF GateInv
      <3>6. \A u \in Threads : thread[u].pc \in {"lock voice", "load voice"} => thread[u].voice \in Threads
        BY DEF ThreadsOK
      <3> QED  BY <2>2, <3>1, <3>2, <3>3, <3>5, <3>6, LoadingAssumption DEF GateInv
    <2> QED  BY <1>14, <2>1, <2>2 DEF MakeVoice
  <1>15. CASE ReturnVoice(t)
    <2>1. /\ thread'[t].pc = "lock voice" /\ thread'[t].voice = voice
          /\ \A u \in Threads \ {t} : thread'[u] = thread[u]
      BY <1>15 DEF ReturnVoice, ThreadsOK, ThreadType
    <2>2. UNCHANGED <<voice, voices, gate>> /\ voice # NoThread /\ t \in gate
      BY <1>15 DEF ReturnVoice, speaking, ThreadsOK, GateInv, Inside
    <2>3. Committed' \subseteq Committed /\ Committed \subseteq Threads
      BY <2>1, <2>2 DEF Committed
    <2>4. Cardinality(Committed') <= MaxConcurrent
      BY <2>3, NoMore DEF GateInv
    <2> QED  BY <2>1, <2>2, <2>4 DEF GateInv
  <1>16. CASE LockVoice(t)
    <2>1. Still(t) /\ thread'[t].pc \in {"load voice", "leave"} /\ UNCHANGED <<voice, voices, gate>>
      BY <1>16, GotoEffect DEF LockVoice
    <2>2. thread'[t].voice = thread[t].voice /\ \A u \in Threads \ {t} : thread'[u] = thread[u]
      BY <1>16, <2>1 DEF LockVoice, Goto, Still, ThreadsOK, ThreadType
    <2>3. Committed' \subseteq Committed /\ Committed \subseteq Threads
      BY <2>1, <2>2 DEF Committed
    <2>4. Cardinality(Committed') <= MaxConcurrent
      BY <2>3, NoMore DEF GateInv
    <2>5. t \in gate /\ voices[thread[t].voice] # "absent"
      BY <1>16 DEF LockVoice, GateInv, Inside
    <2> QED  BY <2>1, <2>2, <2>4, <2>5 DEF GateInv
  <1>17. CASE LoadVoice(t)
    <2> DEFINE v == thread[t].voice
    <2>1. /\ thread'[t].pc = "leave" /\ UNCHANGED <<voice, gate>>
          /\ \A u \in Threads \ {t} : thread'[u] = thread[u]
      BY <1>17, GotoEffect DEF LoadVoice, Still
    <2>2. v \in Threads /\ voices[v] # "absent" /\ t \in gate
      BY <1>17 DEF LoadVoice, GateInv, ThreadsOK, Inside
    <2>3. voices'[v] # "absent" /\ \A u \in Threads \ {v} : voices'[u] = voices[u]
      BY <1>17, <2>2 DEF LoadVoice, SharedOK
    <2> HIDE DEF v
    <2>4. \A u \in Threads : voices'[u] = "absent" <=> voices[u] = "absent"
      BY <2>2, <2>3
    <2>5. Committed' \subseteq Committed /\ Committed \subseteq Threads
      BY <2>1, <2>4 DEF Committed
    <2>6. Cardinality(Committed') <= MaxConcurrent
      BY <2>5, NoMore DEF GateInv
    <2>7. /\ voice # NoThread => voice \in Threads
          /\ \A u \in Threads : thread[u].pc \in {"lock voice", "load voice"} => thread[u].voice \in Threads
      BY DEF SharedOK, ThreadsOK
    <2> QED  BY <2>1, <2>2, <2>4, <2>6, <2>7 DEF GateInv
  <1> QED
    BY <1>1, <1>2, <1>3, <1>4, <1>5, <1>6, <1>7, <1>8, <1>9, <1>10, <1>11, <1>12, <1>13,
       <1>14, <1>15, <1>16, <1>17 DEF Step

-----------------------------------------------------------------------------
(* The invariant and the theorems                                          *)

IInv == ThreadsOK /\ SharedOK /\ LoadInv /\ TraceInv /\ GateInv

LEMMA InvInit == Init => IInv
  <1> SUFFICES ASSUME Init PROVE IInv
    OBVIOUS
  <1>1. ThreadsOK /\ SharedOK
    BY TypeInit, TypeParts
  <1>2. \A t \in Threads : thread[t] = Idle
    BY DEF Init
  <1>3. LoadInv
    BY <1>2, IdleFields DEF Init, LoadInv, Locked, At, Loaded, RawOnlyWhileLoading
  <1>4. TraceInv
    BY <1>2, IdleFields DEF Init, TraceInv, TraceIsOwn, At
  <1>5. GateInv
    <2>1. Committed = {}
      BY <1>2, IdleFields DEF Init, Committed, At
    <2>2. Cardinality({}) <= MaxConcurrent
      BY FS_EmptySet, LoadingAssumption
    <2> QED  BY <1>2, <2>1, <2>2, IdleFields DEF Init, GateInv, Inside
  <1> QED  BY <1>1, <1>3, <1>4, <1>5 DEF IInv

LEMMA InvNext == IInv /\ [Next]_vars => IInv'
  <1> SUFFICES ASSUME IInv, [Next]_vars PROVE IInv'
    OBVIOUS
  <1>0. ThreadsOK' /\ SharedOK'
    BY TypeNext, TypeParts, PTL DEF IInv
  <1>1. ASSUME NEW t \in Threads, Step(t) PROVE IInv'
    BY <1>0, <1>1, LoadStep, TraceStep, GateStep DEF IInv
  <1>2. ASSUME NEW t \in Threads,
               Preload(t) \/ \E m \in Models, kind \in Kinds : Call(t, m, kind)
        PROVE  IInv'
    <2>1. /\ Still(t) /\ thread[t].pc = "idle"
          /\ thread'[t].pc \in {"get", "gate"}
          /\ thread'[t].traced \in {FALSE, thread[t].traced}
          /\ thread'[t].stored \in {FALSE, thread[t].stored}
          /\ UNCHANGED loading /\ UNCHANGED tracing /\ UNCHANGED <<voice, voices>> /\ gate' = gate
      BY <1>2, BeginEffect DEF IInv, At, speaking
    <2>2. LoadInv'
      BY <2>1, LoadFrame DEF IInv, Locked
    <2>3. TraceInv'
      BY <2>1, TraceFrame DEF IInv
    <2>4. GateInv'
      BY <2>1, GateFrame DEF IInv, Inside
    <2> QED  BY <1>0, <2>2, <2>3, <2>4 DEF IInv
  <1>3. ASSUME UNCHANGED <<loading, tracing, speaking, gate, thread>> PROVE IInv'
    <2>1. LoadInv'
      BY <1>3 DEF IInv, LoadInv, loading, At, Of, Loaded, RawOnlyWhileLoading
    <2>2. TraceInv'
      BY <1>3 DEF IInv, TraceInv, TraceIsOwn, tracing, At, Of
    <2>3. GateInv'
      BY <1>3 DEF IInv, GateInv, Committed, speaking, At
    <2> QED  BY <1>0, <2>1, <2>2, <2>3 DEF IInv
  <1>4. CASE Pause
    BY <1>3, <1>4 DEF Pause
  <1>5. CASE UNCHANGED vars
    BY <1>3, <1>5 DEF vars, loading, tracing, speaking
  <1> QED  BY <1>1, <1>2, <1>4, <1>5 DEF Next

LEMMA InvAlways == Spec => []IInv
  BY InvInit, InvNext, PTL DEF Spec

\* However many threads find a model unloaded, and however often loading fails,
\* its AutoModel is constructed once.
THEOREM OneLoad == Spec => []LoadedOnce
  <1>1. IInv => LoadedOnce
    BY DEF IInv, LoadInv, LoadedOnce, Loaded
  <1> QED  BY <1>1, InvAlways, PTL

\* The requests that can see a model before its clustering is wrapped are those
\* that run while the holder of the load lock is wrapping it.
THEOREM RawOnlyMeanwhile == Spec => []RawOnlyWhileLoading
  <1>1. IInv => RawOnlyWhileLoading
    BY DEF IInv, LoadInv
  <1> QED  BY <1>1, InvAlways, PTL

\* Readiness and load errors do not contradict each other between two loads.
THEOREM Readiness == Spec => []ReadinessAgrees
  <1>1. ASSUME IInv, loadLock = NoThread, NEW m \in failed PROVE ~Loaded(m)
    <2>1. m \in Models /\ backend[m] # "whole"
      BY <1>1 DEF IInv, LoadInv, SharedOK
    <2>2. backend[m] # "raw"
      BY <1>1, <2>1, LoadingAssumption DEF IInv, LoadInv, RawOnlyWhileLoading
    <2> QED  BY <2>1, <2>2 DEF Loaded
  <1>2. IInv => ReadinessAgrees
    BY <1>1 DEF ReadinessAgrees
  <1> QED  BY <1>2, InvAlways, PTL

\* The trace of a window is its own, for any number of inferences at once and
\* whatever transcriptions left behind.
THEOREM OwnTrace == Spec => []TraceIsOwn
  <1>1. IInv => TraceIsOwn
    BY DEF IInv, TraceInv
  <1> QED  BY <1>1, InvAlways, PTL

\* No more speaker backends are built than inferences run at once: one, with
\* the default settings.
THEOREM FewVoices == Spec => []VoicesBounded
  <1>1. ASSUME IInv PROVE VoicesBounded
    <2> DEFINE Builders == {t \in Threads : voices[t] # "absent"}
    <2>1. Builders \subseteq Committed /\ Builders \subseteq Threads /\ Committed \subseteq Threads
      BY DEF Committed
    <2> HIDE DEF Builders
    <2>2. Cardinality(Builders) <= MaxConcurrent
      BY <1>1, <2>1, NoMore DEF IInv, GateInv
    <2> QED  BY <2>2 DEF VoicesBounded, Builders
  <1> QED  BY <1>1, InvAlways, PTL
=============================================================================
