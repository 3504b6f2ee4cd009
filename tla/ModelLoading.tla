---------------------------- MODULE ModelLoading ----------------------------
(***************************************************************************)
(* Lazy loading and bounded use of the models (services/model_manager.py,  *)
(* class ModelManager; load, transcribe and transcribe_window of           *)
(* backends/funasr_backend.py; load and extract of                         *)
(* backends/speaker_embedding.py) by the pool threads of the requests and  *)
(* the worker thread of the batch jobs.                                    *)
(*                                                                         *)
(* A backend goes from "absent" through "unloaded" (the object exists) and *)
(* "raw" (AutoModel is assigned, so that loaded is true) to "whole" (its   *)
(* clustering is wrapped).  A thread reads what the others write between   *)
(* any two of its steps; a step is a read or a write of a shared field, or *)
(* the acquisition or the release of a lock.                               *)
(***************************************************************************)
EXTENDS Naturals, FiniteSets

CONSTANTS
  Threads,         \* pool threads and the batch worker
  Models,          \* enabled_models
  Tracing,         \* models with spk_mode "vad_segment"
  PreloadModel,    \* preload_model
  MaxConcurrent,   \* max_concurrent_inferences
  MaxCalls,        \* bound on the calls between two moments without any
  NoThread         \* None, and a lock that is free

ASSUME LoadingAssumption ==
  /\ IsFiniteSet(Threads)
  /\ NoThread \notin Threads
  /\ Tracing \subseteq Models
  /\ PreloadModel \in Models
  /\ MaxConcurrent \in Nat \ {0}
  /\ MaxCalls \in Nat \ {0}

VARIABLES
  backend,     \* backend[m]: _backends[m] and its _model
  loads,       \* loads[m]: how many AutoModels were constructed for m
  failed,      \* the models with an entry in _load_errors
  loadLock,    \* holder of ModelManager._load_lock
  gate,        \* holders of a permit of _inference_gate
  inferLock,   \* inferLock[m]: holder of the backend's _inference_lock
  capture,     \* capture[m]: the thread whose clustering _last_capture holds
  voice,       \* _speaker_embedding_backend, named by the thread that built it
  voices,      \* voices[t]: the speaker backend built by t
  voiceLock,   \* voiceLock[t]: holder of the _load_lock of that object
  thread,      \* local state of each thread
  serving,     \* the preload is over
  calls        \* calls since the server was idle

vars == <<backend, loads, failed, loadLock, gate, inferLock, capture, voice,
          voices, voiceLock, thread, serving, calls>>
loading == <<backend, loads, failed, loadLock>>
tracing == <<inferLock, capture>>
speaking == <<voice, voices, voiceLock>>
clients == <<serving, calls>>

-----------------------------------------------------------------------------
(* Threads *)

Idle == [pc |-> "idle", call |-> "none", model |-> PreloadModel, traced |-> FALSE,
         stored |-> FALSE, trace |-> NoThread, voice |-> NoThread]

At(t, place) == thread[t].pc = place
Goto(t, place) == thread' = [thread EXCEPT ![t].pc = place]
Of(t) == thread[t].model
Loaded(m) == backend[m] \in {"raw", "whole"}

\* The call returns or raises.  The first one is the preload; whether it
\* succeeds or not, the server serves afterwards.
Answer(t) ==
  /\ thread' = [thread EXCEPT ![t] = Idle]
  /\ serving' = (serving \/ thread[t].call = "preload")

Preload(t) ==
  /\ ~serving /\ \A u \in Threads : At(u, "idle")
  /\ thread' = [thread EXCEPT ![t].pc = "get", ![t].call = "preload"]
  /\ UNCHANGED <<gate, serving, calls>> /\ UNCHANGED <<loading, tracing, speaking>>

\* A request or the worker calls the manager.  A window without diarization is
\* a transcription that does not cluster; a voice call names no model.
Kinds == {"transcribe", "window", "cluster", "voice"}

Call(t, m, kind) ==
  /\ serving /\ At(t, "idle") /\ calls < MaxCalls
  /\ kind = "voice" => m = PreloadModel
  /\ calls' = calls + 1
  /\ thread' = [thread EXCEPT ![t] = [Idle EXCEPT !.call = kind, !.model = m,
                                        !.pc = IF kind = "voice" THEN "gate" ELSE "get"]]
  /\ UNCHANGED <<gate, serving>> /\ UNCHANGED <<loading, tracing, speaking>>

\* The clients leave the server alone for a while.
Pause ==
  /\ calls > 0 /\ \A t \in Threads : At(t, "idle")
  /\ calls' = 0
  /\ UNCHANGED <<gate, thread, serving>> /\ UNCHANGED <<loading, tracing, speaking>>

-----------------------------------------------------------------------------
(* get_backend *)

AfterGet(t) == IF thread[t].call = "preload" THEN Answer(t)
               ELSE Goto(t, "gate") /\ UNCHANGED serving

\* The fast path reads without the lock.
Get(t) ==
  /\ At(t, "get")
  /\ IF Loaded(Of(t)) THEN AfterGet(t) ELSE Goto(t, "lock") /\ UNCHANGED serving
  /\ UNCHANGED <<gate, calls>> /\ UNCHANGED <<loading, tracing, speaking>>

Lock(t) ==
  /\ At(t, "lock") /\ loadLock = NoThread
  /\ loadLock' = t
  /\ Goto(t, "build")
  /\ UNCHANGED <<backend, loads, failed, gate, clients>> /\ UNCHANGED <<tracing, speaking>>

RaiseLoadError(t) ==
  /\ failed' = failed \cup {Of(t)}
  /\ loadLock' = NoThread
  /\ Answer(t)
  /\ UNCHANGED <<loads, gate, calls>> /\ UNCHANGED <<tracing, speaking>>

\* _new_backend raises when a component is not installed.
Build(t) ==
  /\ At(t, "build") /\ backend[Of(t)] = "absent"
  /\ \/ /\ backend' = [backend EXCEPT ![Of(t)] = "unloaded"]
        /\ Goto(t, "load")
        /\ UNCHANGED <<loads, failed, loadLock, gate, clients>>
        /\ UNCHANGED <<tracing, speaking>>
     \/ RaiseLoadError(t) /\ UNCHANGED backend

Unlock(t) ==
  /\ loadLock' = NoThread
  /\ AfterGet(t)

\* Mutant of Built: nothing looks again, under the lock, whether it is loaded.
BuiltReload(t) ==
  /\ At(t, "build") /\ backend[Of(t)] # "absent"
  /\ Goto(t, "load") /\ UNCHANGED loadLock /\ UNCHANGED serving
  /\ UNCHANGED <<backend, loads, failed, gate, calls>> /\ UNCHANGED <<tracing, speaking>>

Built(t) ==
  /\ At(t, "build") /\ backend[Of(t)] # "absent"
  /\ IF Loaded(Of(t)) THEN Unlock(t)
     ELSE Goto(t, "load") /\ UNCHANGED <<loadLock, serving>>
  /\ UNCHANGED <<backend, loads, failed, gate, calls>> /\ UNCHANGED <<tracing, speaking>>

\* Mutant of Load: a load that fails is tried again.
LoadRetry(t) ==
  /\ At(t, "load")
  /\ \/ /\ backend' = [backend EXCEPT ![Of(t)] = "raw"]
        /\ loads' = [loads EXCEPT ![Of(t)] = @ + 1]
        /\ Goto(t, "wrap")
        /\ UNCHANGED <<failed, loadLock>>
     \/ /\ failed' = failed \cup {Of(t)}
        /\ loadLock' = NoThread
        /\ Goto(t, "lock")
        /\ UNCHANGED <<backend, loads>>
  /\ UNCHANGED <<gate, clients>> /\ UNCHANGED <<tracing, speaking>>

\* FunASRBackend.load up to the assignment of AutoModel, which may raise
Load(t) ==
  /\ At(t, "load")
  /\ \/ /\ backend' = [backend EXCEPT ![Of(t)] = "raw"]
        /\ loads' = [loads EXCEPT ![Of(t)] = @ + 1]
        /\ Goto(t, "wrap")
        /\ UNCHANGED <<failed, loadLock, gate, clients>> /\ UNCHANGED <<tracing, speaking>>
     \/ RaiseLoadError(t) /\ UNCHANGED backend

\* The clustering is replaced, the error forgotten and the lock given back.
Wrap(t) ==
  /\ At(t, "wrap")
  /\ backend' = [backend EXCEPT ![Of(t)] = "whole"]
  /\ failed' = failed \ {Of(t)}
  /\ Unlock(t)
  /\ UNCHANGED <<loads, gate, calls>> /\ UNCHANGED <<tracing, speaking>>

-----------------------------------------------------------------------------
(* The gate and the inference *)

\* cluster_speaker_centers computes inside the gate and shares nothing.
Enter(t) ==
  /\ At(t, "gate") /\ Cardinality(gate) < MaxConcurrent
  /\ gate' = gate \cup {t}
  /\ Goto(t, CASE thread[t].call = "voice" -> "find"
               [] thread[t].call = "cluster" -> "leave"
               [] OTHER -> "prepare")
  /\ UNCHANGED clients /\ UNCHANGED <<loading, tracing, speaking>>

Leave(t) ==
  /\ At(t, "leave")
  /\ gate' = gate \ {t}
  /\ Answer(t)
  /\ UNCHANGED calls /\ UNCHANGED <<loading, tracing, speaking>>

\* transcribe_window takes hold of the wrapped clustering to read its capture.
Prepare(t) ==
  /\ At(t, "prepare")
  /\ thread' = [thread EXCEPT ![t].pc = "infer",
                  ![t].traced = /\ thread[t].call = "window"
                                /\ Of(t) \in Tracing /\ backend[Of(t)] = "whole"]
  /\ UNCHANGED <<gate, clients>> /\ UNCHANGED <<loading, tracing, speaking>>

\* Mutant of Infer: the capture is not cleared.
InferOn(t) ==
  /\ At(t, "infer") /\ inferLock[Of(t)] = NoThread
  /\ inferLock' = [inferLock EXCEPT ![Of(t)] = t]
  /\ Goto(t, "generate")
  /\ UNCHANGED <<capture, gate, clients>> /\ UNCHANGED <<loading, speaking>>

\* The inference lock, then clear_capture.
Infer(t) ==
  /\ At(t, "infer") /\ inferLock[Of(t)] = NoThread
  /\ inferLock' = [inferLock EXCEPT ![Of(t)] = t]
  /\ capture' = IF thread[t].traced THEN [capture EXCEPT ![Of(t)] = NoThread] ELSE capture
  /\ Goto(t, "generate")
  /\ UNCHANGED <<gate, clients>> /\ UNCHANGED <<loading, speaking>>

\* AutoModel.generate calls the clustering the model has at that moment, which
\* records its input when it is the wrapped one; without voice it calls none.
Generate(t) ==
  /\ At(t, "generate")
  /\ \/ /\ backend[Of(t)] = "whole"
        /\ capture' = [capture EXCEPT ![Of(t)] = t]
        /\ thread' = [thread EXCEPT ![t].pc = "take", ![t].stored = TRUE]
     \/ Goto(t, "take") /\ UNCHANGED capture
  /\ UNCHANGED <<inferLock, gate, clients>> /\ UNCHANGED <<loading, speaking>>

\* take_capture, whether generate returned or raised, and the release
Take(t) ==
  /\ At(t, "take")
  /\ IF thread[t].traced
       THEN /\ thread' = [thread EXCEPT ![t].pc = "leave", ![t].trace = capture[Of(t)]]
            /\ capture' = [capture EXCEPT ![Of(t)] = NoThread]
       ELSE Goto(t, "leave") /\ UNCHANGED capture
  /\ inferLock' = [inferLock EXCEPT ![Of(t)] = NoThread]
  /\ UNCHANGED <<gate, clients>> /\ UNCHANGED <<loading, speaking>>

-----------------------------------------------------------------------------
(* _speaker_backend and its user, inside the gate *)

\* Mutant of Find: every call builds an object of its own.
FindNothing(t) ==
  /\ At(t, "find")
  /\ Goto(t, "make voice")
  /\ UNCHANGED <<gate, clients>> /\ UNCHANGED <<loading, tracing, speaking>>

Find(t) ==
  /\ At(t, "find")
  /\ Goto(t, IF voice = NoThread THEN "make voice" ELSE "return voice")
  /\ UNCHANGED <<gate, clients>> /\ UNCHANGED <<loading, tracing, speaking>>

\* The reference raises, or the object is built and assigned.
MakeVoice(t) ==
  /\ At(t, "make voice")
  /\ \/ /\ voices' = [voices EXCEPT ![t] = "unloaded"]
        /\ voice' = t
        /\ Goto(t, "return voice")
     \/ Goto(t, "leave") /\ UNCHANGED <<voice, voices>>
  /\ UNCHANGED <<voiceLock, gate, clients>> /\ UNCHANGED <<loading, tracing>>

\* The field is read again.
ReturnVoice(t) ==
  /\ At(t, "return voice")
  /\ thread' = [thread EXCEPT ![t].pc = "lock voice", ![t].voice = voice]
  /\ UNCHANGED <<gate, clients>> /\ UNCHANGED <<loading, tracing, speaking>>

\* SpeakerEmbeddingBackend.load: the fast path, or the lock of the object.  The
\* inference that follows, under another lock of the object, shares nothing.
LockVoice(t) ==
  /\ At(t, "lock voice")
  /\ LET v == thread[t].voice IN
     \/ /\ voices[v] = "loaded"
        /\ Goto(t, "leave") /\ UNCHANGED voiceLock
     \/ /\ voices[v] # "loaded" /\ voiceLock[v] = NoThread
        /\ voiceLock' = [voiceLock EXCEPT ![v] = t]
        /\ Goto(t, "load voice")
  /\ UNCHANGED <<voice, voices, gate, clients>> /\ UNCHANGED <<loading, tracing>>

\* The AutoModel of the speaker model is constructed, or this raises.
LoadVoice(t) ==
  /\ At(t, "load voice")
  /\ LET v == thread[t].voice IN
     /\ \/ voices' = [voices EXCEPT ![v] = "loaded"]
        \/ UNCHANGED voices
     /\ voiceLock' = [voiceLock EXCEPT ![v] = NoThread]
  /\ Goto(t, "leave")
  /\ UNCHANGED <<voice, gate, clients>> /\ UNCHANGED <<loading, tracing>>

-----------------------------------------------------------------------------
Init ==
  /\ backend = [m \in Models |-> "absent"]
  /\ loads = [m \in Models |-> 0]
  /\ failed = {}
  /\ loadLock = NoThread
  /\ gate = {}
  /\ inferLock = [m \in Models |-> NoThread]
  /\ capture = [m \in Models |-> NoThread]
  /\ voice = NoThread
  /\ voices = [t \in Threads |-> "absent"]
  /\ voiceLock = [t \in Threads |-> NoThread]
  /\ thread = [t \in Threads |-> Idle]
  /\ serving = FALSE
  /\ calls = 0

Step(t) ==
  \/ Get(t) \/ Lock(t) \/ Build(t) \/ Built(t) \/ Load(t) \/ Wrap(t)
  \/ Enter(t) \/ Leave(t) \/ Prepare(t) \/ Infer(t) \/ Generate(t) \/ Take(t)
  \/ Find(t) \/ MakeVoice(t) \/ ReturnVoice(t) \/ LockVoice(t) \/ LoadVoice(t)

Next ==
  \/ \E t \in Threads :
       \/ Step(t) \/ Preload(t)
       \/ \E m \in Models, kind \in Kinds : Call(t, m, kind)
  \/ Pause

Spec == Init /\ [][Next]_vars

\* A thread inside a call goes on.  Because at most MaxCalls calls overlap in
\* one busy period, no lock is taken by others for ever, and no fairness of the
\* locks is assumed, which Python does not promise.
FairSpec == Spec /\ \A t \in Threads : WF_vars(Step(t))

-----------------------------------------------------------------------------
(* Properties *)

Backends == {"absent", "unloaded", "raw", "whole"}
Places == {"idle", "get", "lock", "build", "load", "wrap", "gate", "prepare", "infer",
           "generate", "take", "find", "make voice", "return voice", "lock voice",
           "load voice", "leave"}

\* A thread that uses a speaker backend has one.
TypeOK ==
  /\ backend \in [Models -> Backends]
  /\ loads \in [Models -> Nat]
  /\ failed \subseteq Models
  /\ loadLock \in Threads \cup {NoThread}
  /\ gate \subseteq Threads
  /\ inferLock \in [Models -> Threads \cup {NoThread}]
  /\ capture \in [Models -> Threads \cup {NoThread}]
  /\ voice \in Threads \cup {NoThread}
  /\ voices \in [Threads -> {"absent", "unloaded", "loaded"}]
  /\ voiceLock \in [Threads -> Threads \cup {NoThread}]
  /\ thread \in [Threads -> [pc : Places, call : Kinds \cup {"none", "preload"},
                             model : Models, traced : BOOLEAN, stored : BOOLEAN,
                             trace : Threads \cup {NoThread},
                             voice : Threads \cup {NoThread}]]
  /\ \A t \in Threads : thread[t].pc \in {"lock voice", "load voice"} => thread[t].voice \in Threads
  /\ serving \in BOOLEAN
  /\ calls \in 0..MaxCalls

\* However many requests meet at a model that is not loaded, and however often
\* loading fails, one AutoModel is constructed for it (get_backend's check
\* without the lock and its check again inside).
LoadedOnce == \A m \in Models : loads[m] <= 1

\* A model that get_backend gives away before its clustering is wrapped is being
\* loaded at that moment by the holder of the load lock: the requests that
\* start later all cluster through the wrapper (load, after its assignment).
RawOnlyWhileLoading ==
  \A m \in Models : backend[m] = "raw" =>
    \E t \in Threads : loadLock = t /\ At(t, "wrap") /\ Of(t) = m

\* GET /ready and the list of models do not report an old error for a model
\* that is loaded, nor is a loaded model marked failed by a late loser of the
\* race to load it, once no loading is going on (_load_errors).
ReadinessAgrees == loadLock = NoThread => \A m \in failed : ~Loaded(m)

\* The speaker trace of a window is the clustering of that window and of no
\* other request: not of one that ran at the same time, nor one an earlier
\* transcription left behind (clear_capture and take_capture under the
\* inference lock).
TraceIsOwn ==
  \A t \in Threads : At(t, "leave") /\ thread[t].traced =>
    thread[t].trace = IF thread[t].stored THEN t ELSE NoThread

\* At most as many speaker models are ever built as inferences may run at once;
\* with the default of one, the speaker model is loaded once (_speaker_backend,
\* which tests and sets its field inside the gate and under no lock).
VoicesBounded == Cardinality({t \in Threads : voices[t] # "absent"}) <= MaxConcurrent

\* Every call returns: the load lock, the gate, the inference lock and the lock
\* of the speaker model are never waited for in a circle, and every exception
\* gives back what its thread holds.
Answered == \A t \in Threads : ~At(t, "idle") ~> At(t, "idle")
=============================================================================
