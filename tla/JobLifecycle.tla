---------------------------- MODULE JobLifecycle ----------------------------
(***************************************************************************)
(* What a client that sends one request at a time may observe of its jobs: *)
(* the states GET /transcription-jobs/{id} answers and the order they come *)
(* in, with the one job the server is working on.  No queue, no disk, no   *)
(* restart is visible here except through its effect on a state.           *)
(***************************************************************************)
CONSTANTS Jobs, NoJob

VARIABLES
  status,    \* status[j]: state of job j, "none" for 404
  running    \* the job being worked on, or NoJob

vars == <<status, running>>

Init ==
  /\ status = [j \in Jobs |-> "none"]
  /\ running = NoJob

Become(j, s) == status' = [status EXCEPT ![j] = s]

Create(j) ==
  /\ status[j] = "none"
  /\ Become(j, "uploading")
  /\ UNCHANGED running

\* Only a recording that is being uploaded is completed.
Complete(j) ==
  /\ status[j] = "uploading"
  /\ Become(j, "queued")
  /\ UNCHANGED running

\* One job at a time, and only a queued one.
Begin(j) ==
  /\ running = NoJob
  /\ status[j] = "queued"
  /\ Become(j, "processing")
  /\ running' = j

\* The job being worked on ends.  A cancel that came too late is overtaken.
Finish(j) ==
  /\ running = j
  /\ status[j] \notin {"none", "succeeded"}
  /\ \E s \in {"succeeded", "failed"} : Become(j, s)
  /\ running' = NoJob

\* Work stops without an outcome: cancelled, stopped, killed, or deleted.
Abandon ==
  /\ running # NoJob
  /\ running' = NoJob
  /\ UNCHANGED status

\* A result cannot be cancelled.
Cancel(j) ==
  /\ status[j] \notin {"none", "succeeded", "cancelled"}
  /\ Become(j, "cancelled")
  /\ UNCHANGED running

\* Only a cancelled or failed job is resumed: a published result never is.
Resume(j) ==
  /\ status[j] \in {"cancelled", "failed"}
  /\ \E s \in {"uploading", "queued"} : Become(j, s)
  /\ UNCHANGED running

Remove(j) ==
  /\ status[j] # "none"
  /\ Become(j, "none")
  /\ UNCHANGED running

\* A restart queues what was being processed again, and fails what lost its
\* audio; a published result survives even that.
Recover ==
  /\ running = NoJob
  /\ \A j \in Jobs :
       \/ status'[j] = status[j]
       \/ status[j] = "processing" /\ status'[j] = "queued"
       \/ status[j] \notin {"none", "succeeded"} /\ status'[j] = "failed"
  /\ DOMAIN status' = Jobs
  /\ UNCHANGED running

Next ==
  \/ \E j \in Jobs :
       \/ Create(j) \/ Complete(j) \/ Begin(j) \/ Finish(j)
       \/ Cancel(j) \/ Resume(j) \/ Remove(j)
  \/ Abandon
  \/ Recover

Spec == Init /\ [][Next]_vars

\* The work on a job does not last for ever.
FairSpec == Spec /\ WF_vars(Abandon \/ \E j \in Jobs : Finish(j))
=============================================================================
