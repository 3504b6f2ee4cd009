------------------------ MODULE BatchJobsRefinement ------------------------
(***************************************************************************)
(* BatchJobs with one request at a time implements JobLifecycle.           *)
(***************************************************************************)
EXTENDS BatchJobs

\* From begin_processing to the update that ends the run or the check that
\* abandons it.
BusyPCs == {"snapshot", "activate", "windows", "check", "read", "temp", "infer",
           "save", "saved", "last", "diarize", "finalize", "finalized",
           "publish", "succeed", "failing"}

\* What GET answers of each job, and the job that is being worked on.
Status == [j \in Jobs |-> row[j].state]

Worked == IF worker.pc \in BusyPCs THEN worker.job ELSE NoJob

Lifecycle == INSTANCE JobLifecycle WITH status <- Status, running <- Worked

\* The states a client sees follow the lifecycle, through restarts and
\* crashes, and the work on a job always ends.
ImplementsLifecycle == Lifecycle!FairSpec
=============================================================================
