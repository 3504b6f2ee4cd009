---------------------------- MODULE MCBatchJobs ----------------------------
(***************************************************************************)
(* BatchJobs on small instances, and what the documents of the repository  *)
(* say of it that its code does not keep.                                  *)
(***************************************************************************)
EXTENDS BatchJobs

RequestSymmetry == Permutations(Requests)

\* The states without the history of what was heard, which no action reads.  Of
\* the properties of the run that uses this view only TypeOK mentions it.
Unheard ==
  <<[j \in Jobs |-> [row[j] EXCEPT !.clipped = {}]], dirs, source, temp, queue, active,
    [worker EXCEPT !.whole = FALSE], request, server>>

\* docs/operations.md: "Jobs that are not acknowledged are removed after
\* NOTA_BATCH_JOB_RETENTION_SECONDS."
ExpiredIsRemoved ==
  StaysUp => \A j \in Jobs :
    (row[j].expired /\ row[j].state \in Finished)
      ~> (~Exists(j) \/ ~row[j].expired)
=============================================================================
