--------------------------- MODULE BatchJobsProofs ---------------------------
(***************************************************************************)
(* Theorems about BatchJobs, for any number of jobs, keys and concurrent   *)
(* requests, any recording and any window plan.                            *)
(***************************************************************************)
EXTENDS BatchJobsRefinement, WindowPlanProofs, FiniteSetTheorems

(* What the small operators of the specification do to a variable.          *)

LEMMA GeometryCuts == Cuts(Geometry)
  BY WindowAssumption DEF Cuts, Geometry

LEMMA TotalBounds == Total \in 1..UploadLength
  BY JobAssumption, UploadAssumption, GeometryCuts, CountBounds DEF Total

LEMMA Zero == 0 \in 0..UploadLength /\ 1 \in 0..UploadLength
              /\ Total \in 0..UploadLength /\ UploadLength \in 0..UploadLength
  BY TotalBounds, UploadAssumption

LEMMA StateNames ==
  /\ "none" \in States /\ "uploading" \in States /\ "queued" \in States
  /\ "processing" \in States /\ "succeeded" \in States
  /\ "failed" \in States /\ "cancelled" \in States
  BY DEF States

LEMMA StepEffect ==
  ASSUME worker \in WorkerRecords, NEW pc \in WorkerPCs, Step(pc)
  PROVE  /\ worker' \in WorkerRecords
         /\ worker'.pc = pc
         /\ worker'.job = worker.job /\ worker'.total = worker.total
         /\ worker'.index = worker.index /\ worker'.completed = worker.completed
         /\ worker'.whole = worker.whole /\ worker'.todo = worker.todo
  BY DEF Step, WorkerRecords

LEMMA NoWorkerType ==
  ASSUME NEW pc \in WorkerPCs
  PROVE  /\ [NoWorker EXCEPT !.pc = pc] \in WorkerRecords
         /\ [NoWorker EXCEPT !.pc = pc].pc = pc
         /\ [NoWorker EXCEPT !.pc = pc].job = NoJob
         /\ [NoWorker EXCEPT !.pc = pc].todo = {}
  <1> DEFINE w == NoWorker
  <1>1. w \in [pc : {"off"}, job : {NoJob}, total : 0..UploadLength,
               index : 0..UploadLength, completed : {{}}, whole : {FALSE}, todo : {{}}]
    BY Zero DEF NoWorker
  <1> HIDE DEF w
  <1> QED  BY <1>1 DEF WorkerRecords, w

LEMMA GotoEffect ==
  ASSUME request \in [Requests -> RequestRecords], NEW t \in Requests,
         NEW pc \in RequestPCs, Goto(t, pc)
  PROVE  /\ request' \in [Requests -> RequestRecords]
         /\ request'[t].pc = pc
         /\ request'[t].job = request[t].job
         /\ request'[t].from = request[t].from /\ request'[t].upto = request[t].upto
         /\ \A u \in Requests \ {t} : request'[u] = request[u]
  BY DEF Goto, RequestRecords

LEMMA ReturnEffect ==
  ASSUME request \in [Requests -> RequestRecords], NEW t \in Requests, Return(t)
  PROVE  /\ request' \in [Requests -> RequestRecords]
         /\ request'[t].pc = "idle" /\ request'[t].job = NoJob
         /\ \A u \in Requests \ {t} : request'[u] = request[u]
  BY Zero DEF Return, IdleRequest, RequestRecords, RequestPCs

LEMMA CallEffect ==
  ASSUME request \in [Requests -> RequestRecords], NEW t \in Requests,
         NEW pc \in RequestPCs, NEW j \in Jobs, Call(t, pc, j)
  PROVE  /\ request' \in [Requests -> RequestRecords]
         /\ request'[t].pc = pc /\ request'[t].job = j
         /\ \A u \in Requests \ {t} : request'[u] = request[u]
  BY Zero DEF Call, IdleRequest, RequestRecords

CreatePCs == {"idle", "admit", "create"}

\* create, before and after any of its steps, holds no job.
Creating(t) ==
  \/ \E k \in Keys : CreateLookup(t, k)
  \/ CreateAdmit(t) \/ CreateFound(t) \/ CreateFails(t) \/ \E j \in Jobs : CreateRow(t, j)

LEMMA CreatingEffect ==
  ASSUME request \in [Requests -> RequestRecords], NEW t \in Requests, Creating(t)
  PROVE  /\ request[t].pc \in CreatePCs /\ request[t].key \in Keys \cup {NoKey}
         /\ request' \in [Requests -> RequestRecords]
         /\ request'[t].pc \in CreatePCs /\ request'[t].job \in {NoJob, request[t].job}
         /\ \A u \in Requests \ {t} : request'[u] = request[u]
         /\ UNCHANGED <<queue, active, worker, server>>
  <1>1. request[t] \in RequestRecords
    OBVIOUS
  <1>2. request[t].key \in Keys \cup {NoKey}
    BY <1>1 DEF RequestRecords
  <1>3. /\ request[t].pc \in CreatePCs
        /\ UNCHANGED <<queue, active, worker, server>>
    BY DEF Creating, CreateLookup, CreateAdmit, CreateFound, CreateFails, CreateRow, Idle, At,
           CreatePCs
  <1>4. ASSUME NEW k \in Keys, CreateLookup(t, k)
        PROVE  /\ request' \in [Requests -> RequestRecords]
               /\ request'[t].pc \in CreatePCs /\ request'[t].job = NoJob
               /\ \A u \in Requests \ {t} : request'[u] = request[u]
    <2> DEFINE pc == IF KeyUsed(k) THEN "create" ELSE "admit"
    <2>1. pc \in {"create", "admit"}
      OBVIOUS
    <2>2. request' = [request EXCEPT ![t] = [IdleRequest EXCEPT !.pc = pc, !.key = k]]
      BY <1>4 DEF CreateLookup
    <2> HIDE DEF pc
    <2>3. /\ [IdleRequest EXCEPT !.pc = pc, !.key = k] \in RequestRecords
          /\ [IdleRequest EXCEPT !.pc = pc, !.key = k].pc = pc
          /\ [IdleRequest EXCEPT !.pc = pc, !.key = k].job = NoJob
      BY Zero, <2>1 DEF IdleRequest, RequestRecords, RequestPCs
    <2> QED  BY <2>1, <2>2, <2>3 DEF CreatePCs
  <1>5. CASE Goto(t, "create")
    <2>1. "create" \in RequestPCs
      BY DEF RequestPCs
    <2>2. /\ request' \in [Requests -> RequestRecords]
          /\ request'[t].pc = "create" /\ request'[t].job = request[t].job
          /\ \A u \in Requests \ {t} : request'[u] = request[u]
      BY <1>5, <2>1, GotoEffect
    <2> QED  BY <1>2, <1>3, <2>2 DEF CreatePCs
  <1>6. CASE Return(t)
    <2>1. /\ request' \in [Requests -> RequestRecords]
          /\ request'[t].pc = "idle" /\ request'[t].job = NoJob
          /\ \A u \in Requests \ {t} : request'[u] = request[u]
      BY <1>6, ReturnEffect
    <2> QED  BY <1>2, <1>3, <2>1 DEF CreatePCs
  <1>7. (\E k \in Keys : CreateLookup(t, k)) \/ Goto(t, "create") \/ Return(t)
    BY DEF Creating, CreateAdmit, CreateFound, CreateFails, CreateRow
  <1> QED  BY <1>2, <1>3, <1>4, <1>5, <1>6, <1>7

LEMMA UpdateEffect ==
  ASSUME row \in [Jobs -> Rows], NEW j \in Jobs, NEW r \in Rows, Update(j, r)
  PROVE  /\ row' \in [Jobs -> Rows]
         /\ \A i \in Jobs \ {j} : row'[i] = row[i]
         /\ ~Exists(j) => row'[j] = row[j]
         /\ Exists(j) => row'[j] = [r EXCEPT !.expired = FALSE]
  <1>1. [r EXCEPT !.expired = FALSE] \in Rows
    BY DEF Rows
  <1> QED  BY <1>1 DEF Update

LEMMA QueueRowEffect ==
  ASSUME row \in [Jobs -> Rows], NEW j \in Jobs, QueueRow(j)
  PROVE  /\ row' \in [Jobs -> Rows]
         /\ \A i \in Jobs \ {j} : row'[i] = row[i]
         /\ ~Exists(j) => row'[j] = row[j]
         /\ Exists(j) =>
              /\ row'[j].key = row[j].key /\ row'[j].state = "queued"
              /\ row'[j].offset = row[j].offset /\ row'[j].probed = TRUE
              /\ row'[j].total = Total /\ row'[j].windows = row[j].windows
              /\ row'[j].clipped = row[j].clipped
              /\ row'[j].cancelRequested = FALSE
  <1> DEFINE r == [row[j] EXCEPT !.state = "queued", !.probed = TRUE, !.total = Total, !.cancelRequested = FALSE]
  <1>1. r \in Rows
    BY StateNames, Zero DEF Rows
  <1>2. Update(j, r)
    BY DEF QueueRow
  <1>3. /\ row' \in [Jobs -> Rows]
        /\ \A i \in Jobs \ {j} : row'[i] = row[i]
        /\ ~Exists(j) => row'[j] = row[j]
        /\ Exists(j) => row'[j] = [r EXCEPT !.expired = FALSE]
    BY <1>1, <1>2, UpdateEffect
  <1> QED  BY <1>3 DEF Rows

LEMMA ReopenRowEffect ==
  ASSUME row \in [Jobs -> Rows], NEW j \in Jobs, ReopenRow(j)
  PROVE  /\ row' \in [Jobs -> Rows]
         /\ \A i \in Jobs \ {j} : row'[i] = row[i]
         /\ ~Exists(j) => row'[j] = row[j]
         /\ Exists(j) =>
              /\ row'[j].key = row[j].key /\ row'[j].state = "uploading"
              /\ row'[j].offset = row[j].offset /\ row'[j].probed = row[j].probed
              /\ row'[j].total = UploadLength /\ row'[j].windows = row[j].windows
              /\ row'[j].clipped = row[j].clipped
              /\ row'[j].cancelRequested = FALSE
  <1> DEFINE r == [row[j] EXCEPT !.state = "uploading", !.total = UploadLength, !.cancelRequested = FALSE]
  <1>1. r \in Rows
    BY StateNames, Zero DEF Rows
  <1>2. Update(j, r)
    BY DEF ReopenRow
  <1>3. /\ row' \in [Jobs -> Rows]
        /\ \A i \in Jobs \ {j} : row'[i] = row[i]
        /\ ~Exists(j) => row'[j] = row[j]
        /\ Exists(j) => row'[j] = [r EXCEPT !.expired = FALSE]
    BY <1>1, <1>2, UpdateEffect
  <1> QED  BY <1>3 DEF Rows

LEMMA CancelRowEffect ==
  ASSUME row \in [Jobs -> Rows], NEW j \in Jobs, CancelRow(j)
  PROVE  /\ row' \in [Jobs -> Rows]
         /\ \A i \in Jobs \ {j} : row'[i] = row[i]
         /\ ~Exists(j) => row'[j] = row[j]
         /\ Exists(j) =>
              /\ row'[j].key = row[j].key /\ row'[j].state = "cancelled"
              /\ row'[j].offset = row[j].offset /\ row'[j].probed = row[j].probed
              /\ row'[j].total = row[j].total /\ row'[j].windows = row[j].windows
              /\ row'[j].clipped = row[j].clipped
              /\ row'[j].cancelRequested = TRUE
  <1> DEFINE r == [row[j] EXCEPT !.state = "cancelled", !.cancelRequested = TRUE]
  <1>1. r \in Rows
    BY StateNames, Zero DEF Rows
  <1>2. Update(j, r)
    BY DEF CancelRow
  <1>3. /\ row' \in [Jobs -> Rows]
        /\ \A i \in Jobs \ {j} : row'[i] = row[i]
        /\ ~Exists(j) => row'[j] = row[j]
        /\ Exists(j) => row'[j] = [r EXCEPT !.expired = FALSE]
    BY <1>1, <1>2, UpdateEffect
  <1> QED  BY <1>3 DEF Rows

LEMMA BeginRowEffect ==
  ASSUME row \in [Jobs -> Rows], NEW j \in Jobs, BeginRow(j)
  PROVE  /\ row' \in [Jobs -> Rows]
         /\ \A i \in Jobs \ {j} : row'[i] = row[i]
         /\ ~Exists(j) => row'[j] = row[j]
         /\ Exists(j) =>
              /\ row'[j].key = row[j].key /\ row'[j].state = "processing"
              /\ row'[j].offset = row[j].offset /\ row'[j].probed = row[j].probed
              /\ row'[j].total = row[j].total /\ row'[j].windows = row[j].windows
              /\ row'[j].clipped = row[j].clipped
              /\ row'[j].cancelRequested = FALSE
  <1> DEFINE r == [row[j] EXCEPT !.state = "processing", !.cancelRequested = FALSE]
  <1>1. r \in Rows
    BY StateNames, Zero DEF Rows
  <1>2. Update(j, r)
    BY DEF BeginRow
  <1>3. /\ row' \in [Jobs -> Rows]
        /\ \A i \in Jobs \ {j} : row'[i] = row[i]
        /\ ~Exists(j) => row'[j] = row[j]
        /\ Exists(j) => row'[j] = [r EXCEPT !.expired = FALSE]
    BY <1>1, <1>2, UpdateEffect
  <1> QED  BY <1>3 DEF Rows

LEMMA PhaseRowEffect ==
  ASSUME row \in [Jobs -> Rows], NEW j \in Jobs, PhaseRow(j)
  PROVE  /\ row' \in [Jobs -> Rows]
         /\ \A i \in Jobs \ {j} : row'[i] = row[i]
         /\ ~Exists(j) => row'[j] = row[j]
         /\ Exists(j) =>
              /\ row'[j].key = row[j].key /\ row'[j].state = row[j].state
              /\ row'[j].offset = row[j].offset /\ row'[j].probed = row[j].probed
              /\ row'[j].total = 1 /\ row'[j].windows = row[j].windows
              /\ row'[j].clipped = row[j].clipped
              /\ row'[j].cancelRequested = row[j].cancelRequested
  <1> DEFINE r == [row[j] EXCEPT !.total = 1]
  <1>1. r \in Rows
    BY StateNames, Zero DEF Rows
  <1>2. Update(j, r)
    BY DEF PhaseRow
  <1>3. /\ row' \in [Jobs -> Rows]
        /\ \A i \in Jobs \ {j} : row'[i] = row[i]
        /\ ~Exists(j) => row'[j] = row[j]
        /\ Exists(j) => row'[j] = [r EXCEPT !.expired = FALSE]
    BY <1>1, <1>2, UpdateEffect
  <1> QED  BY <1>3 DEF Rows

LEMMA SucceedRowEffect ==
  ASSUME row \in [Jobs -> Rows], NEW j \in Jobs, SucceedRow(j)
  PROVE  /\ row' \in [Jobs -> Rows]
         /\ \A i \in Jobs \ {j} : row'[i] = row[i]
         /\ ~Exists(j) => row'[j] = row[j]
         /\ Exists(j) =>
              /\ row'[j].key = row[j].key /\ row'[j].state = "succeeded"
              /\ row'[j].offset = row[j].offset /\ row'[j].probed = row[j].probed
              /\ row'[j].total = 1 /\ row'[j].windows = row[j].windows
              /\ row'[j].clipped = row[j].clipped
              /\ row'[j].cancelRequested = FALSE
  <1> DEFINE r == [row[j] EXCEPT !.state = "succeeded", !.total = 1, !.cancelRequested = FALSE]
  <1>1. r \in Rows
    BY StateNames, Zero DEF Rows
  <1>2. Update(j, r)
    BY DEF SucceedRow
  <1>3. /\ row' \in [Jobs -> Rows]
        /\ \A i \in Jobs \ {j} : row'[i] = row[i]
        /\ ~Exists(j) => row'[j] = row[j]
        /\ Exists(j) => row'[j] = [r EXCEPT !.expired = FALSE]
    BY <1>1, <1>2, UpdateEffect
  <1> QED  BY <1>3 DEF Rows

LEMMA FailedRowEffect ==
  ASSUME NEW r \in Rows
  PROVE  /\ FailedRow(r) \in Rows
         /\ FailedRow(r).state = "failed" /\ FailedRow(r).cancelRequested = FALSE
         /\ FailedRow(r).key = r.key /\ FailedRow(r).offset = r.offset
         /\ FailedRow(r).probed = r.probed /\ FailedRow(r).total = r.total
         /\ FailedRow(r).windows = r.windows /\ FailedRow(r).clipped = r.clipped
  BY StateNames DEF FailedRow, Rows

LEMMA FailRowEffect ==
  ASSUME row \in [Jobs -> Rows], NEW j \in Jobs, FailRow(j)
  PROVE  /\ row' \in [Jobs -> Rows]
         /\ \A i \in Jobs \ {j} : row'[i] = row[i]
         /\ ~Exists(j) => row'[j] = row[j]
         /\ Exists(j) =>
              /\ row'[j].key = row[j].key /\ row'[j].state = "failed"
              /\ row'[j].offset = row[j].offset /\ row'[j].probed = row[j].probed
              /\ row'[j].total = row[j].total /\ row'[j].windows = row[j].windows
              /\ row'[j].clipped = row[j].clipped
              /\ row'[j].cancelRequested = FALSE
  <1> DEFINE r == FailedRow(row[j])
  <1>1. r \in Rows
    BY FailedRowEffect
  <1>2. Update(j, r)
    BY DEF FailRow
  <1>3. /\ row' \in [Jobs -> Rows]
        /\ \A i \in Jobs \ {j} : row'[i] = row[i]
        /\ ~Exists(j) => row'[j] = row[j]
        /\ Exists(j) => row'[j] = [r EXCEPT !.expired = FALSE]
    BY <1>1, <1>2, UpdateEffect
  <1>4. /\ r.state = "failed" /\ r.cancelRequested = FALSE
        /\ r.key = row[j].key /\ r.offset = row[j].offset /\ r.probed = row[j].probed
        /\ r.total = row[j].total /\ r.windows = row[j].windows /\ r.clipped = row[j].clipped
    BY FailedRowEffect
  <1> HIDE DEF r
  <1> QED  BY <1>1, <1>3, <1>4 DEF Rows

LEMMA OffsetEffect ==
  ASSUME row \in [Jobs -> Rows], NEW j \in Jobs, NEW b \in 0..UploadLength,
         Update(j, [row[j] EXCEPT !.offset = b])
  PROVE  /\ row' \in [Jobs -> Rows]
         /\ \A i \in Jobs \ {j} : row'[i] = row[i]
         /\ ~Exists(j) => row'[j] = row[j]
         /\ Exists(j) =>
              /\ row'[j].key = row[j].key /\ row'[j].state = row[j].state
              /\ row'[j].offset = b /\ row'[j].probed = row[j].probed
              /\ row'[j].total = row[j].total /\ row'[j].windows = row[j].windows
              /\ row'[j].clipped = row[j].clipped
              /\ row'[j].cancelRequested = row[j].cancelRequested
  <1> DEFINE r == [row[j] EXCEPT !.offset = b]
  <1>1. r \in Rows
    BY DEF Rows
  <1>2. Update(j, r)
    OBVIOUS
  <1>3. /\ row' \in [Jobs -> Rows]
        /\ \A i \in Jobs \ {j} : row'[i] = row[i]
        /\ ~Exists(j) => row'[j] = row[j]
        /\ Exists(j) => row'[j] = [r EXCEPT !.expired = FALSE]
    BY <1>1, <1>2, UpdateEffect
  <1> QED  BY <1>3 DEF Rows

LEMMA SaveWindowEffect ==
  ASSUME row \in [Jobs -> Rows], NEW j \in Jobs, NEW w \in Audible,
         NEW whole \in BOOLEAN, SaveWindowRow(j, w, whole)
  PROVE  /\ row' \in [Jobs -> Rows]
         /\ \A i \in Jobs \ {j} : row'[i] = row[i]
         /\ ~Exists(j) => row'[j] = row[j]
         /\ Exists(j) =>
              /\ row'[j].key = row[j].key /\ row'[j].state = row[j].state
              /\ row'[j].offset = row[j].offset /\ row'[j].probed = row[j].probed
              /\ row'[j].total = row[j].total
              /\ row'[j].windows = row[j].windows \cup {w}
              /\ whole => row'[j].clipped = row[j].clipped \ {w}
              /\ row'[j].cancelRequested = row[j].cancelRequested
  <1> DEFINE ws == row[j].windows \cup {w}
             cl == IF whole THEN row[j].clipped \ {w} ELSE row[j].clipped \cup {w}
             r == [row[j] EXCEPT !.windows = ws, !.clipped = cl]
  <1>1. ws \subseteq Audible /\ cl \subseteq Audible
    BY DEF Rows
  <1>2. Update(j, r)
    BY DEF SaveWindowRow
  <1> HIDE DEF ws, cl
  <1>3. r \in Rows
    BY <1>1 DEF Rows
  <1>4. /\ row' \in [Jobs -> Rows]
        /\ \A i \in Jobs \ {j} : row'[i] = row[i]
        /\ ~Exists(j) => row'[j] = row[j]
        /\ Exists(j) => row'[j] = [r EXCEPT !.expired = FALSE]
    BY <1>2, <1>3, UpdateEffect
  <1>5. whole => cl = row[j].clipped \ {w}
    BY DEF cl
  <1> QED  BY <1>4, <1>3, <1>5 DEF Rows, ws

LEMMA NoRowType ==
  /\ NoRow \in Rows
  /\ NoRow.state = "none" /\ NoRow.key = NoKey /\ NoRow.offset = 0
  /\ NoRow.windows = {} /\ NoRow.clipped = {} /\ NoRow.probed = FALSE
  /\ NoRow.cancelRequested = FALSE
  BY StateNames, Zero DEF NoRow, Rows

LEMMA NewRowType ==
  ASSUME NEW k \in Keys \cup {NoKey}
  PROVE  /\ NewRow(k) \in Rows
         /\ NewRow(k).state = "uploading" /\ NewRow(k).key = k
         /\ NewRow(k).offset = 0 /\ NewRow(k).windows = {}
         /\ NewRow(k).clipped = {} /\ NewRow(k).probed = FALSE
         /\ NewRow(k).total = UploadLength /\ NewRow(k).cancelRequested = FALSE
  <1> DEFINE r == NoRow
  <1>1. /\ r \in Rows /\ r.offset = 0 /\ r.windows = {} /\ r.cancelRequested = FALSE
        /\ r.clipped = {} /\ r.probed = FALSE
    BY NoRowType
  <1>2. NewRow(k) = [r EXCEPT !.key = k, !.state = "uploading", !.total = UploadLength]
    BY DEF NewRow
  <1> HIDE DEF r
  <1> QED  BY <1>1, <1>2, StateNames, Zero DEF Rows

LEMMA DropRowEffect ==
  ASSUME row \in [Jobs -> Rows], NEW j \in Jobs, DropRow(j)
  PROVE  /\ row' \in [Jobs -> Rows]
         /\ \A i \in Jobs \ {j} : row'[i] = row[i]
         /\ row'[j] = NoRow
  BY NoRowType DEF DropRow

----------------------------------------------------------------------------
(* Type correctness.  TypeOK alone is not inductive: a request or a worker   *)
(* that acts on a job must hold one, and a window index must be one that     *)
(* ReadAudio let through.                                                    *)

JobPCs == WorkerPCs \ {"off", "dead", "loop", "get", "cleanup", "sweep"}

RowType == row \in [Jobs -> Rows]

DiskType ==
  dirs \subseteq Jobs /\ source \in [Jobs -> Absent..UploadLength] /\ temp \subseteq Jobs

QueueType ==
  /\ queue \in Seq(Jobs \cup {Poison})
  /\ active \subseteq Jobs
  /\ server \in {"down", "open", "up", "stopping"}

WorkerInv ==
  /\ worker \in WorkerRecords
  /\ worker.pc \in JobPCs => worker.job \in Jobs
  /\ worker.pc \in {"read", "temp", "infer", "save", "saved"}
       => worker.index < worker.total
  /\ worker.pc \in {"temp", "infer", "save"} => worker.index \in Audible

RequestInv ==
  /\ request \in [Requests -> RequestRecords]
  /\ \A t \in Requests : request[t].pc \notin {"idle", "admit", "create"} => request[t].job \in Jobs

TypeInv == RowType /\ DiskType /\ QueueType /\ WorkerInv /\ RequestInv

LEMMA GotoHeld ==
  ASSUME RequestInv, NEW t \in Requests, NEW pc \in RequestPCs,
         request[t].job \in Jobs, Goto(t, pc)
  PROVE  RequestInv'
  BY GotoEffect DEF RequestInv

LEMMA ReturnHeld ==
  ASSUME RequestInv, NEW t \in Requests, Return(t)
  PROVE  RequestInv'
  BY ReturnEffect DEF RequestInv

LEMMA CreatingHeld ==
  ASSUME RequestInv, NEW t \in Requests, Creating(t)
  PROVE  RequestInv'
  BY CreatingEffect DEF RequestInv, CreatePCs

LEMMA Parts ==
  /\ UNCHANGED row => (RowType => RowType')
  /\ UNCHANGED <<dirs, source, temp>> => (DiskType => DiskType')
  /\ UNCHANGED <<queue, active, server>> => (QueueType => QueueType')
  /\ UNCHANGED worker => (WorkerInv => WorkerInv')
  /\ UNCHANGED request => (RequestInv => RequestInv')
  BY DEF RowType, DiskType, QueueType, WorkerInv, RequestInv

LEMMA RequestTypes ==
  ASSUME TypeInv, NEW t \in Requests, RequestStep(t)
  PROVE  TypeInv'
  <1> USE DEF RequestPCs, disk
  <1> DEFINE j == request[t].job
  <1>0. /\ row \in [Jobs -> Rows]
        /\ source \in [Jobs -> Absent..UploadLength] /\ dirs \subseteq Jobs
        /\ temp \subseteq Jobs /\ request[t] \in RequestRecords
        /\ request[t].pc \notin {"idle", "admit", "create"} => j \in Jobs
    BY DEF TypeInv, RowType, DiskType, RequestInv
  <1>1. CASE UploadWrite(t)
    <2>1. j \in Jobs
      BY <1>1, <1>0 DEF UploadWrite, At
    <2>2. RequestInv'
      BY <1>1, <2>1, GotoHeld, ReturnHeld DEF UploadWrite, TypeInv
    <2>3. DiskType'
      <3>1. source' \in [Jobs -> Absent..UploadLength]
        <4>1. CASE source' = source
          BY <1>0, <4>1
        <4>2. CASE \E b \in request[t].from .. request[t].upto :
                     source' = [source EXCEPT ![j] = IF @ < b THEN b ELSE @]
          <5>1. PICK b \in request[t].from .. request[t].upto :
                   source' = [source EXCEPT ![j] = IF @ < b THEN b ELSE @]
            BY <4>2
          <5>2. b \in Absent..UploadLength
            BY <1>0, UploadAssumption DEF RequestRecords, Absent
          <5> QED  BY <1>0, <5>1, <5>2
        <4> QED  BY <1>1, <4>1, <4>2 DEF UploadWrite
      <3> QED  BY <1>1, <1>0, <3>1 DEF UploadWrite, DiskType
    <2> QED  BY <1>1, <2>2, <2>3, Parts DEF UploadWrite, TypeInv
  <1>2. CASE UploadCommit(t)
    <2>1. j \in Jobs
      BY <1>2, <1>0 DEF UploadCommit, At
    <2>2. RequestInv'
      BY <1>2, <2>1, GotoHeld, ReturnHeld DEF UploadCommit, TypeInv
    <2>3. RowType'
      BY <1>2, <1>0, <2>1, OffsetEffect DEF UploadCommit, RowType, RequestRecords
    <2> QED  BY <1>2, <2>2, <2>3, Parts DEF UploadCommit, TypeInv
  <1>3. CASE CompleteProbe(t)
    <2>1. j \in Jobs
      BY <1>3, <1>0 DEF CompleteProbe, At
    <2>2. RequestInv'
      BY <1>3, <2>1, GotoHeld, ReturnHeld DEF CompleteProbe, TypeInv
    <2> QED  BY <1>3, <2>2, Parts DEF CompleteProbe, TypeInv
  <1>4. CASE CompleteQueue(t)
    <2>1. j \in Jobs
      BY <1>4, <1>0 DEF CompleteQueue, At
    <2>2. RequestInv'
      BY <1>4, <2>1, GotoHeld, ReturnHeld DEF CompleteQueue, TypeInv
    <2>3. RowType'
      BY <1>4, <1>0, <2>1, QueueRowEffect DEF CompleteQueue, RowType
    <2> QED  BY <1>4, <2>2, <2>3, Parts DEF CompleteQueue, TypeInv
  <1>5. CASE CompleteReread(t)
    <2>1. j \in Jobs
      BY <1>5, <1>0 DEF CompleteReread, At
    <2>2. RequestInv'
      BY <1>5, <2>1, GotoHeld, ReturnHeld DEF CompleteReread, TypeInv
    <2> QED  BY <1>5, <2>2, Parts DEF CompleteReread, TypeInv
  <1>6. CASE Put(t)
    <2>1. j \in Jobs
      BY <1>6, <1>0 DEF Put, At
    <2>2. RequestInv'
      BY <1>6, <2>1, GotoHeld, ReturnHeld DEF Put, TypeInv
    <2>3. QueueType'
      BY <1>6, <2>1 DEF Put, QueueType, TypeInv
    <2> QED  BY <1>6, <2>2, <2>3, Parts DEF Put, TypeInv
  <1>7. CASE ResumeRead(t)
    <2>1. j \in Jobs
      BY <1>7, <1>0 DEF ResumeRead, At
    <2>2. RequestInv'
      BY <1>7, <2>1, GotoHeld, ReturnHeld DEF ResumeRead, TypeInv
    <2> QED  BY <1>7, <2>2, Parts DEF ResumeRead, TypeInv
  <1>8. CASE ResumeReopen(t)
    <2>1. j \in Jobs
      BY <1>8, <1>0 DEF ResumeReopen, At
    <2>2. RequestInv'
      BY <1>8, <2>1, GotoHeld, ReturnHeld DEF ResumeReopen, TypeInv
    <2>3. RowType'
      BY <1>8, <1>0, <2>1, ReopenRowEffect DEF ResumeReopen, RowType
    <2> QED  BY <1>8, <2>2, <2>3, Parts DEF ResumeReopen, TypeInv
  <1>9. CASE ResumeQueue(t)
    <2>1. j \in Jobs
      BY <1>9, <1>0 DEF ResumeQueue, At
    <2>2. RequestInv'
      BY <1>9, <2>1, GotoHeld, ReturnHeld DEF ResumeQueue, TypeInv
    <2>3. RowType'
      BY <1>9, <1>0, <2>1, QueueRowEffect DEF ResumeQueue, RowType
    <2> QED  BY <1>9, <2>2, <2>3, Parts DEF ResumeQueue, TypeInv
  <1>10. CASE ResumeReread(t)
    <2>1. j \in Jobs
      BY <1>10, <1>0 DEF ResumeReread, At
    <2>2. RequestInv'
      BY <1>10, <2>1, GotoHeld, ReturnHeld DEF ResumeReread, TypeInv
    <2> QED  BY <1>10, <2>2, Parts DEF ResumeReread, TypeInv
  <1>11. CASE DeleteLookup(t)
    <2>1. j \in Jobs
      BY <1>11, <1>0 DEF DeleteLookup, At
    <2>2. RequestInv'
      BY <1>11, <2>1, GotoHeld, ReturnHeld DEF DeleteLookup, TypeInv
    <2> QED  BY <1>11, <2>2, Parts DEF DeleteLookup, TypeInv
  <1>12. CASE DeleteUnlink(t)
    <2>1. j \in Jobs
      BY <1>12, <1>0 DEF DeleteUnlink, At
    <2>2. RequestInv'
      BY <1>12, <2>1, GotoHeld, ReturnHeld DEF DeleteUnlink, TypeInv
    <2>3. DiskType'
      <3>1. Absent \in Absent..UploadLength
        BY UploadAssumption DEF Absent
      <3> QED  BY <1>12, <1>0, <2>1, <3>1 DEF DeleteUnlink, Unlink, DiskType
    <2> QED  BY <1>12, <2>2, <2>3, Parts DEF DeleteUnlink, TypeInv
  <1>13. CASE DeleteRmdir(t)
    <2>1. j \in Jobs
      BY <1>13, <1>0 DEF DeleteRmdir, At
    <2>2. RequestInv'
      BY <1>13, <2>1, GotoHeld, ReturnHeld DEF DeleteRmdir, TypeInv
    <2>3. DiskType'
      BY <1>13, <1>0, <2>1 DEF DeleteRmdir, Rmdir, DiskType
    <2> QED  BY <1>13, <2>2, <2>3, Parts DEF DeleteRmdir, TypeInv
  <1>14. CASE DeleteDrop(t)
    <2>1. j \in Jobs
      BY <1>14, <1>0 DEF DeleteDrop, At
    <2>2. RequestInv'
      BY <1>14, <2>1, GotoHeld, ReturnHeld DEF DeleteDrop, TypeInv
    <2>3. RowType'
      BY <1>14, <1>0, <2>1, DropRowEffect DEF DeleteDrop, RowType
    <2> QED  BY <1>14, <2>2, <2>3, Parts DEF DeleteDrop, TypeInv
  <1>20. Creating(t) => RequestInv'
    BY CreatingHeld DEF TypeInv
  <1>15. CASE CreateAdmit(t)
    BY <1>15, <1>20, Parts DEF CreateAdmit, Creating, TypeInv
  <1>16. CASE CreateFound(t)
    BY <1>16, <1>20, Parts DEF CreateFound, Creating, TypeInv
  <1>17. ASSUME NEW i \in Jobs, HalfMade(i) PROVE DiskType'
    BY <1>0, <1>17, UploadAssumption DEF HalfMade, DiskType, Absent
  <1>18. CASE CreateFails(t)
    <2>1. RequestInv'
      BY <1>18, <1>20 DEF Creating
    <2>2. DiskType'
      BY <1>17, <1>18, Parts DEF CreateFails, TypeInv
    <2> QED  BY <1>18, <2>1, <2>2, Parts DEF CreateFails, TypeInv
  <1>19. ASSUME NEW i \in Jobs, CreateRow(t, i) PROVE TypeInv'
    <2>1. request[t].key \in Keys \cup {NoKey}
      BY <1>0 DEF RequestRecords
    <2>2. RowType'
      BY <1>0, <1>19, <2>1, NewRowType DEF CreateRow, RowType
    <2>3. DiskType'
      BY <1>0, <1>19, UploadAssumption DEF CreateRow, DiskType, Absent
    <2>4. RequestInv'
      BY <1>19, <1>20 DEF Creating
    <2> QED  BY <1>19, <2>2, <2>3, <2>4, Parts DEF CreateRow, TypeInv
  <1> QED
    BY <1>1, <1>2, <1>3, <1>4, <1>5, <1>6, <1>7, <1>8, <1>9, <1>10, <1>11, <1>12, <1>13, <1>14,
       <1>15, <1>16, <1>18, <1>19
    DEF RequestStep

LEMMA ClientTypes ==
  ASSUME TypeInv, NEW t \in Requests, ClientCall(t)
  PROVE  TypeInv'
  <1> USE DEF disk
  <1>0. /\ row \in [Jobs -> Rows]
        /\ source \in [Jobs -> Absent..UploadLength] /\ dirs \subseteq Jobs
        /\ request \in [Requests -> RequestRecords]
    BY DEF TypeInv, RowType, DiskType, RequestInv
  <1>1. ASSUME NEW k \in Keys, CreateLookup(t, k) PROVE TypeInv'
    <2>1. RequestInv'
      BY <1>1, CreatingHeld DEF Creating, TypeInv
    <2> QED  BY <1>1, <2>1, Parts DEF CreateLookup, TypeInv
  <1>2. ASSUME NEW j \in Jobs, NEW size \in 1..MaxChunk, UploadCheck(t, j, size)
        PROVE  TypeInv'
    <2> DEFINE b == row[j].offset + size
               r == [pc |-> "write", job |-> j, key |-> NoKey,
                     from |-> row[j].offset, upto |-> b]
    <2>1. b \in 0..UploadLength
      BY <1>0, <1>2, UploadAssumption DEF UploadCheck, Rows
    <2>2. request' = [request EXCEPT ![t] = r]
      BY <1>2 DEF UploadCheck
    <2>3. r \in RequestRecords /\ r.job = j
      <3> HIDE DEF b
      <3> QED  BY <1>0, <2>1 DEF RequestRecords, RequestPCs, Rows
    <2> HIDE DEF r
    <2>4. RequestInv'
      BY <1>0, <2>2, <2>3 DEF RequestInv, TypeInv
    <2> QED  BY <1>2, <2>4, Parts DEF UploadCheck, TypeInv
  <1>3. ASSUME NEW j \in Jobs, CompleteCheck(t, j) PROVE TypeInv'
    <2>1. RequestInv'
      BY <1>0, <1>3, CallEffect DEF CompleteCheck, RequestPCs, RequestInv, TypeInv
    <2> QED  BY <1>3, <2>1, Parts DEF CompleteCheck, TypeInv
  <1>4. ASSUME NEW j \in Jobs, ResumeCheck(t, j) PROVE TypeInv'
    <2>1. RequestInv'
      BY <1>0, <1>4, CallEffect DEF ResumeCheck, RequestPCs, RequestInv, TypeInv
    <2> QED  BY <1>4, <2>1, Parts DEF ResumeCheck, TypeInv
  <1>5. ASSUME NEW j \in Jobs, DeleteCheck(t, j) PROVE TypeInv'
    <2>1. RequestInv'
      BY <1>0, <1>5, CallEffect DEF DeleteCheck, RequestPCs, RequestInv, TypeInv
    <2> QED  BY <1>5, <2>1, Parts DEF DeleteCheck, TypeInv
  <1>6. ASSUME NEW j \in Jobs, Cancel(t, j) PROVE TypeInv'
    <2>1. RowType'
      BY <1>0, <1>6, CancelRowEffect DEF Cancel, RowType
    <2> QED  BY <1>6, <2>1, Parts DEF Cancel, TypeInv
  <1> QED  BY <1>1, <1>2, <1>3, <1>4, <1>5, <1>6 DEF ClientCall

LEMMA StepHeld ==
  ASSUME WorkerInv, NEW pc \in WorkerPCs, Step(pc),
         worker.pc \in JobPCs \/ pc \notin JobPCs,
         pc \in {"read", "temp", "infer", "save", "saved"} =>
           /\ worker.pc \in {"read", "temp", "infer", "save"}
           /\ pc # "saved" => worker.pc \in {"temp", "infer"}
  PROVE  WorkerInv'
  BY StepEffect DEF WorkerInv

LEMMA NoWorkerHeld ==
  ASSUME NEW pc \in WorkerPCs \ JobPCs, worker' = [NoWorker EXCEPT !.pc = pc]
  PROVE  WorkerInv'
  BY NoWorkerType DEF WorkerInv, JobPCs

LEMMA WorkerTypes ==
  ASSUME TypeInv, WorkerStep
  PROVE  TypeInv'
  <1> USE DEF disk
  <1> DEFINE j == worker.job
  <1>0. /\ row \in [Jobs -> Rows]
        /\ source \in [Jobs -> Absent..UploadLength] /\ dirs \subseteq Jobs
        /\ temp \subseteq Jobs /\ worker \in WorkerRecords
        /\ worker.pc \in JobPCs => j \in Jobs
        /\ queue \in Seq(Jobs \cup {Poison}) /\ active \subseteq Jobs
    BY DEF TypeInv, RowType, DiskType, WorkerInv, QueueType
  <1>1. CASE Loop
    <2>1. WorkerInv'
      BY <1>1, StepHeld, NoWorkerHeld
      DEF Loop, WorkerAt, LeaveJob, Die, WorkerPCs, JobPCs, TypeInv
    <2> QED  BY <1>1, <2>1, Parts DEF Loop, TypeInv
  <1>2. CASE GetTimeout
    <2>1. WorkerInv'
      BY <1>2, StepHeld, NoWorkerHeld
      DEF GetTimeout, WorkerAt, LeaveJob, Die, WorkerPCs, JobPCs, TypeInv
    <2> QED  BY <1>2, <2>1, Parts DEF GetTimeout, TypeInv
  <1>3. CASE Begin
    <2>1. WorkerInv'
      BY <1>3, StepHeld, NoWorkerHeld
      DEF Begin, WorkerAt, LeaveJob, Die, WorkerPCs, JobPCs, TypeInv
    <2>2. worker.pc \in JobPCs
      BY <1>3 DEF Begin, WorkerAt, WorkerPCs, JobPCs
    <2>3. RowType'
      BY <1>3, <1>0, <2>2, BeginRowEffect DEF Begin, RowType
    <2> QED  BY <1>3, <2>1, <2>3, Parts DEF Begin, TypeInv
  <1>4. CASE Activate
    <2>1. WorkerInv'
      BY <1>4, StepHeld, NoWorkerHeld
      DEF Activate, WorkerAt, LeaveJob, Die, WorkerPCs, JobPCs, TypeInv
    <2>2. worker.pc \in JobPCs
      BY <1>4 DEF Activate, WorkerAt, WorkerPCs, JobPCs
    <2>3. QueueType'
      BY <1>4, <1>0, <2>2 DEF Activate, QueueType, TypeInv
    <2> QED  BY <1>4, <2>1, <2>3, Parts DEF Activate, TypeInv
  <1>5. CASE Infer
    <2>1. WorkerInv'
      BY <1>5, StepHeld, NoWorkerHeld
      DEF Infer, WorkerAt, LeaveJob, Die, WorkerPCs, JobPCs, TypeInv
    <2>2. worker.pc \in JobPCs
      BY <1>5 DEF Infer, WorkerAt, WorkerPCs, JobPCs
    <2>3. DiskType'
      BY <1>5, <1>0, <2>2 DEF Infer, DiskType
    <2> QED  BY <1>5, <2>1, <2>3, Parts DEF Infer, TypeInv
  <1>6. CASE WriteTemp
    <2>1. WorkerInv'
      BY <1>6, StepHeld, NoWorkerHeld
      DEF WriteTemp, WorkerAt, LeaveJob, Die, WorkerPCs, JobPCs, TypeInv
    <2>2. worker.pc \in JobPCs
      BY <1>6 DEF WriteTemp, WorkerAt, WorkerPCs, JobPCs
    <2>3. DiskType'
      BY <1>6, <1>0, <2>2 DEF WriteTemp, DiskType
    <2> QED  BY <1>6, <2>1, <2>3, Parts DEF WriteTemp, TypeInv
  <1>7. CASE CheckLast
    <2>1. WorkerInv'
      BY <1>7, StepHeld, NoWorkerHeld
      DEF CheckLast, WorkerAt, LeaveJob, Die, WorkerPCs, JobPCs, TypeInv
    <2> QED  BY <1>7, <2>1, Parts DEF CheckLast, TypeInv
  <1>8. CASE Diarize
    <2>1. WorkerInv'
      BY <1>8, StepHeld, NoWorkerHeld
      DEF Diarize, WorkerAt, LeaveJob, Die, WorkerPCs, JobPCs, TypeInv
    <2>2. worker.pc \in JobPCs
      BY <1>8 DEF Diarize, WorkerAt, WorkerPCs, JobPCs
    <2>3. RowType'
      BY <1>8, <1>0, <2>2, PhaseRowEffect DEF Diarize, RowType
    <2> QED  BY <1>8, <2>1, <2>3, Parts DEF Diarize, TypeInv
  <1>9. CASE Finalize
    <2>1. WorkerInv'
      BY <1>9, StepHeld, NoWorkerHeld
      DEF Finalize, WorkerAt, LeaveJob, Die, WorkerPCs, JobPCs, TypeInv
    <2> QED  BY <1>9, <2>1, Parts DEF Finalize, TypeInv
  <1>10. CASE CheckFinalized
    <2>1. WorkerInv'
      BY <1>10, StepHeld, NoWorkerHeld
      DEF CheckFinalized, WorkerAt, LeaveJob, Die, WorkerPCs, JobPCs, TypeInv
    <2> QED  BY <1>10, <2>1, Parts DEF CheckFinalized, TypeInv
  <1>11. CASE Publish
    <2>1. WorkerInv'
      BY <1>11, StepHeld, NoWorkerHeld
      DEF Publish, WorkerAt, LeaveJob, Die, WorkerPCs, JobPCs, TypeInv
    <2>2. worker.pc \in JobPCs
      BY <1>11 DEF Publish, WorkerAt, WorkerPCs, JobPCs
    <2>3. RowType'
      BY <1>11, <1>0, <2>2, PhaseRowEffect DEF Publish, RowType
    <2> QED  BY <1>11, <2>1, <2>3, Parts DEF Publish, TypeInv
  <1>12. CASE Succeed
    <2>1. WorkerInv'
      BY <1>12, StepHeld, NoWorkerHeld
      DEF Succeed, WorkerAt, LeaveJob, Die, WorkerPCs, JobPCs, TypeInv
    <2>2. worker.pc \in JobPCs
      BY <1>12 DEF Succeed, WorkerAt, WorkerPCs, JobPCs
    <2>3. RowType'
      BY <1>12, <1>0, <2>2, SucceedRowEffect DEF Succeed, RowType
    <2> QED  BY <1>12, <2>1, <2>3, Parts DEF Succeed, TypeInv
  <1>13. CASE Fail
    <2>1. WorkerInv'
      BY <1>13, StepHeld, NoWorkerHeld
      DEF Fail, WorkerAt, LeaveJob, Die, WorkerPCs, JobPCs, TypeInv
    <2>2. worker.pc \in JobPCs
      BY <1>13 DEF Fail, WorkerAt, WorkerPCs, JobPCs
    <2>3. RowType'
      BY <1>13, <1>0, <2>2, FailRowEffect DEF Fail, RowType
    <2> QED  BY <1>13, <2>1, <2>3, Parts DEF Fail, TypeInv
  <1>14. CASE Deactivate
    <2>1. WorkerInv'
      BY <1>14, StepHeld, NoWorkerHeld
      DEF Deactivate, WorkerAt, LeaveJob, Die, WorkerPCs, JobPCs, TypeInv
    <2>2. worker.pc \in JobPCs
      BY <1>14 DEF Deactivate, WorkerAt, WorkerPCs, JobPCs
    <2>3. QueueType'
      BY <1>14, <1>0, <2>2 DEF Deactivate, QueueType, TypeInv
    <2> QED  BY <1>14, <2>1, <2>3, Parts DEF Deactivate, TypeInv
  <1>15. CASE SweepEnd
    <2>1. WorkerInv'
      BY <1>15, StepHeld, NoWorkerHeld
      DEF SweepEnd, WorkerAt, LeaveJob, Die, WorkerPCs, JobPCs, TypeInv
    <2> QED  BY <1>15, <2>1, Parts DEF SweepEnd, TypeInv
  <1>16. CASE SweepUnlink
    <2>1. WorkerInv'
      BY <1>16, StepHeld, NoWorkerHeld
      DEF SweepUnlink, WorkerAt, LeaveJob, Die, WorkerPCs, JobPCs, TypeInv
    <2>2. worker.pc \in JobPCs
      BY <1>16 DEF SweepUnlink, WorkerAt, WorkerPCs, JobPCs
    <2>3. DiskType'
      <3>1. Absent \in Absent..UploadLength
        BY UploadAssumption DEF Absent
      <3> QED  BY <1>16, <1>0, <2>2, <3>1 DEF SweepUnlink, Unlink, DiskType
    <2> QED  BY <1>16, <2>1, <2>3, Parts DEF SweepUnlink, TypeInv
  <1>17. CASE SweepRmdir
    <2>1. WorkerInv'
      BY <1>17, StepHeld, NoWorkerHeld
      DEF SweepRmdir, WorkerAt, LeaveJob, Die, WorkerPCs, JobPCs, TypeInv
    <2>2. worker.pc \in JobPCs
      BY <1>17 DEF SweepRmdir, WorkerAt, WorkerPCs, JobPCs
    <2>3. DiskType'
      BY <1>17, <1>0, <2>2 DEF SweepRmdir, DiskType, Rmdir
    <2> QED  BY <1>17, <2>1, <2>3, Parts DEF SweepRmdir, TypeInv
  <1>18. CASE Take
    <2>1. Head(queue) \in Jobs \cup {Poison} /\ Tail(queue) \in Seq(Jobs \cup {Poison})
      BY <1>18, <1>0 DEF Take
    <2>2. QueueType'
      BY <1>18, <2>1 DEF Take, QueueType, TypeInv
    <2>3. WorkerInv'
      BY <1>18, <1>0, <2>1 DEF Take, WorkerInv, WorkerRecords, WorkerPCs, JobPCs
    <2> QED  BY <1>18, <2>2, <2>3, Parts DEF Take, TypeInv
  <1>19. CASE Snapshot
    <2>1. worker.pc \in JobPCs
      BY <1>19 DEF Snapshot, WorkerAt, WorkerPCs, JobPCs
    <2>2. CASE Exists(j)
      <3>1. row[j].total \in 0..UploadLength
        BY <1>0, <2>1 DEF Rows
      <3>2. WorkerInv'
        BY <1>19, <1>0, <2>1, <2>2, <3>1
        DEF Snapshot, WorkerInv, WorkerRecords, WorkerPCs, JobPCs
      <3> QED  BY <1>19, <3>2, Parts DEF Snapshot, TypeInv
    <2>3. CASE ~Exists(j)
      <3>1. WorkerInv'
        BY <1>19, <2>3, NoWorkerHeld DEF Snapshot, LeaveJob, WorkerPCs, JobPCs
      <3> QED  BY <1>19, <3>1, Parts DEF Snapshot, TypeInv
    <2> QED  BY <1>19, <2>2, <2>3, Parts DEF Snapshot, TypeInv
  <1>20. CASE ReadWindows
    <2>1. worker.pc \in JobPCs
      BY <1>20 DEF ReadWindows, WorkerAt, WorkerPCs, JobPCs
    <2>2. row[j].windows \subseteq Audible
      BY <1>0, <2>1 DEF Rows
    <2>3. WorkerInv'
      BY <1>20, <1>0, <2>1, <2>2 DEF ReadWindows, WorkerInv, WorkerRecords, WorkerPCs, JobPCs
    <2> QED  BY <1>20, <2>3, Parts DEF ReadWindows, TypeInv
  <1>21. CASE CheckWindow
    <2>1. worker.pc \in JobPCs
      BY <1>21 DEF CheckWindow, WorkerAt, WorkerPCs, JobPCs
    <2>2. /\ worker.index \in 0..UploadLength /\ worker.total \in 0..UploadLength
          /\ worker.index < worker.total => worker.index + 1 \in 0..UploadLength
      BY <1>0, UploadAssumption DEF WorkerRecords
    <2>3. WorkerInv'
      <3>1. CASE worker.index < worker.total /\ worker' = [worker EXCEPT !.index = @ + 1]
        <4> DEFINE next == worker.index + 1
        <4>1. next \in 0..UploadLength /\ worker' = [worker EXCEPT !.index = next]
          BY <2>2, <3>1
        <4> HIDE DEF next
        <4>2. worker' \in WorkerRecords /\ worker'.pc = worker.pc /\ worker'.job = j
          BY <1>0, <4>1 DEF WorkerRecords
        <4> QED  BY <1>21, <2>1, <1>0, <4>2 DEF CheckWindow, WorkerAt, WorkerInv
      <3>2. CASE worker.index >= worker.total /\ worker' = [worker EXCEPT !.pc = "last"]
        <4>1. worker' \in WorkerRecords /\ worker'.pc = "last" /\ worker'.job = j
          BY <1>0, <3>2 DEF WorkerRecords, WorkerPCs
        <4> QED  BY <1>0, <2>1, <4>1 DEF WorkerInv
      <3>3. CASE worker' = [worker EXCEPT !.pc = "done"]
        <4>1. worker' \in WorkerRecords /\ worker'.pc = "done" /\ worker'.job = j
          BY <1>0, <3>3 DEF WorkerRecords, WorkerPCs
        <4> QED  BY <1>0, <2>1, <4>1 DEF WorkerInv
      <3>4. CASE worker.index < worker.total /\ worker' = [worker EXCEPT !.pc = "read"]
        <4>1. /\ worker' \in WorkerRecords /\ worker'.pc = "read" /\ worker'.job = j
              /\ worker'.index = worker.index /\ worker'.total = worker.total
          BY <1>0, <3>4 DEF WorkerRecords, WorkerPCs
        <4> QED  BY <1>0, <2>1, <3>4, <4>1 DEF WorkerInv
      <3> QED  BY <1>21, <2>2, <3>1, <3>2, <3>3, <3>4 DEF CheckWindow
    <2> QED  BY <1>21, <2>3, Parts DEF CheckWindow, TypeInv
  <1>22. CASE ReadAudio
    <2>1. worker.pc \in JobPCs /\ worker.pc = "read"
      BY <1>22 DEF ReadAudio, WorkerAt, WorkerPCs, JobPCs
    <2>5. DiskType'
      BY <1>0, <1>22 DEF ReadAudio, DiskType
    <2>2. CASE Step("failing")
      <3>1. WorkerInv'
        BY <2>1, <2>2, StepHeld DEF WorkerPCs, JobPCs, TypeInv
      <3> QED  BY <1>22, <2>5, <3>1, Parts DEF ReadAudio, TypeInv
    <2>3. CASE /\ WindowStart(Geometry, worker.index) < Duration
               /\ worker' = [worker EXCEPT !.pc = "temp",
                                           !.whole = (source[j] >= UploadLength)]
      <3> DEFINE whole == (source[j] >= UploadLength)
      <3>1. worker.index \in Audible
        BY <1>0, <2>1, <2>3, UploadAssumption DEF WorkerInv, TypeInv, WorkerRecords, Audible
      <3>2. whole \in BOOLEAN
        OBVIOUS
      <3>3. worker' = [worker EXCEPT !.pc = "temp", !.whole = whole]
        BY <2>3
      <3> HIDE DEF whole
      <3>4. /\ worker' \in WorkerRecords /\ worker'.pc = "temp" /\ worker'.job = j
            /\ worker'.index = worker.index /\ worker'.total = worker.total
        BY <1>0, <3>2, <3>3 DEF WorkerRecords, WorkerPCs
      <3>5. WorkerInv'
        BY <1>0, <2>1, <3>1, <3>4 DEF WorkerInv, TypeInv
      <3> QED  BY <1>22, <2>5, <3>5, Parts DEF ReadAudio, TypeInv
    <2>4. (WindowStart(Geometry, worker.index) < Duration /\ worker' = [worker EXCEPT !.pc = "temp",
                                           !.whole = (source[j] >= UploadLength)])
             \/ Step("failing")
      BY <1>22 DEF ReadAudio
    <2> QED  BY <1>22, <2>2, <2>3, <2>4, Parts DEF ReadAudio, TypeInv
  <1>23. CASE SaveWindow
    <2>1. worker.pc \in JobPCs /\ worker.pc = "save"
      BY <1>23 DEF SaveWindow, WorkerAt, WorkerPCs, JobPCs
    <2>2. WorkerInv'
      BY <1>23, <2>1, StepHeld DEF SaveWindow, WorkerPCs, JobPCs, TypeInv
    <2>3. worker.index \in Audible /\ worker.whole \in BOOLEAN
      BY <2>1 DEF TypeInv, WorkerInv, WorkerRecords
    <2>4. RowType'
      BY <1>23, <1>0, <2>1, <2>3, SaveWindowEffect DEF SaveWindow, RowType
    <2> QED  BY <1>23, <2>2, <2>4, Parts DEF SaveWindow, TypeInv
  <1>24. CASE CheckSaved
    <2>1. worker.pc \in JobPCs /\ worker.pc = "saved"
      BY <1>24 DEF CheckSaved, WorkerAt, WorkerPCs, JobPCs
    <2> DEFINE next == worker.index + 1
    <2>2. next \in 0..UploadLength
      BY <1>0, <2>1, UploadAssumption DEF WorkerInv, TypeInv, WorkerRecords
    <2>3. \/ worker' = [worker EXCEPT !.pc = "done"]
          \/ worker' = [worker EXCEPT !.pc = "check", !.index = next]
      BY <1>24 DEF CheckSaved
    <2> HIDE DEF next
    <2>4. worker' \in WorkerRecords /\ worker'.pc \in {"done", "check"} /\ worker'.job = j
      BY <1>0, <2>2, <2>3 DEF WorkerRecords, WorkerPCs
    <2>5. WorkerInv'
      BY <1>0, <2>1, <2>4 DEF WorkerInv
    <2> QED  BY <1>24, <2>5, Parts DEF CheckSaved, TypeInv
  <1>25. CASE SelectExpired
    <2> DEFINE todo == {i \in Jobs : row[i].expired /\ row[i].state \in Finished}
    <2>1. todo \in SUBSET Jobs /\ worker' = [worker EXCEPT !.pc = "sweep", !.todo = todo]
      BY <1>25 DEF SelectExpired
    <2> HIDE DEF todo
    <2>2. worker' \in WorkerRecords /\ worker'.pc = "sweep"
      BY <1>0, <2>1 DEF WorkerRecords, WorkerPCs
    <2>3. WorkerInv'
      BY <2>2 DEF WorkerInv, JobPCs
    <2> QED  BY <1>25, <2>3, Parts DEF SelectExpired, TypeInv
  <1>26. ASSUME NEW i \in Jobs, SweepLookup(i) PROVE TypeInv'
    <2> DEFINE todo == worker.todo \ {i}
    <2>1. /\ todo \in SUBSET Jobs
          /\ \/ worker' = [worker EXCEPT !.todo = todo]
             \/ worker' = [worker EXCEPT !.pc = "unlink", !.job = i, !.todo = todo]
             \/ worker' = [worker EXCEPT !.pc = "drop", !.job = i, !.todo = todo]
      BY <1>26, <1>0 DEF SweepLookup, WorkerRecords
    <2> HIDE DEF todo
    <2>2. /\ worker' \in WorkerRecords /\ worker'.pc \in {worker.pc, "unlink", "drop"}
          /\ worker'.pc # worker.pc => worker'.job = i
      BY <1>0, <2>1 DEF WorkerRecords, WorkerPCs
    <2>3. worker.pc = "sweep"
      BY <1>26 DEF SweepLookup, WorkerAt
    <2>4. WorkerInv'
      BY <2>2, <2>3 DEF WorkerInv, JobPCs
    <2> QED  BY <1>26, <2>4, Parts DEF SweepLookup, TypeInv
  <1>27. CASE SweepDrop
    <2>1. worker.pc \in JobPCs
      BY <1>27 DEF SweepDrop, WorkerAt, WorkerPCs, JobPCs
    <2>2. RowType'
      BY <1>27, <1>0, <2>1, DropRowEffect DEF SweepDrop, RowType
    <2>3. WorkerInv'
      BY <1>27, <1>0 DEF SweepDrop, WorkerInv, WorkerRecords, WorkerPCs, JobPCs
    <2> QED  BY <1>27, <2>2, <2>3, Parts DEF SweepDrop, TypeInv
  <1> QED
    BY <1>1, <1>2, <1>3, <1>4, <1>5, <1>6, <1>7, <1>8, <1>9, <1>10, <1>11, <1>12, <1>13, <1>14, <1>15, <1>16, <1>17, <1>18, <1>19, <1>20, <1>21, <1>22, <1>23, <1>24, <1>25, <1>26, <1>27
    DEF WorkerStep

LEMMA ForgetHeld ==
  ASSUME Forget
  PROVE  QueueType' /\ WorkerInv' /\ RequestInv'
  <1>1. worker' \in WorkerRecords /\ worker'.pc = "off"
    BY Zero DEF Forget, NoWorker, WorkerRecords, WorkerPCs
  <1>2. request' \in [Requests -> RequestRecords]
        /\ \A t \in Requests : request'[t].pc = "idle"
    BY Zero DEF Forget, IdleRequest, RequestRecords, RequestPCs
  <1> QED  BY <1>1, <1>2 DEF Forget, QueueType, WorkerInv, RequestInv, JobPCs

LEMMA OrdersType ==
  ASSUME NEW S \in SUBSET Jobs, NEW q \in Orders(S)
  PROVE  q \in Seq(Jobs \cup {Poison}) /\ ToSet(q) = S
  <1>1. Cardinality(S) \in Nat
    BY JobAssumption, FS_Subset, FS_CardinalityType
  <1>2. q \in Seq(S) /\ ToSet(q) = S
    BY <1>1 DEF Orders
  <1> QED  BY <1>2

LEMMA RecoveredType ==
  ASSUME row \in [Jobs -> Rows], source \in [Jobs -> Absent..UploadLength], NEW j \in Jobs
  PROVE  /\ RecoveredRow(j) \in Rows
         /\ RecoveredSource(j) \in Absent..UploadLength
  <1>1. row[j] \in Rows /\ row[j].offset \in 0..UploadLength
        /\ source[j] \in Absent..UploadLength
    BY DEF Rows
  <1>2. RecoveredSource(j) \in Absent..UploadLength
    BY <1>1, UploadAssumption DEF RecoveredSource, Absent
  <1>3. CASE RecoveredRow(j) = row[j]
    BY <1>1, <1>2, <1>3
  <1>4. CASE RecoveredRow(j) = FailedRow(row[j])
    BY <1>1, <1>2, <1>4, FailedRowEffect
  <1>5. CASE source[j] # Absent /\ RecoveredRow(j) =
               [row[j] EXCEPT !.offset = IF source[j] < @ THEN source[j] ELSE @]
    <2> DEFINE b == IF source[j] < row[j].offset THEN source[j] ELSE row[j].offset
    <2>1. b \in 0..UploadLength
      BY <1>1, <1>5, UploadAssumption DEF Absent
    <2>2. RecoveredRow(j) = [row[j] EXCEPT !.offset = b]
      BY <1>5
    <2> HIDE DEF b
    <2>3. RecoveredRow(j) \in Rows
      BY <1>1, <2>1, <2>2 DEF Rows
    <2> QED  BY <1>2, <2>3
  <1> QED  BY <1>3, <1>4, <1>5 DEF RecoveredRow

LEMMA RequeuedType ==
  ASSUME NEW r \in Rows
  PROVE  /\ RequeuedRow(r) \in Rows
         /\ RequeuedRow(r).key = r.key /\ RequeuedRow(r).offset = r.offset
         /\ RequeuedRow(r).probed = r.probed /\ RequeuedRow(r).windows = r.windows
         /\ RequeuedRow(r).clipped = r.clipped
         /\ r.state # "processing" => RequeuedRow(r) = r
         /\ r.state = "processing" =>
              /\ RequeuedRow(r).state = "queued"
              /\ RequeuedRow(r).cancelRequested = FALSE
  BY StateNames, Zero DEF RequeuedRow, Rows

LEMMA EnvironmentTypes ==
  ASSUME TypeInv, Environment
  PROVE  TypeInv'
  <1> USE DEF disk
  <1>0. /\ row \in [Jobs -> Rows]
        /\ source \in [Jobs -> Absent..UploadLength] /\ dirs \subseteq Jobs
        /\ temp \subseteq Jobs /\ queue \in Seq(Jobs \cup {Poison})
        /\ Absent \in Absent..UploadLength /\ 0 \in Absent..UploadLength
    BY UploadAssumption DEF TypeInv, RowType, DiskType, QueueType, Absent
  <1>1. CASE Crash
    BY <1>1, ForgetHeld, Parts DEF Crash, TypeInv
  <1>2. ASSUME NEW j \in Jobs, CrashInCreate(j) PROVE TypeInv'
    <2>1. DiskType'
      BY <1>0, <1>2 DEF CrashInCreate, HalfMade, DiskType
    <2> QED  BY <1>2, <2>1, ForgetHeld, Parts DEF CrashInCreate, TypeInv
  <1>3. CASE Stop
    <2>1. QueueType'
      BY <1>0, <1>3 DEF Stop, QueueType, TypeInv
    <2> QED  BY <1>3, <2>1, Parts DEF Stop, TypeInv
  <1>4. CASE Stopped
    BY <1>4, ForgetHeld, Parts DEF Stopped, TypeInv
  <1>5. ASSUME NEW j \in Jobs, Expire(j) PROVE TypeInv'
    <2>1. RowType'
      BY <1>0, <1>5 DEF Expire, RowType, Rows
    <2> QED  BY <1>5, <2>1, Parts DEF Expire, TypeInv
  <1>6. ASSUME NEW j \in Jobs, LoseAudio(j) PROVE TypeInv'
    <2>1. PICK left \in Absent .. (source[j] - 1) :
            source' = [source EXCEPT ![j] = left]
      BY <1>6 DEF LoseAudio
    <2>2. left \in Absent..UploadLength
      BY <1>0, UploadAssumption DEF Absent
    <2>3. DiskType'
      BY <1>0, <1>6, <2>1, <2>2 DEF LoseAudio, DiskType
    <2> QED  BY <1>6, <2>3, Parts DEF LoseAudio, TypeInv
  <1>7. CASE Open
    <2>1. row' = [j \in Jobs |-> RecoveredRow(j)] /\ source' = [j \in Jobs |-> RecoveredSource(j)]
      BY <1>7 DEF Open
    <2>2. RowType' /\ DiskType'
      BY <1>0, <1>7, <2>1, RecoveredType DEF Open, RowType, DiskType
    <2>3. QueueType'
      BY <1>7 DEF Open, QueueType, TypeInv
    <2> QED  BY <1>7, <2>2, <2>3, Parts DEF Open, TypeInv
  <1>8. ASSUME NEW j \in Jobs, StartCleanup(j) PROVE TypeInv'
    <2>1. RowType'
      BY <1>0, <1>8, DropRowEffect DEF StartCleanup, RowType
    <2>2. DiskType'
      BY <1>0, <1>8 DEF StartCleanup, DiskType
    <2> QED  BY <1>8, <2>1, <2>2, Parts DEF StartCleanup, TypeInv
  <1>9. CASE Start
    <2> DEFINE S == {j \in Jobs : row[j].state \in {"queued", "processing"}}
    <2>1. S \in SUBSET Jobs /\ queue' \in Orders(S)
      BY <1>9 DEF Start
    <2>2. QueueType'
      <3> HIDE DEF S
      <3> QED  BY <1>9, <2>1, OrdersType DEF Start, QueueType, TypeInv
    <2>3. RowType'
      BY <1>0, <1>9, RequeuedType DEF Start, RowType
    <2>4. WorkerInv'
      BY <1>9, NoWorkerHeld DEF Start, WorkerPCs, JobPCs
    <2> QED  BY <1>9, <2>2, <2>3, <2>4, Parts DEF Start, TypeInv
  <1> QED
    BY <1>1, <1>2, <1>3, <1>4, <1>5, <1>6, <1>7, <1>8, <1>9 DEF Environment

LEMMA TypeInit ==
  ASSUME Init
  PROVE  TypeInv
  <1>1. RowType /\ DiskType /\ QueueType
    BY NoRowType, UploadAssumption DEF Init, RowType, DiskType, QueueType, Absent
  <1>2. worker \in WorkerRecords /\ worker.pc = "off"
    BY Zero DEF Init, NoWorker, WorkerRecords, WorkerPCs
  <1>3. RequestInv
    BY Zero DEF Init, IdleRequest, RequestInv, RequestRecords, RequestPCs
  <1> QED  BY <1>1, <1>2, <1>3 DEF TypeInv, WorkerInv, JobPCs

LEMMA TypeNext ==
  ASSUME TypeInv, [Next]_vars
  PROVE  TypeInv'
  <1>1. CASE UNCHANGED vars
    BY <1>1, Parts DEF vars, TypeInv
  <1> QED
    BY <1>1, ClientTypes, RequestTypes, WorkerTypes, EnvironmentTypes DEF Next

\* The invariant the theorems below build on.
THEOREM TypeInvariant == Spec => []TypeInv
  <1>1. Init => TypeInv
    BY TypeInit
  <1>2. TypeInv /\ [Next]_vars => TypeInv'
    BY TypeNext
  <1> QED  BY <1>1, <1>2, PTL DEF Spec

\* Whatever the clients, the worker, the crashes and the restarts do, every
\* row, offset, window index, queue entry and thread stays in its domain.
THEOREM TypeCorrect == Spec => []TypeOK
  <1>1. TypeInv => TypeOK
    BY DEF TypeInv, TypeOK, RowType, DiskType, QueueType, WorkerInv, RequestInv
  <1> QED  BY <1>1, TypeInvariant, PTL

----------------------------------------------------------------------------
(* Safety.  What one step may do to one row is stated once (RowMove); the     *)
(* invariants about rows follow from it.                                      *)

\* The columns the invariants below speak of are left alone.
Kept(j) ==
  /\ row'[j].key = row[j].key /\ row'[j].state = row[j].state
  /\ row'[j].probed = row[j].probed
  /\ row'[j].cancelRequested = row[j].cancelRequested
  /\ row[j].windows \subseteq row'[j].windows

Created(j) ==
  /\ ~Exists(j)
  /\ row'[j].state = "uploading" /\ row'[j].cancelRequested = FALSE
  /\ worker.job # j
  /\ \A i \in Jobs \ {j} : row'[i] = row[i]

Dropped(j) == row'[j] = NoRow

\* One of the UPDATE statements that write the state.
Moved(j) ==
  /\ Exists(j) /\ row'[j].state # "none"
  /\ row'[j].key = row[j].key
  /\ row'[j].cancelRequested <=> row'[j].state = "cancelled"
  /\ row[j].probed => row'[j].probed
  /\ row[j].windows \subseteq row'[j].windows
  /\ row'[j].state = "queued" => row'[j].probed \/ row[j].state = "processing"
  /\ row'[j].state = "processing" => row[j].state = "queued"
  /\ row'[j].state = "succeeded" => WorkerAt("succeed") /\ worker.job = j

RowMove(j) == Kept(j) \/ Created(j) \/ Dropped(j) \/ Moved(j)

LEMMA RowStays ==
  ASSUME UNCHANGED row
  PROVE  \A j \in Jobs : RowMove(j)
  BY DEF RowMove, Kept

LEMMA OneRowMoves ==
  ASSUME NEW j \in Jobs, RowMove(j), \A i \in Jobs \ {j} : row'[i] = row[i]
  PROVE  \A i \in Jobs : RowMove(i)
  BY DEF RowMove, Kept

LEMMA RowMovesClient ==
  ASSUME TypeInv, NEW t \in Requests, ClientCall(t) \/ RequestStep(t)
  PROVE  \A j \in Jobs : RowMove(j)
  <1>0. row \in [Jobs -> Rows] /\ request[t] \in RequestRecords
        /\ (request[t].pc \notin {"idle", "admit", "create"} => request[t].job \in Jobs)
    BY DEF TypeInv, RowType, RequestInv
  <1>1. ASSUME NEW j \in Jobs, CreateRow(t, j)
        PROVE  \A i \in Jobs : RowMove(i)
    <2>1. request[t].key \in Keys \cup {NoKey}
      BY <1>0 DEF RequestRecords
    <2>2. Created(j)
      BY <1>0, <1>1, <2>1, NewRowType DEF CreateRow, Created, Fresh
    <2> QED  BY <1>0, <1>1, <2>2, OneRowMoves DEF Created, RowMove
  <1>2. CASE UploadCommit(t)
    <2> DEFINE j == request[t].job
    <2>1. j \in Jobs /\ request[t].upto \in 0..UploadLength
      BY <1>0, <1>2 DEF UploadCommit, At, RequestRecords
    <2>2. /\ \A i \in Jobs \ {j} : row'[i] = row[i]
          /\ Kept(j)
      BY <1>0, <1>2, <2>1, OffsetEffect DEF UploadCommit, Kept
    <2> QED  BY <2>1, <2>2, OneRowMoves DEF RowMove
  <1>3. ASSUME NEW j \in Jobs, QueueRow(j)
        PROVE  \A i \in Jobs : RowMove(i)
    <2>1. Moved(j) \/ Kept(j)
      BY <1>0, <1>3, QueueRowEffect DEF Moved, Kept
    <2> QED  BY <1>0, <1>3, <2>1, QueueRowEffect, OneRowMoves DEF RowMove
  <1>4. CASE CompleteQueue(t)
    BY <1>0, <1>3, <1>4 DEF CompleteQueue, At
  <1>5. ASSUME NEW j \in Jobs, Cancel(t, j)
        PROVE  \A i \in Jobs : RowMove(i)
    <2>1. Moved(j)
      BY <1>0, <1>5, CancelRowEffect DEF Cancel, Moved, Exists
    <2> QED  BY <1>0, <1>5, <2>1, CancelRowEffect, OneRowMoves DEF RowMove, Cancel
  <1>6. CASE ResumeReopen(t)
    <2> DEFINE j == request[t].job
    <2>1. j \in Jobs /\ ReopenRow(j)
      BY <1>0, <1>6 DEF ResumeReopen, At
    <2>2. Moved(j) \/ Kept(j)
      BY <1>0, <2>1, ReopenRowEffect DEF Moved, Kept
    <2> QED  BY <1>0, <2>1, <2>2, ReopenRowEffect, OneRowMoves DEF RowMove
  <1>7. CASE ResumeQueue(t)
    BY <1>0, <1>3, <1>7 DEF ResumeQueue, At
  <1>8. CASE DeleteDrop(t)
    <2> DEFINE j == request[t].job
    <2>1. j \in Jobs /\ DropRow(j)
      BY <1>0, <1>8 DEF DeleteDrop, At
    <2>2. Dropped(j)
      BY <1>0, <2>1, DropRowEffect DEF Dropped
    <2> QED  BY <1>0, <2>1, <2>2, DropRowEffect, OneRowMoves DEF RowMove
  <1>9. \/ UNCHANGED row
        \/ \E j \in Jobs : CreateRow(t, j)
        \/ \E j \in Jobs : Cancel(t, j)
        \/ UploadCommit(t) \/ CompleteQueue(t) \/ ResumeReopen(t)
        \/ ResumeQueue(t) \/ DeleteDrop(t)
    BY DEF ClientCall, RequestStep, UploadCheck, CompleteCheck, ResumeCheck, DeleteCheck,
           UploadWrite, CompleteProbe, CompleteReread, Put, ResumeRead, ResumeReread,
           DeleteLookup, DeleteUnlink, DeleteRmdir, CreateLookup, CreateAdmit, CreateFound,
           CreateFails
  <1> QED
    BY <1>1, <1>2, <1>4, <1>5, <1>6, <1>7, <1>8, <1>9, RowStays

LEMMA RowMovesWorker ==
  ASSUME TypeInv, WorkerStep
  PROVE  \A j \in Jobs : RowMove(j)
  <1> DEFINE j == worker.job
  <1>0. row \in [Jobs -> Rows] /\ (worker.pc \in JobPCs => j \in Jobs)
        /\ (worker.pc = "save" => worker.index \in Audible /\ worker.whole \in BOOLEAN)
    BY DEF TypeInv, RowType, WorkerInv, WorkerRecords
  <1>1. CASE Begin
    <2>1. CASE row[j].state = "queued"
      <3>1. j \in Jobs /\ BeginRow(j)
        BY <1>0, <1>1, <2>1 DEF Begin, WorkerAt, JobPCs, WorkerPCs
      <3>2. Moved(j)
        BY <1>0, <3>1, <2>1, BeginRowEffect DEF Moved, Exists
      <3> QED  BY <1>0, <3>1, <3>2, BeginRowEffect, OneRowMoves DEF RowMove
    <2> QED  BY <1>1, <2>1, RowStays DEF Begin
  <1>2. CASE SaveWindow
    <2>1. j \in Jobs /\ SaveWindowRow(j, worker.index, worker.whole)
          /\ worker.index \in Audible /\ worker.whole \in BOOLEAN
      BY <1>0, <1>2 DEF SaveWindow, WorkerAt, JobPCs, WorkerPCs
    <2>2. Kept(j)
      BY <1>0, <2>1, SaveWindowEffect DEF Kept
    <2> QED  BY <1>0, <2>1, <2>2, SaveWindowEffect, OneRowMoves DEF RowMove
  <1>3. CASE Diarize \/ Publish
    <2>1. j \in Jobs /\ PhaseRow(j)
      BY <1>0, <1>3 DEF Diarize, Publish, WorkerAt, JobPCs, WorkerPCs
    <2>2. Kept(j)
      BY <1>0, <2>1, PhaseRowEffect DEF Kept
    <2> QED  BY <1>0, <2>1, <2>2, PhaseRowEffect, OneRowMoves DEF RowMove
  <1>4. CASE Succeed
    <2>1. j \in Jobs /\ SucceedRow(j) /\ WorkerAt("succeed")
      BY <1>0, <1>4 DEF Succeed, WorkerAt, JobPCs, WorkerPCs
    <2>2. Moved(j) \/ Kept(j)
      BY <1>0, <2>1, SucceedRowEffect DEF Moved, Kept
    <2> QED  BY <1>0, <2>1, <2>2, SucceedRowEffect, OneRowMoves DEF RowMove
  <1>5. CASE Fail
    <2>1. j \in Jobs /\ FailRow(j)
      BY <1>0, <1>5 DEF Fail, WorkerAt, JobPCs, WorkerPCs
    <2>2. Moved(j) \/ Kept(j)
      BY <1>0, <2>1, FailRowEffect DEF Moved, Kept
    <2> QED  BY <1>0, <2>1, <2>2, FailRowEffect, OneRowMoves DEF RowMove
  <1>6. CASE SweepDrop
    <2>1. j \in Jobs /\ DropRow(j)
      BY <1>0, <1>6 DEF SweepDrop, WorkerAt, JobPCs, WorkerPCs
    <2>2. Dropped(j)
      BY <1>0, <2>1, DropRowEffect DEF Dropped
    <2> QED  BY <1>0, <2>1, <2>2, DropRowEffect, OneRowMoves DEF RowMove
  <1>7. \/ UNCHANGED row \/ Begin \/ SaveWindow \/ Diarize \/ Publish
        \/ Succeed \/ Fail \/ SweepDrop
    BY DEF WorkerStep, Loop, Take, GetTimeout, Snapshot, Activate, ReadWindows, CheckWindow,
           ReadAudio, WriteTemp, Infer, CheckSaved, CheckLast, Finalize, CheckFinalized,
           Deactivate, SelectExpired, SweepEnd, SweepLookup, SweepUnlink, SweepRmdir
  <1> QED
    BY <1>1, <1>2, <1>3, <1>4, <1>5, <1>6, <1>7, RowStays

LEMMA RowMovesEnvironment ==
  ASSUME TypeInv, Environment
  PROVE  \A j \in Jobs : RowMove(j)
  <1>0. row \in [Jobs -> Rows]
    BY DEF TypeInv, RowType
  <1>1. ASSUME NEW j \in Jobs, Expire(j) PROVE \A i \in Jobs : RowMove(i)
    <2>1. Kept(j) /\ \A i \in Jobs \ {j} : row'[i] = row[i]
      BY <1>0, <1>1 DEF Expire, Kept, Rows
    <2> QED  BY <2>1, OneRowMoves DEF RowMove
  <1>2. ASSUME NEW j \in Jobs, StartCleanup(j) PROVE \A i \in Jobs : RowMove(i)
    <2>1. Dropped(j) /\ \A i \in Jobs \ {j} : row'[i] = row[i]
      BY <1>0, <1>2, DropRowEffect DEF StartCleanup, Dropped
    <2> QED  BY <2>1, OneRowMoves DEF RowMove
  <1>3. ASSUME Open, NEW j \in Jobs PROVE RowMove(j)
    <2>1. row'[j] = RecoveredRow(j) /\ row[j] \in Rows
      BY <1>0, <1>3 DEF Open
    <2>2. CASE RecoveredRow(j) = FailedRow(row[j]) /\ row[j].state # "none"
      <3>1. /\ row'[j].state = "failed" /\ row'[j].cancelRequested = FALSE
            /\ row'[j].key = row[j].key /\ row'[j].probed = row[j].probed
            /\ row'[j].windows = row[j].windows
        <4> DEFINE r == row[j]
        <4>1. r \in Rows BY <2>1
        <4> HIDE DEF r
        <4>2. /\ FailedRow(r).state = "failed" /\ FailedRow(r).cancelRequested = FALSE
              /\ FailedRow(r).key = r.key /\ FailedRow(r).probed = r.probed
              /\ FailedRow(r).windows = r.windows
          BY <4>1, FailedRowEffect
        <4> QED BY <2>1, <2>2, <4>2 DEF r
      <3>2. Moved(j)
        BY <2>2, <3>1 DEF Moved, Exists
      <3> QED  BY <3>2 DEF RowMove
    <2>3. ASSUME NEW b, RecoveredRow(j) = [row[j] EXCEPT !.offset = b]
          PROVE  RowMove(j)
      <3>1. Kept(j)
        BY <2>1, <2>3 DEF Kept, Rows
      <3> QED  BY <3>1 DEF RowMove
    <2>4. CASE RecoveredRow(j) = row[j]
      BY <2>1, <2>4 DEF RowMove, Kept
    <2> QED  BY <2>2, <2>3, <2>4 DEF RecoveredRow
  <1>4. ASSUME Start, NEW j \in Jobs PROVE RowMove(j)
    <2>1. row'[j] = RequeuedRow(row[j]) /\ row[j] \in Rows
      BY <1>0, <1>4 DEF Start
    <2>2. CASE row[j].state = "processing"
      <3>1. /\ row'[j].state = "queued" /\ row'[j].cancelRequested = FALSE
            /\ row'[j].key = row[j].key /\ row'[j].probed = row[j].probed
            /\ row'[j].windows = row[j].windows
        <4> DEFINE r == row[j]
        <4>1. r \in Rows /\ r.state = "processing" BY <2>1, <2>2
        <4> HIDE DEF r
        <4>2. /\ RequeuedRow(r).state = "queued" /\ RequeuedRow(r).cancelRequested = FALSE
            /\ RequeuedRow(r).key = r.key
            /\ RequeuedRow(r).windows = r.windows
          BY <4>1, RequeuedType
        <4>3. RequeuedRow(r).probed = r.probed
          BY <4>1, RequeuedType
        <4> QED BY <2>1, <4>2, <4>3 DEF r
      <3>2. Moved(j)
        BY <2>2, <3>1 DEF Moved, Exists
      <3> QED  BY <3>2 DEF RowMove
    <2>3. CASE row[j].state # "processing"
      BY <2>1, <2>3, RequeuedType DEF RowMove, Kept
    <2> QED  BY <2>2, <2>3
  <1>5. \/ UNCHANGED row \/ Open \/ Start
        \/ \E j \in Jobs : Expire(j) \/ StartCleanup(j)
    BY DEF Environment, Crash, Stop, Stopped, CrashInCreate, LoseAudio
  <1> QED  BY <1>1, <1>2, <1>3, <1>4, <1>5, RowStays


LEMMA RowMoves ==
  ASSUME TypeInv, [Next]_vars
  PROVE  \A j \in Jobs : RowMove(j)
  BY RowMovesClient, RowMovesWorker, RowMovesEnvironment, RowStays DEF Next, vars

----------------------------------------------------------------------------
(* Invariants about rows.                                                   *)

\* The worker polls cancel_requested, clients read the state: every statement
\* that writes one of the two writes the other to match.
THEOREM CancelFlag == Spec => []CancelFlagAgrees
  <1>1. Init => CancelFlagAgrees
    BY DEF Init, NoRow, CancelFlagAgrees
  <1>2. ASSUME TypeInv, CancelFlagAgrees, [Next]_vars PROVE CancelFlagAgrees'
    <2> SUFFICES ASSUME NEW j \in Jobs
                 PROVE  row'[j].cancelRequested <=> row'[j].state = "cancelled"
      BY DEF CancelFlagAgrees
    <2>1. RowMove(j)
      BY <1>2, RowMoves
    <2>2. CASE Kept(j)
      BY <1>2, <2>2 DEF Kept, CancelFlagAgrees
    <2>3. CASE Created(j)
      BY <2>3 DEF Created
    <2>4. CASE Dropped(j)
      BY <2>4 DEF Dropped, NoRow
    <2>5. CASE Moved(j)
      BY <2>5 DEF Moved
    <2> QED  BY <2>1, <2>2, <2>3, <2>4, <2>5 DEF RowMove
  <1> QED  BY <1>1, <1>2, TypeInvariant, PTL DEF Spec

\* Windows already paid for stay paid for: only deleting a job, or its
\* expiry, removes a committed window.
THEOREM Checkpoints == Spec => CheckpointsSurvive
  <1>1. ASSUME TypeInv, [Next]_vars
        PROVE  \A j \in Jobs : Exists(j) /\ Exists(j)' => row[j].windows \subseteq row'[j].windows
    <2> SUFFICES ASSUME NEW j \in Jobs, Exists(j), Exists(j)'
                 PROVE  row[j].windows \subseteq row'[j].windows
      OBVIOUS
    <2>1. RowMove(j)
      BY <1>1, RowMoves
    <2> QED  BY <2>1 DEF RowMove, Kept, Created, Dropped, Moved, Exists, NoRow
  <1> QED  BY <1>1, TypeInvariant, PTL DEF Spec, CheckpointsSurvive

\* From begin_processing to the end of the job the worker has it.
RunPCs == {"snapshot", "activate", "windows", "check", "read", "temp", "infer", "save",
           "saved", "last", "diarize", "finalize", "finalized", "publish", "succeed"}

LEMMA WorkerMoves ==
  ASSUME TypeInv, [Next]_vars, worker'.pc \in RunPCs
  PROVE  /\ worker.job \in Jobs
         /\ worker'.job = worker.job
         /\ worker.pc \in RunPCs \/ row[worker.job].state = "queued"
  <1>0. worker \in WorkerRecords /\ (worker.pc \in JobPCs => worker.job \in Jobs)
        /\ RunPCs \subseteq JobPCs
    BY DEF TypeInv, WorkerInv, RunPCs, JobPCs, WorkerPCs
  <1>1. CASE UNCHANGED worker
    BY <1>0, <1>1
  <1>2. CASE WorkerStep
    <2> USE <1>0 DEF RunPCs, JobPCs, WorkerPCs, WorkerAt
    <2>1. CASE Loop \/ GetTimeout \/ SweepEnd
      BY <2>1, StepEffect DEF Loop, GetTimeout, SweepEnd
    <2>2. CASE Take
      BY <2>2 DEF Take, WorkerRecords
    <2>3. CASE Begin
      <3>1. CASE row[worker.job].state = "queued"
        BY <2>3, <3>1, StepEffect DEF Begin
      <3>2. CASE row[worker.job].state # "queued"
        BY <2>3, <3>2, NoWorkerType DEF Begin, LeaveJob
      <3> QED  BY <3>1, <3>2
    <2>4. CASE Snapshot
      BY <2>4, NoWorkerType DEF Snapshot, LeaveJob, WorkerRecords
    <2>5. CASE Activate \/ WriteTemp \/ Infer \/ SaveWindow \/ CheckLast
      BY <2>5, StepEffect DEF Activate, WriteTemp, Infer, SaveWindow, CheckLast
    <2>6. CASE Diarize \/ Finalize \/ CheckFinalized \/ Publish \/ Succeed \/ Fail
      BY <2>6, StepEffect DEF Diarize, Finalize, CheckFinalized, Publish, Succeed, Fail
    <2>7. CASE ReadWindows \/ CheckWindow \/ CheckSaved
      <3>1. worker.pc \in RunPCs
        BY <2>7 DEF ReadWindows, CheckWindow, CheckSaved
      <3>2. ASSUME NEW i, NEW pc, worker' = [worker EXCEPT !.pc = pc, !.index = i]
            PROVE  worker'.job = worker.job
        BY <3>2 DEF WorkerRecords
      <3>3. ASSUME NEW c, worker' = [worker EXCEPT !.pc = "check", !.completed = c]
            PROVE  worker'.job = worker.job
        BY <3>3 DEF WorkerRecords
      <3>4. ASSUME NEW pc, worker' = [worker EXCEPT !.pc = pc]
            PROVE  worker'.job = worker.job
        BY <3>4 DEF WorkerRecords
      <3>5. ASSUME NEW i, worker' = [worker EXCEPT !.index = i]
            PROVE  worker'.job = worker.job
        BY <3>5 DEF WorkerRecords
      <3>6. worker'.job = worker.job
        BY <2>7, <3>2, <3>3, <3>4, <3>5 DEF ReadWindows, CheckWindow, CheckSaved
      <3> QED  BY <3>1, <3>6
    <2>8. CASE ReadAudio
      BY <2>8, StepEffect DEF ReadAudio, WorkerRecords
    <2>9. CASE Deactivate
      BY <2>9, NoWorkerType DEF Deactivate, LeaveJob
    <2>10. CASE SelectExpired
      BY <2>10 DEF SelectExpired, WorkerRecords
    <2>11. ASSUME NEW j \in Jobs, SweepLookup(j) PROVE FALSE
      BY <2>11 DEF SweepLookup, WorkerRecords
    <2>12. CASE SweepUnlink \/ SweepRmdir
      <3>1. CASE Step("rmdir") \/ Step("drop")
        <4>1. worker'.pc \in {"rmdir", "drop"}
          BY <3>1, StepEffect
        <4> QED  BY <4>1
      <3>2. CASE Die
        <4>1. worker'.pc = "dead"
          BY <3>2, NoWorkerType DEF Die
        <4> QED  BY <4>1
      <3> QED  BY <2>12, <3>1, <3>2 DEF SweepUnlink, SweepRmdir
    <2>13. CASE SweepDrop
      BY <2>13 DEF SweepDrop, WorkerRecords
    <2> QED
      BY <1>2, <2>1, <2>2, <2>3, <2>4, <2>5, <2>6, <2>7, <2>8, <2>9, <2>10, <2>11, <2>12,
         <2>13 DEF WorkerStep
  <1>3. CASE Environment /\ worker' # worker
    <2>1. worker' = NoWorker \/ worker' = [NoWorker EXCEPT !.pc = "loop"]
      BY <1>3 DEF Environment, Crash, CrashInCreate, Stop, Stopped, Expire, LoseAudio, Open,
                  StartCleanup, Start, Forget
    <2>2. worker'.pc \in {"off", "loop"}
      BY <2>1, NoWorkerType DEF NoWorker, WorkerPCs
    <2> QED  BY <2>2 DEF RunPCs
  <1>4. ASSUME NEW t \in Requests, ClientCall(t) \/ RequestStep(t) PROVE UNCHANGED worker
    BY <1>4 DEF ClientCall, RequestStep, CreateLookup, CreateAdmit, CreateFound, CreateFails,
                CreateRow, HalfMade, UploadCheck, CompleteCheck, Cancel,
                ResumeCheck, DeleteCheck, UploadWrite, UploadCommit, CompleteProbe,
                CompleteQueue, CompleteReread, Put, ResumeRead, ResumeReopen, ResumeQueue,
                ResumeReread, DeleteLookup, DeleteUnlink, DeleteRmdir, DeleteDrop
  <1> QED  BY <1>1, <1>2, <1>3, <1>4 DEF Next, vars

\* The job in the worker's hands is probed too: it was queued when it was
\* begun, and no statement forgets a duration.
ProbedInv ==
  /\ RunnableIsProbed
  /\ worker.pc \in RunPCs /\ Exists(worker.job) => row[worker.job].probed

LEMMA ProbedAlways == Spec => []ProbedInv
  <1>1. Init => ProbedInv
    BY DEF Init, NoRow, NoWorker, ProbedInv, RunnableIsProbed, RunPCs
  <1>2. ASSUME TypeInv, ProbedInv, [Next]_vars PROVE ProbedInv'
    <2>1. \A j \in Jobs : RowMove(j)
      BY <1>2, RowMoves
    <2>2. ASSUME NEW j \in Jobs, row'[j].state \in {"queued", "processing", "succeeded"}
          PROVE  row'[j].probed
      <3>1. CASE Kept(j)
        BY <1>2, <2>2, <3>1 DEF Kept, ProbedInv, RunnableIsProbed
      <3>2. CASE Moved(j)
        BY <1>2, <2>2, <3>2 DEF Moved, ProbedInv, RunnableIsProbed, RunPCs, WorkerAt
      <3> QED  BY <2>1, <2>2, <3>1, <3>2 DEF RowMove, Created, Dropped, NoRow
    <2>3. ASSUME worker'.pc \in RunPCs, row'[worker'.job].state # "none"
          PROVE  row'[worker'.job].probed
      <3> DEFINE j == worker.job
      <3>1. /\ j \in Jobs /\ worker'.job = j
            /\ worker.pc \in RunPCs \/ row[j].state = "queued"
        BY <1>2, <2>3, WorkerMoves
      <3>2. Exists(j) /\ (row[j].probed => row'[j].probed)
        BY <2>1, <2>3, <3>1 DEF RowMove, Kept, Created, Dropped, Moved, NoRow, Exists
      <3>3. row[j].probed
        BY <1>2, <3>1, <3>2 DEF ProbedInv, RunnableIsProbed
      <3> QED  BY <3>1, <3>2, <3>3
    <2> QED  BY <2>2, <2>3 DEF ProbedInv, RunnableIsProbed, Exists
  <1> QED  BY <1>1, <1>2, TypeInvariant, PTL DEF Spec

\* The worker and recover_queued never meet a job without a duration, and
\* no job succeeds that was never probed.
THEOREM Probed == Spec => []RunnableIsProbed
  BY ProbedAlways, PTL DEF ProbedInv

----------------------------------------------------------------------------
(* Invariants that relate a row, its files and the threads at work on it.   *)

\* A thread, or the queue that feeds one, will act on job j.
Held(j) ==
  \/ worker.job = j
  \/ j \in ToSet(queue)
  \/ \E t \in Requests : request[t].job = j

\* A thread is at pc with job j.
Working(pc, j) ==
  \/ worker.pc = pc /\ worker.job = j
  \/ \E t \in Requests : request[t].pc = pc /\ request[t].job = j

\* What is between a row and its files is always a thread: one that emptied
\* the directory, one that removed it, one that wrote bytes not yet committed.
JobFiles(j) ==
  /\ (source[j] # Absent \/ j \in temp) => j \in dirs
  /\ (source[j] > 0 \/ j \in temp) => Exists(j)
  /\ Held(j) => (Exists(j) \/ j \notin dirs)
  /\ Working("rmdir", j) => source[j] = Absent
  /\ Working("drop", j) => j \notin dirs

JobOffset(j) ==
  /\ server # "down" /\ Exists(j) /\ source[j] # Absent => row[j].offset <= source[j]
  /\ \A t \in Requests :
       request[t].pc = "commit" /\ request[t].job = j /\ source[j] # Absent
         => request[t].upto <= source[j]

\* Uvicorn serves requests only while the server is up.
Served == server # "up" => \A t \in Requests : request[t].pc = "idle"

FilesInv == Served /\ \A j \in Jobs : JobFiles(j) /\ JobOffset(j)

LEMMA QueueSets ==
  ASSUME NEW S, NEW q \in Seq(S), NEW e \in S
  PROVE  /\ ToSet(Append(q, e)) = ToSet(q) \cup {e}
         /\ q # <<>> => Head(q) \in ToSet(q) /\ ToSet(Tail(q)) \subseteq ToSet(q)
  BY DEF ToSet

LEMMA EmptyQueue == ToSet(<<>>) = {}
  BY DEF ToSet

\* What one step may do to thread t of the pool.
RequestMove(t) ==
  /\ request'[t].job \in Jobs => request'[t].job = request[t].job \/ Exists(request'[t].job)
  /\ request'[t].pc = "rmdir" => source'[request'[t].job] = Absent
  /\ request'[t].pc = "drop" => request'[t].job \notin dirs'
  /\ request'[t].pc = "commit" => request'[t].upto <= source'[request'[t].job]
  /\ \A u \in Requests \ {t} : request'[u] = request[u]

LEMMA RequestMoves ==
  ASSUME TypeInv, NEW t \in Requests, ClientCall(t) \/ RequestStep(t)
  PROVE  RequestMove(t)
  <1> DEFINE j == request[t].job
  <1>0. /\ request \in [Requests -> RequestRecords] /\ request[t] \in RequestRecords
        /\ source \in [Jobs -> Absent..UploadLength]
        /\ request[t].pc \notin {"idle", "admit", "create"} => j \in Jobs
    BY DEF TypeInv, RequestInv, DiskType
  <1> USE DEF RequestPCs, At, Idle
  <1>1. ASSUME UNCHANGED request, request[t].pc = "idle" PROVE RequestMove(t)
    BY <1>1 DEF RequestMove
  <1>2. CASE Return(t)
    BY <1>0, <1>2, ReturnEffect, JobAssumption DEF RequestMove
  <1>3. ASSUME NEW pc \in RequestPCs \ {"rmdir", "drop", "commit"}, Goto(t, pc)
        PROVE  RequestMove(t)
    BY <1>0, <1>3, GotoEffect DEF RequestMove
  <1>4. ASSUME NEW pc \in RequestPCs \ {"rmdir", "drop", "commit"}, NEW i \in Jobs,
               Call(t, pc, i), Exists(i)
        PROVE  RequestMove(t)
    BY <1>0, <1>4, CallEffect DEF RequestMove
  <1>5. ASSUME NEW i \in Jobs, NEW size \in 1..MaxChunk, UploadCheck(t, i, size)
        PROVE  RequestMove(t)
    <2>1. /\ request'[t].job = i /\ request'[t].pc = "write"
          /\ \A u \in Requests \ {t} : request'[u] = request[u]
      BY <1>0, <1>5 DEF UploadCheck
    <2> QED  BY <1>5, <2>1 DEF RequestMove, UploadCheck, Exists
  <1>6. CASE UploadWrite(t)
    <2>1. CASE Return(t)
      BY <1>2, <2>1
    <2>2. CASE /\ source' = [source EXCEPT ![j] = IF @ < request[t].upto THEN request[t].upto ELSE @]
               /\ Goto(t, "commit")
      <3>1. j \in Jobs /\ request[t].upto \in 0..UploadLength
        BY <1>0, <1>6 DEF UploadWrite, RequestRecords
      <3>2. request[t].upto <= source'[j]
        BY <1>0, <2>2, <3>1, UploadAssumption DEF Absent
      <3> QED  BY <1>0, <2>2, <3>1, <3>2, GotoEffect DEF RequestMove
    <2> QED  BY <1>6, <2>1, <2>2 DEF UploadWrite
  <1>7. CASE DeleteLookup(t)
    <2>1. CASE Goto(t, "drop") /\ j \notin dirs
      BY <1>0, <1>7, <2>1, GotoEffect DEF RequestMove, DeleteLookup, disk
    <2> QED  BY <1>2, <1>3, <1>7, <2>1 DEF DeleteLookup
  <1>8. CASE DeleteUnlink(t)
    <2>1. CASE Unlink(j) /\ Goto(t, "rmdir")
      <3>1. j \in Jobs
        BY <1>0, <1>8 DEF DeleteUnlink
      <3> QED  BY <1>0, <2>1, <3>1, GotoEffect DEF RequestMove, Unlink
    <2> QED  BY <1>2, <1>8, <2>1 DEF DeleteUnlink
  <1>9. CASE DeleteRmdir(t)
    <2>1. CASE Rmdir(j) /\ Goto(t, "drop")
      BY <1>0, <2>1, GotoEffect DEF RequestMove, Rmdir
    <2> QED  BY <1>2, <1>9, <2>1 DEF DeleteRmdir
  <1>10. CASE CompleteProbe(t) \/ CompleteQueue(t) \/ CompleteReread(t) \/ Put(t)
    BY <1>2, <1>3, <1>10 DEF CompleteProbe, CompleteQueue, CompleteReread, Put
  <1>11. CASE ResumeRead(t) \/ ResumeReopen(t) \/ ResumeQueue(t) \/ ResumeReread(t)
    BY <1>2, <1>3, <1>11 DEF ResumeRead, ResumeReopen, ResumeQueue, ResumeReread
  <1>12. CASE UploadCommit(t) \/ DeleteDrop(t)
    BY <1>2, <1>12 DEF UploadCommit, DeleteDrop
  <1>13. ASSUME NEW i \in Jobs, CompleteCheck(t, i) \/ ResumeCheck(t, i) \/ DeleteCheck(t, i)
         PROVE  RequestMove(t)
    BY <1>4, <1>13 DEF CompleteCheck, ResumeCheck, DeleteCheck, Exists
  <1>14. ASSUME NEW i \in Jobs, Cancel(t, i)
         PROVE  RequestMove(t)
    BY <1>1, <1>14 DEF Cancel
  <1>15. CASE Creating(t)
    BY <1>0, <1>15, CreatingEffect, JobAssumption DEF RequestMove, CreatePCs
  <1> QED
    BY <1>5, <1>6, <1>7, <1>8, <1>9, <1>10, <1>11, <1>12, <1>13, <1>14, <1>15
       DEF ClientCall, RequestStep, Creating

\* What one step of the worker may do to the worker and its queue.
WorkerMove ==
  /\ worker'.job \in Jobs =>
       worker'.job = worker.job \/ worker'.job \in ToSet(queue) \/ Exists(worker'.job)
  /\ worker'.pc = "rmdir" => source'[worker'.job] = Absent
  /\ worker'.pc = "drop" => worker'.job \notin dirs'
  /\ ToSet(queue') \subseteq ToSet(queue)

LEMMA WorkerMovesOn ==
  ASSUME TypeInv, WorkerStep
  PROVE  WorkerMove
  <1> DEFINE j == worker.job
  <1>0. /\ worker \in WorkerRecords /\ queue \in Seq(Jobs \cup {Poison})
        /\ source \in [Jobs -> Absent..UploadLength]
        /\ worker.pc \in JobPCs => j \in Jobs
    BY DEF TypeInv, WorkerInv, DiskType, QueueType
  <1> USE DEF WorkerPCs, WorkerAt
  <1>1. ASSUME NEW pc \in WorkerPCs \ {"rmdir", "drop"}, Step(pc), UNCHANGED queue
        PROVE  WorkerMove
    BY <1>0, <1>1, StepEffect DEF WorkerMove
  <1>2. ASSUME worker'.job = j, worker'.pc \notin {"rmdir", "drop"}, UNCHANGED queue
        PROVE  WorkerMove
    BY <1>2 DEF WorkerMove
  <1>3. ASSUME worker'.job = NoJob, worker'.pc \notin {"rmdir", "drop"}, UNCHANGED queue
        PROVE  WorkerMove
    BY <1>3, JobAssumption DEF WorkerMove
  <1>4. CASE LeaveJob = worker' /\ UNCHANGED queue
    <2>1. worker'.job = NoJob /\ worker'.pc = "cleanup"
      BY <1>4, NoWorkerType DEF LeaveJob
    <2> QED  BY <1>3, <1>4, <2>1
  <1>5. CASE Die /\ UNCHANGED queue
    <2>1. worker'.job = NoJob /\ worker'.pc = "dead"
      BY <1>5, NoWorkerType DEF Die
    <2> QED  BY <1>3, <1>5, <2>1
  <1>6. CASE Take
    <2>1. Head(queue) \in ToSet(queue) /\ ToSet(queue') \subseteq ToSet(queue)
      <3>1. ToSet(Tail(queue)) \subseteq ToSet(queue) /\ Head(queue) \in ToSet(queue)
        BY <1>0, <1>6, QueueSets DEF Take
      <3> QED  BY <1>6, <3>1 DEF Take
    <2>2. /\ worker'.job \in {j, Head(queue)}
          /\ worker'.pc \in {"off", "begin"}
      BY <1>0, <1>6 DEF Take, WorkerRecords
    <2> QED  BY <2>1, <2>2 DEF WorkerMove
  <1>7. CASE Loop \/ GetTimeout \/ Begin \/ Activate \/ WriteTemp \/ Infer \/ SaveWindow
    BY <1>1, <1>4, <1>7
       DEF Loop, GetTimeout, Begin, Activate, WriteTemp, Infer, SaveWindow
  <1>8. CASE CheckLast \/ Diarize \/ Finalize \/ CheckFinalized \/ Publish \/ Succeed \/ Fail
    BY <1>1, <1>8 DEF CheckLast, Diarize, Finalize, CheckFinalized, Publish, Succeed, Fail
  <1>9. CASE SweepEnd \/ Deactivate
    BY <1>1, <1>4, <1>9 DEF SweepEnd, Deactivate
  <1>10. CASE Snapshot
    <2>1. CASE worker' = [worker EXCEPT !.pc = "activate", !.total = row[j].total]
      <3>1. worker'.job = j /\ worker'.pc = "activate"
        BY <1>0, <2>1 DEF WorkerRecords
      <3> QED  BY <1>2, <1>10, <3>1 DEF Snapshot
    <2> QED  BY <1>4, <1>10, <2>1 DEF Snapshot
  <1>11. CASE ReadWindows \/ CheckWindow \/ CheckSaved \/ ReadAudio
    <2>1. UNCHANGED queue
      BY <1>11 DEF ReadWindows, CheckWindow, CheckSaved, ReadAudio
    <2>2. ASSUME NEW i, NEW pc \in {"check"}, worker' = [worker EXCEPT !.pc = pc, !.index = i]
          PROVE  WorkerMove
      BY <1>0, <1>2, <2>1, <2>2 DEF WorkerRecords
    <2>3. ASSUME NEW c, worker' = [worker EXCEPT !.pc = "check", !.completed = c]
          PROVE  WorkerMove
      BY <1>0, <1>2, <2>1, <2>3 DEF WorkerRecords
    <2>4. ASSUME NEW pc \in {"done", "last", "read"}, worker' = [worker EXCEPT !.pc = pc]
          PROVE  WorkerMove
      BY <1>0, <1>2, <2>1, <2>4 DEF WorkerRecords
    <2>5. ASSUME NEW i, worker.pc = "check", worker' = [worker EXCEPT !.index = i]
          PROVE  WorkerMove
      BY <1>0, <1>2, <2>1, <2>5 DEF WorkerRecords
    <2>6. ASSUME NEW b, worker' = [worker EXCEPT !.pc = "temp", !.whole = b]
          PROVE  WorkerMove
      BY <1>0, <1>2, <2>1, <2>6 DEF WorkerRecords
    <2>7. CASE ReadAudio
      BY <1>1, <2>1, <2>6, <2>7 DEF ReadAudio
    <2>8. CASE CheckWindow
      BY <2>4, <2>5, <2>8 DEF CheckWindow
    <2> QED  BY <1>11, <2>2, <2>3, <2>4, <2>7, <2>8 DEF ReadWindows, CheckSaved
  <1>12. CASE SelectExpired \/ SweepDrop
    <2>1. /\ worker'.job \in {j, NoJob} /\ worker'.pc = "sweep"
          /\ UNCHANGED queue
      BY <1>0, <1>12 DEF SelectExpired, SweepDrop, WorkerRecords
    <2> QED  BY <1>2, <1>3, <2>1
  <1>13. ASSUME NEW i \in Jobs, SweepLookup(i) PROVE WorkerMove
    <2>1. UNCHANGED <<queue, dirs>> /\ worker.pc = "sweep"
      BY <1>13 DEF SweepLookup, disk
    <2>2. CASE worker' = [worker EXCEPT !.todo = @ \ {i}]
      BY <1>0, <1>2, <2>1, <2>2 DEF WorkerRecords
    <2>3. CASE Exists(i) /\ worker' = [worker EXCEPT !.pc = "unlink", !.job = i, !.todo = @ \ {i}]
      BY <1>0, <2>1, <2>3 DEF WorkerMove, WorkerRecords
    <2>4. CASE /\ Exists(i) /\ i \notin dirs
               /\ worker' = [worker EXCEPT !.pc = "drop", !.job = i, !.todo = @ \ {i}]
      BY <1>0, <2>1, <2>4 DEF WorkerMove, WorkerRecords
    <2> QED  BY <1>13, <2>2, <2>3, <2>4 DEF SweepLookup
  <1>14. CASE SweepUnlink
    <2>1. CASE Unlink(j) /\ Step("rmdir")
      <3>1. j \in Jobs /\ UNCHANGED queue
        BY <1>0, <1>14 DEF SweepUnlink, JobPCs
      <3> QED  BY <1>0, <2>1, <3>1, StepEffect DEF WorkerMove, Unlink
    <2> QED  BY <1>5, <1>14, <2>1 DEF SweepUnlink
  <1>15. CASE SweepRmdir
    <2>1. CASE Rmdir(j) /\ Step("drop")
      <3>1. UNCHANGED queue
        BY <1>15 DEF SweepRmdir
      <3> QED  BY <1>0, <2>1, <3>1, StepEffect DEF WorkerMove, Rmdir
    <2> QED  BY <1>5, <1>15, <2>1 DEF SweepRmdir
  <1> QED
    BY <1>6, <1>7, <1>8, <1>9, <1>10, <1>11, <1>12, <1>13, <1>14, <1>15 DEF WorkerStep

\* What one step may do to the threads at work on job j.
ThreadMove(j) ==
  /\ Held(j)' => Held(j) \/ Exists(j)
  /\ Working("rmdir", j)' => Working("rmdir", j) \/ source'[j] = Absent
  /\ Working("drop", j)' => Working("drop", j) \/ j \notin dirs'
  /\ \A t \in Requests :
       request'[t].pc = "commit" /\ request'[t].job = j
         => \/ request'[t] = request[t]
            \/ request'[t].upto <= source'[j]

LEMMA ThreadsClient ==
  ASSUME TypeInv, NEW t \in Requests, ClientCall(t) \/ RequestStep(t), NEW j \in Jobs
  PROVE  ThreadMove(j)
  <1>1. RequestMove(t)
    BY RequestMoves
  <1>2. UNCHANGED worker
    BY DEF ClientCall, RequestStep, CreateLookup, CreateAdmit, CreateFound, CreateFails,
           CreateRow, HalfMade, UploadCheck, CompleteCheck, Cancel,
           ResumeCheck, DeleteCheck, UploadWrite, UploadCommit, CompleteProbe,
           CompleteQueue, CompleteReread, Put, ResumeRead, ResumeReopen, ResumeQueue,
           ResumeReread, DeleteLookup, DeleteUnlink, DeleteRmdir, DeleteDrop
  <1>3. ToSet(queue') \subseteq ToSet(queue) \cup {request[t].job}
    <2>1. CASE UNCHANGED queue
      BY <2>1
    <2>2. CASE Put(t)
      <3>1. request[t].job \in Jobs /\ queue \in Seq(Jobs \cup {Poison})
        BY <2>2 DEF TypeInv, RequestInv, QueueType, Put, At
      <3> QED  BY <2>2, <3>1, QueueSets DEF Put
    <2> QED
      BY <2>1, <2>2
         DEF ClientCall, RequestStep, CreateLookup, CreateAdmit, CreateFound, CreateFails,
             CreateRow, HalfMade, UploadCheck, CompleteCheck, Cancel,
             ResumeCheck, DeleteCheck, UploadWrite, UploadCommit, CompleteProbe,
             CompleteQueue, CompleteReread, ResumeRead, ResumeReopen, ResumeQueue,
             ResumeReread, DeleteLookup, DeleteUnlink, DeleteRmdir, DeleteDrop
  <1> QED  BY <1>1, <1>2, <1>3 DEF RequestMove, ThreadMove, Held, Working

LEMMA WorkerServes ==
  ASSUME WorkerStep
  PROVE  UNCHANGED <<request, server>>
  BY DEF WorkerStep, Loop, Take, GetTimeout, Begin, Snapshot, Activate, ReadWindows,
         CheckWindow, ReadAudio, WriteTemp, Infer, SaveWindow, CheckSaved, CheckLast,
         Diarize, Finalize, CheckFinalized, Publish, Succeed, Fail, Deactivate,
         SelectExpired, SweepEnd, SweepLookup, SweepUnlink, SweepRmdir, SweepDrop

LEMMA ThreadsWorker ==
  ASSUME TypeInv, WorkerStep, NEW j \in Jobs
  PROVE  ThreadMove(j)
  BY WorkerMovesOn, WorkerServes DEF WorkerMove, ThreadMove, Held, Working

LEMMA ForgetMoves ==
  ASSUME Forget, NEW j \in Jobs
  PROVE  /\ ~Held(j)' /\ ~Working("rmdir", j)' /\ ~Working("drop", j)'
         /\ \A t \in Requests : request'[t].pc = "idle"
         /\ server' = "down" /\ ThreadMove(j)
  <1>1. /\ worker'.pc = "off" /\ worker'.job = NoJob /\ ToSet(queue') = {}
        /\ \A t \in Requests : request'[t].pc = "idle" /\ request'[t].job = NoJob
        /\ server' = "down"
    BY EmptyQueue DEF Forget, NoWorker, IdleRequest
  <1> QED  BY <1>1, JobAssumption DEF Held, Working, ThreadMove

LEMMA ThreadsEnvironment ==
  ASSUME TypeInv, Environment, NEW j \in Jobs
  PROVE  ThreadMove(j)
  <1>1. CASE UNCHANGED <<worker, queue, request>>
    BY <1>1 DEF ThreadMove, Held, Working
  <1>2. CASE Forget
    BY <1>2, ForgetMoves
  <1>3. CASE Stop
    <2>1. ToSet(queue') = ToSet(queue) \cup {Poison}
      BY <1>3, QueueSets DEF Stop, TypeInv, QueueType
    <2> QED  BY <1>3, <2>1, JobAssumption DEF Stop, ThreadMove, Held, Working
  <1>4. CASE Start
    <2> DEFINE S == {i \in Jobs : row[i].state \in {"queued", "processing"}}
    <2>1. ToSet(queue') = S
      BY <1>4 DEF Start, Orders
    <2>2. worker'.job = NoJob /\ worker'.pc = "loop"
      BY <1>4, NoWorkerType DEF Start, WorkerPCs
    <2> QED  BY <1>4, <2>1, <2>2, JobAssumption DEF Start, ThreadMove, Held, Working, Exists
  <1> QED
    BY <1>1, <1>2, <1>3, <1>4
       DEF Environment, Crash, Stopped, CrashInCreate, Expire, LoseAudio, Open, StartCleanup

\* The row of job j keeps its existence and its offset...
RowQuiet(j) == (Exists(j)' <=> Exists(j)) /\ row'[j].offset = row[j].offset

\* ... and the directory of job j its content, a window cut from it aside.
FilesKept(j) ==
  /\ source'[j] = source[j]
  /\ j \in dirs' <=> j \in dirs
  /\ j \in temp' => j \in temp

LEMMA FilesQuiet ==
  ASSUME NEW j \in Jobs, JobFiles(j), JobOffset(j), RowQuiet(j), FilesKept(j),
         ThreadMove(j), server' # "down" => server # "down"
  PROVE  JobFiles(j)' /\ JobOffset(j)'
  <1>1. JobFiles(j)'
    BY DEF JobFiles, RowQuiet, FilesKept, ThreadMove
  <1>2. JobOffset(j)'
    BY DEF JobOffset, RowQuiet, FilesKept, ThreadMove
  <1> QED  BY <1>1, <1>2

LEMMA FilesUnlink ==
  ASSUME DiskType, \A j \in Jobs : JobFiles(j) /\ JobOffset(j) /\ ThreadMove(j),
         NEW i \in Jobs, Unlink(i), UNCHANGED <<row, server>>
  PROVE  \A j \in Jobs : JobFiles(j)' /\ JobOffset(j)'
  <1>1. ASSUME NEW j \in Jobs \ {i} PROVE JobFiles(j)' /\ JobOffset(j)'
    <2>1. RowQuiet(j) /\ FilesKept(j)
      BY <1>1 DEF Unlink, RowQuiet, FilesKept, DiskType, Exists
    <2> QED  BY <1>1, <2>1, FilesQuiet
  <1>2. source'[i] = Absent /\ i \notin temp'
    BY DEF Unlink, DiskType
  <1>3. JobFiles(i)'
    BY <1>2 DEF JobFiles, ThreadMove, Unlink, Exists, Absent
  <1>4. JobOffset(i)'
    BY <1>2 DEF JobOffset
  <1> QED  BY <1>1, <1>3, <1>4

LEMMA FilesRmdir ==
  ASSUME DiskType, \A j \in Jobs : JobFiles(j) /\ JobOffset(j) /\ ThreadMove(j),
         NEW i \in Jobs, Working("rmdir", i), Removable(i), Rmdir(i),
         UNCHANGED <<row, server>>
  PROVE  \A j \in Jobs : JobFiles(j)' /\ JobOffset(j)'
  <1>1. ASSUME NEW j \in Jobs \ {i} PROVE JobFiles(j)' /\ JobOffset(j)'
    <2>1. RowQuiet(j) /\ FilesKept(j)
      BY <1>1 DEF Rmdir, RowQuiet, FilesKept, Exists
    <2> QED  BY <1>1, <2>1, FilesQuiet
  <1>2. source'[i] = Absent /\ i \notin temp' /\ i \notin dirs'
    BY DEF Rmdir, Removable, JobFiles
  <1>3. JobFiles(i)'
    BY <1>2 DEF JobFiles, ThreadMove, Absent
  <1>4. JobOffset(i)'
    BY <1>2 DEF JobOffset
  <1> QED  BY <1>1, <1>3, <1>4

LEMMA FilesDrop ==
  ASSUME RowType, \A j \in Jobs : JobFiles(j) /\ JobOffset(j) /\ ThreadMove(j),
         NEW i \in Jobs, Working("drop", i), DropRow(i), UNCHANGED <<disk, server>>
  PROVE  \A j \in Jobs : JobFiles(j)' /\ JobOffset(j)'
  <1>0. UNCHANGED <<dirs, source, temp>>
    BY DEF disk
  <1>1. ASSUME NEW j \in Jobs \ {i} PROVE JobFiles(j)' /\ JobOffset(j)'
    <2>1. RowQuiet(j) /\ FilesKept(j)
      BY <1>0, <1>1, DropRowEffect DEF RowType, RowQuiet, FilesKept, Exists
    <2> QED  BY <1>1, <2>1, FilesQuiet
  <1>2. i \notin dirs /\ source[i] = Absent /\ i \notin temp
    BY DEF JobFiles
  <1>3. JobFiles(i)'
    BY <1>0, <1>2 DEF JobFiles, ThreadMove, Absent
  <1>4. JobOffset(i)'
    BY <1>0, <1>2 DEF JobOffset
  <1> QED  BY <1>1, <1>3, <1>4

LEMMA FilesClient ==
  ASSUME TypeInv, FilesInv, NEW t \in Requests, ClientCall(t) \/ RequestStep(t)
  PROVE  FilesInv'
  <1> DEFINE i == request[t].job
  <1>0. /\ row \in [Jobs -> Rows] /\ source \in [Jobs -> Absent..UploadLength]
        /\ request \in [Requests -> RequestRecords] /\ request[t] \in RequestRecords
        /\ request[t].pc \notin {"idle", "admit", "create"} => i \in Jobs
    BY DEF TypeInv, RowType, DiskType, RequestInv
  <1>1. server = "up" /\ server' = "up"
    BY DEF ClientCall, RequestStep, CreateLookup, CreateAdmit, CreateFound, CreateFails,
           CreateRow, HalfMade, UploadCheck, CompleteCheck, Cancel,
           ResumeCheck, DeleteCheck, UploadWrite, UploadCommit, CompleteProbe,
           CompleteQueue, CompleteReread, Put, ResumeRead, ResumeReopen, ResumeQueue,
           ResumeReread, DeleteLookup, DeleteUnlink, DeleteRmdir, DeleteDrop, Idle, At
  <1>2. \A j \in Jobs : JobFiles(j) /\ JobOffset(j) /\ ThreadMove(j)
    BY ThreadsClient DEF FilesInv
  <1> SUFFICES \A j \in Jobs : JobFiles(j)' /\ JobOffset(j)'
    BY <1>1 DEF FilesInv, Served
  <1>3. ASSUME UNCHANGED disk, \A j \in Jobs : RowQuiet(j)
        PROVE  \A j \in Jobs : JobFiles(j)' /\ JobOffset(j)'
    BY <1>1, <1>2, <1>3, FilesQuiet DEF FilesKept, disk
  <1>4. ASSUME UNCHANGED <<row, disk>>
        PROVE  \A j \in Jobs : JobFiles(j)' /\ JobOffset(j)'
    BY <1>3, <1>4 DEF RowQuiet, Exists
  <1>5. ASSUME NEW k \in Jobs, CreateRow(t, k)
        PROVE  \A j \in Jobs : JobFiles(j)' /\ JobOffset(j)'
    <2>1. ASSUME NEW j \in Jobs \ {k} PROVE JobFiles(j)' /\ JobOffset(j)'
      <3>1. RowQuiet(j) /\ FilesKept(j)
        BY <1>0, <1>5, <2>1 DEF CreateRow, RowQuiet, FilesKept, Exists
      <3> QED  BY <1>1, <1>2, <2>1, <3>1, FilesQuiet
    <2>4. request[t].key \in Keys \cup {NoKey}
      BY <1>0 DEF RequestRecords
    <2>5. \A u \in Requests : request'[u].job # k
      BY <1>0, <1>5, ReturnEffect, JobAssumption DEF CreateRow, Fresh
    <2>2. /\ source'[k] = 0 /\ k \in dirs' /\ k \notin temp'
          /\ row'[k].state = "uploading" /\ row'[k].offset = 0
          /\ \A u \in Requests : request'[u].job # k
          /\ worker'.job # k
      BY <1>0, <1>2, <1>5, <2>4, <2>5, NewRowType DEF CreateRow, Fresh, JobFiles
    <2>3. JobFiles(k)' /\ JobOffset(k)'
      BY <2>2 DEF JobFiles, JobOffset, Exists, Working
    <2> QED  BY <2>1, <2>3
  <1>6. ASSUME NEW k \in Jobs, k = request[t].job, UploadWrite(t)
        PROVE  \A j \in Jobs : JobFiles(j)' /\ JobOffset(j)'
    <2>1. /\ k \in Jobs /\ request[t].pc = "write" /\ request[t].job = k
          /\ UNCHANGED <<row, dirs, temp>>
      BY <1>0, <1>6 DEF UploadWrite, At
    <2>2. CASE source' = source
      BY <1>4, <2>1, <2>2 DEF disk
    <2>3. ASSUME source' # source
          PROVE  /\ source[k] # Absent
                 /\ \E b \in 0..UploadLength :
                      source' = [source EXCEPT ![k] = IF @ < b THEN b ELSE @]
      <3>1. request[t].from \in 0..UploadLength /\ request[t].upto \in 0..UploadLength
        BY <1>0 DEF RequestRecords
      <3>2. PICK b \in request[t].from .. request[t].upto :
              /\ source[k] # Absent
              /\ source' = [source EXCEPT ![k] = IF @ < b THEN b ELSE @]
        BY <1>6, <2>3 DEF UploadWrite
      <3>3. b \in 0..UploadLength
        BY <3>1, UploadAssumption
      <3> QED  BY <3>2, <3>3
    <2>4. ASSUME source' # source, NEW j \in Jobs \ {k} PROVE JobFiles(j)' /\ JobOffset(j)'
      <3>1. RowQuiet(j) /\ FilesKept(j)
        BY <1>0, <2>1, <2>3, <2>4 DEF RowQuiet, FilesKept, Exists
      <3> QED  BY <1>1, <1>2, <2>4, <3>1, FilesQuiet
    <2>5. ASSUME source' # source PROVE JobFiles(k)' /\ JobOffset(k)'
      <3>1. PICK b \in 0..UploadLength :
              source' = [source EXCEPT ![k] = IF @ < b THEN b ELSE @]
        BY <2>3, <2>5
      <3>2. /\ source[k] \in 0..UploadLength /\ source[k] <= source'[k]
            /\ source'[k] \in 0..UploadLength
        BY <1>0, <2>1, <2>3, <2>5, <3>1, UploadAssumption DEF Absent
      <3>3. Held(k) /\ k \in dirs /\ Exists(k) /\ Exists(k)'
        BY <1>2, <2>1, <2>3, <2>5 DEF Held, JobFiles, Exists
      <3>4. JobFiles(k)'
        BY <1>2, <2>1, <2>3, <2>5, <3>3 DEF JobFiles, ThreadMove
      <3>5. row[k].offset <= source[k]
        BY <1>1, <1>2, <2>1, <2>3, <2>5, <3>3 DEF JobOffset
      <3>6. row[k].offset \in 0..UploadLength
        BY <1>0, <2>1 DEF Rows
      <3>7. ASSUME NEW u \in Requests, request'[u].pc = "commit", request'[u].job = k
            PROVE  request'[u].upto <= source'[k]
        <4>1. CASE request'[u] = request[u]
          <5>1. request[u].upto <= source[k]
            BY <1>2, <2>1, <2>3, <2>5, <3>7, <4>1 DEF JobOffset
          <5>2. request[u].upto \in 0..UploadLength
            BY <1>0 DEF RequestRecords
          <5> QED  BY <3>2, <4>1, <5>1, <5>2, UploadAssumption
        <4> QED  BY <1>2, <2>1, <3>7, <4>1 DEF ThreadMove
      <3>8. row'[k].offset <= source'[k]
        BY <2>1, <3>2, <3>5, <3>6, UploadAssumption
      <3> QED  BY <3>4, <3>7, <3>8 DEF JobOffset
    <2> QED  BY <2>2, <2>4, <2>5
  <1>7. ASSUME NEW k \in Jobs, k = request[t].job, UploadCommit(t)
        PROVE  \A j \in Jobs : JobFiles(j)' /\ JobOffset(j)'
    <2>1. /\ k \in Jobs /\ request[t].upto \in 0..UploadLength
          /\ request[t].pc = "commit" /\ UNCHANGED disk
      BY <1>0, <1>7 DEF UploadCommit, At, RequestRecords
    <2>2. /\ \A j \in Jobs \ {k} : row'[j] = row[j]
          /\ Exists(k)' <=> Exists(k)
          /\ Exists(k) => row'[k].offset = request[t].upto
          /\ ~Exists(k) => row'[k] = row[k]
      BY <1>0, <1>7, <2>1, OffsetEffect DEF UploadCommit, Exists
    <2>3. ASSUME NEW j \in Jobs \ {k} PROVE JobFiles(j)' /\ JobOffset(j)'
      <3>1. RowQuiet(j) /\ FilesKept(j)
        BY <2>1, <2>2, <2>3 DEF RowQuiet, FilesKept, Exists, disk
      <3> QED  BY <1>1, <1>2, <2>3, <3>1, FilesQuiet
    <2>4. JobFiles(k)'
      BY <1>2, <2>1, <2>2 DEF JobFiles, ThreadMove, disk
    <2>5. source[k] # Absent => request[t].upto <= source[k]
      BY <1>2, <1>7, <2>1 DEF JobOffset
    <2>6. JobOffset(k)'
      BY <1>2, <2>1, <2>2, <2>5 DEF JobOffset, ThreadMove, disk, Exists
    <2> QED  BY <2>3, <2>4, <2>6
  <1>8. CASE DeleteUnlink(t)
    <2>1. CASE Unlink(i)
      BY <1>0, <1>1, <1>2, <1>8, <2>1, FilesUnlink DEF DeleteUnlink, At, TypeInv
    <2> QED  BY <1>4, <1>8, <2>1 DEF DeleteUnlink
  <1>9. CASE DeleteRmdir(t)
    <2>1. CASE Removable(i) /\ Rmdir(i)
      <3>1. i \in Jobs /\ Working("rmdir", i) /\ UNCHANGED <<row, server>>
        BY <1>0, <1>9 DEF DeleteRmdir, At, Working
      <3> QED  BY <1>2, <2>1, <3>1, FilesRmdir DEF TypeInv
    <2> QED  BY <1>4, <1>9, <2>1 DEF DeleteRmdir
  <1>10. CASE DeleteDrop(t)
    <2>1. i \in Jobs /\ Working("drop", i) /\ UNCHANGED <<disk, server>> /\ DropRow(i)
      BY <1>0, <1>10 DEF DeleteDrop, At, Working
    <2> QED  BY <1>2, <2>1, FilesDrop DEF TypeInv
  <1>11. CASE CompleteQueue(t) \/ ResumeQueue(t)
    <2>1. i \in Jobs /\ QueueRow(i) /\ UNCHANGED disk
      BY <1>0, <1>11 DEF CompleteQueue, ResumeQueue, At
    <2> QED  BY <1>0, <1>3, <2>1, QueueRowEffect DEF RowQuiet, Exists
  <1>12. CASE ResumeReopen(t)
    <2>1. i \in Jobs /\ ReopenRow(i) /\ UNCHANGED disk
      BY <1>0, <1>12 DEF ResumeReopen, At
    <2> QED  BY <1>0, <1>3, <2>1, ReopenRowEffect DEF RowQuiet, Exists
  <1>13. ASSUME NEW k \in Jobs, Cancel(t, k)
         PROVE  \A j \in Jobs : JobFiles(j)' /\ JobOffset(j)'
    <2>1. CancelRow(k) /\ UNCHANGED disk
      BY <1>13 DEF Cancel
    <2> QED  BY <1>0, <1>3, <2>1, CancelRowEffect DEF RowQuiet, Exists
  <1>16. ASSUME NEW k \in Jobs, CreateFails(t), HalfMade(k)
         PROVE  \A j \in Jobs : JobFiles(j)' /\ JobOffset(j)'
    <2>1. /\ UNCHANGED <<row, temp, worker, queue, server>>
          /\ dirs' = dirs \cup {k} /\ Fresh(k)
          /\ source' \in {source, [source EXCEPT ![k] = 0]}
      BY <1>16 DEF CreateFails, HalfMade
    <2>2. ASSUME NEW j \in Jobs \ {k} PROVE JobFiles(j)' /\ JobOffset(j)'
      <3>1. RowQuiet(j) /\ FilesKept(j)
        BY <1>0, <2>1, <2>2 DEF RowQuiet, FilesKept, Exists
      <3> QED  BY <1>2, <2>1, <2>2, <3>1, FilesQuiet
    <2>3. \A u \in Requests : request'[u].job # k
      BY <1>0, <1>16, <2>1, ReturnEffect, JobAssumption DEF CreateFails, Fresh
    <2>4. ~Held(k)' /\ ~Working("rmdir", k)' /\ ~Working("drop", k)'
      BY <2>1, <2>3 DEF Held, Working, Fresh
    <2>5. k \in dirs' /\ k \notin temp' /\ ~(source'[k] > 0) /\ ~Exists(k)'
      BY <1>0, <1>2, <2>1 DEF JobFiles, Fresh, Exists
    <2>6. JobFiles(k)' /\ JobOffset(k)'
      BY <2>3, <2>4, <2>5 DEF JobFiles, JobOffset
    <2> QED  BY <2>2, <2>6
  <1>14. \/ UNCHANGED <<row, disk>>
         \/ \E k \in Jobs : Cancel(t, k) \/ CreateRow(t, k)
         \/ \E k \in Jobs : CreateFails(t) /\ HalfMade(k)
         \/ UploadWrite(t) \/ UploadCommit(t) \/ CompleteQueue(t) \/ ResumeReopen(t)
         \/ ResumeQueue(t) \/ DeleteUnlink(t) \/ DeleteRmdir(t) \/ DeleteDrop(t)
    BY DEF ClientCall, RequestStep, UploadCheck, CompleteCheck, ResumeCheck, DeleteCheck,
           CompleteProbe, CompleteReread, Put, ResumeRead, ResumeReread, DeleteLookup,
           CreateLookup, CreateAdmit, CreateFound, CreateFails
  <1>15. UploadWrite(t) \/ UploadCommit(t) => i \in Jobs
    BY <1>0 DEF UploadWrite, UploadCommit, At
  <1> QED
    BY <1>4, <1>5, <1>6, <1>7, <1>8, <1>9, <1>10, <1>11, <1>12, <1>13, <1>14, <1>15, <1>16

LEMMA FilesWorker ==
  ASSUME TypeInv, FilesInv, WorkerStep
  PROVE  FilesInv'
  <1>0. /\ row \in [Jobs -> Rows] /\ source \in [Jobs -> Absent..UploadLength]
        /\ worker.pc \in JobPCs => worker.job \in Jobs
        /\ worker.pc = "save" => worker.index \in Audible /\ worker.whole \in BOOLEAN
    BY DEF TypeInv, RowType, DiskType, WorkerInv, WorkerRecords
  <1>1. \A j \in Jobs : JobFiles(j) /\ JobOffset(j) /\ ThreadMove(j)
    BY ThreadsWorker DEF FilesInv
  <1>2. UNCHANGED <<request, server>>
    BY WorkerServes
  <1> SUFFICES \A j \in Jobs : JobFiles(j)' /\ JobOffset(j)'
    BY <1>2 DEF FilesInv, Served
  <1>3. ASSUME UNCHANGED disk, \A j \in Jobs : RowQuiet(j)
        PROVE  \A j \in Jobs : JobFiles(j)' /\ JobOffset(j)'
    BY <1>1, <1>2, <1>3, FilesQuiet DEF FilesKept, disk
  <1>4. ASSUME UNCHANGED <<row, disk>>
        PROVE  \A j \in Jobs : JobFiles(j)' /\ JobOffset(j)'
    BY <1>3, <1>4 DEF RowQuiet, Exists
  <1>5. ASSUME NEW k \in Jobs, k = worker.job
        PROVE  (Begin \/ SaveWindow \/ Diarize \/ Publish \/ Succeed \/ Fail)
                 => \A j \in Jobs : JobFiles(j)' /\ JobOffset(j)'
    <2>1. CASE Begin
      <3>1. CASE BeginRow(k)
        <4>1. \A j \in Jobs : RowQuiet(j)
          BY <1>0, <3>1, BeginRowEffect DEF RowQuiet, Exists
        <4> QED  BY <1>3, <2>1, <4>1 DEF Begin
      <3> QED  BY <1>4, <1>5, <2>1, <3>1 DEF Begin
    <2>2. CASE SaveWindow
      <3>1. \A j \in Jobs : RowQuiet(j)
        BY <1>0, <1>5, <2>2, SaveWindowEffect DEF SaveWindow, WorkerAt, RowQuiet, Exists
      <3> QED  BY <1>3, <2>2, <3>1 DEF SaveWindow
    <2>3. CASE Diarize \/ Publish
      <3>1. \A j \in Jobs : RowQuiet(j)
        BY <1>0, <1>5, <2>3, PhaseRowEffect DEF Diarize, Publish, RowQuiet, Exists
      <3> QED  BY <1>3, <2>3, <3>1 DEF Diarize, Publish
    <2>4. CASE Succeed
      <3>1. \A j \in Jobs : RowQuiet(j)
        BY <1>0, <1>5, <2>4, SucceedRowEffect DEF Succeed, RowQuiet, Exists
      <3> QED  BY <1>3, <2>4, <3>1 DEF Succeed
    <2>5. CASE Fail
      <3>1. \A j \in Jobs : RowQuiet(j)
        BY <1>0, <1>5, <2>5, FailRowEffect DEF Fail, RowQuiet, Exists
      <3> QED  BY <1>3, <2>5, <3>1 DEF Fail
    <2> QED  BY <2>1, <2>2, <2>3, <2>4, <2>5
  <1>6. ASSUME NEW k \in Jobs, k = worker.job, WriteTemp
        PROVE  \A j \in Jobs : JobFiles(j)' /\ JobOffset(j)'
    <2>1. UNCHANGED <<row, dirs, source, server>>
      BY <1>6 DEF WriteTemp
    <2>2. CASE temp' = temp \ {worker.job}
      <3>1. \A j \in Jobs : RowQuiet(j) /\ FilesKept(j)
        BY <2>1, <2>2 DEF RowQuiet, FilesKept, Exists
      <3> QED  BY <1>1, <2>1, <3>1, FilesQuiet
    <2>3. CASE k \in dirs /\ temp' = temp \cup {k}
      <3>1. ASSUME NEW j \in Jobs \ {k} PROVE JobFiles(j)' /\ JobOffset(j)'
        <4>1. RowQuiet(j) /\ FilesKept(j)
          BY <2>1, <2>3, <3>1 DEF RowQuiet, FilesKept, Exists
        <4> QED  BY <1>1, <2>1, <3>1, <4>1, FilesQuiet
      <3>2. Held(k) /\ Exists(k) /\ Exists(k)'
        BY <1>1, <1>6, <2>1, <2>3 DEF Held, JobFiles, Exists
      <3>3. JobFiles(k)'
        BY <1>1, <2>1, <2>3, <3>2 DEF JobFiles, ThreadMove
      <3>4. JobOffset(k)'
        BY <1>1, <1>2, <2>1, <3>2 DEF JobOffset, Exists
      <3> QED  BY <3>1, <3>3, <3>4
    <2> QED  BY <1>6, <2>2, <2>3 DEF WriteTemp
  <1>7. CASE Infer \/ ReadAudio
    <2>1. \A j \in Jobs : RowQuiet(j) /\ FilesKept(j)
      BY <1>7 DEF Infer, ReadAudio, RowQuiet, FilesKept, Exists
    <2> QED  BY <1>1, <1>2, <2>1, FilesQuiet
  <1>8. ASSUME NEW k \in Jobs, k = worker.job, SweepUnlink
        PROVE  \A j \in Jobs : JobFiles(j)' /\ JobOffset(j)'
    <2>1. CASE Unlink(k)
      BY <1>1, <1>2, <1>8, <2>1, FilesUnlink DEF SweepUnlink, TypeInv
    <2> QED  BY <1>4, <1>8, <2>1 DEF SweepUnlink
  <1>9. ASSUME NEW k \in Jobs, k = worker.job, SweepRmdir
        PROVE  \A j \in Jobs : JobFiles(j)' /\ JobOffset(j)'
    <2>1. CASE Removable(k) /\ Rmdir(k)
      <3>1. Working("rmdir", k) /\ UNCHANGED <<row, server>>
        BY <1>2, <1>9 DEF SweepRmdir, WorkerAt, Working
      <3> QED  BY <1>1, <2>1, <3>1, FilesRmdir DEF TypeInv
    <2> QED  BY <1>4, <1>9, <2>1 DEF SweepRmdir
  <1>10. ASSUME NEW k \in Jobs, k = worker.job, SweepDrop
         PROVE  \A j \in Jobs : JobFiles(j)' /\ JobOffset(j)'
    <2>1. Working("drop", k) /\ UNCHANGED <<disk, server>> /\ DropRow(k)
      BY <1>2, <1>10 DEF SweepDrop, WorkerAt, Working
    <2> QED  BY <1>1, <2>1, FilesDrop DEF TypeInv
  <1>11. Begin \/ SaveWindow \/ Diarize \/ Publish \/ Succeed \/ Fail \/ WriteTemp
         \/ SweepUnlink \/ SweepRmdir \/ SweepDrop
           => worker.job \in Jobs
    BY <1>0 DEF Begin, SaveWindow, Diarize, Publish, Succeed, Fail, WriteTemp, SweepUnlink,
                SweepRmdir, SweepDrop, WorkerAt, JobPCs, WorkerPCs
  <1>12. \/ UNCHANGED <<row, disk>>
         \/ Begin \/ SaveWindow \/ Diarize \/ Publish \/ Succeed \/ Fail \/ WriteTemp
         \/ SweepUnlink \/ SweepRmdir \/ SweepDrop \/ Infer \/ ReadAudio
    BY DEF WorkerStep, Loop, Take, GetTimeout, Snapshot, Activate, ReadWindows, CheckWindow,
           CheckSaved, CheckLast, Finalize, CheckFinalized, Deactivate,
           SelectExpired, SweepEnd, SweepLookup
  <1> QED
    BY <1>4, <1>5, <1>6, <1>7, <1>8, <1>9, <1>10, <1>11, <1>12

LEMMA FilesEnvironment ==
  ASSUME TypeInv, FilesInv, Environment
  PROVE  FilesInv'
  <1>0. row \in [Jobs -> Rows] /\ source \in [Jobs -> Absent..UploadLength]
    BY DEF TypeInv, RowType, DiskType
  <1>1. Served'
    BY DEF FilesInv, Served, Environment, Crash, Stop, Stopped, Open, Start, CrashInCreate,
           Expire, LoseAudio, StartCleanup, Forget, IdleRequest
  <1>2. \A j \in Jobs : JobFiles(j) /\ JobOffset(j) /\ ThreadMove(j)
    BY ThreadsEnvironment DEF FilesInv
  <1>3. server # "up" => \A t \in Requests : request[t].pc = "idle"
    BY DEF FilesInv, Served
  <1> SUFFICES \A j \in Jobs : JobFiles(j)' /\ JobOffset(j)'
    BY <1>1 DEF FilesInv
  <1>4. ASSUME \A j \in Jobs : RowQuiet(j) /\ FilesKept(j), server' # "down" => server # "down"
        PROVE  \A j \in Jobs : JobFiles(j)' /\ JobOffset(j)'
    BY <1>2, <1>4, FilesQuiet
  <1>5. CASE Crash \/ Stop \/ Stopped
    <2>1. UNCHANGED <<row, dirs, source, temp>> /\ (server' # "down" => server # "down")
      BY <1>5 DEF Crash, Stop, Stopped, Forget, disk
    <2> QED  BY <1>4, <2>1 DEF RowQuiet, FilesKept, Exists
  <1>6. ASSUME NEW k \in Jobs, Expire(k)
        PROVE  \A j \in Jobs : JobFiles(j)' /\ JobOffset(j)'
    <2>1. UNCHANGED <<dirs, source, temp, server>>
      BY <1>6 DEF Expire, disk
    <2>2. \A j \in Jobs : RowQuiet(j)
      BY <1>0, <1>6 DEF Expire, RowQuiet, Exists, Rows
    <2> QED  BY <1>4, <2>1, <2>2 DEF FilesKept
  <1>7. ASSUME NEW k \in Jobs, LoseAudio(k)
        PROVE  \A j \in Jobs : JobFiles(j)' /\ JobOffset(j)'
    <2>1. PICK left \in Absent .. (source[k] - 1) : source' = [source EXCEPT ![k] = left]
      BY <1>7 DEF LoseAudio
    <2>2. /\ UNCHANGED <<row, dirs, temp, request>> /\ server = "down" /\ server' = "down"
          /\ source[k] \in 0..UploadLength /\ source'[k] \in Absent..UploadLength
          /\ source'[k] < source[k]
      BY <1>0, <1>7, <2>1, UploadAssumption DEF LoseAudio, Absent
    <2>3. ASSUME NEW j \in Jobs \ {k} PROVE JobFiles(j)' /\ JobOffset(j)'
      <3>1. RowQuiet(j) /\ FilesKept(j)
        BY <1>0, <2>1, <2>2, <2>3 DEF RowQuiet, FilesKept, Exists
      <3> QED  BY <1>2, <2>2, <2>3, <3>1, FilesQuiet
    <2>4. k \in dirs /\ (source'[k] > 0 => source[k] > 0) /\ source[k] # Absent
      BY <1>2, <2>2 DEF JobFiles, Absent
    <2>5. JobFiles(k)'
      BY <1>2, <2>2, <2>4 DEF JobFiles, ThreadMove, Exists
    <2>6. JobOffset(k)'
      BY <1>3, <2>2 DEF JobOffset
    <2> QED  BY <2>3, <2>5, <2>6
  <1>8. CASE Open
    <2>1. ASSUME NEW j \in Jobs PROVE JobFiles(j)' /\ JobOffset(j)'
      <3>1. /\ row'[j] = RecoveredRow(j) /\ source'[j] = RecoveredSource(j)
            /\ UNCHANGED <<dirs, temp, request>> /\ server = "down"
        BY <1>8, <2>1 DEF Open
      <3>2. row[j] \in Rows /\ row[j].offset \in 0..UploadLength
            /\ source[j] \in Absent..UploadLength
        BY <1>0, <2>1 DEF Rows
      <3>3. Exists(j)' <=> Exists(j)
        <4>1. CASE row[j].state = "none"
          BY <3>1, <4>1 DEF RecoveredRow, Exists
        <4>2. ASSUME NEW b, RecoveredRow(j) = [row[j] EXCEPT !.offset = b]
              PROVE  RecoveredRow(j).state = row[j].state
          BY <3>2, <4>2 DEF Rows
        <4>3. FailedRow(row[j]).state = "failed"
          <5> DEFINE r == row[j]
          <5>1. r \in Rows
            BY <3>2
          <5> HIDE DEF r
          <5>2. FailedRow(r).state = "failed"
            BY <5>1, FailedRowEffect
          <5> QED  BY <5>2 DEF r
        <4> QED  BY <3>1, <4>1, <4>2, <4>3 DEF RecoveredRow, Exists
      <3>4. /\ source'[j] = Absent <=> source[j] = Absent
            /\ source'[j] > 0 => source[j] > 0
        BY <3>1, <3>2, UploadAssumption DEF RecoveredSource, Absent
      <3>5. ASSUME Exists(j), source[j] # Absent PROVE row'[j].offset <= source'[j]
        <4> DEFINE b == IF source[j] < row[j].offset THEN source[j] ELSE row[j].offset
        <4>1. RecoveredRow(j) = [row[j] EXCEPT !.offset = b]
          BY <3>5 DEF RecoveredRow, Exists
        <4>2. RecoveredRow(j).offset = b
          BY <3>2, <4>1 DEF Rows
        <4>3. RecoveredSource(j) \in {source[j], row[j].offset} /\ b <= RecoveredSource(j)
          BY <3>2, <3>5, UploadAssumption DEF RecoveredSource, Absent
        <4> QED  BY <3>1, <4>2, <4>3
      <3>6. JobFiles(j)'
        BY <1>2, <3>1, <3>3, <3>4 DEF JobFiles, ThreadMove
      <3>7. JobOffset(j)'
        BY <1>3, <3>1, <3>3, <3>4, <3>5 DEF JobOffset
      <3> QED  BY <3>6, <3>7
    <2> QED  BY <2>1
  <1>9. ASSUME NEW k \in Jobs, StartCleanup(k)
        PROVE  \A j \in Jobs : JobFiles(j)' /\ JobOffset(j)'
    <2>1. /\ \A j \in Jobs \ {k} : row'[j] = row[j]
          /\ server = "open" /\ server' = "open"
      BY <1>0, <1>9, DropRowEffect DEF StartCleanup
    <2>2. ASSUME NEW j \in Jobs \ {k} PROVE JobFiles(j)' /\ JobOffset(j)'
      <3>1. RowQuiet(j) /\ FilesKept(j)
        BY <1>0, <1>9, <2>1, <2>2 DEF StartCleanup, RowQuiet, FilesKept, Exists
      <3> QED  BY <1>2, <2>1, <2>2, <3>1, FilesQuiet
    <2>3. source'[k] = Absent /\ k \notin dirs' /\ k \notin temp'
      BY <1>0, <1>9 DEF StartCleanup
    <2>4. JobFiles(k)' /\ JobOffset(k)'
      BY <2>3 DEF JobFiles, JobOffset, Absent
    <2> QED  BY <2>2, <2>4
  <1>10. ASSUME NEW k \in Jobs, CrashInCreate(k)
         PROVE  \A j \in Jobs : JobFiles(j)' /\ JobOffset(j)'
    <2>1. /\ UNCHANGED <<row, temp>> /\ server' = "down" /\ Forget
          /\ dirs' = dirs \cup {k} /\ ~Exists(k)
          /\ source' \in {source, [source EXCEPT ![k] = 0]}
      BY <1>10 DEF CrashInCreate, HalfMade, Forget, Fresh
    <2>2. ASSUME NEW j \in Jobs \ {k} PROVE JobFiles(j)' /\ JobOffset(j)'
      <3>1. RowQuiet(j) /\ FilesKept(j)
        BY <1>0, <2>1, <2>2 DEF RowQuiet, FilesKept, Exists
      <3> QED  BY <1>2, <2>1, <2>2, <3>1, FilesQuiet
    <2>3. /\ ~Held(k)' /\ ~Working("rmdir", k)' /\ ~Working("drop", k)'
          /\ \A t \in Requests : request'[t].pc = "idle"
      BY <2>1, ForgetMoves
    <2>4. k \in dirs' /\ k \notin temp' /\ ~(source'[k] > 0)
      BY <1>0, <1>2, <2>1 DEF JobFiles
    <2>5. JobFiles(k)' /\ JobOffset(k)'
      BY <2>1, <2>3, <2>4 DEF JobFiles, JobOffset
    <2> QED  BY <2>2, <2>5
  <1>11. CASE Start
    <2>1. UNCHANGED <<dirs, source, temp>> /\ server = "open"
      BY <1>11 DEF Start, disk
    <2>2. ASSUME NEW j \in Jobs PROVE RowQuiet(j)
      <3> DEFINE r == row[j]
      <3>1. r \in Rows /\ row'[j] = RequeuedRow(r)
        BY <1>0, <1>11, <2>2 DEF Start
      <3> HIDE DEF r
      <3>2. RequeuedRow(r).offset = r.offset /\ (RequeuedRow(r).state = "none" <=> r.state = "none")
        BY <3>1, RequeuedType
      <3> QED  BY <3>1, <3>2 DEF RowQuiet, Exists, r
    <2> QED  BY <1>4, <2>1, <2>2 DEF FilesKept
  <1> QED
    BY <1>5, <1>6, <1>7, <1>8, <1>9, <1>10, <1>11 DEF Environment

\* Rows, files and threads keep to the protocol FilesInv states.
THEOREM FilesInvariant == Spec => [](TypeInv /\ FilesInv)
  <1>1. Init => FilesInv
    BY EmptyQueue, JobAssumption
       DEF Init, FilesInv, Served, JobFiles, JobOffset, Held, Working, IdleRequest, NoWorker,
           Absent
  <1>2. ASSUME TypeInv, FilesInv, [Next]_vars PROVE FilesInv'
    <2>1. CASE UNCHANGED vars
      BY <1>2, <2>1 DEF vars, FilesInv, Served, JobFiles, JobOffset, Held, Working, Exists
    <2> QED
      BY <1>2, <2>1, FilesClient, FilesWorker, FilesEnvironment DEF Next
  <1> QED  BY <1>1, <1>2, TypeInvariant, PTL DEF Spec

\* Private audio never outlives the row through which a client or the
\* retention can delete it: rmtree comes before the DELETE, and nothing
\* writes into the directory of a job that has no row.
THEOREM AudioOwned == Spec => []AudioHasOwner
  <1>1. FilesInv => AudioHasOwner
    BY DEF FilesInv, JobFiles, AudioHasOwner
  <1> QED  BY <1>1, FilesInvariant, PTL

\* A committed offset never runs ahead of the file: it is committed after
\* the write, and pulled back to the file when the store is opened.
THEOREM CommittedOnDisk == Spec => []CommittedIsOnDisk
  <1>1. FilesInv => CommittedIsOnDisk
    BY DEF FilesInv, JobOffset, CommittedIsOnDisk, Running
  <1> QED  BY <1>1, FilesInvariant, PTL

\* Between the opening of the store and the start of the worker the rows and
\* the files agree.
Agrees(j) ==
  Exists(j) =>
    IF source[j] = Absent
      THEN row[j].state \in {"succeeded", "failed"}
      ELSE row[j].offset = source[j]

RecoveredInv == server = "open" => \A j \in Jobs : Agrees(j)

LEMMA RecoveredAgrees ==
  ASSUME RowType, DiskType, Open
  PROVE  \A j \in Jobs : Agrees(j)'
  <1> SUFFICES ASSUME NEW j \in Jobs, Exists(j)' PROVE Agrees(j)'
    BY DEF Agrees
  <1> DEFINE r == row[j]
             s == source[j]
  <1>1. r \in Rows /\ r.offset \in Nat /\ s \in Absent..UploadLength
    BY UploadAssumption DEF RowType, DiskType, Rows
  <1>2. row'[j] = RecoveredRow(j) /\ source'[j] = RecoveredSource(j)
    BY DEF Open
  <1>3. CASE r.state = "none"
    BY <1>2, <1>3 DEF RecoveredRow, Exists
  <1>4. CASE r.state # "none" /\ s = Absent
    <2>1. source'[j] = Absent
      BY <1>1, <1>2, <1>4 DEF RecoveredSource, Absent
    <2>2. row'[j].state \in {"succeeded", "failed"}
      BY <1>1, <1>2, <1>4, FailedRowEffect DEF RecoveredRow
    <2> QED  BY <2>1, <2>2 DEF Agrees
  <1>5. CASE r.state # "none" /\ s # Absent
    <2> DEFINE b == IF s < r.offset THEN s ELSE r.offset
    <2>1. row'[j] = [r EXCEPT !.offset = b]
      BY <1>2, <1>5 DEF RecoveredRow
    <2>2. row'[j].offset = b
      <3> HIDE DEF b
      <3> QED  BY <1>1, <2>1 DEF Rows
    <2>3. source'[j] = b /\ b # Absent
      BY <1>1, <1>2, <1>5, UploadAssumption DEF RecoveredSource, Exists, Absent
    <2> QED  BY <2>2, <2>3 DEF Agrees
  <1> QED  BY <1>3, <1>4, <1>5

\* No request and no worker moves before the server is up.
LEMMA OpenIsAlone ==
  ASSUME server = "open", [Next]_vars
  PROVE  UNCHANGED vars \/ Environment
  <1>1. ~WorkerStep
    BY DEF WorkerStep, Loop, Take, GetTimeout, Begin, Snapshot, Activate, ReadWindows,
           CheckWindow, ReadAudio, WriteTemp, Infer, SaveWindow, CheckSaved, CheckLast, Diarize,
           Finalize, CheckFinalized, Publish, Succeed, Fail, Deactivate, SelectExpired,
           SweepEnd, SweepLookup, SweepUnlink, SweepRmdir, SweepDrop, WorkerAt, Running
  <1>2. \A t \in Requests : ~ClientCall(t) /\ ~RequestStep(t)
    BY DEF ClientCall, RequestStep, CreateLookup, CreateAdmit, CreateFound, CreateFails,
           CreateRow, HalfMade, UploadCheck, CompleteCheck, Cancel, ResumeCheck, DeleteCheck,
           UploadWrite, UploadCommit, CompleteProbe, CompleteQueue, CompleteReread, Put,
           ResumeRead, ResumeReopen, ResumeQueue, ResumeReread, DeleteLookup, DeleteUnlink,
           DeleteRmdir, DeleteDrop, Idle, At
  <1> QED  BY <1>1, <1>2 DEF Next

LEMMA RecoveredNext ==
  ASSUME RowType, DiskType, RecoveredInv, [Next]_vars
  PROVE  RecoveredInv'
  <1> SUFFICES ASSUME server' = "open" PROVE \A j \in Jobs : Agrees(j)'
    BY DEF RecoveredInv
  <1> USE DEF Exists
  <1>1. CASE UNCHANGED <<row, source, server>>
    BY <1>1 DEF RecoveredInv, Agrees
  <1>2. CASE Open
    BY <1>2, RecoveredAgrees
  <1>3. ASSUME NEW i \in Jobs, Expire(i) PROVE \A j \in Jobs : Agrees(j)'
    BY <1>3 DEF Expire, RecoveredInv, Agrees, RowType, Rows, disk
  <1>4. ASSUME NEW i \in Jobs, StartCleanup(i) PROVE \A j \in Jobs : Agrees(j)'
    BY <1>4, NoRowType DEF StartCleanup, DropRow, RecoveredInv, Agrees, RowType, DiskType
  <1>5. server # "open" => Open
    BY DEF Next, vars, Environment, Crash, Stop, Stopped, Start, CrashInCreate, Forget,
           LoseAudio, Expire, StartCleanup,
           ClientCall, RequestStep, CreateLookup, CreateAdmit, CreateFound, CreateFails,
           CreateRow, HalfMade, UploadCheck, CompleteCheck, Cancel, ResumeCheck, DeleteCheck,
           UploadWrite, UploadCommit, CompleteProbe, CompleteQueue, CompleteReread, Put,
           ResumeRead, ResumeReopen, ResumeQueue, ResumeReread, DeleteLookup, DeleteUnlink,
           DeleteRmdir, DeleteDrop, Idle, At,
           WorkerStep, Loop, Take, GetTimeout, Begin, Snapshot, Activate, ReadWindows,
           CheckWindow, ReadAudio, WriteTemp, Infer, SaveWindow, CheckSaved, CheckLast, Diarize,
           Finalize, CheckFinalized, Publish, Succeed, Fail, Deactivate, SelectExpired,
           SweepEnd, SweepLookup, SweepUnlink, SweepRmdir, SweepDrop, WorkerAt, Running
  <1>6. Environment /\ server = "open" => \E i \in Jobs : Expire(i) \/ StartCleanup(i)
    BY DEF Environment, Crash, Stop, Stopped, Open, Start, CrashInCreate, LoseAudio, Forget
  <1> QED  BY <1>1, <1>2, <1>3, <1>4, <1>5, <1>6, OpenIsAlone DEF vars

\* Whatever was lost while the server was down, and wherever it was killed, it
\* serves no job whose row and file disagree, and queues none without audio.
THEOREM RestartAgrees == Spec => RestartAgreesWithDisk
  <1>1. ASSUME RowType, RecoveredInv, server = "open", server' = "up", [Next]_vars,
               NEW j \in Jobs, Exists(j)'
        PROVE  IF source'[j] = Absent
                 THEN row'[j].state \in {"succeeded", "failed"} /\ j \notin ToSet(queue')
                 ELSE row'[j].offset = source'[j]
    <2> DEFINE S == {i \in Jobs : row[i].state \in {"queued", "processing"}}
    <2>1. Start
      BY <1>1, OpenIsAlone DEF vars, Environment, Crash, Stop, Stopped, Open, CrashInCreate,
           Forget, LoseAudio, Expire, StartCleanup
    <2>2. row'[j] = RequeuedRow(row[j]) /\ UNCHANGED source /\ ToSet(queue') = S
      BY <2>1 DEF Start, Orders, disk
    <2>3. row[j] \in Rows
      BY <1>1 DEF RowType
    <2> DEFINE r == row[j]
    <2>4. /\ RequeuedRow(r).offset = r.offset
          /\ r.state # "processing" => RequeuedRow(r) = r
          /\ r.state = "processing" => RequeuedRow(r).state = "queued"
      <3> HIDE DEF r
      <3>1. r \in Rows
        BY <2>3 DEF r
      <3> QED  BY <3>1, RequeuedType
    <2>5. r.state # "none"
      BY <1>1, <2>2, <2>4 DEF Exists
    <2>6. Agrees(j)
      BY <1>1 DEF RecoveredInv
    <2> QED  BY <2>2, <2>4, <2>5, <2>6 DEF Agrees, Exists
  <1> DEFINE Agreed == \A j \in Jobs : Exists(j)' =>
                 IF source'[j] = Absent
                   THEN row'[j].state \in {"succeeded", "failed"} /\ j \notin ToSet(queue')
                   ELSE row'[j].offset = source'[j]
  <1>2. TypeInv => RowType /\ DiskType
    BY DEF TypeInv
  <1>3. Init => RecoveredInv
    BY DEF Init, RecoveredInv
  <1>4. ASSUME TypeInv, RecoveredInv, [Next]_vars PROVE RecoveredInv'
    BY <1>2, <1>4, RecoveredNext
  <1>5. TypeInv /\ RecoveredInv /\ [Next]_vars
          => [server = "open" /\ server' = "up" => Agreed]_vars
    BY <1>1, <1>2
  <1> QED  BY <1>3, <1>4, <1>5, TypeInvariant, PTL DEF Spec, RestartAgreesWithDisk

----------------------------------------------------------------------------
(* The row and the in-memory queue.                                         *)

Scheduled(j) ==
  \/ j \in ToSet(queue)
  \/ worker.pc = "begin" /\ worker.job = j
  \/ \E t \in Requests : /\ request[t].job = j
                         /\ request[t].pc \in {"completed", "resumed", "put"}

LEMMA SplitQueue ==
  ASSUME NEW S, NEW q \in Seq(S), q # <<>>
  PROVE  ToSet(q) = {Head(q)} \cup ToSet(Tail(q))
  <1>1. ASSUME NEW i \in DOMAIN q PROVE q[i] \in {Head(q)} \cup ToSet(Tail(q))
    <2>1. CASE i = 1
      BY <2>1
    <2>2. CASE i # 1
      <3>1. i - 1 \in DOMAIN Tail(q) /\ Tail(q)[i - 1] = q[i]
        BY <1>1, <2>2
      <3> QED  BY <3>1 DEF ToSet
    <2> QED  BY <2>1, <2>2
  <1>2. Head(q) \in ToSet(q) /\ ToSet(Tail(q)) \subseteq ToSet(q)
    <2>1. ASSUME NEW i \in DOMAIN Tail(q) PROVE Tail(q)[i] \in ToSet(q)
      <3>1. i + 1 \in DOMAIN q /\ Tail(q)[i] = q[i + 1]
        BY <2>1
      <3> QED  BY <3>1 DEF ToSet
    <2>2. 1 \in DOMAIN q
      OBVIOUS
    <2> QED  BY <2>1, <2>2 DEF ToSet
  <1> QED  BY <1>1, <1>2 DEF ToSet

LEMMA ScheduledClient ==
  ASSUME TypeInv, NEW t \in Requests, ClientCall(t) \/ RequestStep(t), NEW j \in Jobs,
         row[j].state = "queued" => Scheduled(j), row'[j].state = "queued"
  PROVE  Scheduled(j)'
  <1>0. /\ row \in [Jobs -> Rows] /\ queue \in Seq(Jobs \cup {Poison})
        /\ request \in [Requests -> RequestRecords]
        /\ request[t].pc \notin {"idle", "admit", "create"} => request[t].job \in Jobs
    BY DEF TypeInv, RowType, QueueType, RequestInv
  <1>1. \A u \in Requests \ {t} : request'[u] = request[u]
    BY RequestMoves DEF RequestMove
  <1>2. UNCHANGED worker
    BY DEF ClientCall, RequestStep, CreateLookup, CreateAdmit, CreateFound, CreateFails,
           CreateRow, HalfMade, UploadCheck, CompleteCheck, Cancel,
           ResumeCheck, DeleteCheck, UploadWrite, UploadCommit, CompleteProbe,
           CompleteQueue, CompleteReread, Put, ResumeRead, ResumeReopen, ResumeQueue,
           ResumeReread, DeleteLookup, DeleteUnlink, DeleteRmdir, DeleteDrop
  <1>3. ASSUME row[j].state = "queued", UNCHANGED queue,
               \/ request[t].job # j
               \/ request[t].pc \notin {"completed", "resumed", "put"}
        PROVE  Scheduled(j)'
    BY <1>1, <1>2, <1>3 DEF Scheduled
  <1>4. ASSUME request'[t].job = j, request'[t].pc \in {"completed", "resumed", "put"}
        PROVE  Scheduled(j)'
    BY <1>4 DEF Scheduled
  <1>5. CASE CompleteQueue(t) \/ ResumeQueue(t)
    <2>1. CASE request[t].job = j
      <3>1. \E pc \in {"completed", "resumed"} : Goto(t, pc)
        BY <1>5 DEF CompleteQueue, ResumeQueue
      <3>2. request'[t].job = j /\ request'[t].pc \in {"completed", "resumed", "put"}
        BY <1>0, <2>1, <3>1, GotoEffect DEF RequestPCs
      <3> QED  BY <1>4, <3>2
    <2>2. CASE request[t].job # j
      <3>1. row[j].state = "queued" /\ UNCHANGED queue
        BY <1>0, <1>5, <2>2, QueueRowEffect DEF CompleteQueue, ResumeQueue, At
      <3> QED  BY <1>3, <2>2, <3>1
    <2> QED  BY <2>1, <2>2
  <1>6. CASE CompleteReread(t) \/ ResumeReread(t)
    <2>1. CASE request[t].job = j
      <3>1. Goto(t, "put")
        BY <1>6, <2>1 DEF CompleteReread, ResumeReread, Exists
      <3>2. request'[t].job = j /\ request'[t].pc = "put"
        BY <1>0, <2>1, <3>1, GotoEffect DEF RequestPCs
      <3> QED  BY <1>4, <3>2
    <2>2. CASE request[t].job # j
      BY <1>3, <1>6, <2>2 DEF CompleteReread, ResumeReread
    <2> QED  BY <2>1, <2>2
  <1>7. CASE Put(t)
    <2>1. request[t].job \in Jobs /\ row[j].state = "queued"
          /\ queue' = Append(queue, request[t].job)
      BY <1>0, <1>7 DEF Put, At
    <2>2. ToSet(queue') = ToSet(queue) \cup {request[t].job}
      BY <1>0, <2>1, QueueSets
    <2> QED  BY <1>1, <1>2, <2>1, <2>2 DEF Scheduled
  <1>8. ASSUME UNCHANGED <<row, queue>>, request[t].pc \notin {"completed", "resumed", "put"}
        PROVE  Scheduled(j)'
    BY <1>3, <1>8
  <1>9. CASE \/ UploadWrite(t) \/ CompleteProbe(t) \/ ResumeRead(t)
             \/ DeleteLookup(t) \/ DeleteUnlink(t) \/ DeleteRmdir(t)
    BY <1>8, <1>9 DEF UploadWrite, CompleteProbe, ResumeRead, DeleteLookup, DeleteUnlink,
                      DeleteRmdir, At
  <1>10. CASE UploadCommit(t)
    <2>1. request[t].job \in Jobs /\ request[t].upto \in 0..UploadLength
      BY <1>0, <1>10 DEF UploadCommit, At, RequestRecords
    <2>2. row[j].state = "queued"
      BY <1>0, <1>10, <2>1, OffsetEffect DEF UploadCommit
    <2> QED  BY <1>3, <1>10, <2>2 DEF UploadCommit, At
  <1>11. CASE ResumeReopen(t) \/ DeleteDrop(t)
    <2>1. request[t].job \in Jobs
      BY <1>0, <1>11 DEF ResumeReopen, DeleteDrop, At
    <2>2. row[j].state = "queued"
      BY <1>0, <1>11, <2>1, ReopenRowEffect, DropRowEffect, NoRowType
         DEF ResumeReopen, DeleteDrop, Exists
    <2> QED  BY <1>3, <1>11, <2>2 DEF ResumeReopen, DeleteDrop, At
  <1>12. ASSUME NEW k \in Jobs, Cancel(t, k) PROVE Scheduled(j)'
    <2>1. row[j].state = "queued"
      BY <1>0, <1>12, CancelRowEffect DEF Cancel, Exists
    <2> QED  BY <1>3, <1>12, <2>1 DEF Cancel, Idle
  <1>13. ASSUME NEW k \in Jobs, CreateRow(t, k) PROVE Scheduled(j)'
    <2>1. request[t].key \in Keys \cup {NoKey}
      BY <1>0 DEF RequestRecords
    <2>2. row[j].state = "queued"
      BY <1>0, <1>13, <2>1, NewRowType DEF CreateRow
    <2> QED  BY <1>3, <1>13, <2>2 DEF CreateRow, At
  <1>14. ASSUME NEW k \in Jobs,
                \/ \E size \in 1..MaxChunk : UploadCheck(t, k, size)
                \/ CompleteCheck(t, k) \/ ResumeCheck(t, k) \/ DeleteCheck(t, k)
         PROVE  Scheduled(j)'
    BY <1>8, <1>14 DEF UploadCheck, CompleteCheck, ResumeCheck, DeleteCheck, Idle
  <1>15. ASSUME (\E k \in Keys : CreateLookup(t, k)) \/ CreateAdmit(t) \/ CreateFound(t)
                \/ CreateFails(t)
         PROVE  Scheduled(j)'
    <2>1. UNCHANGED <<row, queue>>
      BY <1>15 DEF CreateLookup, CreateAdmit, CreateFound, CreateFails
    <2>2. request[t].pc \in CreatePCs
      BY <1>0, <1>15, CreatingEffect DEF Creating
    <2> QED  BY <1>3, <2>1, <2>2 DEF CreatePCs
  <1> QED
    BY <1>5, <1>6, <1>7, <1>9, <1>10, <1>11, <1>12, <1>13, <1>14, <1>15
       DEF ClientCall, RequestStep

LEMMA ScheduledWorker ==
  ASSUME TypeInv, WorkerStep, NEW j \in Jobs,
         row[j].state = "queued" => Scheduled(j), row'[j].state = "queued"
  PROVE  Scheduled(j)'
  <1>0. /\ row \in [Jobs -> Rows] /\ queue \in Seq(Jobs \cup {Poison})
        /\ worker \in WorkerRecords
        /\ worker.pc \in JobPCs => worker.job \in Jobs
        /\ worker.pc = "save" => worker.index \in Audible /\ worker.whole \in BOOLEAN
    BY DEF TypeInv, RowType, QueueType, WorkerInv, WorkerRecords
  <1>1. UNCHANGED request
    BY WorkerServes
  <1>2. row[j].state = "queued"
    <2> DEFINE i == worker.job
    <2> USE DEF WorkerAt, JobPCs, WorkerPCs
    <2>1. CASE Begin
      <3>1. i \in Jobs
        BY <1>0, <2>1 DEF Begin
      <3> QED  BY <1>0, <2>1, <3>1, BeginRowEffect DEF Begin
    <2>2. CASE SaveWindow
      <3>1. i \in Jobs
        BY <1>0, <2>2 DEF SaveWindow
      <3> QED  BY <1>0, <2>2, <3>1, SaveWindowEffect DEF SaveWindow
    <2>3. CASE Diarize \/ Publish
      <3>1. i \in Jobs
        BY <1>0, <2>3 DEF Diarize, Publish
      <3> QED  BY <1>0, <2>3, <3>1, PhaseRowEffect DEF Diarize, Publish
    <2>4. CASE Succeed
      <3>1. i \in Jobs
        BY <1>0, <2>4 DEF Succeed
      <3> QED  BY <1>0, <2>4, <3>1, SucceedRowEffect DEF Succeed
    <2>5. CASE Fail
      <3>1. i \in Jobs
        BY <1>0, <2>5 DEF Fail
      <3> QED  BY <1>0, <2>5, <3>1, FailRowEffect DEF Fail
    <2>6. CASE SweepDrop
      <3>1. i \in Jobs
        BY <1>0, <2>6 DEF SweepDrop
      <3> QED  BY <1>0, <2>6, <3>1, DropRowEffect, NoRowType DEF SweepDrop
    <2>7. \/ UNCHANGED row \/ Begin \/ SaveWindow \/ Diarize \/ Publish
          \/ Succeed \/ Fail \/ SweepDrop
      BY DEF WorkerStep, Loop, Take, GetTimeout, Snapshot, Activate, ReadWindows, CheckWindow,
             ReadAudio, WriteTemp, Infer, CheckSaved, CheckLast, Finalize, CheckFinalized,
             Deactivate, SelectExpired, SweepEnd, SweepLookup, SweepUnlink, SweepRmdir
    <2> QED  BY <2>1, <2>2, <2>3, <2>4, <2>5, <2>6, <2>7
  <1>3. CASE Take
    <2>1. /\ queue # <<>> /\ queue' = Tail(queue) /\ worker.pc = "get"
          /\ ToSet(queue) = {Head(queue)} \cup ToSet(Tail(queue))
      <3>1. queue # <<>> /\ queue' = Tail(queue) /\ worker.pc = "get"
        BY <1>3 DEF Take, WorkerAt
      <3>2. ToSet(queue) = {Head(queue)} \cup ToSet(Tail(queue))
        BY <1>0, <3>1, SplitQueue
      <3> QED  BY <3>1, <3>2
    <2>2. CASE Head(queue) = j
      <3>1. worker'.pc = "begin" /\ worker'.job = j
        BY <1>0, <1>3, <2>2, JobAssumption DEF Take, WorkerRecords
      <3> QED  BY <3>1 DEF Scheduled
    <2>3. CASE Head(queue) # j
      BY <1>1, <1>2, <2>1, <2>3 DEF Scheduled
    <2> QED  BY <2>2, <2>3
  <1>4. CASE Begin
    <2>1. worker.job # j
      <3>1. CASE worker.job = j
        BY <1>0, <1>2, <1>4, <3>1, BeginRowEffect DEF Begin, Exists
      <3> QED  BY <3>1
    <2> QED  BY <1>1, <1>2, <1>4, <2>1 DEF Begin, Scheduled
  <1>5. ASSUME ~Take, ~Begin PROVE worker.pc # "begin" /\ UNCHANGED queue
    BY <1>5 DEF WorkerStep, Loop, GetTimeout, Snapshot, Activate, ReadWindows, CheckWindow,
             ReadAudio, WriteTemp, Infer, CheckSaved, CheckLast, Finalize, CheckFinalized,
             Deactivate, SelectExpired, SweepEnd, SweepLookup, SweepUnlink, SweepRmdir,
             SaveWindow, Diarize, Publish, Succeed, Fail, SweepDrop, WorkerAt
  <1> QED  BY <1>1, <1>2, <1>3, <1>4, <1>5 DEF Scheduled

\* No interleaving of complete, resume, cancel and the worker, and no restart,
\* leaves a queued row that nothing is going to run.
THEOREM NothingForgotten == Spec => []QueuedIsScheduled
  <1>1. Init => QueuedIsScheduled
    BY DEF Init, QueuedIsScheduled
  <1>2. ASSUME TypeInv, QueuedIsScheduled, [Next]_vars PROVE QueuedIsScheduled'
    <2> SUFFICES ASSUME server' = "up", NEW j \in Jobs, row'[j].state = "queued"
                 PROVE  Scheduled(j)'
      BY DEF QueuedIsScheduled, Scheduled
    <2>1. CASE Start
      <3>1. row[j].state \in {"queued", "processing"}
        <4> DEFINE r == row[j]
        <4>1. r \in Rows /\ row'[j] = RequeuedRow(r)
          BY <1>2, <2>1 DEF Start, TypeInv, RowType
        <4> HIDE DEF r
        <4>2. r.state \in {"queued", "processing"}
          BY <4>1, RequeuedType
        <4> QED  BY <4>2 DEF r
      <3> QED  BY <2>1, <3>1 DEF Start, Orders, Scheduled
    <2>2. CASE server = "up"
      <3>1. row[j].state = "queued" => Scheduled(j)
        BY <1>2, <2>2 DEF QueuedIsScheduled, Scheduled
      <3>2. CASE UNCHANGED vars
        BY <3>1, <3>2 DEF vars, Scheduled
      <3>3. ASSUME NEW k \in Jobs, Expire(k) PROVE Scheduled(j)'
        <4>1. row[j].state = "queued" /\ UNCHANGED <<queue, worker, request>>
          BY <1>2, <3>3 DEF Expire, TypeInv, RowType, Rows
        <4> QED  BY <3>1, <4>1 DEF Scheduled
      <3>4. ASSUME Environment PROVE \E k \in Jobs : Expire(k)
        BY <2>2, <3>4 DEF Environment, Crash, Stop, Stopped, Open, Start, CrashInCreate,
                          LoseAudio, StartCleanup, Forget
      <3> QED
        BY <1>2, <3>1, <3>2, <3>3, <3>4, ScheduledClient, ScheduledWorker DEF Next
    <2>3. CASE server # "up" /\ ~Start
      <3>1. server' # "up"
        BY <1>2, <2>3, WorkerServes
           DEF Next, vars, Environment, Crash, Stop, Stopped, Open, CrashInCreate, Expire,
               LoseAudio, StartCleanup, Forget,
               ClientCall, RequestStep, CreateLookup, CreateAdmit, CreateFound, CreateFails,
               CreateRow, HalfMade, UploadCheck, CompleteCheck, Cancel,
               ResumeCheck, DeleteCheck, UploadWrite, UploadCommit, CompleteProbe,
               CompleteQueue, CompleteReread, Put, ResumeRead, ResumeReopen, ResumeQueue,
               ResumeReread, DeleteLookup, DeleteUnlink, DeleteRmdir, DeleteDrop
      <3> QED  BY <3>1
    <2> QED  BY <2>1, <2>2, <2>3
  <1> QED  BY <1>1, <1>2, TypeInvariant, PTL DEF Spec

----------------------------------------------------------------------------
(* What a job has heard when it succeeds: the windows of its row, the count  *)
(* the worker goes by, and the worker's way through them.                    *)

Plan == Indices(Geometry, Duration)

LoopPCs == {"check", "read", "temp", "infer", "save"}
AfterPCs == {"last", "diarize", "finalize", "finalized", "publish", "succeed"}
CountingPCs == LoopPCs \cup AfterPCs \cup {"saved", "failing", "done"}

\* progress_total is the number of windows, or the length of the upload, or 1
\* once there is nothing left to transcribe.
Counts(total, windows) == total \in {Total, UploadLength} \/ (total = 1 /\ Plan \subseteq windows)

RowsInv ==
  \A j \in Jobs :
    /\ ~Exists(j) => row[j].windows = {}
    /\ Exists(j) => Counts(row[j].total, row[j].windows)
    /\ row[j].state = "succeeded" => row[j].windows = Plan

\* The worker counts from 0 in every job.
IndexInv == worker.pc \notin CountingPCs => worker.index = 0

\* While its job exists, the worker has left no window behind it, and the only
\* windows ahead are those it has read.
Progress(w, windows) ==
  /\ w.pc # "snapshot" => Counts(w.total, windows)
  /\ w.pc \in LoopPCs \cup AfterPCs \cup {"saved"} => 0 .. w.index - 1 \subseteq windows
  /\ w.pc \in LoopPCs => windows \subseteq w.completed \cup 0 .. w.index - 1
  /\ w.pc \in LoopPCs \ {"check"} => w.index \notin w.completed
  /\ w.pc = "saved" => w.index \in windows /\ windows \subseteq w.completed \cup 0 .. w.index
  /\ w.pc \in LoopPCs \cup {"saved"} => w.completed \subseteq windows
  /\ w.pc \in AfterPCs => w.index >= w.total
  /\ w.pc \in {"finalized", "publish", "succeed"} => windows = Plan

RunInv ==
  worker.pc \in RunPCs /\ Exists(worker.job) =>
    row[worker.job].state # "succeeded" /\ Progress(worker, row[worker.job].windows)

ResultInv == RowsInv /\ IndexInv /\ RunInv

USE DEF CountingPCs

----------------------------------------------------------------------------
(* What a step does to the windows and the count of a row.                  *)

Quiet(j) ==
  \/ row'[j] = row[j]
  \/ /\ Exists(j) /\ row'[j].state # "none"
     /\ row'[j].windows = row[j].windows
     /\ row'[j].total \in {row[j].total, Total, UploadLength}
     /\ row'[j].state = "succeeded" => row[j].state = "succeeded"

New(j) ==
  /\ ~Exists(j) /\ worker.job # j
  /\ row'[j].windows = {} /\ row'[j].total = UploadLength /\ row'[j].state = "uploading"

Outside(j) == Quiet(j) \/ New(j) \/ row'[j] = NoRow

LEMMA OnlyOne ==
  ASSUME NEW j \in Jobs, Outside(j), \A i \in Jobs \ {j} : row'[i] = row[i]
  PROVE  \A i \in Jobs : Outside(i)
  BY DEF Outside, Quiet

LEMMA OutsideClient ==
  ASSUME TypeInv, NEW t \in Requests, ClientCall(t) \/ RequestStep(t)
  PROVE  \A j \in Jobs : Outside(j)
  <1>0. row \in [Jobs -> Rows] /\ request[t] \in RequestRecords
        /\ (request[t].pc \notin {"idle", "admit", "create"} => request[t].job \in Jobs)
    BY DEF TypeInv, RowType, RequestInv
  <1>1. ASSUME NEW j \in Jobs, CreateRow(t, j) PROVE \A i \in Jobs : Outside(i)
    <2>1. request[t].key \in Keys \cup {NoKey}
      BY <1>0 DEF RequestRecords
    <2>2. New(j)
      BY <1>0, <1>1, <2>1, NewRowType DEF CreateRow, New, Fresh, Exists
    <2> QED  BY <1>0, <1>1, <2>2, OnlyOne DEF CreateRow, Outside
  <1>2. CASE UploadCommit(t)
    <2> DEFINE j == request[t].job
    <2>1. j \in Jobs /\ request[t].upto \in 0..UploadLength
      BY <1>0, <1>2 DEF UploadCommit, At, RequestRecords
    <2>2. Quiet(j) /\ \A i \in Jobs \ {j} : row'[i] = row[i]
      BY <1>0, <1>2, <2>1, OffsetEffect DEF UploadCommit, Quiet, Exists
    <2> QED  BY <2>1, <2>2, OnlyOne DEF Outside
  <1>3. ASSUME NEW j \in Jobs, QueueRow(j) PROVE \A i \in Jobs : Outside(i)
    <2>1. Quiet(j)
      BY <1>0, <1>3, QueueRowEffect DEF Quiet, Exists
    <2> QED  BY <1>0, <1>3, <2>1, QueueRowEffect, OnlyOne DEF Outside
  <1>4. CASE CompleteQueue(t) \/ ResumeQueue(t)
    BY <1>0, <1>3, <1>4 DEF CompleteQueue, ResumeQueue, At
  <1>5. ASSUME NEW j \in Jobs, Cancel(t, j) PROVE \A i \in Jobs : Outside(i)
    <2>1. Quiet(j)
      BY <1>0, <1>5, CancelRowEffect DEF Cancel, Quiet, Exists
    <2> QED  BY <1>0, <1>5, <2>1, CancelRowEffect, OnlyOne DEF Outside, Cancel
  <1>6. CASE ResumeReopen(t)
    <2> DEFINE j == request[t].job
    <2>1. j \in Jobs /\ ReopenRow(j)
      BY <1>0, <1>6 DEF ResumeReopen, At
    <2>2. Quiet(j)
      BY <1>0, <2>1, ReopenRowEffect DEF Quiet, Exists
    <2> QED  BY <1>0, <2>1, <2>2, ReopenRowEffect, OnlyOne DEF Outside
  <1>7. CASE DeleteDrop(t)
    <2> DEFINE j == request[t].job
    <2>1. j \in Jobs /\ DropRow(j)
      BY <1>0, <1>7 DEF DeleteDrop, At
    <2>2. Outside(j) /\ \A i \in Jobs \ {j} : row'[i] = row[i]
      BY <1>0, <2>1 DEF DropRow, Outside
    <2> QED  BY <2>1, <2>2, OnlyOne
  <1>8. UNCHANGED row => \A j \in Jobs : Outside(j)
    BY DEF Outside, Quiet
  <1> QED
    BY <1>1, <1>2, <1>4, <1>5, <1>6, <1>7, <1>8
       DEF ClientCall, RequestStep, UploadCheck, CompleteCheck, ResumeCheck, DeleteCheck,
           UploadWrite, CompleteProbe, CompleteReread, Put, ResumeRead, ResumeReread,
           DeleteLookup, DeleteUnlink, DeleteRmdir, CreateLookup, CreateAdmit, CreateFound,
           CreateFails, CreateRow, Cancel, UploadCommit,
           CompleteQueue, ResumeQueue, ResumeReopen, DeleteDrop

LEMMA OutsideEnvironment ==
  ASSUME TypeInv, Environment
  PROVE  /\ \A j \in Jobs : Outside(j)
         /\ worker' \in {worker, NoWorker, [NoWorker EXCEPT !.pc = "loop"]}
  <1>0. row \in [Jobs -> Rows] /\ source \in [Jobs -> Absent..UploadLength]
    BY DEF TypeInv, RowType, DiskType
  <1>1. ASSUME Open, NEW j \in Jobs PROVE Outside(j)
    <2>1. row'[j] = RecoveredRow(j) /\ row[j] \in Rows
      BY <1>0, <1>1 DEF Open
    <2>2. CASE row[j].state # "none" /\ RecoveredRow(j) = FailedRow(row[j])
      <3> DEFINE r == row[j]
      <3>1. r \in Rows
        BY <2>1
      <3> HIDE DEF r
      <3>2. FailedRow(r).state = "failed" /\ FailedRow(r).windows = r.windows
            /\ FailedRow(r).total = r.total
        BY <3>1, FailedRowEffect
      <3> QED  BY <2>1, <2>2, <3>2 DEF Outside, Quiet, Exists, r
    <2>3. ASSUME NEW b, row[j].state # "none", RecoveredRow(j) = [row[j] EXCEPT !.offset = b]
          PROVE  Outside(j)
      BY <2>1, <2>3 DEF Outside, Quiet, Exists, Rows
    <2>4. CASE RecoveredRow(j) = row[j]
      BY <2>1, <2>4 DEF Outside, Quiet
    <2> QED  BY <2>2, <2>3, <2>4 DEF RecoveredRow
  <1>2. ASSUME Start, NEW j \in Jobs PROVE Outside(j)
    <2> DEFINE r == row[j]
    <2>1. row'[j] = RequeuedRow(r) /\ r \in Rows
      BY <1>0, <1>2 DEF Start
    <2> HIDE DEF r
    <2>2. /\ RequeuedRow(r) = r \/ (r.state = "processing" /\ RequeuedRow(r).state = "queued")
          /\ RequeuedRow(r).windows = r.windows
      BY <2>1, RequeuedType
    <2>3. RequeuedRow(r).total \in {r.total, Total}
      BY <2>1 DEF RequeuedRow, Rows
    <2> QED  BY <2>1, <2>2, <2>3 DEF Outside, Quiet, Exists, r
  <1>3. ASSUME NEW k \in Jobs, Expire(k), NEW j \in Jobs PROVE Outside(j)
    BY <1>0, <1>3 DEF Expire, Finished, Outside, Quiet, Exists, Rows
  <1>4. ASSUME NEW k \in Jobs, StartCleanup(k), NEW j \in Jobs PROVE Outside(j)
    BY <1>0, <1>4 DEF StartCleanup, DropRow, Outside, Quiet
  <1>5. \/ UNCHANGED row \/ Open \/ Start
        \/ \E k \in Jobs : Expire(k) \/ StartCleanup(k)
    BY DEF Environment, Crash, Stop, Stopped, CrashInCreate, LoseAudio
  <1>6. \A j \in Jobs : Outside(j)
    BY <1>1, <1>2, <1>3, <1>4, <1>5 DEF Outside, Quiet
  <1>7. worker' \in {worker, NoWorker, [NoWorker EXCEPT !.pc = "loop"]}
    BY DEF Environment, Crash, CrashInCreate, Stop, Stopped, Open, Start, Forget, Expire,
           LoseAudio, StartCleanup
  <1> QED  BY <1>6, <1>7

----------------------------------------------------------------------------
(* Nothing but the worker disturbs the invariant.                           *)

LEMMA RowsOutside ==
  ASSUME RowsInv, \A j \in Jobs : Outside(j) PROVE RowsInv'
  BY NoRowType DEF RowsInv, Outside, Quiet, New, Counts, Exists

\* What the worker knows of its job stays true.
LEMMA RunOutside ==
  ASSUME RunInv, TypeInv, UNCHANGED worker, \A j \in Jobs : Outside(j)
  PROVE  RunInv'
  <1> SUFFICES ASSUME worker.pc \in RunPCs, Exists(worker.job)'
               PROVE  /\ row'[worker.job].state # "succeeded"
                      /\ Progress(worker, row'[worker.job].windows)
    BY DEF RunInv
  <1>1. worker.job \in Jobs
    BY DEF TypeInv, WorkerInv, RunPCs, JobPCs, WorkerPCs
  <1>2. Quiet(worker.job) /\ Exists(worker.job)
    BY <1>1, NoRowType DEF Outside, New, Quiet, Exists
  <1> QED  BY <1>2 DEF RunInv, Quiet

LEMMA ResultOutside ==
  ASSUME ResultInv, TypeInv, \A j \in Jobs : Outside(j),
         worker' \in {worker, NoWorker, [NoWorker EXCEPT !.pc = "loop"]}
  PROVE  ResultInv'
  <1>1. RowsInv'
    BY RowsOutside DEF ResultInv
  <1>2. CASE UNCHANGED worker
    BY <1>1, <1>2, RunOutside DEF ResultInv, IndexInv
  <1>3. CASE worker' \in {NoWorker, [NoWorker EXCEPT !.pc = "loop"]}
    <2>1. worker'.pc \in {"off", "loop"} /\ worker'.index = 0
      BY <1>3 DEF NoWorker
    <2> QED  BY <1>1, <2>1 DEF ResultInv, IndexInv, RunInv, RunPCs
  <1> QED  BY <1>2, <1>3

----------------------------------------------------------------------------
(* The windows and the counts.                                              *)

LEMMA PlanIsInitial ==
  /\ Plan = 0 .. Total - 1
  /\ Total \in Nat \ {0} /\ Total < UploadLength
  BY TotalBounds, UploadAssumption DEF Plan, Indices, Total

\* The last byte is past the end of the audio, so fewer windows than bytes can
\* be heard.
LEMMA FewAudible == Audible \subseteq 0 .. UploadLength - 2
  BY UploadAssumption, JobAssumption, WindowAssumption DEF Audible, WindowStart, Stride, Geometry

\* A count the worker has got through is the plan's.
LEMMA Through ==
  ASSUME NEW windows \in SUBSET Audible, NEW n \in 0..UploadLength, NEW i \in 0..UploadLength,
         Counts(n, windows), i >= n, 0 .. i - 1 \subseteq windows
  PROVE  Plan \subseteq windows
  <1>1. CASE n = Total
    BY <1>1, PlanIsInitial
  <1>2. CASE n = UploadLength
    <2>1. UploadLength - 1 \in 0 .. i - 1
      BY <1>2, UploadAssumption
    <2>2. UploadLength - 1 \notin 0 .. UploadLength - 2
      BY UploadAssumption
    <2> QED  BY <2>1, <2>2, FewAudible
  <1> QED  BY <1>1, <1>2 DEF Counts

\* _finalize refuses whatever else the row holds than the plan.
LEMMA Exact ==
  ASSUME NEW windows \in SUBSET Audible, NEW n \in 0..UploadLength,
         Counts(n, windows), Plan \subseteq windows, Cardinality(windows) = n
  PROVE  windows = Plan
  <1>1. /\ IsFiniteSet(0 .. UploadLength - 2)
        /\ Cardinality(0 .. UploadLength - 2) = UploadLength - 1
        /\ IsFiniteSet(Plan) /\ Cardinality(Plan) = Total
    <2>1. UploadLength - 2 \in Nat /\ Total - 1 \in Nat
      BY PlanIsInitial, UploadAssumption
    <2>2. /\ \A b \in Nat : IsFiniteSet(0 .. b) /\ Cardinality(0 .. b) = b + 1
      BY FS_Interval
    <2>3. UploadLength - 2 + 1 = UploadLength - 1 /\ Total - 1 + 1 = Total
      BY PlanIsInitial, UploadAssumption
    <2> QED  BY <2>1, <2>2, <2>3, PlanIsInitial
  <1>2. windows \subseteq 0 .. UploadLength - 2
    BY FewAudible
  <1>3. IsFiniteSet(windows) /\ Cardinality(windows) <= UploadLength - 1
    BY <1>1, <1>2, FS_Subset
  <1>4. n # UploadLength
    BY <1>3, UploadAssumption
  <1>5. Total <= n
    BY <1>1, <1>3, FS_Subset
  <1>6. n = Total
    BY <1>4, <1>5, PlanIsInitial DEF Counts
  <1> QED  BY <1>1, <1>3, <1>6, FS_Subset

----------------------------------------------------------------------------
(* The worker.                                                              *)

\* A step that leaves the rows alone, and the job if there is one.
LEMMA RunKept ==
  ASSUME ResultInv, UNCHANGED row,
         worker'.pc \notin CountingPCs => worker'.index = 0,
         worker'.pc \in RunPCs =>
           /\ worker.pc \in RunPCs /\ worker'.job = worker.job
           /\ Exists(worker.job) => Progress(worker', row[worker.job].windows)
  PROVE  ResultInv'
  <1>1. RowsInv'
    BY DEF ResultInv, RowsInv, Exists, Counts
  <1>2. IndexInv'
    BY DEF IndexInv
  <1>3. RunInv'
    BY DEF ResultInv, RunInv, Exists
  <1> QED  BY <1>1, <1>2, <1>3 DEF ResultInv

\* A step that writes the row of the job, and keeps what is said of it.
LEMMA RunWrites ==
  ASSUME ResultInv, TypeInv, worker.pc \in RunPCs, Exists(worker.job),
         \A i \in Jobs \ {worker.job} : row'[i] = row[i],
         row'[worker.job].state # "none",
         Counts(row'[worker.job].total, row'[worker.job].windows),
         row'[worker.job].state = "succeeded" =>
           row'[worker.job].windows = Plan /\ worker'.pc \notin RunPCs,
         worker'.job = worker.job,
         worker'.pc \in CountingPCs \/ worker'.index = 0,
         worker'.pc \in RunPCs => Progress(worker', row'[worker.job].windows)
  PROVE  ResultInv'
  <1>0. worker.job \in Jobs
    BY DEF TypeInv, WorkerInv, RunPCs, JobPCs, WorkerPCs
  <1>1. RowsInv'
    BY <1>0 DEF ResultInv, RowsInv, Exists, Counts
  <1>2. IndexInv'
    BY DEF IndexInv
  <1>3. RunInv'
    BY DEF RunInv
  <1> QED  BY <1>1, <1>2, <1>3 DEF ResultInv

LEMMA ResultWorker ==
  ASSUME ResultInv, TypeInv, WorkerStep
  PROVE  ResultInv'
  <1> DEFINE j == worker.job
             ws == row[worker.job].windows
  <1>0. /\ row \in [Jobs -> Rows] /\ worker \in WorkerRecords
        /\ worker.pc \in RunPCs \cup {"begin", "failing", "done", "drop"} => j \in Jobs
        /\ worker.index \in 0..UploadLength /\ worker.total \in 0..UploadLength
        /\ UploadLength \in Nat
    BY UploadAssumption
       DEF TypeInv, RowType, WorkerInv, RunPCs, JobPCs, WorkerPCs, WorkerRecords
  <1>1. worker.pc \in RunPCs =>
          /\ ws \in SUBSET Audible /\ row[j].total \in 0..UploadLength
          /\ Exists(j) => Progress(worker, ws)
          /\ Exists(j) => row[j].state # "succeeded" /\ row[j].state # "none"
          /\ Exists(j) => Counts(row[j].total, ws)
          /\ ~Exists(j) => ws = {}
    BY <1>0 DEF Rows, ResultInv, RunInv, RowsInv, Exists
  \* Between two jobs.
  <1>2. CASE Loop \/ GetTimeout \/ SweepEnd
    <2>1. \E pc \in {"off", "get", "cleanup", "loop"} : Step(pc)
      BY <1>2 DEF Loop, GetTimeout, SweepEnd
    <2>2. worker'.pc \in {"off", "get", "cleanup", "loop"} /\ worker'.index = worker.index
      BY <1>0, <2>1, StepEffect DEF WorkerPCs
    <2>3. worker.index = 0 /\ UNCHANGED row
      BY <1>2 DEF Loop, GetTimeout, SweepEnd, WorkerAt, ResultInv, IndexInv, LoopPCs, AfterPCs
    <2> QED  BY <2>2, <2>3, RunKept DEF RunPCs
  <1>3. CASE Take
    <2>1. worker'.pc \in {"off", "begin"} /\ worker'.index = worker.index
      BY <1>0, <1>3 DEF Take, WorkerRecords
    <2>2. worker.index = 0 /\ UNCHANGED row
      BY <1>3 DEF Take, WorkerAt, ResultInv, IndexInv, LoopPCs, AfterPCs
    <2> QED  BY <2>1, <2>2, RunKept DEF RunPCs
  <1>4. ASSUME UNCHANGED row, worker' = LeaveJob \/ Die PROVE ResultInv'
    <2>1. worker'.pc \in {"cleanup", "dead"} /\ worker'.index = 0
      BY <1>4 DEF LeaveJob, Die, NoWorker
    <2> QED  BY <1>4, <2>1, RunKept DEF RunPCs
  <1>5. CASE Begin
    <2>1. CASE row[j].state # "queued"
      BY <1>4, <1>5, <2>1 DEF Begin
    <2>2. CASE row[j].state = "queued"
      <3>1. Step("snapshot") /\ BeginRow(j) /\ j \in Jobs /\ Exists(j)
        BY <1>0, <1>5, <2>2 DEF Begin, WorkerAt, Exists
      <3>2. worker'.pc = "snapshot" /\ worker'.job = j /\ worker'.index = 0
        BY <1>0, <1>5, <3>1, StepEffect
           DEF WorkerPCs, Begin, WorkerAt, ResultInv, IndexInv, LoopPCs, AfterPCs
      <3>3. /\ \A i \in Jobs \ {j} : row'[i] = row[i]
            /\ row'[j].state = "processing" /\ row'[j].total = row[j].total
            /\ row'[j].windows = row[j].windows
        BY <1>0, <3>1, BeginRowEffect
      <3>4. RowsInv'
        BY <3>1, <3>3 DEF ResultInv, RowsInv, Exists, Counts
      <3>5. RunInv' /\ IndexInv'
        BY <3>2, <3>3 DEF RunInv, IndexInv, Progress, LoopPCs, AfterPCs
      <3> QED  BY <3>4, <3>5 DEF ResultInv
    <2> QED  BY <2>1, <2>2
  <1>6. CASE Snapshot
    <2>1. worker.pc = "snapshot" /\ UNCHANGED row
      BY <1>6 DEF Snapshot, WorkerAt
    <2>2. CASE Exists(j)
      <3>1. /\ worker'.pc = "activate" /\ worker'.job = j /\ worker'.total = row[j].total
            /\ worker'.index = 0
        BY <1>0, <1>6, <2>1, <2>2
           DEF Snapshot, WorkerRecords, ResultInv, IndexInv, LoopPCs, AfterPCs
      <3> QED
        BY <1>1, <2>1, <3>1, RunKept DEF RunPCs, LoopPCs, AfterPCs, Progress
    <2>3. CASE ~Exists(j)
      BY <1>4, <1>6, <2>1, <2>3 DEF Snapshot
    <2> QED  BY <2>2, <2>3
  <1>7. CASE Activate
    <2>1. worker.pc = "activate" /\ UNCHANGED row /\ worker.index = 0
      BY <1>7 DEF Activate, WorkerAt, ResultInv, IndexInv, LoopPCs, AfterPCs
    <2>2. /\ worker'.pc = "windows" /\ worker'.job = j /\ worker'.total = worker.total
          /\ worker'.index = 0
      BY <1>0, <1>7, <2>1, StepEffect DEF Activate, WorkerPCs
    <2> QED
      BY <1>1, <2>1, <2>2, RunKept DEF RunPCs, LoopPCs, AfterPCs, Progress
  <1>8. CASE ReadWindows
    <2>1. worker.pc = "windows" /\ UNCHANGED row /\ worker.index = 0
      BY <1>8 DEF ReadWindows, WorkerAt, ResultInv, IndexInv, LoopPCs, AfterPCs
    <2>2. /\ worker'.pc = "check" /\ worker'.job = j /\ worker'.total = worker.total
          /\ worker'.index = 0 /\ worker'.completed = ws
      BY <1>0, <1>8, <2>1 DEF ReadWindows, WorkerRecords
    <2>3. Exists(j) => Progress(worker', ws)
      BY <1>1, <2>1, <2>2 DEF RunPCs, LoopPCs, AfterPCs, Progress
    <2> QED
      BY <2>1, <2>2, <2>3, RunKept DEF RunPCs, LoopPCs
  \* The loop over the windows.
  <1>9. CASE CheckWindow
    <2>1. worker.pc = "check" /\ UNCHANGED row
      BY <1>9 DEF CheckWindow, WorkerAt
    <2>2. /\ worker'.job = j /\ worker'.total = worker.total
          /\ worker'.completed = worker.completed
          /\ \/ worker'.pc = "last" /\ worker'.index = worker.index /\ worker.index >= worker.total
             \/ worker'.pc = "done"
             \/ /\ worker'.pc = "check" /\ worker'.index = worker.index + 1
                /\ worker.index \in worker.completed
             \/ /\ worker'.pc = "read" /\ worker'.index = worker.index
                /\ worker.index \notin worker.completed
      BY <1>0, <1>9, <2>1 DEF CheckWindow, WorkerRecords
    <2>3. CASE worker'.pc = "check"
      <3>1. 0 .. worker'.index - 1 = (0 .. worker.index - 1) \cup {worker.index}
        BY <1>0, <2>2, <2>3
      <3>2. Exists(j) => Progress(worker', ws)
        BY <1>1, <2>1, <2>2, <2>3, <3>1 DEF RunPCs, LoopPCs, AfterPCs, Progress
      <3> QED  BY <2>1, <2>2, <2>3, <3>2, RunKept DEF RunPCs, LoopPCs
    <2>4. CASE worker'.pc # "check"
      <3>1. worker'.pc \in RunPCs /\ Exists(j) => Progress(worker', ws)
        BY <1>1, <2>1, <2>2, <2>4 DEF RunPCs, LoopPCs, AfterPCs, Progress
      <3> QED  BY <2>1, <2>2, <2>4, <3>1, RunKept DEF RunPCs, LoopPCs, AfterPCs
    <2> QED  BY <2>3, <2>4
  \* A step to the next place, or to the failure or the end of the job.
  <1>10. ASSUME NEW from \in RunPCs, NEW to \in RunPCs, worker.pc = from, UNCHANGED row,
                \/ /\ worker'.pc = to /\ worker'.job = j /\ worker'.total = worker.total
                   /\ worker'.index = worker.index /\ worker'.completed = worker.completed
                \/ Step("failing") \/ Step("done"),
                \/ from \in {"read", "temp", "infer"} /\ to \in {"temp", "infer", "save"}
                \/ from \in AfterPCs /\ to \in AfterPCs
                   /\ (to \in {"finalized", "publish", "succeed"} => ws = Plan)
         PROVE  ResultInv'
    <2>1. CASE Step("failing") \/ Step("done")
      <3>1. worker'.pc \in {"failing", "done"}
        BY <1>0, <2>1, StepEffect DEF WorkerPCs
      <3> QED  BY <1>10, <3>1, RunKept DEF RunPCs
    <2>2. CASE /\ worker'.pc = to /\ worker'.job = j /\ worker'.total = worker.total
               /\ worker'.index = worker.index /\ worker'.completed = worker.completed
      <3>1. Exists(j) => Progress(worker', ws)
        BY <1>1, <1>10, <2>2 DEF LoopPCs, AfterPCs, Progress
      <3> QED  BY <1>10, <2>2, <3>1, RunKept DEF LoopPCs, AfterPCs
    <2> QED  BY <1>10, <2>1, <2>2
  <1>11. CASE ReadAudio \/ WriteTemp \/ Infer
    <2>1. UNCHANGED row
      BY <1>11 DEF ReadAudio, WriteTemp, Infer
    <2>2. CASE ReadAudio
      <3>1. worker.pc = "read" /\
               (\/ /\ worker'.pc = "temp" /\ worker'.job = j /\ worker'.total = worker.total
                   /\ worker'.index = worker.index /\ worker'.completed = worker.completed
                \/ Step("failing"))
        BY <1>0, <2>2 DEF ReadAudio, WorkerAt, WorkerRecords
      <3> QED  BY <1>10, <2>1, <3>1 DEF RunPCs
    <2>3. CASE WriteTemp
      <3>1. worker.pc = "temp" /\
               (\/ /\ worker'.pc = "infer" /\ worker'.job = j /\ worker'.total = worker.total
                   /\ worker'.index = worker.index /\ worker'.completed = worker.completed
                \/ Step("failing"))
        BY <1>0, <2>3, StepEffect DEF WriteTemp, WorkerAt, WorkerPCs
      <3> QED  BY <1>10, <2>1, <3>1 DEF RunPCs
    <2>4. CASE Infer
      <3>1. worker.pc = "infer" /\
               (\/ /\ worker'.pc = "save" /\ worker'.job = j /\ worker'.total = worker.total
                   /\ worker'.index = worker.index /\ worker'.completed = worker.completed
                \/ Step("failing"))
        BY <1>0, <2>4, StepEffect DEF Infer, WorkerAt, WorkerPCs
      <3> QED  BY <1>10, <2>1, <3>1 DEF RunPCs
    <2> QED  BY <1>11, <2>2, <2>3, <2>4
  <1>12. CASE SaveWindow
    <2>1. /\ worker.pc = "save" /\ j \in Jobs
          /\ worker.index \in Audible /\ worker.whole \in BOOLEAN
          /\ SaveWindowRow(j, worker.index, worker.whole)
      BY <1>0, <1>12 DEF SaveWindow, WorkerAt, RunPCs, TypeInv, WorkerInv, WorkerRecords
    <2>2. CASE ~Exists(j)
      <3>1. UNCHANGED row /\ worker'.pc = "failing"
        BY <1>0, <1>12, <2>1, <2>2, StepEffect DEF SaveWindow, SaveWindowRow, Update, WorkerPCs
      <3> QED  BY <3>1, RunKept DEF RunPCs
    <2>3. CASE Exists(j)
      <3>1. /\ worker'.pc = "saved" /\ worker'.job = j /\ worker'.total = worker.total
            /\ worker'.index = worker.index /\ worker'.completed = worker.completed
        BY <1>0, <1>12, <2>3, StepEffect DEF SaveWindow, WorkerPCs
      <3>2. /\ \A i \in Jobs \ {j} : row'[i] = row[i]
            /\ row'[j].state = row[j].state /\ row'[j].total = row[j].total
            /\ row'[j].windows = ws \cup {worker.index}
        BY <1>0, <2>1, <2>3, SaveWindowEffect
      <3>3. worker.index \in 0 .. worker.index
        BY <1>0
      <3>4. 0 .. worker.index = (0 .. worker.index - 1) \cup {worker.index}
        BY <1>0
      <3>5. Progress(worker', row'[j].windows)
        BY <1>1, <2>1, <2>3, <3>1, <3>2, <3>3, <3>4
           DEF RunPCs, LoopPCs, AfterPCs, Progress, Counts
      <3>6. Counts(row'[j].total, row'[j].windows)
        BY <1>1, <2>1, <2>3, <3>2 DEF RunPCs, Counts
      <3> QED
        BY <1>1, <2>1, <2>3, <3>1, <3>2, <3>5, <3>6, RunWrites DEF RunPCs
    <2> QED  BY <2>2, <2>3
  <1>13. CASE CheckSaved
    <2>1. worker.pc = "saved" /\ UNCHANGED row
      BY <1>13 DEF CheckSaved, WorkerAt
    <2>2. \/ worker'.pc = "done"
          \/ /\ worker'.pc = "check" /\ worker'.job = j /\ worker'.total = worker.total
             /\ worker'.index = worker.index + 1 /\ worker'.completed = worker.completed
      BY <1>0, <1>13 DEF CheckSaved, Step, WorkerRecords
    <2>3. CASE worker'.pc = "done"
      BY <2>1, <2>3, RunKept DEF RunPCs
    <2>4. CASE worker'.pc # "done"
      <3>1. /\ 0 .. worker'.index - 1 = (0 .. worker.index - 1) \cup {worker.index}
            /\ 0 .. worker'.index - 1 = 0 .. worker.index
        BY <1>0, <2>2, <2>4
      <3>2. Exists(j) => Progress(worker', ws)
        BY <1>1, <2>1, <2>2, <2>4, <3>1 DEF RunPCs, LoopPCs, AfterPCs, Progress
      <3> QED  BY <2>1, <2>2, <2>4, <3>2, RunKept DEF RunPCs, LoopPCs
    <2> QED  BY <2>3, <2>4
  \* After the windows.
  <1>14. CASE CheckLast \/ CheckFinalized
    <2>1. UNCHANGED row /\ (worker.pc = "last" \/ worker.pc = "finalized")
      BY <1>14 DEF CheckLast, CheckFinalized, WorkerAt
    <2>2. CASE CheckLast
      <3>1. worker.pc = "last" /\
               (\/ /\ worker'.pc = "diarize" /\ worker'.job = j /\ worker'.total = worker.total
                   /\ worker'.index = worker.index /\ worker'.completed = worker.completed
                \/ Step("done"))
        BY <1>0, <2>2, StepEffect DEF CheckLast, WorkerAt, WorkerPCs
      <3> QED  BY <1>10, <2>1, <3>1 DEF RunPCs, AfterPCs
    <2>3. CASE CheckFinalized
      <3>1. worker.pc = "finalized" /\
               (\/ /\ worker'.pc = "publish" /\ worker'.job = j /\ worker'.total = worker.total
                   /\ worker'.index = worker.index /\ worker'.completed = worker.completed
                \/ Step("done"))
        BY <1>0, <2>3, StepEffect DEF CheckFinalized, WorkerAt, WorkerPCs
      <3>2. CASE Exists(j)
        <4>1. ws = Plan
          BY <1>1, <3>1, <3>2 DEF RunPCs, Progress
        <4> QED  BY <1>10, <2>1, <3>1, <4>1 DEF RunPCs, AfterPCs
      <3>3. CASE ~Exists(j)
        <4>1. worker'.pc \in {"publish", "done"} /\ (worker'.pc = "publish" => worker'.job = j)
          BY <1>0, <3>1, StepEffect DEF WorkerPCs
        <4> QED  BY <2>1, <3>3, <4>1, RunKept DEF RunPCs, AfterPCs
      <3> QED  BY <3>2, <3>3
    <2> QED  BY <1>14, <2>2, <2>3
  <1>15. CASE Finalize
    <2>1. UNCHANGED row /\ worker.pc = "finalize"
      BY <1>15 DEF Finalize, WorkerAt
    <2>2. CASE Step("failing")
      <3>1. worker'.pc = "failing"
        BY <1>0, <2>2, StepEffect DEF WorkerPCs
      <3> QED  BY <2>1, <3>1, RunKept DEF RunPCs
    <2>3. CASE Cardinality(ws) = worker.total /\ Step("finalized")
      <3>1. /\ worker'.pc = "finalized" /\ worker'.job = j /\ worker'.total = worker.total
            /\ worker'.index = worker.index /\ worker'.completed = worker.completed
        BY <1>0, <2>3, StepEffect DEF WorkerPCs
      <3>2. ASSUME Exists(j) PROVE Progress(worker', ws)
        <4>1. /\ Counts(worker.total, ws) /\ worker.index >= worker.total
              /\ 0 .. worker.index - 1 \subseteq ws
          BY <1>1, <2>1, <3>2 DEF RunPCs, AfterPCs, Progress
        <4>2. ws = Plan
          BY <1>0, <1>1, <2>1, <2>3, <4>1, Through, Exact DEF RunPCs
        <4> QED  BY <3>1, <4>1, <4>2 DEF LoopPCs, AfterPCs, Progress
      <3> QED  BY <2>1, <3>1, <3>2, RunKept DEF RunPCs, AfterPCs
    <2> QED  BY <1>15, <2>2, <2>3 DEF Finalize
  <1>16. CASE Diarize \/ Publish
    <2>1. PhaseRow(j) /\ worker.pc \in {"diarize", "publish"} /\ j \in Jobs
      BY <1>0, <1>16 DEF Diarize, Publish, WorkerAt, RunPCs
    <2>2. /\ worker'.pc \in {"finalize", "succeed"} /\ worker'.job = j
          /\ worker'.total = worker.total
          /\ worker'.index = worker.index /\ worker'.completed = worker.completed
          /\ worker'.pc = "succeed" => worker.pc = "publish"
      BY <1>0, <1>16, StepEffect DEF Diarize, Publish, WorkerAt, WorkerPCs
    <2>3. CASE ~Exists(j)
      <3>1. UNCHANGED row
        BY <2>1, <2>3 DEF PhaseRow, Update
      <3> QED  BY <2>1, <2>2, <2>3, <3>1, RunKept DEF RunPCs, AfterPCs
    <2>4. CASE Exists(j)
      <3>1. /\ \A i \in Jobs \ {j} : row'[i] = row[i]
            /\ row'[j].state = row[j].state /\ row'[j].total = 1 /\ row'[j].windows = ws
        BY <1>0, <2>1, <2>4, PhaseRowEffect
      <3>2. /\ Counts(worker.total, ws) /\ worker.index >= worker.total
            /\ 0 .. worker.index - 1 \subseteq ws
            /\ worker.pc = "publish" => ws = Plan
        BY <1>1, <2>1, <2>4 DEF RunPCs, AfterPCs, Progress
      <3>3. Plan \subseteq ws
        BY <1>0, <1>1, <2>1, <3>2, Through DEF RunPCs
      <3>4. Progress(worker', ws)
        BY <2>2, <3>2 DEF LoopPCs, AfterPCs, Progress
      <3>5. Counts(row'[j].total, row'[j].windows)
        BY <3>1, <3>3 DEF Counts
      <3> QED
        BY <1>1, <2>1, <2>2, <2>4, <3>1, <3>4, <3>5, RunWrites DEF RunPCs, AfterPCs
    <2> QED  BY <2>3, <2>4
  <1>17. CASE Succeed
    <2>1. SucceedRow(j) /\ worker.pc = "succeed" /\ j \in Jobs /\ Step("done")
      BY <1>0, <1>17 DEF Succeed, WorkerAt, RunPCs
    <2>2. worker'.pc = "done" /\ worker'.job = j
      BY <1>0, <2>1, StepEffect DEF WorkerPCs
    <2>3. CASE ~Exists(j)
      <3>1. UNCHANGED row
        BY <2>1, <2>3 DEF SucceedRow, Update
      <3> QED  BY <2>2, <3>1, RunKept DEF RunPCs
    <2>4. CASE Exists(j)
      <3>1. /\ \A i \in Jobs \ {j} : row'[i] = row[i]
            /\ row'[j].state = "succeeded" /\ row'[j].total = 1 /\ row'[j].windows = ws
        BY <1>0, <2>1, <2>4, SucceedRowEffect
      <3>2. ws = Plan
        BY <1>1, <2>1, <2>4 DEF RunPCs, Progress
      <3> QED
        BY <2>1, <2>2, <2>4, <3>1, <3>2, RunWrites DEF RunPCs, Counts
    <2> QED  BY <2>3, <2>4
  <1>18. CASE Fail
    <2>1. FailRow(j) /\ j \in Jobs /\ Step("done")
      BY <1>0, <1>18 DEF Fail, WorkerAt
    <2>2. worker'.pc = "done"
      BY <1>0, <2>1, StepEffect DEF WorkerPCs
    <2>3. /\ \A i \in Jobs \ {j} : row'[i] = row[i]
          /\ ~Exists(j) => row'[j] = row[j]
          /\ Exists(j) => /\ row'[j].state = "failed" /\ row'[j].total = row[j].total
                           /\ row'[j].windows = row[j].windows
      BY <1>0, <2>1, FailRowEffect
    <2>4. \A i \in Jobs : Outside(i)
      BY <2>1, <2>3, OnlyOne DEF Outside, Quiet
    <2>5. RowsInv'
      BY <2>4, RowsOutside DEF ResultInv
    <2> QED  BY <2>2, <2>5 DEF ResultInv, IndexInv, RunInv, RunPCs
  <1>19. CASE Deactivate
    BY <1>4, <1>19 DEF Deactivate
  \* The expired jobs.
  <1>20. ASSUME worker.pc \in {"cleanup", "sweep", "unlink", "rmdir", "drop"}, RowsInv',
                worker'.pc \in {"sweep", "unlink", "rmdir", "drop"}, worker'.index = worker.index
         PROVE  ResultInv'
    BY <1>20 DEF ResultInv, IndexInv, RunInv, RunPCs, LoopPCs, AfterPCs
  <1>21. UNCHANGED row => RowsInv'
    BY DEF ResultInv, RowsInv, Exists, Counts
  <1>22. CASE SelectExpired
    BY <1>0, <1>20, <1>21, <1>22 DEF SelectExpired, WorkerAt, WorkerRecords
  <1>23. ASSUME NEW i \in Jobs, SweepLookup(i) PROVE ResultInv'
    BY <1>0, <1>20, <1>21, <1>23 DEF SweepLookup, WorkerAt, WorkerRecords
  <1>24. CASE SweepUnlink \/ SweepRmdir
    <2>1. UNCHANGED row /\ worker.pc \in {"unlink", "rmdir"}
      BY <1>24 DEF SweepUnlink, SweepRmdir, WorkerAt
    <2>2. CASE Die
      BY <1>4, <2>1, <2>2
    <2>3. ASSUME NEW pc \in {"rmdir", "drop"}, Step(pc) PROVE ResultInv'
      <3>1. worker'.pc = pc /\ worker'.index = worker.index
        BY <1>0, <2>3, StepEffect DEF WorkerPCs
      <3> QED  BY <1>20, <1>21, <2>1, <2>3, <3>1
    <2> QED  BY <1>24, <2>2, <2>3 DEF SweepUnlink, SweepRmdir
  <1>25. CASE SweepDrop
    <2>1. worker.pc = "drop" /\ DropRow(j) /\ j \in Jobs
      BY <1>0, <1>25 DEF SweepDrop, WorkerAt
    <2>2. worker'.pc = "sweep" /\ worker'.index = worker.index
      BY <1>0, <1>25 DEF SweepDrop, WorkerRecords
    <2>3. \A i \in Jobs : Outside(i)
      BY <1>0, <2>1 DEF DropRow, Outside, Quiet
    <2>4. RowsInv'
      BY <2>3, RowsOutside DEF ResultInv
    <2> QED  BY <1>20, <2>1, <2>2, <2>4
  <1> QED
    BY <1>2, <1>3, <1>5, <1>6, <1>7, <1>8, <1>9, <1>11, <1>12, <1>13, <1>14, <1>15, <1>16,
       <1>17, <1>18, <1>19, <1>22, <1>23, <1>24, <1>25 DEF WorkerStep

----------------------------------------------------------------------------
(* Results.                                                                 *)

THEOREM ResultInvariant == Spec => [](TypeInv /\ ResultInv)
  <1>1. Init => ResultInv
    BY NoRowType DEF Init, NoWorker, ResultInv, RowsInv, IndexInv, RunInv, RunPCs, Exists
  <1>2. ASSUME TypeInv, ResultInv, [Next]_vars PROVE ResultInv'
    <2>1. CASE UNCHANGED vars
      <3>1. \A j \in Jobs : Outside(j)
        BY <2>1 DEF vars, Outside, Quiet
      <3> QED  BY <1>2, <2>1, <3>1, ResultOutside DEF vars
    <2>2. CASE Environment
      BY <1>2, <2>2, OutsideEnvironment, ResultOutside
    <2>3. ASSUME NEW t \in Requests, ClientCall(t) \/ RequestStep(t) PROVE ResultInv'
      <3>1. UNCHANGED worker
        BY <2>3 DEF ClientCall, RequestStep, CreateLookup, CreateAdmit, CreateFound, CreateFails,
                    CreateRow, HalfMade, UploadCheck, CompleteCheck, Cancel,
                    ResumeCheck, DeleteCheck, UploadWrite, UploadCommit, CompleteProbe,
                    CompleteQueue, CompleteReread, Put, ResumeRead, ResumeReopen, ResumeQueue,
                    ResumeReread, DeleteLookup, DeleteUnlink, DeleteRmdir, DeleteDrop
      <3> QED  BY <1>2, <2>3, <3>1, OutsideClient, ResultOutside
    <2> QED  BY <1>2, <2>1, <2>2, <2>3, ResultWorker DEF Next
  <1> QED  BY <1>1, <1>2, TypeInvariant, PTL DEF Spec

\* A published result was assembled from the windows of the plan, all of them
\* and no other.
THEOREM ResultComplete == Spec => []SucceededIsComplete
  <1>1. ResultInv => SucceededIsComplete
    BY DEF ResultInv, RowsInv, SucceededIsComplete, Plan
  <1> QED  BY <1>1, ResultInvariant, PTL

\* No window is transcribed that its job already has.
THEOREM NoneRedone == Spec => []NoWindowRedone
  <1>1. TypeInv /\ ResultInv => NoWindowRedone
    <2> SUFFICES ASSUME TypeInv, ResultInv, worker.pc \in {"read", "temp", "infer", "save"}
                 PROVE  worker.index \notin row[worker.job].windows
      BY DEF NoWindowRedone
    <2>1. worker.job \in Jobs /\ worker.index \in Nat
      BY UploadAssumption
         DEF TypeInv, WorkerInv, JobPCs, WorkerPCs, WorkerRecords
    <2>2. CASE ~Exists(worker.job)
      BY <2>1, <2>2 DEF ResultInv, RowsInv
    <2>3. CASE Exists(worker.job)
      <3>1. /\ row[worker.job].windows \subseteq worker.completed \cup 0 .. worker.index - 1
            /\ worker.index \notin worker.completed
        BY <2>3 DEF ResultInv, RunInv, RunPCs, Progress, LoopPCs
      <3> QED  BY <2>1, <3>1
    <2> QED  BY <2>2, <2>3
  <1> QED  BY <1>1, ResultInvariant, PTL

-----------------------------------------------------------------------------
(* A client that waits for its answers: with one request at a time, and no  *)
(* audio damaged while the server is down, BatchJobs implements             *)
(* JobLifecycle, an offset never moves back, and no result is made from a   *)
(* recording cut short.                                                     *)

OneClient == \A s, t \in Requests : s = t

\* Before the worker transcribes, and when it has nothing to transcribe.
EarlyPCs == {"snapshot", "activate", "windows", "check", "last"}

AtWork(j) == worker.pc \in BusyPCs /\ worker.job = j

(* The invariant.  One request at a time leaves a row as it was read until   *)
(* the request writes it, unless the worker does.                            *)

OffWork == ~Running => worker = NoWorker /\ active = {} /\ queue = <<>>

\* Whether or not the server runs, no offset is ahead of its file, and what
\* was probed is complete.
RowClean(j) ==
  /\ ~Exists(j) => row[j] = NoRow
  /\ Exists(j) /\ source[j] # Absent => row[j].offset <= source[j]
  /\ row[j].probed => row[j].offset = UploadLength
  /\ row[j].clipped = {}

\* The worker keeps to complete recordings, and nothing takes the outcome of
\* its job from it.
WorkSound ==
  worker.pc \in BusyPCs =>
    /\ worker.pc \notin {"snapshot", "activate"} => worker.job \in active
    /\ Exists(worker.job) =>
         /\ row[worker.job].state \in {"processing", "queued", "cancelled"}
         /\ row[worker.job].probed
         /\ worker.pc \in {"temp", "infer", "save"} => worker.whole

\* What request t read still holds.
CallSound(t) ==
  LET j == request[t].job
      pc == request[t].pc
  IN /\ pc \in {"write", "commit"} =>
          request[t].from <= request[t].upto /\ (Exists(j) => row[j].offset = request[t].from)
     /\ pc \in {"probe", "enqueue"} /\ Exists(j) =>
          row[j].state = "uploading" /\ row[j].offset = UploadLength
     /\ pc \in {"resume", "requeue"} /\ AtWork(j) /\ Exists(j) /\ row[j].state = "cancelled"
          => worker.pc \in EarlyPCs
     /\ pc \in {"reopen", "requeue"} /\ Exists(j) =>
          /\ row[j].state \in {"cancelled", "failed"}
          /\ row[j].probed <=> pc = "requeue"

Base == TypeInv /\ FilesInv /\ ProbedInv

OneInv ==
  /\ OffWork
  /\ WorkSound
  /\ \A j \in Jobs : RowClean(j)
  /\ \A t \in Requests : CallSound(t)

LEMMA BaseAlways == Spec => []Base
  BY FilesInvariant, ProbedAlways, PTL DEF Base

LEMMA BusyJob ==
  ASSUME Base, worker.pc \in BusyPCs
  PROVE  worker.job \in Jobs
  BY DEF Base, TypeInv, WorkerInv, BusyPCs, JobPCs, WorkerPCs

----------------------------------------------------------------------------
(* Requests.                                                                *)

LEMMA ClientLeaves ==
  ASSUME NEW t \in Requests, ClientCall(t) \/ RequestStep(t)
  PROVE  /\ server = "up" /\ UNCHANGED <<active, worker, server>>
  BY DEF ClientCall, RequestStep, CreateLookup, CreateAdmit, CreateFound, CreateFails,
         CreateRow, HalfMade, UploadCheck, CompleteCheck, Cancel,
         ResumeCheck, DeleteCheck, UploadWrite, UploadCommit, CompleteProbe,
         CompleteQueue, CompleteReread, Put, ResumeRead, ResumeReopen, ResumeQueue,
         ResumeReread, DeleteLookup, DeleteUnlink, DeleteRmdir, DeleteDrop, Idle, At

\* A row is as clean as it was when it is left alone and its file only grows
\* or goes.
LEMMA StaysClean ==
  ASSUME NEW j \in Jobs, RowClean(j), row'[j] = row[j],
         source'[j] # Absent /\ Exists(j) => row[j].offset <= source'[j]
  PROVE  RowClean(j)'
  BY DEF RowClean, Exists

\* Nothing the request read matters any more.
FreePCs == {"idle", "admit", "create", "completed", "put", "resumed",
            "remove", "unlink", "rmdir", "drop"}

LEMMA CallFree ==
  ASSUME NEW t \in Requests, request[t].pc \in FreePCs
  PROVE  CallSound(t)
  BY DEF CallSound, FreePCs

LEMMA CallFreed ==
  ASSUME NEW t \in Requests, request'[t].pc \in FreePCs
  PROVE  CallSound(t)'
  BY DEF CallSound, FreePCs

\* A step of the one client keeps the invariant when it keeps the rows clean,
\* the worker's job sound and its own snapshot.
LEMMA ClientKeeps ==
  ASSUME OneClient, OneInv, NEW t \in Requests, ClientCall(t) \/ RequestStep(t),
         \A j \in Jobs : RowClean(j)', WorkSound', CallSound(t)'
  PROVE  OneInv'
  <1>1. OffWork'
    BY ClientLeaves DEF OffWork, Running
  <1>2. \A s \in Requests : CallSound(s)'
    BY DEF OneClient
  <1> QED  BY <1>1, <1>2 DEF OneInv

LEMMA ClientQuiet ==
  ASSUME OneClient, OneInv, NEW t \in Requests, ClientCall(t) \/ RequestStep(t),
         UNCHANGED <<row, source>>, CallSound(t)'
  PROVE  OneInv'
  <1>1. \A j \in Jobs : RowClean(j)'
    BY DEF OneInv, RowClean, Exists
  <1>2. WorkSound'
    BY ClientLeaves DEF OneInv, WorkSound, Exists
  <1> QED  BY <1>1, <1>2, ClientKeeps

\* The requests that write no row and no file.
LEMMA OneReads ==
  ASSUME OneClient, Base, OneInv, NEW t \in Requests,
         \/ \E j \in Jobs : CompleteCheck(t, j) \/ ResumeCheck(t, j) \/ DeleteCheck(t, j)
         \/ \E j \in Jobs, size \in 1..MaxChunk : UploadCheck(t, j, size)
         \/ CompleteProbe(t) \/ CompleteReread(t) \/ Put(t) \/ ResumeRead(t)
         \/ ResumeReread(t) \/ DeleteLookup(t)
  PROVE  OneInv'
  <1> USE DEF RequestPCs, disk, At, Idle
  <1> DEFINE j == request[t].job
  <1>0. /\ request \in [Requests -> RequestRecords] /\ row \in [Jobs -> Rows]
        /\ request[t].pc \notin {"idle", "admit", "create"} => j \in Jobs
        /\ CallSound(t) /\ WorkSound /\ \A i \in Jobs : RowClean(i)
    BY DEF Base, TypeInv, RequestInv, RowType, OneInv
  <1>1. /\ ClientCall(t) \/ RequestStep(t)
        /\ UNCHANGED <<row, source>>
    BY DEF ClientCall, RequestStep, CompleteCheck, ResumeCheck, DeleteCheck, UploadCheck,
           CompleteProbe, CompleteReread, Put, ResumeRead, ResumeReread, DeleteLookup
  <1> SUFFICES CallSound(t)'
    BY <1>1, ClientQuiet
  <1>2. UNCHANGED worker
    BY <1>1, ClientLeaves
  <1>3. CASE Return(t)
    BY <1>0, <1>3, ReturnEffect, CallFreed DEF FreePCs
  <1>4. ASSUME NEW pc \in FreePCs, Goto(t, pc) PROVE CallSound(t)'
    BY <1>0, <1>4, GotoEffect, CallFreed DEF FreePCs
  <1>5. ASSUME NEW i \in Jobs, NEW size \in 1..MaxChunk, UploadCheck(t, i, size)
        PROVE  CallSound(t)'
    <2>1. /\ request'[t].pc = "write" /\ request'[t].job = i
          /\ request'[t].from = row[i].offset /\ request'[t].upto = row[i].offset + size
      BY <1>0, <1>5 DEF UploadCheck
    <2>2. row[i].offset \in Nat /\ size \in Nat
      BY <1>0, UploadAssumption DEF Rows
    <2> QED  BY <1>1, <2>1, <2>2 DEF CallSound
  <1>6. ASSUME NEW i \in Jobs, CompleteCheck(t, i) PROVE CallSound(t)'
    <2>1. request'[t].pc = "probe" /\ request'[t].job = i
      BY <1>0, <1>6, CallEffect DEF CompleteCheck
    <2> QED  BY <1>1, <1>6, <2>1 DEF CallSound, CompleteCheck
  <1>7. ASSUME NEW i \in Jobs, ResumeCheck(t, i) PROVE CallSound(t)'
    <2>1. request'[t].pc = "resume" /\ request'[t].job = i
      BY <1>0, <1>7, CallEffect DEF ResumeCheck
    <2>2. AtWork(i) => worker.pc \in EarlyPCs
      BY <1>0, <1>7 DEF ResumeCheck, AtWork, WorkSound, EarlyPCs
    <2> QED  BY <1>1, <1>2, <2>1, <2>2 DEF CallSound, AtWork
  <1>8. ASSUME NEW i \in Jobs, DeleteCheck(t, i) PROVE CallSound(t)'
    BY <1>0, <1>8, CallEffect, CallFreed DEF DeleteCheck, FreePCs
  <1>9. CASE CompleteProbe(t)
    <2>1. CASE Goto(t, "enqueue")
      <3>1. request[t].pc = "probe" /\ request'[t].pc = "enqueue" /\ request'[t].job = j
        BY <1>0, <1>9, <2>1, GotoEffect DEF CompleteProbe
      <3> QED  BY <1>0, <1>1, <3>1 DEF CallSound, Exists
    <2> QED  BY <1>3, <1>9, <2>1 DEF CompleteProbe
  <1>10. CASE ResumeRead(t)
    <2>0. request[t].pc = "resume" /\ j \in Jobs
      BY <1>0, <1>10 DEF ResumeRead
    <2>1. CASE Goto(t, "reopen") /\ row[j].state \in {"cancelled", "failed"}
               /\ (row[j].offset < UploadLength \/ ~row[j].probed)
      <3>1. request'[t].pc = "reopen" /\ request'[t].job = j
        BY <1>0, <2>1, GotoEffect
      <3>2. ~row[j].probed
        BY <1>0, <2>0, <2>1, UploadAssumption DEF RowClean
      <3> QED  BY <1>1, <1>2, <2>1, <3>1, <3>2 DEF CallSound, AtWork
    <2>2. CASE Goto(t, "requeue") /\ row[j].state \in {"cancelled", "failed"} /\ row[j].probed
      <3>1. request'[t].pc = "requeue" /\ request'[t].job = j
        BY <1>0, <2>2, GotoEffect
      <3> QED  BY <1>0, <1>1, <1>2, <2>0, <2>2, <3>1 DEF CallSound, AtWork, Exists
    <2> QED  BY <1>3, <1>4, <1>10, <2>1, <2>2 DEF ResumeRead, FreePCs
  <1>11. CASE CompleteReread(t) \/ Put(t) \/ ResumeReread(t) \/ DeleteLookup(t)
    BY <1>3, <1>4, <1>11 DEF CompleteReread, Put, ResumeReread, DeleteLookup, FreePCs
  <1> QED  BY <1>5, <1>6, <1>7, <1>8, <1>9, <1>10, <1>11

\* create: nobody is at work on an id that was not issued.
LEMMA OneCreates ==
  ASSUME OneClient, Base, OneInv, NEW t \in Requests, NEW j \in Jobs,
         CreateRow(t, j)
  PROVE  OneInv'
  <1>0. row \in [Jobs -> Rows] /\ source \in [Jobs -> Absent..UploadLength]
    BY DEF Base, TypeInv, RowType, DiskType
  <1> DEFINE k == request[t].key
  <1>1. RequestStep(t)
    BY DEF RequestStep
  <1>12. k \in Keys \cup {NoKey}
    BY DEF Base, TypeInv, RequestInv, RequestRecords
  <1>2. /\ row'[j] = NewRow(k) /\ source'[j] = 0 /\ worker.job # j
        /\ \A i \in Jobs \ {j} : row'[i] = row[i] /\ source'[i] = source[i]
    BY <1>0 DEF CreateRow, Fresh
  <1>3. \A i \in Jobs : RowClean(i)'
    <2>1. RowClean(j)'
      <3>1. /\ row'[j].state = "uploading" /\ row'[j].offset = 0
            /\ row'[j].probed = FALSE /\ row'[j].clipped = {}
        BY <1>2, <1>12, NewRowType
      <3> QED  BY <1>2, <3>1 DEF RowClean, Exists
    <2>2. ASSUME NEW i \in Jobs \ {j} PROVE RowClean(i)'
      BY <1>2, <2>2 DEF OneInv, RowClean, Exists
    <2> QED  BY <2>1, <2>2
  <1>4. worker.pc \in BusyPCs => worker.job \in Jobs \ {j}
    BY <1>2, BusyJob
  <1>5. WorkSound'
    BY <1>1, <1>2, <1>4, ClientLeaves DEF OneInv, WorkSound, Exists
  <1>6. CallSound(t)'
    <2>1. request \in [Requests -> RequestRecords]
      BY DEF Base, TypeInv, RequestInv
    <2> QED  BY <2>1, ReturnEffect, CallFreed DEF CreateRow, FreePCs
  <1> QED  BY <1>1, <1>3, <1>5, <1>6, ClientKeeps

\* upload: the offset moves on from where it was read, over bytes on the disk.
LEMMA OneUploads ==
  ASSUME OneClient, Base, OneInv, NEW t \in Requests, UploadWrite(t) \/ UploadCommit(t)
  PROVE  OneInv'
  <1> USE DEF RequestPCs, disk, At
  <1> DEFINE j == request[t].job
  <1>0. /\ request \in [Requests -> RequestRecords] /\ row \in [Jobs -> Rows]
        /\ source \in [Jobs -> Absent..UploadLength] /\ j \in Jobs
        /\ request[t] \in RequestRecords
        /\ CallSound(t) /\ WorkSound /\ \A i \in Jobs : RowClean(i)
    BY DEF Base, TypeInv, RequestInv, RowType, DiskType, OneInv, UploadWrite, UploadCommit
  <1>1. RequestStep(t)
    BY DEF RequestStep
  <1>2. UNCHANGED <<active, worker>>
    BY <1>1, ClientLeaves
  <1>3. CASE UploadWrite(t)
    <2>1. UNCHANGED row
      BY <1>3 DEF UploadWrite
    <2>2. /\ \A i \in Jobs \ {j} : source'[i] = source[i]
          /\ source'[j] >= source[j] /\ (source'[j] # Absent => source[j] # Absent)
      <3>1. \/ source' = source
            \/ \E b \in request[t].from .. request[t].upto :
                 /\ source[j] # Absent
                 /\ source' = [source EXCEPT ![j] = IF @ < b THEN b ELSE @]
        BY <1>3 DEF UploadWrite
      <3>2. request[t].from \in Int /\ request[t].upto \in Int /\ source[j] \in Int
        BY <1>0, UploadAssumption DEF RequestRecords, Absent
      <3> QED  BY <1>0, <3>1, <3>2
    <2>3. ASSUME NEW i \in Jobs PROVE RowClean(i)'
      <3>1. row[i].offset \in Int /\ source[i] \in Int /\ source'[i] \in Int
        <4>1. source'[i] \in Int
          BY <1>0, <1>3, TypeNext DEF Base, TypeInv, DiskType, Absent, Next, RequestStep
        <4> QED  BY <1>0, <4>1, UploadAssumption DEF Rows, Absent
      <3>2. source'[i] # Absent /\ Exists(i) => row[i].offset <= source'[i]
        BY <1>0, <2>2, <3>1 DEF RowClean
      <3> QED  BY <1>0, <2>1, <3>2, StaysClean
    <2>4. WorkSound'
      BY <1>0, <1>2, <2>1 DEF WorkSound, Exists
    <2>5. CallSound(t)'
      <3>1. CASE Return(t)
        BY <1>0, <3>1, ReturnEffect, CallFreed DEF FreePCs
      <3>2. CASE Goto(t, "commit")
        <4>1. /\ request[t].pc = "write" /\ request'[t].pc = "commit" /\ request'[t].job = j
              /\ request'[t].from = request[t].from /\ request'[t].upto = request[t].upto
          BY <1>0, <1>3, <3>2, GotoEffect DEF UploadWrite
        <4> QED  BY <1>0, <2>1, <4>1 DEF CallSound, Exists
      <3> QED  BY <1>3, <3>1, <3>2 DEF UploadWrite
    <2> QED  BY <1>1, <2>3, <2>4, <2>5, ClientKeeps
  <1>4. CASE UploadCommit(t)
    <2>1. /\ UNCHANGED source /\ Return(t) /\ request[t].pc = "commit"
          /\ Update(j, [row[j] EXCEPT !.offset = request[t].upto])
      BY <1>4 DEF UploadCommit
    <2>2. /\ request[t].upto \in 0..UploadLength
          /\ request[t].from \in 0..UploadLength /\ request[t].from <= request[t].upto
          /\ Exists(j) => row[j].offset = request[t].from
      BY <1>0, <2>1 DEF CallSound, RequestRecords
    <2>3. /\ \A i \in Jobs \ {j} : row'[i] = row[i]
          /\ ~Exists(j) => row'[j] = row[j]
          /\ Exists(j) =>
               /\ row'[j].state = row[j].state /\ row'[j].offset = request[t].upto
               /\ row'[j].probed = row[j].probed /\ row'[j].clipped = row[j].clipped
      BY <1>0, <2>1, <2>2, OffsetEffect
    <2>4. source[j] # Absent => request[t].upto <= source[j]
      BY <1>0, <2>1 DEF Base, FilesInv, JobOffset
    <2>5. ASSUME NEW i \in Jobs PROVE RowClean(i)'
      <3>1. CASE i # j \/ ~Exists(j)
        BY <1>0, <2>1, <2>3, <3>1, StaysClean DEF RowClean
      <3>2. CASE i = j /\ Exists(j)
        <4>1. row[j].probed => request[t].upto = UploadLength
          BY <1>0, <2>2, <3>2, UploadAssumption DEF RowClean
        <4> QED  BY <1>0, <2>1, <2>3, <2>4, <3>2, <4>1 DEF RowClean, Exists
      <3> QED  BY <3>1, <3>2
    <2>6. WorkSound'
      BY <1>0, <1>2, <2>3, BusyJob DEF WorkSound, Exists
    <2>7. CallSound(t)'
      BY <1>0, <2>1, ReturnEffect, CallFreed DEF FreePCs
    <2> QED  BY <1>1, <2>5, <2>6, <2>7, ClientKeeps
  <1> QED  BY <1>3, <1>4

\* complete, cancel and resume write the state of a row whose offset they do
\* not touch.
LEMMA OneMoves ==
  ASSUME OneClient, Base, OneInv, NEW t \in Requests,
         \/ CompleteQueue(t) \/ ResumeReopen(t) \/ ResumeQueue(t)
         \/ \E j \in Jobs : Cancel(t, j)
  PROVE  OneInv'
  <1> USE DEF RequestPCs, disk, At
  <1>0. /\ request \in [Requests -> RequestRecords] /\ row \in [Jobs -> Rows]
        /\ request[t].pc \notin {"idle", "admit", "create"} => request[t].job \in Jobs
        /\ CallSound(t) /\ WorkSound /\ \A i \in Jobs : RowClean(i)
    BY DEF Base, TypeInv, RequestInv, RowType, OneInv
  <1>1. /\ ClientCall(t) \/ RequestStep(t)
        /\ UNCHANGED source
    BY DEF ClientCall, RequestStep, CompleteQueue, ResumeReopen, ResumeQueue, Cancel
  <1>2. UNCHANGED <<active, worker>>
    BY <1>1, ClientLeaves
  <1>3. CallSound(t)'
    BY <1>0, GotoEffect, CallFreed
       DEF CompleteQueue, ResumeReopen, ResumeQueue, Cancel, Idle, FreePCs
  <1>4. ASSUME NEW j \in Jobs, \A i \in Jobs \ {j} : row'[i] = row[i],
               ~Exists(j) => row'[j] = row[j],
               Exists(j) =>
                 /\ row'[j].state # "none"
                 /\ row'[j].offset = row[j].offset /\ row'[j].clipped = row[j].clipped
                 /\ row'[j].probed => row'[j].offset = UploadLength
                 /\ AtWork(j) =>
                      row'[j].state \in {"processing", "queued", "cancelled"} /\ row'[j].probed
        PROVE  OneInv'
    <2>1. ASSUME NEW i \in Jobs PROVE RowClean(i)'
      <3>1. CASE i # j \/ ~Exists(j)
        BY <1>0, <1>1, <1>4, <3>1, StaysClean DEF RowClean
      <3>2. CASE i = j /\ Exists(j)
        BY <1>0, <1>1, <1>4, <3>2 DEF RowClean, Exists
      <3> QED  BY <3>1, <3>2
    <2>2. WorkSound'
      BY <1>0, <1>2, <1>4, BusyJob DEF WorkSound, Exists, AtWork
    <2> QED  BY <1>1, <1>3, <2>1, <2>2, ClientKeeps
  <1> DEFINE j == request[t].job
  <1>5. CASE CompleteQueue(t)
    <2>1. request[t].pc = "enqueue" /\ j \in Jobs /\ QueueRow(j)
      BY <1>0, <1>5 DEF CompleteQueue
    <2>2. Exists(j) => row[j].offset = UploadLength
      BY <1>0, <2>1 DEF CallSound
    <2>3. Exists(j) => row'[j].probed = TRUE /\ row'[j].state = "queued"
                       /\ row'[j].offset = row[j].offset /\ row'[j].clipped = row[j].clipped
      BY <1>0, <2>1, QueueRowEffect
    <2>4. Exists(j) =>
             /\ row'[j].state # "none"
             /\ row'[j].probed => row'[j].offset = UploadLength
             /\ AtWork(j) =>
                  row'[j].state \in {"processing", "queued", "cancelled"} /\ row'[j].probed
      BY <2>2, <2>3
    <2> QED  BY <1>0, <1>4, <2>1, <2>3, <2>4, QueueRowEffect
  <1>6. CASE ResumeReopen(t)
    <2>1. request[t].pc = "reopen" /\ j \in Jobs /\ ReopenRow(j)
      BY <1>0, <1>6 DEF ResumeReopen
    <2>2. Exists(j) => ~row[j].probed
      BY <1>0, <2>1 DEF CallSound
    <2>3. Exists(j) => ~AtWork(j)
      BY <1>0, <2>2 DEF WorkSound, AtWork
    <2>4. Exists(j) => row'[j].probed = row[j].probed /\ row'[j].state = "uploading"
                       /\ row'[j].offset = row[j].offset /\ row'[j].clipped = row[j].clipped
      BY <1>0, <2>1, ReopenRowEffect
    <2> QED  BY <1>0, <1>4, <2>1, <2>2, <2>3, <2>4, ReopenRowEffect
  <1>7. CASE ResumeQueue(t)
    <2>1. request[t].pc = "requeue" /\ j \in Jobs /\ QueueRow(j)
      BY <1>0, <1>7 DEF ResumeQueue
    <2>2. Exists(j) => row[j].offset = UploadLength
      BY <1>0, <2>1 DEF CallSound, RowClean
    <2>3. Exists(j) => row'[j].probed = TRUE /\ row'[j].state = "queued"
                       /\ row'[j].offset = row[j].offset /\ row'[j].clipped = row[j].clipped
      BY <1>0, <2>1, QueueRowEffect
    <2>4. Exists(j) =>
             /\ row'[j].state # "none"
             /\ row'[j].probed => row'[j].offset = UploadLength
             /\ AtWork(j) =>
                  row'[j].state \in {"processing", "queued", "cancelled"} /\ row'[j].probed
      BY <2>2, <2>3
    <2> QED  BY <1>0, <1>4, <2>1, <2>3, <2>4, QueueRowEffect
  <1>8. ASSUME NEW i \in Jobs, Cancel(t, i) PROVE OneInv'
    <2>1. CancelRow(i) /\ RowClean(i)
      BY <1>0, <1>8 DEF Cancel
    <2>2. AtWork(i) /\ Exists(i) => row[i].probed
      BY <1>0 DEF WorkSound, AtWork
    <2>3. Exists(i) => /\ row'[i].probed = row[i].probed /\ row'[i].state = "cancelled"
                       /\ row'[i].offset = row[i].offset /\ row'[i].clipped = row[i].clipped
      BY <1>0, <2>1, CancelRowEffect
    <2>4. Exists(i) =>
             /\ row'[i].state # "none"
             /\ row'[i].probed => row'[i].offset = UploadLength
             /\ AtWork(i) =>
                  row'[i].state \in {"processing", "queued", "cancelled"} /\ row'[i].probed
      BY <2>1, <2>2, <2>3 DEF RowClean
    <2> QED  BY <1>0, <1>4, <2>1, <2>3, <2>4, CancelRowEffect
  <1> QED  BY <1>5, <1>6, <1>7, <1>8

\* delete: the files go, then the row.
LEMMA OneDeletes ==
  ASSUME OneClient, Base, OneInv, NEW t \in Requests,
         DeleteUnlink(t) \/ DeleteRmdir(t) \/ DeleteDrop(t)
  PROVE  OneInv'
  <1> USE DEF RequestPCs, At
  <1> DEFINE j == request[t].job
  <1>0. /\ request \in [Requests -> RequestRecords] /\ row \in [Jobs -> Rows]
        /\ source \in [Jobs -> Absent..UploadLength] /\ j \in Jobs
        /\ WorkSound /\ \A i \in Jobs : RowClean(i)
    BY DEF Base, TypeInv, RequestInv, RowType, DiskType, OneInv,
           DeleteUnlink, DeleteRmdir, DeleteDrop
  <1>1. RequestStep(t)
    BY DEF RequestStep
  <1>2. UNCHANGED <<active, worker>>
    BY <1>1, ClientLeaves
  <1>3. CallSound(t)'
    <2>1. Return(t) \/ Goto(t, "rmdir") \/ Goto(t, "drop")
      BY DEF DeleteUnlink, DeleteRmdir, DeleteDrop
    <2> QED  BY <1>0, <2>1, GotoEffect, ReturnEffect, CallFreed DEF FreePCs
  <1>4. CASE DeleteUnlink(t) \/ DeleteRmdir(t)
    <2>1. /\ UNCHANGED row
          /\ \A i \in Jobs : source'[i] \in {source[i], Absent}
      BY <1>0, <1>4 DEF DeleteUnlink, DeleteRmdir, Unlink, Rmdir, disk
    <2>2. \A i \in Jobs : RowClean(i)'
      BY <1>0, <2>1 DEF RowClean, Exists
    <2>3. WorkSound'
      BY <1>0, <1>2, <2>1 DEF WorkSound, Exists
    <2> QED  BY <1>1, <1>3, <2>2, <2>3, ClientKeeps
  <1>5. CASE DeleteDrop(t)
    <2>1. UNCHANGED source /\ row'[j] = NoRow /\ \A i \in Jobs \ {j} : row'[i] = row[i]
      BY <1>0, <1>5, DropRowEffect DEF DeleteDrop, disk
    <2>2. \A i \in Jobs : RowClean(i)'
      BY <1>0, <2>1, NoRowType DEF RowClean, Exists
    <2>3. WorkSound'
      BY <1>0, <1>2, <2>1, BusyJob, NoRowType DEF WorkSound, Exists
    <2> QED  BY <1>1, <1>3, <2>2, <2>3, ClientKeeps
  <1> QED  BY <1>4, <1>5

\* create before the row: no file of a job with a row is touched.
LEMMA OneHesitates ==
  ASSUME OneClient, Base, OneInv, NEW t \in Requests,
         (\E k \in Keys : CreateLookup(t, k)) \/ CreateAdmit(t) \/ CreateFound(t) \/ CreateFails(t)
  PROVE  OneInv'
  <1>0. request \in [Requests -> RequestRecords] /\ source \in [Jobs -> Absent..UploadLength]
    BY DEF Base, TypeInv, RequestInv, DiskType
  <1>1. /\ ClientCall(t) \/ RequestStep(t)
        /\ UNCHANGED row
        /\ \A i \in Jobs : Exists(i) => source'[i] = source[i]
    BY <1>0 DEF ClientCall, RequestStep, CreateLookup, CreateAdmit, CreateFound, CreateFails,
                HalfMade, Fresh, disk
  <1>2. CallSound(t)'
    <2>1. request'[t].pc \in CreatePCs
      BY <1>0, CreatingEffect DEF Creating
    <2> QED  BY <2>1, CallFreed DEF CreatePCs, FreePCs
  <1>3. \A i \in Jobs : RowClean(i)'
    BY <1>1 DEF OneInv, RowClean, Exists
  <1>4. UNCHANGED <<active, worker>>
    BY <1>1, ClientLeaves
  <1>5. WorkSound'
    BY <1>1, <1>4, BusyJob DEF OneInv, WorkSound, Exists
  <1> QED  BY <1>1, <1>2, <1>3, <1>5, ClientKeeps

LEMMA OneClientSteps ==
  ASSUME OneClient, Base, OneInv, NEW t \in Requests, ClientCall(t) \/ RequestStep(t)
  PROVE  OneInv'
  BY OneReads, OneHesitates, OneCreates, OneUploads, OneMoves, OneDeletes
     DEF ClientCall, RequestStep

----------------------------------------------------------------------------
(* The worker.                                                              *)

LEMMA WorkerRuns ==
  ASSUME WorkerStep
  PROVE  Running
  BY DEF WorkerStep, Loop, Take, GetTimeout, Begin, Snapshot, Activate, ReadWindows,
         CheckWindow, ReadAudio, WriteTemp, Infer, SaveWindow, CheckSaved, CheckLast,
         Diarize, Finalize, CheckFinalized, Publish, Succeed, Fail, Deactivate,
         SelectExpired, SweepEnd, SweepLookup, SweepUnlink, SweepRmdir, SweepDrop, WorkerAt

LEMMA WorkerKeeps ==
  ASSUME WorkerStep, \A j \in Jobs : RowClean(j)', WorkSound',
         \A t \in Requests : CallSound(t)'
  PROVE  OneInv'
  <1>1. OffWork'
    BY WorkerRuns, WorkerServes DEF OffWork, Running
  <1> QED  BY <1>1 DEF OneInv

\* The worker moves on with its job: past the early steps only after a look
\* at the row that found it neither cancelled nor gone.
WorkerOn ==
  worker'.pc \in BusyPCs =>
    /\ worker.pc \in BusyPCs /\ worker'.job = worker.job
    /\ worker'.pc \notin {"snapshot", "activate"} => worker'.job \in active'
    /\ Exists(worker.job) /\ worker'.pc \in {"temp", "infer", "save"} => worker'.whole
    /\ worker.pc \in EarlyPCs /\ worker'.pc \notin EarlyPCs => ~Cancelled(worker.job)

LEMMA WorkerQuiet ==
  ASSUME Base, OneInv, WorkerStep, UNCHANGED row, WorkerOn,
         \A j \in Jobs : source'[j] \in {source[j], Absent}
  PROVE  OneInv'
  <1>0. row \in [Jobs -> Rows] /\ source \in [Jobs -> Absent..UploadLength]
        /\ WorkSound /\ UNCHANGED request
    BY WorkerServes DEF Base, TypeInv, RowType, DiskType, OneInv
  <1>1. \A j \in Jobs : RowClean(j)'
    BY <1>0 DEF OneInv, RowClean, Exists
  <1>2. WorkSound'
    BY <1>0 DEF WorkSound, WorkerOn, Exists
  <1>3. ASSUME NEW t \in Requests PROVE CallSound(t)'
    <2> DEFINE j == request[t].job
    <2>1. CallSound(t)
      BY DEF OneInv
    <2>2. ASSUME AtWork(j)', Exists(j), row[j].state = "cancelled", request[t].pc \in {"resume", "requeue"}
          PROVE  worker'.pc \in EarlyPCs
      <3>1. AtWork(j) /\ worker.pc \in EarlyPCs
        BY <1>0, <2>1, <2>2 DEF WorkerOn, CallSound, AtWork
      <3> QED  BY <2>2, <3>1 DEF WorkerOn, Cancelled, AtWork
    <2> QED  BY <1>0, <2>1, <2>2 DEF CallSound, Exists
  <1> QED  BY <1>1, <1>2, <1>3, WorkerKeeps

LEMMA WorkerWrites ==
  ASSUME Base, OneInv, WorkerStep, UNCHANGED <<source, active>>, NEW j \in Jobs,
         worker.job = j, worker'.job = j,
         \A i \in Jobs \ {j} : row'[i] = row[i],
         ~Exists(j) => row'[j] = row[j],
         Exists(j) =>
           /\ row'[j].state # "none" /\ row'[j].offset = row[j].offset
           /\ row'[j].probed = row[j].probed /\ row'[j].clipped = row[j].clipped
           /\ \/ row'[j].state = row[j].state
              \/ \A t \in Requests : request[t].job = j =>
                   request[t].pc \notin {"probe", "enqueue", "reopen", "requeue"},
         worker'.pc \in BusyPCs =>
           \/ worker'.pc \in EarlyPCs
           \/ /\ worker.pc \in BusyPCs \ EarlyPCs
              /\ Exists(j) => row'[j].state = row[j].state,
         WorkSound'
  PROVE  OneInv'
  <1>0. row \in [Jobs -> Rows] /\ UNCHANGED request
    BY WorkerServes DEF Base, TypeInv, RowType
  <1>1. \A i \in Jobs : RowClean(i)'
    BY <1>0 DEF OneInv, RowClean, Exists
  <1>2. ASSUME NEW t \in Requests PROVE CallSound(t)'
    <2> DEFINE i == request[t].job
    <2>1. CallSound(t) /\ (request[t].pc \notin {"idle", "admit", "create"} => i \in Jobs)
      BY DEF OneInv, Base, TypeInv, RequestInv
    <2>2. ASSUME AtWork(i)', Exists(i)', row'[i].state = "cancelled",
                 request[t].pc \in {"resume", "requeue"}
          PROVE  worker'.pc \in EarlyPCs
      <3> SUFFICES ASSUME worker'.pc \notin EarlyPCs PROVE FALSE
        OBVIOUS
      <3>1. i = j /\ worker.pc \in BusyPCs \ EarlyPCs /\ Exists(j) /\ row[j].state = "cancelled"
        BY <1>0, <2>2 DEF AtWork, Exists
      <3>2. AtWork(i) /\ Exists(i) /\ row[i].state = "cancelled"
        BY <3>1 DEF AtWork
      <3>3. worker.pc \in EarlyPCs
        BY <2>1, <2>2, <3>2 DEF CallSound
      <3> QED  BY <3>1, <3>3
    <2>3. CASE i # j \/ ~Exists(j)
      <3>1. request[t].pc \notin CreatePCs => row'[i] = row[i]
        BY <2>1, <2>3 DEF CreatePCs
      <3> QED  BY <1>0, <2>1, <2>2, <3>1 DEF CallSound, Exists, CreatePCs
    <2>4. CASE i = j /\ Exists(j)
      <3>1. row'[i].offset = row[i].offset /\ row'[i].probed = row[i].probed
            /\ (request[t].pc \in {"probe", "enqueue", "reopen", "requeue"}
                  => row'[i].state = row[i].state)
        BY <2>4
      <3> QED  BY <1>0, <2>1, <2>2, <2>4, <3>1 DEF CallSound, Exists
    <2> QED  BY <2>3, <2>4
  <1> QED  BY <1>1, <1>2, WorkerKeeps

\* Between two jobs.
LEMMA Idling ==
  ASSUME Base, Loop \/ Take \/ GetTimeout \/ SelectExpired \/ SweepEnd
                 \/ \E i \in Jobs : SweepLookup(i)
  PROVE  worker'.pc \notin BusyPCs
  <1>1. worker \in WorkerRecords
    BY DEF Base, TypeInv, WorkerInv
  <1>2. CASE Loop \/ GetTimeout \/ SweepEnd
    BY <1>1, <1>2 DEF Loop, GetTimeout, SweepEnd, Step, WorkerRecords, BusyPCs
  <1>3. CASE Take
    BY <1>1, <1>3 DEF Take, WorkerRecords, BusyPCs
  <1>4. CASE SelectExpired
    BY <1>1, <1>4 DEF SelectExpired, WorkerRecords, BusyPCs
  <1>5. ASSUME NEW i \in Jobs, SweepLookup(i) PROVE worker'.pc \in {"sweep", "unlink", "drop"}
    BY <1>1, <1>5 DEF SweepLookup, WorkerAt, WorkerRecords
  <1> QED  BY <1>2, <1>3, <1>4, <1>5 DEF BusyPCs

\* The steps of the worker that leave the rows alone.
LEMMA OneWorks ==
  ASSUME Base, OneInv, WorkerStep, UNCHANGED row
  PROVE  OneInv'
  <1> USE DEF WorkerPCs, WorkerAt, disk
  <1> DEFINE j == worker.job
  <1>0. /\ worker \in WorkerRecords /\ (worker.pc \in BusyPCs => j \in Jobs) /\ WorkSound
        /\ \A i \in Jobs : RowClean(i) /\ source[i] \in Absent..UploadLength
    BY BusyJob DEF Base, TypeInv, WorkerInv, DiskType, OneInv
  <1>1. \A i \in Jobs : source'[i] \in {source[i], Absent}
    <2>1. CASE SweepUnlink
      BY <1>0, <2>1 DEF SweepUnlink, Unlink, Base, TypeInv, DiskType
    <2>2. CASE SweepRmdir
      BY <2>2 DEF SweepRmdir, Rmdir
    <2>3. \/ UNCHANGED source \/ SweepUnlink \/ SweepRmdir
      BY DEF WorkerStep, Loop, Take, GetTimeout, Begin, Snapshot, Activate, ReadWindows,
             CheckWindow, ReadAudio, WriteTemp, Infer, SaveWindow, CheckSaved, CheckLast,
             Diarize, Finalize, CheckFinalized, Publish, Succeed, Fail, Deactivate,
             SelectExpired, SweepEnd, SweepLookup, SweepDrop
    <2> QED  BY <2>1, <2>2, <2>3
  <1> SUFFICES WorkerOn
    BY <1>1, WorkerQuiet
  <1>3. worker'.pc \notin BusyPCs => WorkerOn
    BY DEF WorkerOn
  <1>4. ASSUME NEW pc \in WorkerPCs \ BusyPCs, Step(pc) PROVE WorkerOn
    BY <1>0, <1>3, <1>4, StepEffect
  \* From one step to the next with the same job and the same window.
  <1>5. ASSUME NEW pc \in BusyPCs, Step(pc), worker.pc \in BusyPCs, UNCHANGED active,
               pc \notin {"snapshot", "activate"} => worker.pc \notin {"snapshot", "activate"},
               pc \in {"temp", "infer", "save"} => worker.pc \in {"temp", "infer", "save"},
               worker.pc \in EarlyPCs /\ pc \notin EarlyPCs => ~Cancelled(j)
        PROVE  WorkerOn
    <2>1. /\ worker'.pc = pc /\ worker'.job = j /\ worker'.whole = worker.whole
      BY <1>0, <1>5, StepEffect DEF BusyPCs
    <2> QED  BY <1>0, <1>5, <2>1 DEF WorkSound, WorkerOn
  <1>6. CASE Loop \/ Take \/ GetTimeout \/ SelectExpired \/ SweepEnd
             \/ \E i \in Jobs : SweepLookup(i)
    BY <1>3, <1>6, Idling
  <1>7. CASE SweepUnlink \/ SweepRmdir \/ SweepDrop \/ Deactivate
    <2>1. worker'.pc \in {"rmdir", "drop", "dead", "cleanup", "sweep"}
      BY <1>0, <1>7
         DEF SweepUnlink, SweepRmdir, SweepDrop, Deactivate, Die, LeaveJob, NoWorker, Step,
             WorkerRecords
    <2> QED  BY <1>3, <2>1 DEF BusyPCs
  <1>8. CASE Begin \/ Succeed \/ Fail
    <2>1. worker'.pc \in {"snapshot", "cleanup", "done"}
      BY <1>0, <1>8 DEF Begin, Succeed, Fail, LeaveJob, NoWorker, Step, WorkerRecords
    <2>2. worker'.pc # "snapshot"
      <3>1. CASE Begin /\ row[j].state = "queued"
        <4>1. j \in Jobs /\ BeginRow(j) /\ Exists(j)
          BY <3>1 DEF Begin, Base, TypeInv, WorkerInv, JobPCs, Exists
        <4>2. row'[j].state = "processing"
          BY <4>1, BeginRowEffect DEF Base, TypeInv, RowType
        <4> QED  BY <3>1, <4>2
      <3> QED
        BY <1>0, <1>8, <3>1 DEF Begin, Succeed, Fail, LeaveJob, NoWorker, Step, WorkerRecords
    <2> QED  BY <1>3, <2>1, <2>2 DEF BusyPCs
  <1>9. CASE Snapshot
    <2>1. CASE Exists(j)
      <3>1. worker'.pc = "activate" /\ worker'.job = j /\ worker.pc = "snapshot"
        BY <1>0, <1>9, <2>1 DEF Snapshot, WorkerRecords
      <3> QED  BY <3>1 DEF WorkerOn, BusyPCs, EarlyPCs
    <2>2. CASE ~Exists(j)
      <3>1. worker'.pc = "cleanup"
        BY <1>9, <2>2 DEF Snapshot, LeaveJob, NoWorker
      <3> QED  BY <1>3, <3>1 DEF BusyPCs
    <2> QED  BY <2>1, <2>2
  <1>10. CASE Activate
    <2>1. worker'.pc = "windows" /\ worker'.job = j /\ worker.pc = "activate" /\ j \in active'
      BY <1>0, <1>10, StepEffect DEF Activate
    <2> QED  BY <2>1 DEF WorkerOn, BusyPCs, EarlyPCs
  <1>11. CASE ReadWindows
    <2>1. worker'.pc = "check" /\ worker'.job = j /\ worker.pc = "windows" /\ UNCHANGED active
      BY <1>0, <1>11 DEF ReadWindows, WorkerRecords
    <2> QED  BY <1>0, <2>1 DEF WorkerOn, WorkSound, BusyPCs, EarlyPCs
  <1>12. CASE CheckWindow
    <2>1. worker.pc = "check" /\ UNCHANGED active
      BY <1>12 DEF CheckWindow
    <2>2. /\ worker'.pc \in {"last", "done", "check", "read"} /\ worker'.job = j
          /\ worker'.pc = "read" => ~Cancelled(j)
      BY <1>0, <1>12 DEF CheckWindow, WorkerRecords
    <2> QED  BY <1>0, <2>1, <2>2 DEF WorkerOn, WorkSound, BusyPCs, EarlyPCs
  <1>13. CASE ReadAudio
    <2>1. worker.pc = "read" /\ UNCHANGED active
      BY <1>13 DEF ReadAudio
    <2>2. CASE Step("failing")
      BY <1>5, <2>1, <2>2 DEF BusyPCs, EarlyPCs
    <2>3. CASE source[j] > 0 /\ worker' = [worker EXCEPT !.pc = "temp", !.whole = (source[j] >= UploadLength)]
      <3>1. worker'.pc = "temp" /\ worker'.job = j /\ worker'.whole = (source[j] >= UploadLength)
        BY <1>0, <2>3 DEF WorkerRecords
      <3>2. Exists(j) => source[j] >= UploadLength
        BY <1>0, <2>1, <2>3, UploadAssumption DEF WorkSound, RowClean, BusyPCs, Absent
      <3> QED  BY <1>0, <2>1, <3>1, <3>2 DEF WorkerOn, WorkSound, BusyPCs, EarlyPCs
    <2> QED  BY <1>13, <2>2, <2>3 DEF ReadAudio
  <1>14. CASE WriteTemp \/ Infer \/ SaveWindow
    BY <1>5, <1>14 DEF WriteTemp, Infer, SaveWindow, BusyPCs, EarlyPCs
  <1>15. CASE CheckSaved
    <2>1. worker.pc = "saved" /\ UNCHANGED active
      BY <1>15 DEF CheckSaved
    <2>2. worker'.pc \in {"done", "check"} /\ worker'.job = j
      BY <1>0, <1>15 DEF CheckSaved, WorkerRecords
    <2> QED  BY <1>0, <2>1, <2>2 DEF WorkerOn, WorkSound, BusyPCs, EarlyPCs
  <1>16. CASE CheckLast
    <2>1. ~Cancelled(j) => Step("diarize")
      BY <1>16 DEF CheckLast
    <2>2. Cancelled(j) => Step("done")
      BY <1>16 DEF CheckLast
    <2>3. worker.pc = "last" /\ UNCHANGED active
      BY <1>16 DEF CheckLast
    <2> QED  BY <1>4, <1>5, <2>1, <2>2, <2>3 DEF BusyPCs, EarlyPCs
  <1>17. CASE Diarize \/ Finalize \/ CheckFinalized \/ Publish
    <2>1. worker.pc \in {"diarize", "finalize", "finalized", "publish"} /\ UNCHANGED active
      BY <1>17 DEF Diarize, Finalize, CheckFinalized, Publish
    <2>2. \E pc \in {"finalize", "finalized", "failing", "done", "publish", "succeed"} : Step(pc)
      BY <1>17 DEF Diarize, Finalize, CheckFinalized, Publish
    <2> QED  BY <1>4, <1>5, <2>1, <2>2 DEF BusyPCs, EarlyPCs
  <1> QED
    BY <1>6, <1>7, <1>8, <1>9, <1>10, <1>11, <1>12, <1>13, <1>14, <1>15, <1>16, <1>17
       DEF WorkerStep

\* The UPDATE statements of a run, and the DELETE of the sweep.
LEMMA OneRuns ==
  ASSUME Base, OneInv, WorkerStep,
         \/ Begin /\ row[worker.job].state = "queued"
         \/ SaveWindow \/ Diarize \/ Publish \/ Succeed \/ Fail \/ SweepDrop
  PROVE  OneInv'
  <1> USE DEF WorkerPCs, WorkerAt, disk
  <1> DEFINE j == worker.job
  <1>0. /\ row \in [Jobs -> Rows] /\ worker \in WorkerRecords /\ j \in Jobs
        /\ (worker.pc = "save" => worker.index \in Audible /\ worker.whole \in BOOLEAN)
        /\ WorkSound /\ RowClean(j) /\ UNCHANGED request
        /\ \A t \in Requests : CallSound(t)
    BY WorkerServes
       DEF Base, TypeInv, RowType, WorkerInv, WorkerRecords, JobPCs, OneInv, Begin, SaveWindow,
           Diarize, Publish, Succeed, Fail, SweepDrop
  <1>1. CASE Begin /\ row[j].state = "queued"
    <2>1. UNCHANGED <<source, active>> /\ worker'.pc = "snapshot" /\ worker'.job = j /\ BeginRow(j)
      BY <1>0, <1>1, StepEffect DEF Begin
    <2>2. /\ \A i \in Jobs \ {j} : row'[i] = row[i]
          /\ row'[j].state = "processing" /\ row'[j].offset = row[j].offset
          /\ row'[j].probed = row[j].probed /\ row'[j].clipped = row[j].clipped
      BY <1>0, <1>1, <2>1, BeginRowEffect DEF Exists
    <2>3. \A t \in Requests : request[t].job = j =>
             request[t].pc \notin {"probe", "enqueue", "reopen", "requeue"}
      BY <1>0, <1>1 DEF CallSound, Exists
    <2>4. row[j].probed
      BY <1>0, <1>1 DEF Base, ProbedInv, RunnableIsProbed
    <2>5. WorkSound'
      BY <2>1, <2>2, <2>4 DEF WorkSound, Exists
    <2> QED  BY <1>0, <1>1, <2>1, <2>2, <2>3, <2>5, WorkerWrites DEF EarlyPCs, Exists
  <1>2. CASE SaveWindow
    <2>1. /\ UNCHANGED <<source, active>> /\ worker.pc = "save"
          /\ SaveWindowRow(j, worker.index, worker.whole)
          /\ worker'.pc \in {"saved", "failing"} /\ worker'.job = j
      BY <1>0, <1>2, StepEffect DEF SaveWindow
    <2>2. /\ \A i \in Jobs \ {j} : row'[i] = row[i]
          /\ ~Exists(j) => row'[j] = row[j]
          /\ Exists(j) =>
               /\ row'[j].state = row[j].state /\ row'[j].offset = row[j].offset
               /\ row'[j].probed = row[j].probed
               /\ worker.whole => row'[j].clipped = row[j].clipped \ {worker.index}
      BY <1>0, <2>1, SaveWindowEffect
    <2>3. Exists(j) => row'[j].clipped = row[j].clipped
      BY <1>0, <2>1, <2>2 DEF WorkSound, RowClean, BusyPCs
    <2>4. WorkSound'
      BY <1>0, <2>1, <2>2 DEF WorkSound, BusyPCs, Exists
    <2> QED  BY <1>0, <2>1, <2>2, <2>3, <2>4, WorkerWrites DEF BusyPCs, EarlyPCs, Exists
  <1>3. CASE Diarize \/ Publish
    <2>1. /\ UNCHANGED <<source, active>> /\ worker.pc \in {"diarize", "publish"} /\ PhaseRow(j)
          /\ worker'.pc \in {"finalize", "succeed"} /\ worker'.job = j
      BY <1>0, <1>3, StepEffect DEF Diarize, Publish
    <2>2. /\ \A i \in Jobs \ {j} : row'[i] = row[i]
          /\ ~Exists(j) => row'[j] = row[j]
          /\ Exists(j) =>
               /\ row'[j].state = row[j].state /\ row'[j].offset = row[j].offset
               /\ row'[j].probed = row[j].probed /\ row'[j].clipped = row[j].clipped
      BY <1>0, <2>1, PhaseRowEffect
    <2>3. WorkSound'
      BY <1>0, <2>1, <2>2 DEF WorkSound, BusyPCs, Exists
    <2> QED  BY <1>0, <2>1, <2>2, <2>3, WorkerWrites DEF BusyPCs, EarlyPCs, Exists
  <1>4. CASE Succeed \/ Fail
    <2>1. /\ UNCHANGED <<source, active>> /\ worker.pc \in {"succeed", "failing"}
          /\ SucceedRow(j) \/ FailRow(j)
          /\ worker'.pc = "done" /\ worker'.job = j
      BY <1>0, <1>4, StepEffect DEF Succeed, Fail
    <2>2. /\ \A i \in Jobs \ {j} : row'[i] = row[i]
          /\ ~Exists(j) => row'[j] = row[j]
          /\ Exists(j) =>
               /\ row'[j].state \in {"succeeded", "failed"} /\ row'[j].offset = row[j].offset
               /\ row'[j].probed = row[j].probed /\ row'[j].clipped = row[j].clipped
      BY <1>0, <2>1, SucceedRowEffect, FailRowEffect
    <2>3. Exists(j) => AtWork(j) /\ worker.pc \notin EarlyPCs
            /\ row[j].probed /\ row[j].state \in {"processing", "queued", "cancelled"}
      BY <1>0, <2>1 DEF WorkSound, AtWork, BusyPCs, EarlyPCs
    <2>4. ASSUME Exists(j), NEW t \in Requests, request[t].job = j
          PROVE  request[t].pc \notin {"probe", "enqueue", "reopen", "requeue"}
      BY <1>0, <2>3, <2>4 DEF CallSound
    <2>5. WorkSound'
      BY <2>1 DEF WorkSound, BusyPCs
    <2> QED  BY <1>0, <2>1, <2>2, <2>4, <2>5, WorkerWrites DEF BusyPCs, Exists
  <1>5. CASE SweepDrop
    <2>1. /\ UNCHANGED source /\ row'[j] = NoRow /\ \A i \in Jobs \ {j} : row'[i] = row[i]
          /\ worker'.pc = "sweep"
      BY <1>0, <1>5, DropRowEffect DEF SweepDrop, WorkerRecords
    <2>2. WorkSound'
      BY <2>1 DEF WorkSound, BusyPCs
    <2>3. \A i \in Jobs : RowClean(i)'
      BY <1>0, <2>1, NoRowType DEF OneInv, RowClean, Exists
    <2>4. ASSUME NEW t \in Requests PROVE CallSound(t)'
      <3> DEFINE i == request[t].job
      <3>1. CallSound(t) /\ (request[t].pc \notin {"idle", "admit", "create"} => i \in Jobs) /\ ~AtWork(i)'
        BY <1>0, <2>1 DEF Base, TypeInv, RequestInv, AtWork, BusyPCs
      <3>2. request[t].pc \notin CreatePCs => row'[i] = row[i] \/ ~Exists(i)'
        BY <1>0, <2>1, <3>1, NoRowType DEF Exists, CreatePCs
      <3> QED  BY <1>0, <3>1, <3>2 DEF CallSound, Exists, CreatePCs
    <2> QED  BY <2>2, <2>3, <2>4, WorkerKeeps
  <1> QED  BY <1>1, <1>2, <1>3, <1>4, <1>5

LEMMA OneWorkerSteps ==
  ASSUME Base, OneInv, WorkerStep
  PROVE  OneInv'
  <1>1. \/ UNCHANGED row
        \/ Begin /\ row[worker.job].state = "queued"
        \/ SaveWindow \/ Diarize \/ Publish \/ Succeed \/ Fail \/ SweepDrop
    BY DEF WorkerStep, Loop, Take, GetTimeout, Begin, Snapshot, Activate, ReadWindows,
           CheckWindow, ReadAudio, WriteTemp, Infer, CheckSaved, CheckLast, Finalize,
           CheckFinalized, Deactivate, SelectExpired, SweepEnd, SweepLookup, SweepUnlink,
           SweepRmdir
  <1> QED  BY <1>1, OneWorks, OneRuns

----------------------------------------------------------------------------
(* The life of the process.                                                 *)

LEMMA Idles ==
  ASSUME OffWork', worker'.pc \notin BusyPCs, \A t \in Requests : request'[t].pc = "idle",
         \A j \in Jobs : RowClean(j)'
  PROVE  OneInv'
  <1>1. \A t \in Requests : CallSound(t)'
    BY CallFreed DEF FreePCs
  <1> QED  BY <1>1 DEF OneInv, WorkSound

LEMMA OneForgets ==
  ASSUME Forget, \A j \in Jobs : RowClean(j)'
  PROVE  OneInv'
  BY Idles DEF Forget, OffWork, NoWorker, BusyPCs, IdleRequest

LEMMA OneEnvironmentSteps ==
  ASSUME ~DiskFaults, Base, OneInv, Environment
  PROVE  OneInv'
  <1> USE DEF disk
  <1>0. /\ row \in [Jobs -> Rows] /\ source \in [Jobs -> Absent..UploadLength]
        /\ OffWork /\ WorkSound /\ \A j \in Jobs : RowClean(j)
        /\ \A t \in Requests : CallSound(t)
        /\ server # "up" => \A t \in Requests : request[t].pc = "idle"
    BY DEF Base, FilesInv, Served, TypeInv, RowType, DiskType, OneInv
  <1>1. CASE Crash \/ Stopped
    BY <1>0, <1>1, OneForgets DEF Crash, Stopped, RowClean, Exists
  <1>2. ASSUME NEW j \in Jobs, CrashInCreate(j) PROVE OneInv'
    <2>1. ~Exists(j) /\ UNCHANGED row /\ \A i \in Jobs \ {j} : source'[i] = source[i]
      BY <1>0, <1>2 DEF CrashInCreate, HalfMade, Fresh
    <2>2. \A i \in Jobs : RowClean(i)'
      BY <1>0, <2>1 DEF RowClean, Exists
    <2> QED  BY <1>2, <2>2, OneForgets DEF CrashInCreate
  <1>3. CASE Stop
    BY <1>0, <1>3 DEF Stop, OneInv, OffWork, Running, WorkSound, RowClean, CallSound, AtWork,
                      Exists
  <1>4. ASSUME NEW j \in Jobs, Expire(j) PROVE OneInv'
    <2>1. /\ UNCHANGED <<source, active, worker, request, server, queue>>
          /\ \A i \in Jobs \ {j} : row'[i] = row[i]
          /\ Exists(j) /\ row'[j].state = row[j].state /\ row'[j].offset = row[j].offset
          /\ row'[j].probed = row[j].probed /\ row'[j].clipped = row[j].clipped
      BY <1>0, <1>4 DEF Expire, Rows, Finished, Exists
    <2>2. \A i \in Jobs : RowClean(i)'
      BY <1>0, <2>1 DEF RowClean, Exists
    <2>3. WorkSound'
      BY <1>0, <2>1, BusyJob DEF WorkSound, Exists
    <2>4. ASSUME NEW t \in Requests PROVE CallSound(t)'
      <3> DEFINE i == request[t].job
      <3>1. CallSound(t) /\ (request[t].pc \notin {"idle", "admit", "create"} => i \in Jobs)
        BY <1>0 DEF Base, TypeInv, RequestInv
      <3>2. i \in Jobs =>
              /\ row'[i].state = row[i].state /\ row'[i].offset = row[i].offset
              /\ row'[i].probed = row[i].probed
        BY <2>1
      <3> QED  BY <2>1, <3>1, <3>2 DEF CallSound, AtWork, Exists
    <2>5. OffWork'
      BY <1>0, <2>1 DEF OffWork, Running
    <2> QED  BY <2>2, <2>3, <2>4, <2>5 DEF OneInv
  <1>5. CASE Open
    <2>1. /\ server = "down" /\ server' = "open" /\ UNCHANGED <<queue, active, worker, request>>
          /\ \A j \in Jobs : row'[j] = RecoveredRow(j) /\ source'[j] = RecoveredSource(j)
      BY <1>5 DEF Open
    <2>2. worker = NoWorker /\ active = {} /\ queue = <<>>
      BY <1>0, <2>1 DEF OffWork, Running
    <2>3. ASSUME NEW j \in Jobs PROVE RowClean(j)'
      <3>0. row[j] \in Rows /\ source[j] \in Absent..UploadLength /\ RowClean(j)
        BY <1>0
      <3>1. CASE ~Exists(j)
        BY <2>1, <3>0, <3>1, NoRowType DEF RowClean, RecoveredRow, RecoveredSource, Exists
      <3>2. CASE Exists(j) /\ source[j] = Absent
        <4>1. source'[j] = Absent
          BY <2>1, <3>0, <3>2, UploadAssumption DEF RecoveredSource, Rows, Absent
        <4>2. row'[j] = row[j] \/ row'[j] = FailedRow(row[j])
          BY <2>1, <3>2 DEF RecoveredRow, Exists
        <4>3. /\ row'[j].state # "none" /\ row'[j].offset = row[j].offset
              /\ row'[j].probed = row[j].probed /\ row'[j].clipped = row[j].clipped
          BY <3>0, <3>2, <4>2, FailedRowEffect DEF Exists
        <4> QED  BY <3>0, <4>1, <4>3 DEF RowClean, Exists
      <3>3. CASE Exists(j) /\ source[j] # Absent
        <4>1. row[j].offset <= source[j] /\ row[j].offset \in Int /\ source[j] \in Int
          BY <3>0, <3>3, UploadAssumption DEF RowClean, Rows, Absent
        <4>2. row'[j] = row[j]
          BY <2>1, <3>0, <3>3, <4>1 DEF RecoveredRow, Exists, Rows
        <4>3. row[j].offset <= source'[j]
          BY <2>1, <3>3, <4>1 DEF RecoveredSource
        <4> QED  BY <3>0, <4>2, <4>3, StaysClean
      <3> QED  BY <3>1, <3>2, <3>3
    <2> QED
      BY <1>0, <2>1, <2>2, <2>3, Idles DEF OffWork, NoWorker, BusyPCs
  <1>6. ASSUME NEW j \in Jobs, StartCleanup(j) PROVE OneInv'
    <2>1. /\ row'[j] = NoRow /\ \A i \in Jobs \ {j} : row'[i] = row[i]
          /\ \A i \in Jobs : source'[i] \in {source[i], Absent}
      BY <1>0, <1>6, DropRowEffect DEF StartCleanup
    <2>2. \A i \in Jobs : RowClean(i)'
      BY <1>0, <2>1, NoRowType DEF RowClean, Exists
    <2> QED
      BY <1>0, <1>6, <2>2, Idles DEF StartCleanup, OffWork, Running, NoWorker, BusyPCs
  <1>7. CASE Start
    <2>1. ASSUME NEW j \in Jobs PROVE RowClean(j)'
      <3> DEFINE r == row[j]
      <3>1. r \in Rows /\ row'[j] = RequeuedRow(r) /\ source'[j] = source[j] /\ RowClean(j)
        BY <1>0, <1>7 DEF Start
      <3>2. /\ RequeuedRow(r).offset = r.offset /\ RequeuedRow(r).probed = r.probed
            /\ RequeuedRow(r).clipped = r.clipped
            /\ r.state # "processing" => RequeuedRow(r) = r
            /\ r.state = "processing" => RequeuedRow(r).state = "queued"
        <4> HIDE DEF r
        <4> QED  BY <3>1, RequeuedType
      <3> QED  BY <3>1, <3>2 DEF RowClean, Exists
    <2>2. worker'.pc = "loop" /\ server' = "up" /\ UNCHANGED request
      BY <1>7 DEF Start, NoWorker
    <2> QED
      BY <1>0, <1>7, <2>1, <2>2, Idles DEF Start, OffWork, Running, BusyPCs
  <1>8. ASSUME NEW j \in Jobs, LoseAudio(j) PROVE OneInv'
    BY <1>8 DEF LoseAudio
  <1> QED  BY <1>1, <1>2, <1>3, <1>4, <1>5, <1>6, <1>7, <1>8 DEF Environment

LEMMA OneNext ==
  ASSUME OneClient, ~DiskFaults, Base, OneInv, [Next]_vars
  PROVE  OneInv'
  <1>1. CASE UNCHANGED vars
    BY <1>1 DEF vars, OneInv, OffWork, Running, WorkSound, RowClean, CallSound, AtWork, Exists
  <1> QED
    BY <1>1, OneClientSteps, OneWorkerSteps, OneEnvironmentSteps DEF Next

LEMMA OneInit ==
  ASSUME Init
  PROVE  OneInv
  <1>1. \A j \in Jobs : row[j] = NoRow /\ RowClean(j)
    BY NoRowType DEF Init, RowClean, Exists
  <1>2. \A t \in Requests : CallSound(t)
    BY CallFree DEF Init, IdleRequest, FreePCs
  <1>3. WorkSound /\ OffWork
    BY DEF Init, OffWork, WorkSound, NoWorker, BusyPCs
  <1> QED  BY <1>1, <1>2, <1>3 DEF OneInv

LEMMA OneAlways ==
  ASSUME OneClient, ~DiskFaults
  PROVE  Spec => [](Base /\ OneInv)
  <1>1. Init => OneInv
    BY OneInit
  <1>2. Base /\ OneInv /\ [Next]_vars => OneInv'
    BY OneNext
  <1> QED  BY <1>1, <1>2, BaseAlways, PTL DEF Spec

----------------------------------------------------------------------------
(* What a step of the client or of the worker does to a state and an offset. *)

Others(i) == \A j \in Jobs \ {i} : row'[j] = row[j]

SameOffset(i) == Exists(i) /\ row'[i].offset = row[i].offset

ClientRow(i) ==
  \/ ~Exists(i) /\ row'[i].state = "uploading"
  \/ Exists(i) /\ row'[i].state = row[i].state /\ row[i].offset <= row'[i].offset
  \/ SameOffset(i) /\ row[i].state = "uploading" /\ row'[i].state = "queued"
  \/ /\ SameOffset(i) /\ row[i].state \notin {"none", "succeeded", "cancelled"}
     /\ row'[i].state = "cancelled"
  \/ /\ SameOffset(i) /\ row[i].state \in {"cancelled", "failed"}
     /\ row'[i].state \in {"uploading", "queued"}
  \/ Exists(i) /\ row'[i] = NoRow

LEMMA ClientRows ==
  ASSUME Base, OneInv, NEW t \in Requests, ClientCall(t) \/ RequestStep(t)
  PROVE  \/ UNCHANGED row
         \/ \E i \in Jobs : Others(i) /\ ClientRow(i)
  <1> USE DEF At, Idle
  <1> DEFINE j == request[t].job
  <1>0. /\ row \in [Jobs -> Rows] /\ request[t] \in RequestRecords
        /\ request[t].pc \notin {"idle", "admit", "create"} => j \in Jobs
        /\ CallSound(t)
    BY DEF Base, TypeInv, RowType, RequestInv, OneInv
  <1>1. ASSUME NEW i \in Jobs, CreateRow(t, i) PROVE Others(i) /\ ClientRow(i)
    <2>1. Others(i) /\ ~Exists(i) /\ row'[i] = NewRow(request[t].key)
      BY <1>0, <1>1 DEF CreateRow, Fresh, Others
    <2>3. request[t].key \in Keys \cup {NoKey}
      BY <1>0 DEF RequestRecords
    <2>4. PICK k \in Keys \cup {NoKey} : k = request[t].key
      BY <2>3
    <2>5. NewRow(k).state = "uploading"
      BY NewRowType
    <2>2. row'[i].state = "uploading"
      BY <2>1, <2>4, <2>5
    <2> QED  BY <2>1, <2>2 DEF ClientRow
  <1>2. ASSUME NEW i \in Jobs, Cancel(t, i) PROVE Others(i) /\ ClientRow(i)
    <2>1. CancelRow(i) /\ row[i].state \notin {"none", "succeeded", "cancelled"}
      BY <1>2 DEF Cancel
    <2> QED  BY <1>0, <2>1, CancelRowEffect DEF ClientRow, SameOffset, Others, Exists
  <1>3. ASSUME ~UNCHANGED row, UploadCommit(t) PROVE Others(j) /\ ClientRow(j)
    <2>1. /\ j \in Jobs /\ request[t].upto \in 0..UploadLength /\ request[t].from <= request[t].upto
          /\ Exists(j) => row[j].offset = request[t].from
          /\ Update(j, [row[j] EXCEPT !.offset = request[t].upto])
      BY <1>0, <1>3 DEF UploadCommit, CallSound, RequestRecords
    <2>2. Exists(j)
      BY <1>3, <2>1 DEF Update
    <2> QED  BY <1>0, <2>1, <2>2, OffsetEffect DEF ClientRow, Others
  <1>4. ASSUME ~UNCHANGED row, CompleteQueue(t) PROVE Others(j) /\ ClientRow(j)
    <2>1. request[t].pc = "enqueue" /\ j \in Jobs /\ QueueRow(j)
      BY <1>0, <1>4 DEF CompleteQueue
    <2>2. Exists(j)
      BY <1>4, <2>1 DEF QueueRow, Update
    <2> QED  BY <1>0, <2>1, <2>2, QueueRowEffect DEF CallSound, ClientRow, SameOffset, Others
  <1>5. ASSUME ~UNCHANGED row, ResumeReopen(t) PROVE Others(j) /\ ClientRow(j)
    <2>1. request[t].pc = "reopen" /\ j \in Jobs /\ ReopenRow(j)
      BY <1>0, <1>5 DEF ResumeReopen
    <2>2. Exists(j)
      BY <1>5, <2>1 DEF ReopenRow, Update
    <2> QED  BY <1>0, <2>1, <2>2, ReopenRowEffect DEF CallSound, ClientRow, SameOffset, Others
  <1>6. ASSUME ~UNCHANGED row, ResumeQueue(t) PROVE Others(j) /\ ClientRow(j)
    <2>1. request[t].pc = "requeue" /\ j \in Jobs /\ QueueRow(j)
      BY <1>0, <1>6 DEF ResumeQueue
    <2>2. Exists(j)
      BY <1>6, <2>1 DEF QueueRow, Update
    <2> QED  BY <1>0, <2>1, <2>2, QueueRowEffect DEF CallSound, ClientRow, SameOffset, Others
  <1>7. ASSUME DeleteDrop(t) PROVE UNCHANGED row \/ (Others(j) /\ ClientRow(j))
    <2>1. j \in Jobs /\ row' = [row EXCEPT ![j] = NoRow]
      BY <1>0, <1>7 DEF DeleteDrop, DropRow
    <2>2. CASE Exists(j)
      BY <1>0, <2>1, <2>2 DEF ClientRow, Others
    <2>3. CASE ~Exists(j)
      BY <1>0, <2>1, <2>3 DEF OneInv, RowClean
    <2> QED  BY <2>2, <2>3
  <1>8. \/ UNCHANGED row
        \/ \E i \in Jobs : CreateRow(t, i)
        \/ \E i \in Jobs : Cancel(t, i)
        \/ UploadCommit(t) \/ CompleteQueue(t) \/ ResumeReopen(t)
        \/ ResumeQueue(t) \/ DeleteDrop(t)
    BY DEF ClientCall, RequestStep, UploadCheck, CompleteCheck, ResumeCheck, DeleteCheck,
           UploadWrite, CompleteProbe, CompleteReread, Put, ResumeRead, ResumeReread,
           DeleteLookup, DeleteUnlink, DeleteRmdir, CreateLookup, CreateAdmit, CreateFound,
           CreateFails
  <1>9. UploadCommit(t) \/ CompleteQueue(t) \/ ResumeReopen(t) \/ ResumeQueue(t) \/ DeleteDrop(t)
          => j \in Jobs
    BY <1>0 DEF UploadCommit, CompleteQueue, ResumeReopen, ResumeQueue, DeleteDrop
  <1> QED  BY <1>1, <1>2, <1>3, <1>4, <1>5, <1>6, <1>7, <1>8, <1>9

\* pc and next: where the worker is before and after.
WorkerRow(i, pc, next) ==
  \/ /\ SameOffset(i) /\ row[i].state = "queued" /\ row'[i].state = "processing"
     /\ pc \notin BusyPCs /\ next \in BusyPCs
  \/ /\ SameOffset(i) /\ row'[i].state = row[i].state /\ pc \in BusyPCs /\ next \in BusyPCs
  \/ /\ SameOffset(i) /\ row[i].state \in {"processing", "queued", "cancelled"}
     /\ row'[i].state \in {"succeeded", "failed"}
     /\ pc \in BusyPCs /\ next \notin BusyPCs
  \/ Exists(i) /\ row'[i] = NoRow /\ pc \notin BusyPCs /\ next \notin BusyPCs

LEMMA WorkerRows ==
  ASSUME Base, OneInv, WorkerStep, ~UNCHANGED row
  PROVE  /\ worker.job \in Jobs /\ Others(worker.job)
         /\ WorkerRow(worker.job, worker.pc, worker'.pc)
         /\ worker'.pc \in BusyPCs => worker'.job = worker.job
  <1> USE DEF WorkerPCs, WorkerAt, disk
  <1> DEFINE j == worker.job
  <1>1. \/ Begin /\ row[worker.job].state = "queued"
        \/ SaveWindow \/ Diarize \/ Publish \/ Succeed \/ Fail \/ SweepDrop
    BY DEF WorkerStep, Loop, Take, GetTimeout, Begin, Snapshot, Activate, ReadWindows,
           CheckWindow, ReadAudio, WriteTemp, Infer, CheckSaved, CheckLast, Finalize,
           CheckFinalized, Deactivate, SelectExpired, SweepEnd, SweepLookup, SweepUnlink,
           SweepRmdir
  <1>0. /\ row \in [Jobs -> Rows] /\ worker \in WorkerRecords /\ j \in Jobs
        /\ (worker.pc = "save" => worker.index \in Audible /\ worker.whole \in BOOLEAN)
        /\ WorkSound /\ RowClean(j)
    BY <1>1
       DEF Base, TypeInv, RowType, WorkerInv, WorkerRecords, JobPCs, OneInv, Begin, SaveWindow,
           Diarize, Publish, Succeed, Fail, SweepDrop
  <1>2. CASE Begin /\ row[j].state = "queued"
    <2>1. worker.pc = "begin" /\ worker'.pc = "snapshot" /\ worker'.job = j /\ BeginRow(j)
      BY <1>0, <1>2, StepEffect DEF Begin
    <2> QED
      BY <1>0, <1>2, <2>1, BeginRowEffect DEF WorkerRow, SameOffset, Others, BusyPCs, Exists
  <1>3. CASE SaveWindow \/ Diarize \/ Publish
    <2>1. /\ worker.pc \in {"save", "diarize", "publish"}
          /\ worker'.pc \in {"saved", "failing", "finalize", "succeed"} /\ worker'.job = j
      BY <1>0, <1>3, StepEffect DEF SaveWindow, Diarize, Publish
    <2>2. /\ Others(j)
          /\ ~Exists(j) => row'[j] = row[j]
          /\ Exists(j) => row'[j].state = row[j].state /\ row'[j].offset = row[j].offset
      <3>1. CASE SaveWindow
        <4>1. SaveWindowRow(j, worker.index, worker.whole) /\ worker.pc = "save"
          BY <3>1 DEF SaveWindow
        <4> QED  BY <1>0, <4>1, SaveWindowEffect DEF Others
      <3>2. CASE Diarize \/ Publish
        BY <1>0, <3>2, PhaseRowEffect DEF Diarize, Publish, Others
      <3> QED  BY <1>3, <3>1, <3>2
    <2>3. Exists(j)
      <3>1. CASE ~Exists(j)
        <4>1. row' = row
          BY <1>0, <1>3, <2>2, <3>1
             DEF SaveWindow, Diarize, Publish, SaveWindowRow, PhaseRow, Update
        <4> QED  BY <4>1
      <3> QED  BY <3>1
    <2> QED  BY <2>1, <2>2, <2>3, <1>0 DEF WorkerRow, SameOffset, BusyPCs
  <1>4. CASE Succeed \/ Fail
    <2>1. /\ worker.pc \in {"succeed", "failing"}
          /\ SucceedRow(j) \/ FailRow(j)
          /\ worker'.pc = "done" /\ worker'.job = j
      BY <1>0, <1>4, StepEffect DEF Succeed, Fail
    <2>2. Exists(j)
      BY <2>1 DEF SucceedRow, FailRow, Update
    <2>3. row[j].state \in {"processing", "queued", "cancelled"}
      BY <1>0, <2>1, <2>2 DEF WorkSound, BusyPCs
    <2>4. /\ Others(j)
          /\ row'[j].state \in {"succeeded", "failed"} /\ row'[j].offset = row[j].offset
      BY <1>0, <2>1, <2>2, SucceedRowEffect, FailRowEffect DEF Others
    <2> QED  BY <1>0, <2>1, <2>2, <2>3, <2>4 DEF WorkerRow, SameOffset, BusyPCs
  <1>5. CASE SweepDrop
    <2>1. /\ worker.pc = "drop" /\ row' = [row EXCEPT ![j] = NoRow] /\ worker'.pc = "sweep"
      BY <1>0, <1>5 DEF SweepDrop, DropRow, WorkerRecords
    <2>2. Exists(j)
      BY <1>0, <2>1 DEF RowClean
    <2> QED  BY <1>0, <2>1, <2>2 DEF WorkerRow, Others, BusyPCs
  <1> QED  BY <1>1, <1>2, <1>3, <1>4, <1>5

----------------------------------------------------------------------------
(* Each step is a step of JobLifecycle, or leaves what a client sees alone.  *)

LEMMA OneStatus ==
  ASSUME row \in [Jobs -> Rows], NEW i \in Jobs, Others(i)
  PROVE  Status' = [Status EXCEPT ![i] = row'[i].state] /\ Status[i] = row[i].state
  BY DEF Others, Status

LEMMA Stutters ==
  ASSUME UNCHANGED <<Status, Worked>>
  PROVE  [Lifecycle!Next]_(Lifecycle!vars)
  BY DEF Lifecycle!vars

LEMMA LifeClient ==
  ASSUME Base, OneInv, NEW t \in Requests, ClientCall(t) \/ RequestStep(t)
  PROVE  [Lifecycle!Next]_(Lifecycle!vars)
  <1> USE DEF Exists
  <1>1. UNCHANGED Worked
    BY ClientLeaves DEF Worked
  <1>2. CASE UNCHANGED row
    BY <1>1, <1>2, Stutters DEF Status
  <1>3. ASSUME NEW i \in Jobs, Others(i), ClientRow(i) PROVE [Lifecycle!Next]_(Lifecycle!vars)
    <2>1. Status' = [Status EXCEPT ![i] = row'[i].state] /\ Status[i] = row[i].state
      BY <1>3, OneStatus DEF Base, TypeInv, RowType
    <2>2. CASE ~Exists(i) /\ row'[i].state = "uploading"
      <3>1. Lifecycle!Create(i)
        BY <1>1, <2>1, <2>2 DEF Lifecycle!Create, Lifecycle!Become
      <3> QED  BY <3>1 DEF Lifecycle!Next
    <2>3. CASE row'[i].state = row[i].state
      <3>1. UNCHANGED Status
        BY <1>3, <2>3 DEF Status, Others
      <3> QED  BY <1>1, <3>1, Stutters
    <2>4. CASE row[i].state = "uploading" /\ row'[i].state = "queued"
      <3>1. Lifecycle!Complete(i)
        BY <1>1, <2>1, <2>4 DEF Lifecycle!Complete, Lifecycle!Become
      <3> QED  BY <3>1 DEF Lifecycle!Next
    <2>5. CASE row[i].state \notin {"none", "succeeded", "cancelled"} /\ row'[i].state = "cancelled"
      <3>1. Lifecycle!Cancel(i)
        BY <1>1, <2>1, <2>5 DEF Lifecycle!Cancel, Lifecycle!Become
      <3> QED  BY <3>1 DEF Lifecycle!Next
    <2>6. CASE row[i].state \in {"cancelled", "failed"} /\ row'[i].state \in {"uploading", "queued"}
      <3>1. Lifecycle!Resume(i)
        BY <1>1, <2>1, <2>6 DEF Lifecycle!Resume, Lifecycle!Become
      <3> QED  BY <3>1 DEF Lifecycle!Next
    <2>7. CASE Exists(i) /\ row'[i] = NoRow
      <3>1. Lifecycle!Remove(i)
        BY <1>1, <2>1, <2>7, NoRowType DEF Lifecycle!Remove, Lifecycle!Become
      <3> QED  BY <3>1 DEF Lifecycle!Next
    <2> QED  BY <1>3, <2>2, <2>3, <2>4, <2>5, <2>6, <2>7 DEF ClientRow
  <1> QED  BY <1>2, <1>3, ClientRows

\* Work ends without an outcome, or was not going on.
LEMMA LifeAbandons ==
  ASSUME Base, UNCHANGED Status, Worked' = NoJob
  PROVE  [Lifecycle!Next]_(Lifecycle!vars)
  <1>1. CASE Worked = NoJob
    BY <1>1, Stutters
  <1>2. CASE Worked # NoJob
    <2>1. Lifecycle!Abandon
      BY <1>2 DEF Lifecycle!Abandon
    <2> QED  BY <2>1 DEF Lifecycle!Next
  <1> QED  BY <1>1, <1>2

\* Only begin_processing sets the worker to work.
LEMMA WorkedOn ==
  ASSUME Base, WorkerStep, UNCHANGED row, worker'.pc \in BusyPCs
  PROVE  worker.pc \in BusyPCs /\ worker'.job = worker.job
  <1> USE DEF WorkerPCs, WorkerAt
  <1>0. worker \in WorkerRecords /\ row \in [Jobs -> Rows]
        /\ (worker.pc \in JobPCs => worker.job \in Jobs)
    BY DEF Base, TypeInv, RowType, WorkerInv
  <1>1. CASE Loop \/ Take \/ GetTimeout \/ SelectExpired \/ SweepEnd
             \/ \E i \in Jobs : SweepLookup(i)
    BY <1>1, Idling
  <1>2. CASE SweepUnlink \/ SweepRmdir \/ SweepDrop \/ Deactivate \/ Succeed \/ Fail
    <2>1. worker'.pc \in {"rmdir", "drop", "dead", "cleanup", "sweep", "done"}
      BY <1>0, <1>2
         DEF SweepUnlink, SweepRmdir, SweepDrop, Deactivate, Succeed, Fail, Die, LeaveJob,
             NoWorker, Step, WorkerRecords
    <2> QED  BY <2>1 DEF BusyPCs
  <1>3. CASE Begin
    <2>1. CASE row[worker.job].state = "queued"
      <3>1. worker.job \in Jobs /\ BeginRow(worker.job) /\ Exists(worker.job)
        BY <1>0, <1>3, <2>1 DEF Begin, JobPCs, Exists
      <3>2. row'[worker.job].state = "processing"
        BY <1>0, <3>1, BeginRowEffect
      <3> QED  BY <2>1, <3>2
    <2>2. CASE row[worker.job].state # "queued"
      BY <1>3, <2>2 DEF Begin, LeaveJob, NoWorker, BusyPCs
    <2> QED  BY <2>1, <2>2
  <1>4. CASE Snapshot \/ Activate \/ ReadWindows \/ CheckWindow \/ ReadAudio \/ WriteTemp
             \/ Infer \/ SaveWindow \/ CheckSaved
    <2>1. worker.pc \in BusyPCs
      BY <1>4 DEF Snapshot, Activate, ReadWindows, CheckWindow, ReadAudio, WriteTemp,
                  Infer, SaveWindow, CheckSaved, BusyPCs
    <2>2. worker'.job = worker.job \/ worker'.pc = "cleanup"
      BY <1>0, <1>4 DEF Snapshot, Activate, ReadWindows, CheckWindow, ReadAudio, WriteTemp,
                        Infer, SaveWindow, CheckSaved, Step, LeaveJob, NoWorker, WorkerRecords
    <2> QED  BY <2>1, <2>2 DEF BusyPCs
  <1>5. CASE CheckLast \/ Diarize \/ Finalize \/ CheckFinalized \/ Publish
    <2>1. worker.pc \in BusyPCs
      BY <1>5 DEF CheckLast, Diarize, Finalize, CheckFinalized, Publish, BusyPCs
    <2>2. worker'.job = worker.job
      BY <1>0, <1>5 DEF CheckLast, Diarize, Finalize, CheckFinalized, Publish, Step, WorkerRecords
    <2> QED  BY <2>1, <2>2
  <1> QED  BY <1>1, <1>2, <1>3, <1>4, <1>5 DEF WorkerStep

LEMMA LifeWorker ==
  ASSUME Base, OneInv, WorkerStep
  PROVE  [Lifecycle!Next]_(Lifecycle!vars)
  <1> USE DEF Exists
  <1>1. CASE UNCHANGED row
    <2>1. UNCHANGED Status
      BY <1>1 DEF Status
    <2>2. CASE worker'.pc \in BusyPCs
      <3>1. UNCHANGED Worked
        BY <1>1, <2>2, WorkedOn DEF Worked
      <3> QED  BY <2>1, <3>1, Stutters
    <2>3. CASE worker'.pc \notin BusyPCs
      BY <2>1, <2>3, LifeAbandons DEF Worked
    <2> QED  BY <2>2, <2>3
  <1>2. CASE ~UNCHANGED row
    <2>0. PICK i \in Jobs : i = worker.job
      BY <1>2, WorkerRows
    <2>1. /\ Others(i) /\ WorkerRow(i, worker.pc, worker'.pc)
          /\ worker'.pc \in BusyPCs => worker'.job = i
      BY <1>2, <2>0, WorkerRows
    <2>2. /\ Status' = [Status EXCEPT ![i] = row'[i].state] /\ Status[i] = row[i].state
          /\ i # NoJob
      BY <2>1, OneStatus, JobAssumption DEF Base, TypeInv, RowType
    <2>3. CASE /\ row[i].state = "queued" /\ row'[i].state = "processing"
               /\ worker.pc \notin BusyPCs /\ worker'.pc \in BusyPCs
      <3>1. Worked = NoJob /\ Worked' = i
        BY <2>0, <2>1, <2>3 DEF Worked
      <3>2. Lifecycle!Begin(i)
        BY <2>2, <2>3, <3>1 DEF Lifecycle!Begin, Lifecycle!Become
      <3> QED  BY <3>2 DEF Lifecycle!Next
    <2>4. CASE row'[i].state = row[i].state /\ worker.pc \in BusyPCs /\ worker'.pc \in BusyPCs
      <3>1. UNCHANGED Worked
        BY <2>0, <2>1, <2>4 DEF Worked
      <3>2. UNCHANGED Status
        BY <2>1, <2>4 DEF Status, Others
      <3> QED  BY <3>1, <3>2, Stutters
    <2>5. CASE /\ row[i].state \in {"processing", "queued", "cancelled"}
               /\ row'[i].state \in {"succeeded", "failed"}
               /\ worker.pc \in BusyPCs /\ worker'.pc \notin BusyPCs
      <3>1. Worked = i /\ Worked' = NoJob
        BY <2>0, <2>1, <2>5 DEF Worked
      <3>2. Lifecycle!Finish(i)
        BY <2>2, <2>5, <3>1 DEF Lifecycle!Finish, Lifecycle!Become
      <3> QED  BY <3>2 DEF Lifecycle!Next
    <2>6. CASE Exists(i) /\ row'[i] = NoRow /\ worker.pc \notin BusyPCs /\ worker'.pc \notin BusyPCs
      <3>1. UNCHANGED Worked
        BY <2>6 DEF Worked
      <3>2. Lifecycle!Remove(i)
        BY <2>2, <2>6, <3>1, NoRowType DEF Lifecycle!Remove, Lifecycle!Become
      <3> QED  BY <3>2 DEF Lifecycle!Next
    <2> QED  BY <2>1, <2>3, <2>4, <2>5, <2>6 DEF WorkerRow
  <1> QED  BY <1>1, <1>2

LEMMA ForgetsWork ==
  ASSUME Forget
  PROVE  Worked' = NoJob
  BY DEF Forget, NoWorker, Worked, BusyPCs

LEMMA LifeEnvironment ==
  ASSUME ~DiskFaults, Base, OneInv, Environment
  PROVE  [Lifecycle!Next]_(Lifecycle!vars)
  <1>0. row \in [Jobs -> Rows] /\ (~Running => worker = NoWorker)
    BY DEF Base, TypeInv, RowType, OneInv, OffWork
  <1>1. CASE Forget /\ UNCHANGED row
    <2>1. UNCHANGED Status
      BY <1>1 DEF Status
    <2> QED  BY <1>1, <2>1, ForgetsWork, LifeAbandons
  <1>2. CASE UNCHANGED <<row, worker>>
    <2>1. UNCHANGED <<Status, Worked>>
      BY <1>2 DEF Status, Worked
    <2> QED  BY <2>1, Stutters
  <1>3. ASSUME NEW j \in Jobs, Expire(j) PROVE [Lifecycle!Next]_(Lifecycle!vars)
    <2>1. UNCHANGED worker /\ \A i \in Jobs : row'[i].state = row[i].state
      BY <1>0, <1>3 DEF Expire, Rows
    <2>2. UNCHANGED <<Status, Worked>>
      BY <2>1 DEF Status, Worked
    <2> QED  BY <2>2, Stutters
  <1>4. ASSUME NEW j \in Jobs, StartCleanup(j) PROVE [Lifecycle!Next]_(Lifecycle!vars)
    <2>1. /\ Others(j) /\ row'[j] = NoRow /\ row[j].state # "none" /\ UNCHANGED worker
      BY <1>0, <1>4, DropRowEffect DEF StartCleanup, Others, Finished
    <2>2. /\ Status' = [Status EXCEPT ![j] = row'[j].state] /\ Status[j] = row[j].state
          /\ UNCHANGED Worked
      BY <1>0, <2>1, OneStatus DEF Worked
    <2>3. Lifecycle!Remove(j)
      BY <2>1, <2>2, NoRowType DEF Lifecycle!Remove, Lifecycle!Become
    <2> QED  BY <2>3 DEF Lifecycle!Next
  \* What start-up makes of the rows.
  <1>5. ASSUME ~Running, worker'.pc \notin BusyPCs,
               \A j \in Jobs :
                 \/ row'[j].state = row[j].state
                 \/ row[j].state = "processing" /\ row'[j].state = "queued"
                 \/ row[j].state \notin {"none", "succeeded"} /\ row'[j].state = "failed"
        PROVE  [Lifecycle!Next]_(Lifecycle!vars)
    <2>1. Worked = NoJob /\ Worked' = NoJob
      BY <1>0, <1>5 DEF Worked, NoWorker, BusyPCs
    <2>2. /\ DOMAIN Status' = Jobs
          /\ \A j \in Jobs : Status[j] = row[j].state /\ Status'[j] = row'[j].state
      BY DEF Status
    <2>3. Lifecycle!Recover
      BY <1>5, <2>1, <2>2 DEF Lifecycle!Recover
    <2> QED  BY <2>3 DEF Lifecycle!Next
  <1>6. CASE Open
    <2>1. ASSUME NEW j \in Jobs
          PROVE  \/ row'[j].state = row[j].state
                 \/ row[j].state \notin {"none", "succeeded"} /\ row'[j].state = "failed"
      <3> DEFINE b == IF source[j] < row[j].offset THEN source[j] ELSE row[j].offset
      <3>1. row[j] \in Rows /\ row'[j] = RecoveredRow(j)
        BY <1>0, <1>6 DEF Open
      <3>2. \/ row'[j] = row[j]
            \/ row'[j] = FailedRow(row[j]) /\ row[j].state \notin {"none", "succeeded"}
            \/ row'[j] = [row[j] EXCEPT !.offset = b]
        BY <3>1 DEF RecoveredRow
      <3> HIDE DEF b
      <3> QED  BY <3>1, <3>2, FailedRowEffect DEF Rows
    <2>2. ~Running /\ worker'.pc \notin BusyPCs
      BY <1>0, <1>6 DEF Open, Running, NoWorker, BusyPCs
    <2> QED  BY <1>5, <2>1, <2>2
  <1>7. CASE Start
    <2>1. ASSUME NEW j \in Jobs
          PROVE  \/ row'[j].state = row[j].state
                 \/ row[j].state = "processing" /\ row'[j].state = "queued"
      <3> DEFINE r == row[j]
      <3>1. r \in Rows /\ row'[j] = RequeuedRow(r)
        BY <1>0, <1>7 DEF Start
      <3>2. /\ r.state # "processing" => RequeuedRow(r) = r
            /\ r.state = "processing" => RequeuedRow(r).state = "queued"
        <4> HIDE DEF r
        <4> QED  BY <3>1, RequeuedType
      <3> QED  BY <3>1, <3>2
    <2>2. ~Running /\ worker'.pc \notin BusyPCs
      BY <1>7 DEF Start, Running, NoWorker, BusyPCs
    <2> QED  BY <1>5, <2>1, <2>2
  <1> QED
    BY <1>1, <1>2, <1>3, <1>4, <1>6, <1>7
       DEF Environment, Crash, Stop, Stopped, CrashInCreate, LoseAudio

LEMMA LifeNext ==
  ASSUME OneClient, ~DiskFaults, Base, OneInv, [Next]_vars
  PROVE  [Lifecycle!Next]_(Lifecycle!vars)
  <1>1. CASE UNCHANGED vars
    <2>1. UNCHANGED <<Status, Worked>>
      BY <1>1 DEF vars, Status, Worked
    <2> QED  BY <2>1, Stutters
  <1> QED  BY <1>1, LifeClient, LifeWorker, LifeEnvironment DEF Next

----------------------------------------------------------------------------
(* The theorems.                                                            *)

\* The states a client sees follow the lifecycle, through every restart and
\* crash: one job at a time is processed, only a queued one is begun, a result
\* is never cancelled, resumed or lost.  (That the work ends is a question of
\* fairness, which the run one_client checks.)
THEOREM FollowsLifecycle ==
  ASSUME OneClient, ~DiskFaults
  PROVE  Spec => Lifecycle!Spec
  <1>1. Init => Lifecycle!Init
    <2> SUFFICES ASSUME Init PROVE Lifecycle!Init
      OBVIOUS
    <2>1. Status = [j \in Jobs |-> "none"] /\ Worked = NoJob
      BY NoRowType DEF Init, Status, Worked, NoWorker, BusyPCs
    <2> QED  BY <2>1 DEF Lifecycle!Init
  <1>2. Base /\ OneInv /\ [Next]_vars => [Lifecycle!Next]_(Lifecycle!vars)
    BY LifeNext
  <1> QED  BY <1>1, <1>2, OneAlways, PTL DEF Spec, Lifecycle!Spec

\* A job that succeeded was heard from a complete recording, window by window:
\* complete() let no shorter one through, and nothing cuts it short later.
THEOREM HeardAll ==
  ASSUME OneClient, ~DiskFaults
  PROVE  Spec => []SucceededHeardAll
  <1>1. OneInv => SucceededHeardAll
    BY DEF OneInv, RowClean, SucceededHeardAll
  <1> QED  BY <1>1, OneAlways, PTL

\* While the server runs, an offset a client was told is never taken back.
THEOREM OffsetsAdvance ==
  ASSUME OneClient, ~DiskFaults
  PROVE  Spec => OffsetAdvances
  <1> DEFINE Advances ==
        Running => \A j \in Jobs : Exists(j)' => row[j].offset <= row'[j].offset
  <1>1. ASSUME Base, OneInv, [Next]_vars, Running, NEW j \in Jobs, Exists(j)'
        PROVE  row[j].offset <= row'[j].offset
    <2>0. /\ row[j].offset \in Nat /\ row'[j].offset \in Nat
          /\ ~Exists(j) => row[j].offset = 0
      <3>1. row[j] \in Rows /\ row'[j] \in Rows
        BY <1>1, TypeNext DEF Base, TypeInv, RowType
      <3> QED  BY <1>1, <3>1, NoRowType, UploadAssumption DEF Rows, OneInv, RowClean
    <2>1. CASE ~Exists(j) \/ row'[j] = row[j]
      BY <2>0, <2>1
    <2>2. ASSUME NEW t \in Requests, ClientCall(t) \/ RequestStep(t)
          PROVE  row[j].offset <= row'[j].offset
      <3>1. ASSUME NEW i \in Jobs, Others(i), ClientRow(i) PROVE row[j].offset <= row'[j].offset
        <4>1. CASE i = j /\ Exists(j)
          BY <1>1, <2>0, <3>1, <4>1, NoRowType DEF ClientRow, SameOffset, Exists
        <4> QED  BY <2>1, <3>1, <4>1 DEF Others
      <3> QED  BY <1>1, <2>1, <2>2, <3>1, ClientRows
    <2>3. CASE WorkerStep /\ ~UNCHANGED row
      <3> DEFINE i == worker.job
      <3>1. i \in Jobs /\ Others(i) /\ WorkerRow(i, worker.pc, worker'.pc)
        BY <1>1, <2>3, WorkerRows
      <3>2. CASE i = j /\ Exists(j)
        BY <1>1, <2>0, <3>1, <3>2, NoRowType DEF WorkerRow, SameOffset, Exists
      <3> QED  BY <2>1, <3>1, <3>2 DEF Others
    <2>4. CASE Environment
      <3>1. ASSUME NEW i \in Jobs, Expire(i) PROVE row[j].offset = row'[j].offset
        BY <1>1, <3>1 DEF Expire, Base, TypeInv, RowType, Rows
      <3>2. UNCHANGED row \/ \E i \in Jobs : Expire(i)
        BY <1>1, <2>4 DEF Environment, Crash, Stop, Stopped, Open, Start, CrashInCreate,
                          LoseAudio, StartCleanup, Running
      <3> QED  BY <2>0, <2>1, <3>1, <3>2
    <2> QED  BY <1>1, <2>1, <2>2, <2>3, <2>4 DEF Next, vars
  <1>2. Base /\ OneInv /\ [Next]_vars => [Advances]_vars
    BY <1>1 DEF Exists
  <1> QED  BY <1>2, OneAlways, PTL DEF Spec, OffsetAdvances

=============================================================================
