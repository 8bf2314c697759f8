---------------------------- MODULE StatusProofs ----------------------------
(***************************************************************************)
(* What clients are told, for any number of jobs, chunks, workers and      *)
(* faults: the endpoints only read, so the pipeline's invariants hold      *)
(* beside them, and each answer is an old state of a job that only moves   *)
(* forward.                                                                *)
(***************************************************************************)
EXTENDS StatusEndpoint, PipelineProofs

\* The state of the pipeline that clients rely on: a job is done only when its
\* counter has passed zero and its document is whole.
DoneInv ==
    \A j \in Jobs : jobStatus[j] = "done" =>
        /\ remaining[j] <= 0
        /\ DocOf[j] \in manifests /\ AllPartsStored(DocOf[j])

PipelineInv == Ground /\ PublishInv /\ AssemblerInv /\ DoneInv

\* What a step of the pipeline does to a job's row and its document's parts.
Forward ==
    /\ parts \subseteq parts'
    /\ \A j \in Jobs : /\ remaining[j] \in Int /\ remaining'[j] \in Int
                       /\ remaining'[j] <= remaining[j]
                       /\ jobStatus[j] = "done" => jobStatus'[j] = "done"

\* The counter of a job's row never rises: create_job writes it once, and
\* complete_chunk counts down.
LEMMA CounterFalls ==
    ASSUME JobStoreInv, [JobStoreNext]_jobStoreVars, NEW j \in Jobs
    PROVE  remaining[j] \in Int /\ remaining'[j] \in Int /\ remaining'[j] <= remaining[j]
<1>1. /\ remaining \in [Jobs -> Int]
      /\ \A k \in Jobs : jobStatus[k] = "none" => remaining[k] = NumChunks
  BY DEF JobStoreInv, JobStoreTypeOK, CounterInv
<1>2. remaining[j] \in Int /\ remaining'[j] \in Int
  BY <1>1, JobStoreType DEF JobStoreInv, JobStoreTypeOK
<1>3. CASE UNCHANGED remaining
  BY <1>2, <1>3
<1>4. ASSUME NEW k \in Jobs, CreateJob(k) PROVE remaining'[j] <= remaining[j]
  <2>1. remaining'[j] = remaining[j]
    BY <1>1, <1>4 DEF CreateJob
  <2> QED  BY <1>2, <2>1
<1>5. ASSUME NEW k \in Jobs, NEW c \in Chunks, CompleteChunk(k, c)
      PROVE  remaining'[j] <= remaining[j]
  <2>1. remaining' = remaining \/ remaining' = [remaining EXCEPT ![k] = @ - 1]
    BY <1>5 DEF CompleteChunk
  <2>2. remaining'[j] = remaining[j] \/ remaining'[j] = remaining[j] - 1
    BY <1>1, <2>1
  <2> QED  BY <1>2, <2>2
<1>6. ASSUME NEW k \in Jobs, NEW c \in Chunks,
             \/ StartChunkRow(k, c) \/ FailChunk(k, c) \/ RescheduleChunk(k, c)
             \/ StartJobRow(k) \/ FailJob(k) \/ FinishJob(k) \/ RecordDocument(DocOf[k])
      PROVE  UNCHANGED remaining
  BY <1>6 DEF StartChunkRow, FailChunk, RescheduleChunk, StartJobRow, FailJob, FinishJob,
              RecordDocument
<1>7. ASSUME NEW k \in Jobs,
             StartJobRow(k) \/ FailJob(k) \/ FinishJob(k) \/ RecordDocument(DocOf[k])
      PROVE  UNCHANGED remaining
  BY <1>7 DEF StartJobRow, FailJob, FinishJob, RecordDocument
<1>8. CASE UNCHANGED jobStoreVars
  BY <1>2, <1>8 DEF jobStoreVars
<1> QED  BY <1>2, <1>3, <1>4, <1>5, <1>6, <1>7, <1>8 DEF JobStoreNext

LEMMA PipelineForward ==
    ASSUME PipelineInv, [Next]_vars
    PROVE  PipelineInv' /\ Forward
<1>1. /\ Ground' /\ [JobStoreNext]_jobStoreVars /\ PublishInv' /\ AssemblerInv'
      /\ parts \subseteq parts' /\ Writers
  BY GroundStep, PublishStep, AssemblerStep, Monotone, StepWriters DEF PipelineInv
<1>2. JobStoreInv /\ JobStoreTypeOK
  BY DEF PipelineInv, Ground, JobStoreInv
<1>3. Forward
  BY <1>1, <1>2, CounterFalls, StoreProgress DEF Forward
<1>4. ASSUME NEW j \in Jobs, jobStatus'[j] = "done" PROVE remaining'[j] <= 0
  <2>1. CASE jobStatus[j] = "done"
    <3>1. remaining[j] <= 0
      BY <2>1 DEF PipelineInv, DoneInv
    <3> QED  BY <1>3, <3>1 DEF Forward
  <2>2. CASE jobStatus[j] # "done"
    <3>1. PICK w \in Workers : pc[w] = "finish_job" /\ JobOf(w) = j
      BY <1>1, <1>4, <2>2 DEF Writers
    <3>2. remaining[j] <= 0
      BY <3>1 DEF PipelineInv, AssemblerInv, Assembling
    <3> QED  BY <1>3, <3>2 DEF Forward
  <2> QED  BY <2>1, <2>2
<1>5. ASSUME NEW j \in Jobs, jobStatus'[j] = "done"
      PROVE  DocOf[j] \in manifests' /\ AllPartsStored(DocOf[j])'
  BY <1>1, <1>5 DEF PublishInv
<1> QED  BY <1>1, <1>3, <1>4, <1>5 DEF PipelineInv, DoneInv

-----------------------------------------------------------------------------
(***************************************************************************)
(* The endpoints.  Everything a client has read of a job still holds of    *)
(* it, as far as the job cannot go back.                                   *)
(***************************************************************************)
AnswerInv(j) ==
    HasAnswer(j) =>
        /\ answer[j].completed \in Int /\ answer[j].completed <= Completed(j)
        /\ answer[j].status = "done" =>
               /\ jobStatus[j] = "done" /\ answer[j].completed >= NumChunks
               /\ row[j] \in {"none", "done"}

SyncInv(j) ==
    /\ sync[j] = "done" => jobStatus[j] = "done"
    /\ sync[j] # "missing"
    /\ sync[j] = "page" => AllPartsStored(DocOf[j])

ClientInv ==
    /\ DOMAIN row = Jobs /\ DOMAIN answer = Jobs /\ DOMAIN sync = Jobs
    /\ \A j \in Jobs : /\ row[j] = "done" => jobStatus[j] = "done"
                       /\ AnswerInv(j)
                       /\ SyncInv(j)

LEMMA NumChunksType == NumChunks \in Int
  BY NumChunksAssumption

\* A step of the pipeline takes nothing back that a client was told.
LEMMA ClientsUndisturbed ==
    ASSUME ClientInv, Forward, UNCHANGED endpointVars
    PROVE  ClientInv'
<1>1. row' = row /\ answer' = answer /\ sync' = sync
  BY DEF endpointVars
<1>2. ASSUME NEW j \in Jobs
      PROVE  /\ row'[j] = "done" => jobStatus'[j] = "done"
             /\ AnswerInv(j)' /\ SyncInv(j)'
  <2>1. /\ row[j] = "done" => jobStatus[j] = "done"
        /\ AnswerInv(j) /\ SyncInv(j)
    BY DEF ClientInv
  <2>2. jobStatus[j] = "done" => jobStatus'[j] = "done"
    BY DEF Forward
  <2>3. AllPartsStored(DocOf[j]) => AllPartsStored(DocOf[j])'
    BY DEF Forward, AllPartsStored
  <2>4. SyncInv(j)'
    BY <1>1, <2>1, <2>2, <2>3 DEF SyncInv
  <2>5. ASSUME NEW k \in Int, k <= Completed(j) PROVE k <= Completed(j)'
    <3>1. remaining[j] \in Int /\ remaining'[j] \in Int /\ remaining'[j] <= remaining[j]
      BY DEF Forward
    <3> QED  BY <2>5, <3>1, NumChunksType DEF Completed
  <2>6. AnswerInv(j)'
    BY <1>1, <2>1, <2>2, <2>5 DEF AnswerInv, HasAnswer
  <2> QED  BY <1>1, <2>1, <2>2, <2>4, <2>6
<1> QED  BY <1>1, <1>2 DEF ClientInv

\* A client's own steps leave the pipeline alone, and the other jobs' clients.
Reads(j) ==
    /\ UNCHANGED vars
    /\ DOMAIN row' = Jobs /\ DOMAIN answer' = Jobs /\ DOMAIN sync' = Jobs
    /\ \A k \in Jobs \ {j} : /\ row'[k] = row[k] /\ answer'[k] = answer[k]
                            /\ sync'[k] = sync[k]

LEMMA ReadsKeep ==
    ASSUME ClientInv, NEW j \in Jobs, Reads(j), AnswerInv(j)', SyncInv(j)',
           row'[j] = "done" => jobStatus[j] = "done"
    PROVE  ClientInv'
<1>1. jobStatus' = jobStatus /\ remaining' = remaining /\ parts' = parts
  BY DEF Reads, vars, jobStoreVars, storageVars
<1>2. ASSUME NEW k \in Jobs, k # j
      PROVE  /\ row'[k] = "done" => jobStatus'[k] = "done"
             /\ AnswerInv(k)' /\ SyncInv(k)'
  <2>1. row'[k] = row[k] /\ answer'[k] = answer[k] /\ sync'[k] = sync[k]
    BY <1>2 DEF Reads
  <2>2. (row[k] = "done" => jobStatus[k] = "done") /\ AnswerInv(k) /\ SyncInv(k)
    BY DEF ClientInv
  <2>3. SyncInv(k)'
    BY <1>1, <2>1, <2>2 DEF SyncInv, AllPartsStored
  <2>4. AnswerInv(k)'
    BY <1>1, <2>1, <2>2 DEF AnswerInv, HasAnswer, Completed
  <2> QED  BY <1>1, <2>1, <2>2, <2>3, <2>4
<1> QED  BY <1>1, <1>2 DEF ClientInv, Reads

LEMMA ClientStep ==
    ASSUME PipelineInv, ClientInv, NEW j \in Jobs,
           ReadRow(j) \/ AnswerPoll(j) \/ WaitForJob(j) \/ AnswerSync(j)
    PROVE  ClientInv' /\ UNCHANGED vars
<1>1. UNCHANGED vars
  BY DEF ReadRow, AnswerPoll, WaitForJob, AnswerSync
<1>2. jobStatus' = jobStatus /\ remaining' = remaining /\ parts' = parts
  BY <1>1 DEF vars, jobStoreVars, storageVars
<1>3. /\ DOMAIN row = Jobs /\ DOMAIN answer = Jobs /\ DOMAIN sync = Jobs
      /\ row[j] = "done" => jobStatus[j] = "done"
      /\ AnswerInv(j) /\ SyncInv(j)
  BY DEF ClientInv
<1>4. /\ remaining[j] \in Int
      /\ jobStatus[j] = "done" => /\ remaining[j] <= 0
                                  /\ DocOf[j] \in manifests /\ AllPartsStored(DocOf[j])
  BY DEF PipelineInv, Ground, JobStoreInv, JobStoreTypeOK, DoneInv
<1>5. answer' = answer /\ row' = row => AnswerInv(j)'
  BY <1>2, <1>3 DEF AnswerInv, HasAnswer, Completed
<1>6. sync' = sync => SyncInv(j)'
  BY <1>2, <1>3 DEF SyncInv, AllPartsStored
<1>7. CASE ReadRow(j)
  <2>1. row' = [row EXCEPT ![j] = jobStatus[j]] /\ answer' = answer /\ sync' = sync
    BY <1>7 DEF ReadRow
  <2>2. Reads(j) /\ row'[j] = jobStatus[j]
    BY <1>1, <1>3, <2>1 DEF Reads
  <2>3. AnswerInv(j)'
    BY <1>2, <1>3, <2>1, <2>2 DEF AnswerInv, HasAnswer, Completed
  <2> QED  BY <1>1, <1>6, <2>1, <2>2, <2>3, ReadsKeep
<1>8. CASE AnswerPoll(j)
  <2>1. /\ row' = [row EXCEPT ![j] = "none"] /\ sync' = sync
        /\ answer' = [answer EXCEPT ![j] = Payload(j)]
    BY <1>8 DEF AnswerPoll
  <2>2. Reads(j) /\ row'[j] = "none" /\ answer'[j] = Payload(j)
    BY <1>1, <1>3, <2>1 DEF Reads
  <2>3. Payload(j).completed = Completed(j) /\ Payload(j).status = row[j]
    BY DEF Payload
  <2>4. /\ Completed(j) \in Int /\ Completed(j)' = Completed(j)
        /\ remaining[j] <= 0 => Completed(j) >= NumChunks
    BY <1>2, <1>4, NumChunksType DEF Completed
  <2> HIDE DEF Payload, Completed
  <2>5. Completed(j) <= Completed(j)
    BY <2>4
  <2>6. AnswerInv(j)'
    BY <1>2, <1>3, <1>4, <2>2, <2>3, <2>4, <2>5 DEF AnswerInv
  <2> QED  BY <1>1, <1>6, <2>1, <2>2, <2>6, ReadsKeep
<1>9. CASE WaitForJob(j)
  <2>1. /\ sync' = [sync EXCEPT ![j] = jobStatus[j]] /\ row' = row /\ answer' = answer
        /\ jobStatus[j] \in Terminal
    BY <1>9 DEF WaitForJob
  <2>2. Reads(j) /\ sync'[j] = jobStatus[j]
    BY <1>1, <1>3, <2>1 DEF Reads
  <2>3. SyncInv(j)'
    BY <1>2, <2>1, <2>2 DEF SyncInv, Terminal
  <2> QED  BY <1>1, <1>3, <1>5, <2>1, <2>2, <2>3, ReadsKeep
<1>10. CASE AnswerSync(j)
  <2> DEFINE result == IF sync[j] = "failed" THEN "error"
                       ELSE IF DocOf[j] \in manifests THEN "page" ELSE "missing"
  <2>1. /\ row' = row /\ answer' = answer /\ sync[j] \in Terminal
        /\ sync' = [sync EXCEPT ![j] = result]
    BY <1>10 DEF AnswerSync
  <2>2. sync[j] = "failed" \/ (sync[j] = "done" /\ DocOf[j] \in manifests)
    BY <1>3, <1>4, <2>1 DEF SyncInv, Terminal
  <2>3. result = "error" \/ (result = "page" /\ sync[j] = "done")
    BY <2>2
  <2> HIDE DEF result
  <2>4. Reads(j) /\ (sync'[j] = "error" \/ (sync'[j] = "page" /\ sync[j] = "done"))
    <3>1. sync'[j] = result
      BY <1>3, <2>1
    <3> QED  BY <1>1, <1>3, <2>1, <2>3, <3>1 DEF Reads
  <2>5. sync[j] = "done" => AllPartsStored(DocOf[j])'
    BY <1>2, <1>3, <1>4 DEF SyncInv, AllPartsStored
  <2>6. SyncInv(j)'
    BY <2>4, <2>5 DEF SyncInv
  <2> QED  BY <1>1, <1>3, <1>5, <2>1, <2>4, <2>6, ReadsKeep
<1> QED  BY <1>7, <1>8, <1>9, <1>10

LEMMA StatusStep ==
    ASSUME PipelineInv, ClientInv, [StatusNext]_statusVars
    PROVE  PipelineInv' /\ ClientInv'
<1>1. [Next]_vars
  BY ClientStep DEF StatusNext, statusVars
<1>2. PipelineInv' /\ Forward
  BY <1>1, PipelineForward
<1>3. CASE UNCHANGED endpointVars
  BY <1>2, <1>3, ClientsUndisturbed
<1>4. CASE \E j \in Jobs : ReadRow(j) \/ AnswerPoll(j) \/ WaitForJob(j) \/ AnswerSync(j)
  BY <1>2, <1>4, ClientStep
<1> QED  BY <1>2, <1>3, <1>4 DEF StatusNext, statusVars

LEMMA StatusInvariant == StatusSpec => [](PipelineInv /\ ClientInv)
<1>1. StatusInit => PipelineInv
  <2>1. Init => PublishInv
    BY DEF Init, JobStoreInit, WorkerInit, PublishInv
  <2>2. Init => AssemblerInv
    BY DEF Init, JobStoreInit, WorkerInit, AssemblerInv, Assembling, Active
  <2>3. Init => DoneInv
    BY DEF Init, JobStoreInit, DoneInv
  <2> QED  BY <2>1, <2>2, <2>3, GroundInitial DEF StatusInit, PipelineInv
<1>2. StatusInit => ClientInv
  BY DEF StatusInit, ClientInv, AnswerInv, HasAnswer, SyncInv
<1> QED  BY <1>1, <1>2, StatusStep, PTL DEF StatusSpec

\* The endpoints' variables keep their types, and a request that has ended is
\* answered with a page, an error or the document's absence.
THEOREM EndpointTypesHold == StatusSpec => []EndpointTypeOK
<1>1. StatusInit => EndpointTypeOK
  BY DEF StatusInit, EndpointTypeOK, JobState
<1>2. ASSUME PipelineInv, EndpointTypeOK, [StatusNext]_statusVars
      PROVE  EndpointTypeOK'
  <2>1. \A j \in Jobs : jobStatus[j] \in JobState /\ Completed(j) \in Int
    BY <1>2, NumChunksType DEF PipelineInv, Ground, JobStoreInv, JobStoreTypeOK, Completed
  <2>2. CASE UNCHANGED endpointVars
    BY <1>2, <2>2 DEF EndpointTypeOK, endpointVars
  <2>3. ASSUME NEW j \in Jobs, ReadRow(j) PROVE EndpointTypeOK'
    BY <1>2, <2>1, <2>3 DEF EndpointTypeOK, ReadRow
  <2>4. ASSUME NEW j \in Jobs, AnswerPoll(j) PROVE EndpointTypeOK'
    <3>1. Payload(j) \in Answer
      BY <1>2, <2>1 DEF EndpointTypeOK, Payload, Answer
    <3>2. "none" \in JobState
      BY DEF JobState
    <3> QED  BY <1>2, <2>4, <3>1, <3>2 DEF EndpointTypeOK, AnswerPoll
  <2>5. ASSUME NEW j \in Jobs, WaitForJob(j) PROVE EndpointTypeOK'
    BY <1>2, <2>5 DEF EndpointTypeOK, WaitForJob
  <2>6. ASSUME NEW j \in Jobs, AnswerSync(j) PROVE EndpointTypeOK'
    BY <1>2, <2>6 DEF EndpointTypeOK, AnswerSync
  <2> QED  BY <1>2, <2>2, <2>3, <2>4, <2>5, <2>6 DEF StatusNext, statusVars
<1> QED  BY <1>1, <1>2, StatusInvariant, PTL DEF StatusSpec

\* An answer that says done counts every chunk, although the status and the
\* progress are two reads of a row that workers write in between.
THEOREM DoneIsCompleteHolds == StatusSpec => []DoneIsComplete
<1>1. ClientInv => DoneIsComplete
  BY DEF ClientInv, AnswerInv, DoneIsComplete
<1> QED  BY <1>1, StatusInvariant, PTL

\* The synchronous request that is answered with a page gets it from a whole
\* document, and one that saw "done" finds the document.
THEOREM SyncGetsDocumentHolds == StatusSpec => []SyncGetsDocument
<1>1. ClientInv => SyncGetsDocument
  BY DEF ClientInv, SyncInv, SyncGetsDocument
<1> QED  BY <1>1, StatusInvariant, PTL

\* Successive answers about a job never lose progress or take back "done".
THEOREM AnswersAdvanceHolds == StatusSpec => AnswersAdvance
<1>1. ASSUME PipelineInv, ClientInv, [StatusNext]_statusVars,
             NEW j \in Jobs, HasAnswer(j)
      PROVE  /\ answer'[j].completed >= answer[j].completed
             /\ answer[j].status = "done" => answer'[j].status = "done"
  <2>1. /\ answer[j].completed \in Int /\ answer[j].completed <= Completed(j)
        /\ answer[j].status = "done" => row[j] \in {"none", "done"}
        /\ DOMAIN answer = Jobs
    BY <1>1 DEF ClientInv, AnswerInv
  <2>2. CASE answer'[j] = answer[j]
    BY <2>1, <2>2
  <2>3. CASE AnswerPoll(j)
    <3>1. answer'[j] = Payload(j) /\ row[j] # "none"
      BY <2>1, <2>3 DEF AnswerPoll
    <3>2. Payload(j).completed = Completed(j) /\ Payload(j).status = row[j]
      BY DEF Payload
    <3>3. Completed(j) \in Int
      BY <1>1, NumChunksType
         DEF Completed, PipelineInv, Ground, JobStoreInv, JobStoreTypeOK
    <3> QED  BY <2>1, <3>1, <3>2, <3>3
  <2>4. ASSUME NEW k \in Jobs, k # j, AnswerPoll(k) PROVE answer'[j] = answer[j]
    BY <2>1, <2>4 DEF AnswerPoll
  <2>5. ASSUME NEW k \in Jobs, ReadRow(k) \/ WaitForJob(k) \/ AnswerSync(k)
        PROVE  answer' = answer
    BY <2>5 DEF ReadRow, WaitForJob, AnswerSync
  <2> QED
    BY <1>1, <2>2, <2>3, <2>4, <2>5 DEF StatusNext, statusVars, endpointVars
<1>2. PipelineInv /\ ClientInv /\ [StatusNext]_statusVars
        => [\A j \in Jobs : HasAnswer(j) =>
                /\ answer'[j].completed >= answer[j].completed
                /\ answer[j].status = "done" => answer'[j].status = "done"]_statusVars
  BY <1>1
<1> QED  BY <1>2, StatusInvariant, PTL DEF StatusSpec, AnswersAdvance
=============================================================================
