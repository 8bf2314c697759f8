--------------------------- MODULE PipelineProofs ---------------------------
(***************************************************************************)
(* The safety properties of the pipeline, for any number of jobs, chunks,  *)
(* workers, attempts and faults.                                           *)
(***************************************************************************)
EXTENDS JobStoreProofs

\* What holds of the pipeline by type and by the job store's own invariant.
Ground == BaseInv /\ JobStoreInv

\* Every step of the pipeline keeps Ground, and is a step of the job store.
LEMMA GroundStep ==
    ASSUME Ground, [Next]_vars
    PROVE  Ground' /\ [JobStoreNext]_jobStoreVars
<1>1. [JobStoreNext]_jobStoreVars
  BY StoreStep DEF Ground
<1>2. BaseInv'
  BY BaseStep DEF Ground
<1>3. JobStoreInv'
  BY <1>1, JobStoreType, CounterStep, DoneIsCountedStep DEF Ground, JobStoreInv
<1> QED  BY <1>1, <1>2, <1>3 DEF Ground

\* The initial states satisfy Ground.
LEMMA GroundInitial == Init => Ground
  BY BaseInitial, JobStoreInitial DEF Init, Ground

-----------------------------------------------------------------------------
\* Where a worker's program counter can have come from.
Stays(v) == pc'[v] = pc[v] /\ task'[v] = task[v]

Arrivals(v) ==
    /\ pc'[v] = "put_document" => Stays(v) \/ ReadParts(v)
    /\ pc'[v] = "record_document" => Stays(v) \/ PutDocument(v)
    /\ pc'[v] = "finish_job" => Stays(v) \/ Record(v)
    /\ pc'[v] \in Assembling
           => (pc[v] \in Assembling /\ task'[v] = task[v]) \/ Complete(v)
    /\ pc[v] \in Assembling /\ pc'[v] \notin Assembling
           => Finish(v) \/ FailAssembly(v) \/ Crash(v)

\* A step of one worker leaves the others where they are.
LEMMA OthersStay ==
    ASSUME Ground, NEW w \in Workers, WorkerStep(w) \/ WorkerFault(w),
           NEW v \in Workers, v # w
    PROVE  Stays(v)
<1>1. pc \in [Workers -> PC] /\ task \in [Workers -> Task \cup {NoTask}]
  BY DEF Ground, BaseInv, TypeOK, WorkerTypeOK
<1> USE DEF Goto, Stays
<1>2. CASE Receive(w) \/ Convert(w) \/ ConvertFails(w) \/ ReadParts(w)
           \/ PutDocument(w) \/ Park(w) \/ SendRetry(w) \/ Ack(w)
  BY <1>1, <1>2
     DEF Receive, Convert, ConvertFails, ReadParts, PutDocument, Park, SendRetry, Ack
<1>3. CASE WorkerFault(w)
  BY <1>1, <1>3
     DEF WorkerFault, Crash, LoseConnection, PublishFails, AssembleFails, Abandon
<1>4. CASE Complete(w) \/ FailAssembly(w)
  BY <1>1, <1>4 DEF Complete, FailAssembly
<1>5. CASE GetJob(w) \/ StartChunk(w) \/ StartJob(w) \/ Record(w) \/ Finish(w)
  BY <1>1, <1>5
     DEF GetJob, StartChunk, StartJob, Record, Finish, DbCall, DbFrame
<1>6. CASE MarkChunkFailed(w) \/ MarkJobFailed(w) \/ Reschedule(w)
  BY <1>1, <1>6
     DEF MarkChunkFailed, MarkJobFailed, Reschedule, DbCall, DbFrame
<1> QED  BY <1>2, <1>3, <1>4, <1>5, <1>6 DEF WorkerStep

\* A step of a worker reaches an assembly call only from the call before it.
LEMMA WorkerArrivals ==
    ASSUME Ground, NEW w \in Workers, WorkerStep(w) \/ WorkerFault(w),
           NEW v \in Workers
    PROVE  Arrivals(v)
<1>1. pc \in [Workers -> PC] /\ task \in [Workers -> Task \cup {NoTask}]
  BY DEF Ground, BaseInv, TypeOK, WorkerTypeOK
<1> USE DEF Goto, Stays, Arrivals, Assembling
<1>2. CASE v # w
  BY <1>2, OthersStay
<1>3. CASE v = w
  <2>1. CASE Receive(w) \/ Convert(w) \/ ConvertFails(w) \/ ReadParts(w)
             \/ PutDocument(w) \/ Park(w) \/ SendRetry(w) \/ Ack(w)
    BY <1>1, <1>3, <2>1
       DEF Receive, Convert, ConvertFails, ReadParts, PutDocument, Park, SendRetry, Ack
  <2>2. CASE WorkerFault(w)
    BY <1>1, <1>3, <2>2
       DEF WorkerFault, Crash, LoseConnection, PublishFails, AssembleFails, Abandon
  <2>3. CASE Complete(w) \/ FailAssembly(w)
    BY <1>1, <1>3, <2>3 DEF Complete, FailAssembly
  <2>4. CASE GetJob(w) \/ StartChunk(w) \/ StartJob(w) \/ Record(w) \/ Finish(w)
    BY <1>1, <1>3, <2>4
       DEF GetJob, StartChunk, StartJob, Record, Finish, DbCall, DbFrame
  <2>5. CASE MarkChunkFailed(w) \/ MarkJobFailed(w) \/ Reschedule(w)
    BY <1>1, <1>3, <2>5
       DEF MarkChunkFailed, MarkJobFailed, Reschedule, DbCall, DbFrame
  <2> QED  BY <2>1, <2>2, <2>3, <2>4, <2>5 DEF WorkerStep
<1> QED  BY <1>2, <1>3

\* The same of every step of the pipeline.
LEMMA StepArrivals ==
    ASSUME Ground, [Next]_vars, NEW v \in Workers
    PROVE  Arrivals(v)
<1>1. CASE UNCHANGED <<pc, task>>
  BY <1>1 DEF Arrivals, Stays
<1>2. CASE TierExpires \/ UNCHANGED vars
  BY <1>1, <1>2 DEF TierExpires, vars, workerVars
<1>3. ASSUME NEW j \in Jobs, ApiStep(j) \/ ApiFault(j) PROVE Arrivals(v)
  BY <1>1, <1>3 DEF ApiStep, ApiFault, LookUp, Create, Send, SendFails, ApiCrash, workerVars
<1> QED  BY <1>2, <1>3, WorkerArrivals DEF Next, WorkerNext

-----------------------------------------------------------------------------
\* What never shrinks.
LEMMA Monotone ==
    ASSUME Ground, [Next]_vars
    PROVE  /\ parts \subseteq parts' /\ manifests \subseteq manifests'
           /\ dropped \subseteq dropped' /\ orphaned \subseteq orphaned'
           /\ \A j \in Jobs : sent[j] \subseteq sent'[j]
<1>1. (UNCHANGED vars) \/ (TierExpires /\ UNCHANGED apiVars)
        => UNCHANGED <<parts, manifests, dropped, orphaned, sent>>
  BY DEF vars, TierExpires, storageVars, workerVars, apiVars
<1>2. ASSUME NEW j \in Jobs, ApiStep(j) \/ ApiFault(j)
      PROVE  /\ UNCHANGED <<parts, manifests, dropped, orphaned>>
             /\ \A i \in Jobs : sent[i] \subseteq sent'[i]
  <2>1. sent \in [Jobs -> SUBSET Chunks]
    BY DEF Ground, BaseInv, TypeOK, ApiTypeOK
  <2> QED
    BY <1>2, <2>1 DEF ApiStep, ApiFault, LookUp, Create, Send, SendFails, ApiCrash,
                      storageVars, workerVars
<1>3. ASSUME NEW w \in Workers, WorkerStep(w) \/ WorkerFault(w)
      PROVE  /\ parts \subseteq parts' /\ manifests \subseteq manifests'
             /\ dropped \subseteq dropped' /\ orphaned \subseteq orphaned'
  <2> USE DEF storageVars
  <2>1. CASE Receive(w) \/ Convert(w) \/ ConvertFails(w) \/ ReadParts(w)
             \/ PutDocument(w) \/ Park(w) \/ SendRetry(w) \/ Ack(w)
    BY <2>1 DEF Receive, Convert, ConvertFails, ReadParts, PutDocument, Park, SendRetry, Ack
  <2>2. CASE WorkerFault(w)
    BY <2>2 DEF WorkerFault, Crash, LoseConnection, PublishFails, AssembleFails, Orphan
  <2>3. CASE Complete(w) \/ FailAssembly(w)
    BY <2>3 DEF Complete, FailAssembly, Orphan
  <2>4. CASE GetJob(w) \/ StartChunk(w) \/ StartJob(w) \/ Record(w) \/ Finish(w)
    BY <2>4 DEF GetJob, StartChunk, StartJob, Record, Finish, DbFrame
  <2>5. CASE MarkChunkFailed(w) \/ MarkJobFailed(w) \/ Reschedule(w)
    BY <2>5 DEF MarkChunkFailed, MarkJobFailed, Reschedule, DbFrame
  <2> QED  BY <1>3, <2>1, <2>2, <2>3, <2>4, <2>5 DEF WorkerStep
<1>4. ASSUME NEW w \in Workers, WorkerStep(w) \/ WorkerFault(w), UNCHANGED apiVars
      PROVE  /\ parts \subseteq parts' /\ manifests \subseteq manifests'
             /\ dropped \subseteq dropped' /\ orphaned \subseteq orphaned'
             /\ UNCHANGED sent
  BY <1>3, <1>4 DEF apiVars
<1> DEFINE Grows ==
             /\ parts \subseteq parts' /\ manifests \subseteq manifests'
             /\ dropped \subseteq dropped' /\ orphaned \subseteq orphaned'
             /\ \A j \in Jobs : sent[j] \subseteq sent'[j]
<1>5. CASE UNCHANGED vars
  BY <1>1, <1>5
<1>6. CASE WorkerNext /\ UNCHANGED apiVars
  <2>1. ASSUME NEW w \in Workers, WorkerStep(w) \/ WorkerFault(w) PROVE Grows
    BY <1>4, <1>6, <2>1
  <2>2. TierExpires => Grows
    BY <1>1, <1>6
  <2> HIDE DEF Grows
  <2>3. Grows  BY <1>6, <2>1, <2>2 DEF WorkerNext
  <2> QED  BY <2>3 DEF Grows
<1>7. CASE \E j \in Jobs : ApiStep(j) \/ ApiFault(j)
  BY <1>2, <1>7
<1> QED  BY <1>5, <1>6, <1>7 DEF Next

\* Which worker wrote what has changed.
Writers ==
    /\ \/ UNCHANGED manifests
       \/ \E w \in Workers : /\ pc[w] = "put_document"
                             /\ manifests' = manifests \cup {Doc(w)}
    /\ \/ UNCHANGED documents
       \/ \E w \in Workers : pc[w] = "record_document" /\ RecordDocument(Doc(w))
    /\ \A j \in Jobs :
           /\ jobStatus'[j] = "done" /\ jobStatus[j] # "done"
                  => \E w \in Workers : /\ pc[w] = "finish_job" /\ JobOf(w) = j
                                        /\ FinishJob(j)
           /\ remaining'[j] # remaining[j]
                  => \E w \in Workers : Complete(w) /\ JobOf(w) = j

\* Only the worker at the right call writes a manifest, a documents row, done or the counter.
LEMMA StepWriters ==
    ASSUME Ground, [Next]_vars
    PROVE  Writers
<1>1. /\ jobStatus \in [Jobs -> JobState] /\ remaining \in [Jobs -> Int]
      /\ \A j \in Jobs : jobStatus[j] = "none" => remaining[j] = NumChunks
  BY DEF Ground, JobStoreInv, JobStoreTypeOK, CounterInv
<1>2. CASE UNCHANGED jobStoreVars /\ UNCHANGED manifests
  BY <1>2 DEF Writers, jobStoreVars
<1>3. CASE TierExpires \/ UNCHANGED vars
  BY <1>2, <1>3 DEF TierExpires, vars, storageVars
<1>4. ASSUME NEW j \in Jobs, ApiStep(j) \/ ApiFault(j) PROVE Writers
  <2>1. UNCHANGED manifests /\ (CreateJob(j) \/ UNCHANGED jobStoreVars)
    BY <1>4 DEF ApiStep, ApiFault, LookUp, Create, Send, SendFails, ApiCrash, storageVars
  <2>2. CreateJob(j) => Writers
    BY <1>1, <2>1 DEF CreateJob, Writers
  <2> QED  BY <1>2, <2>1, <2>2
<1>5. ASSUME NEW w \in Workers, WorkerStep(w) \/ WorkerFault(w) PROVE Writers
  <2>1. CASE Receive(w) \/ Convert(w) \/ ConvertFails(w) \/ ReadParts(w)
             \/ Park(w) \/ SendRetry(w) \/ Ack(w)
    BY <1>2, <2>1
       DEF Receive, Convert, ConvertFails, ReadParts, Park, SendRetry, Ack, storageVars
  <2>2. CASE Crash(w) \/ LoseConnection(w) \/ PublishFails(w) \/ GetJob(w)
    BY <1>2, <2>2 DEF Crash, LoseConnection, PublishFails, GetJob, DbCall, DbFrame, storageVars
  <2>3. CASE PutDocument(w) \/ AssembleFails(w)
    BY <2>3 DEF PutDocument, AssembleFails, Writers, jobStoreVars
  <2>4. ASSUME UNCHANGED manifests,
               \/ UNCHANGED jobStoreVars \/ StartChunkRow(JobOf(w), ChunkOf(w))
               \/ StartJobRow(JobOf(w)) \/ FailChunk(JobOf(w), ChunkOf(w))
               \/ RescheduleChunk(JobOf(w), ChunkOf(w)) \/ FailJob(JobOf(w))
        PROVE  Writers
    <3>1. /\ UNCHANGED <<documents, remaining>>
          /\ \A j \in Jobs : jobStatus'[j] = "done" => jobStatus[j] = "done"
      BY <1>1, <2>4 DEF StartChunkRow, StartJobRow, FailChunk, RescheduleChunk,
                        FailJob, jobStoreVars
    <3> QED  BY <3>1, <2>4 DEF Writers
  <2>5. CASE StartChunk(w) \/ StartJob(w) \/ MarkChunkFailed(w)
    BY <2>4, <2>5 DEF StartChunk, StartJob, MarkChunkFailed, DbCall, DbFrame, storageVars
  <2>6. CASE MarkJobFailed(w) \/ Reschedule(w) \/ FailAssembly(w)
    BY <2>4, <2>6 DEF MarkJobFailed, Reschedule, FailAssembly, DbCall, DbFrame, storageVars
  <2>7. CASE Record(w)
    <3>1. UNCHANGED manifests /\ (RecordDocument(Doc(w)) \/ UNCHANGED jobStoreVars)
      BY <2>7 DEF Record, DbCall, DbFrame, storageVars
    <3>2. pc[w] = "record_document"
      BY <2>7 DEF Record
    <3>3. RecordDocument(Doc(w)) => UNCHANGED <<jobStatus, remaining>>
      BY DEF RecordDocument
    <3> QED  BY <1>2, <3>1, <3>2, <3>3 DEF Writers
  <2>8. CASE Finish(w)
    <3>1. UNCHANGED manifests /\ (FinishJob(JobOf(w)) \/ UNCHANGED jobStoreVars)
      BY <2>8 DEF Finish, DbCall, DbFrame, storageVars
    <3>2. pc[w] = "finish_job"
      BY <2>8 DEF Finish
    <3>3. FinishJob(JobOf(w))
              => /\ UNCHANGED <<documents, remaining>>
                 /\ \A j \in Jobs : j # JobOf(w) => jobStatus'[j] = jobStatus[j]
      BY <1>1 DEF FinishJob
    <3> QED  BY <1>2, <3>1, <3>2, <3>3 DEF Writers
  <2>9. CASE Complete(w)
    <3>1. UNCHANGED manifests
          /\ (CompleteChunk(JobOf(w), ChunkOf(w)) \/ UNCHANGED jobStoreVars)
      BY <2>9 DEF Complete, storageVars
    <3>2. CompleteChunk(JobOf(w), ChunkOf(w))
              => /\ UNCHANGED documents
                 /\ \A j \in Jobs : /\ jobStatus'[j] = "done" => jobStatus[j] = "done"
                                    /\ j # JobOf(w) => remaining'[j] = remaining[j]
      BY <1>1 DEF CompleteChunk
    <3> QED  BY <1>2, <2>9, <3>1, <3>2 DEF Writers
  <2> QED
    BY <1>5, <2>1, <2>2, <2>3, <2>5, <2>6, <2>7, <2>8, <2>9 DEF WorkerStep, WorkerFault
<1> QED  BY <1>3, <1>4, <1>5 DEF Next, WorkerNext

-----------------------------------------------------------------------------
(***************************************************************************)
(* Publication: an assembler writes the manifest when it has seen every    *)
(* part, records the document when the manifest is written, and finishes   *)
(* the job when the document is recorded.                                  *)
(***************************************************************************)
PublishInv ==
    /\ \A w \in Workers :
           /\ pc[w] = "put_document" => AllPartsStored(Doc(w))
           /\ pc[w] = "record_document" => Doc(w) \in manifests
           /\ pc[w] = "finish_job" => Doc(w) \in documents
    /\ documents \subseteq manifests
    /\ \A d \in manifests : AllPartsStored(d)
    /\ \A j \in Jobs : jobStatus[j] = "done" => DocOf[j] \in documents

\* Every step keeps PublishInv: handle writes no document before its parts.
LEMMA PublishStep ==
    ASSUME Ground, PublishInv, [Next]_vars
    PROVE  PublishInv'
<1>1. Ground' /\ [JobStoreNext]_jobStoreVars
  BY GroundStep
<1>2. /\ parts \subseteq parts' /\ manifests \subseteq manifests'
      /\ documents \subseteq documents'
  BY <1>1, Monotone, StoreProgress DEF Ground, JobStoreInv
<1>3. \A d : AllPartsStored(d) => AllPartsStored(d)'
  BY <1>2 DEF AllPartsStored
<1>4. ASSUME NEW v \in Workers
      PROVE  /\ pc'[v] = "put_document" => AllPartsStored(Doc(v))'
             /\ pc'[v] = "record_document" => Doc(v)' \in manifests'
             /\ pc'[v] = "finish_job" => Doc(v)' \in documents'
  <2>1. Arrivals(v)
    BY StepArrivals
  <2>2. task'[v] = task[v] => Doc(v)' = Doc(v)
    BY DEF Doc
  <2>3. pc'[v] = "put_document" => AllPartsStored(Doc(v))'
    <3>1. CASE Stays(v)
      BY <1>2, <3>1 DEF Stays, PublishInv, AllPartsStored, Doc
    <3>2. CASE ReadParts(v) /\ pc'[v] = "put_document"
      <4>1. AllPartsStored(Doc(v)) /\ task' = task
        BY <3>2 DEF ReadParts, Goto, Ground, BaseInv, TypeOK, WorkerTypeOK
      <4> QED  BY <1>2, <4>1 DEF AllPartsStored, Doc
    <3> QED  BY <2>1, <3>1, <3>2 DEF Arrivals
  <2>4. pc'[v] = "record_document" => Doc(v)' \in manifests'
    BY <1>2, <2>1, <2>2 DEF Arrivals, Stays, PutDocument, PublishInv
  <2>5. pc'[v] = "finish_job" => Doc(v)' \in documents'
    <3>1. CASE Stays(v)
      BY <1>2, <2>2, <3>1 DEF Stays, PublishInv
    <3>2. CASE Record(v) /\ pc'[v] = "finish_job"
      <4>1. RecordDocument(Doc(v)) /\ task' = task
        BY <3>2 DEF Record, DbCall, DbFrame, Goto, Ground, BaseInv, TypeOK, WorkerTypeOK
      <4> QED  BY <2>2, <4>1 DEF RecordDocument
    <3> QED  BY <2>1, <3>1, <3>2 DEF Arrivals
  <2> QED  BY <2>3, <2>4, <2>5
<1>5. Writers
  BY StepWriters
<1>6. ASSUME NEW j \in Jobs, jobStatus'[j] = "done" PROVE DocOf[j] \in documents'
  <2>1. jobStatus[j] = "done" => DocOf[j] \in documents'
    BY <1>2 DEF PublishInv
  <2>2. ASSUME NEW w \in Workers, pc[w] = "finish_job", JobOf(w) = j
        PROVE  DocOf[j] \in documents'
    BY <1>2, <2>2 DEF PublishInv, Doc, JobOf
  <2> QED  BY <1>5, <1>6, <2>1, <2>2 DEF Writers
<1>7. documents' \subseteq manifests'
  <2>1. ASSUME NEW w \in Workers, pc[w] = "record_document", RecordDocument(Doc(w))
        PROVE  documents' \subseteq manifests
    BY <2>1 DEF RecordDocument, PublishInv
  <2>2. UNCHANGED documents => documents' \subseteq manifests
    BY DEF PublishInv
  <2> QED  BY <1>2, <1>5, <2>1, <2>2 DEF Writers
<1>8. \A d \in manifests' : AllPartsStored(d)'
  <2>1. \A d \in manifests' : AllPartsStored(d)
    BY <1>5 DEF Writers, PublishInv
  <2> QED  BY <1>3, <2>1
<1> QED  BY <1>4, <1>6, <1>7, <1>8 DEF PublishInv

\* PublishInv always holds.
LEMMA PublishInvariant == Spec => [](Ground /\ PublishInv)
<1>1. Init => Ground /\ PublishInv
  <2>1. Init => PublishInv
    BY DEF Init, JobStoreInit, WorkerInit, PublishInv
  <2> QED  BY <2>1, GroundInitial
<1>2. Ground /\ PublishInv /\ [Next]_vars => (Ground /\ PublishInv)'
  BY GroundStep, PublishStep
<1> QED  BY <1>1, <1>2, PTL DEF Spec

\* Whatever interleaves, fails or is redelivered, a manifest exists only for a
\* document all of whose parts are stored, and a documents row only with its
\* manifest (worker.assemble).
THEOREM NoPartialDocument == Spec => []PublishedIsWhole
<1>1. PublishInv => PublishedIsWhole
  BY DEF PublishInv, PublishedIsWhole
<1> QED  BY <1>1, PublishInvariant, PTL

\* The counter of a job that has ended stands still (complete_chunk's guard).
THEOREM CountStops == Spec => CountStopsAtEnd
<1>1. Ground /\ [Next]_vars
        => [\A j \in Jobs : jobStatus[j] \in Terminal
                => remaining'[j] = remaining[j] /\ counted'[j] = counted[j]]_vars
  BY GroundStep, StoreProgress DEF Ground, JobStoreInv
<1> QED  BY <1>1, PublishInvariant, PTL DEF Spec, CountStopsAtEnd

-----------------------------------------------------------------------------
\* What the service shows of a job.
Outcome == [j \in Jobs |-> IF jobStatus[j] = "none" THEN "absent"
                           ELSE IF jobStatus[j] \in Terminal THEN jobStatus[j]
                           ELSE "pending"]

\* Every step of the pipeline is a step of the service, or changes nothing the client sees.
LEMMA ServiceStep ==
    ASSUME Ground, PublishInv, [Next]_vars
    PROVE  [Service!ServiceNext]_(Service!serviceVars)
<1> USE DEF Outcome
<1>1. jobStatus \in [Jobs -> JobState]
  BY DEF Ground, JobStoreInv, JobStoreTypeOK
<1>2. [JobStoreNext]_jobStoreVars /\ Writers
  BY GroundStep, StepWriters
<1>3. CASE UNCHANGED <<Outcome, documents>>
  BY <1>3 DEF Service!serviceVars
<1>4. ASSUME NEW j \in Jobs, CreateJob(j) PROVE Service!Accept(j)
  BY <1>1, <1>4 DEF CreateJob, Service!Accept, JobState, Terminal
<1>5. ASSUME NEW j \in Jobs, NEW c \in Chunks,
             \/ StartChunkRow(j, c) \/ CompleteChunk(j, c) \/ FailChunk(j, c)
             \/ RescheduleChunk(j, c) \/ StartJobRow(j),
             jobStatus[j] # "none"
      PROVE  UNCHANGED <<Outcome, documents>>
  BY <1>1, <1>5 DEF StartChunkRow, CompleteChunk, FailChunk, RescheduleChunk,
                    StartJobRow, Terminal, JobState
<1>6. ASSUME NEW j \in Jobs, FailJob(j), jobStatus[j] # "none"
      PROVE  Service!Fail(j) \/ UNCHANGED <<Outcome, documents>>
  BY <1>1, <1>6 DEF FailJob, Service!Fail, Terminal, JobState
<1>7. ASSUME NEW j \in Jobs, FinishJob(j), jobStatus[j] # "none"
      PROVE  Service!Succeed(j) \/ UNCHANGED <<Outcome, documents>>
  <2>1. CASE jobStatus[j] = "done"
    BY <1>1, <1>7, <2>1 DEF FinishJob
  <2>2. CASE jobStatus[j] # "done"
    <3>1. jobStatus'[j] = "done"
      BY <1>1, <1>7 DEF FinishJob
    <3>2. PICK w \in Workers : pc[w] = "finish_job" /\ JobOf(w) = j
      BY <1>2, <2>2, <3>1 DEF Writers
    <3>3. DocOf[j] \in documents
      BY <3>2 DEF PublishInv, Doc, JobOf
    <3> QED  BY <1>1, <1>7, <2>2, <3>3 DEF FinishJob, Service!Succeed, Terminal, JobState
  <2> QED  BY <2>1, <2>2
<1>8. ASSUME NEW j \in Jobs, RecordDocument(DocOf[j]), jobStatus[j] # "none"
      PROVE  Service!PublishDocument(j)
  BY <1>1, <1>8 DEF RecordDocument, Service!PublishDocument, Terminal, JobState
<1>9. CASE UNCHANGED jobStoreVars
  BY <1>3, <1>9 DEF jobStoreVars
<1>10. Chunks # {}
  BY NumChunksAssumption DEF Chunks
<1> HIDE DEF Outcome
<1> QED
  BY <1>2, <1>3, <1>4, <1>5, <1>6, <1>7, <1>8, <1>9, <1>10
     DEF JobStoreNext, Service!ServiceNext

\* The pipeline implements the conversion service: a job is done only with its
\* document recorded, done is final, and no job that ended is revived.
THEOREM PipelineImplementsService == Spec => ImplementsService
<1>1. Init => Service!ServiceInit
  BY DEF Init, JobStoreInit, Service!ServiceInit
<1>2. Ground /\ PublishInv /\ [Next]_vars => [Service!ServiceNext]_(Service!serviceVars)
  BY ServiceStep
<1> QED
  BY <1>1, <1>2, PublishInvariant, PTL DEF Spec, ImplementsService, Service!ServiceSpec

-----------------------------------------------------------------------------
(***************************************************************************)
(* Assembly.  The counter passes 0 once, and from then on, until the job   *)
(* ends, exactly one worker assembles it, unless that worker went away.    *)
(***************************************************************************)
AssemblerInv ==
    /\ \A w \in Workers : pc[w] \in Assembling => remaining[JobOf(w)] <= 0
    /\ \A v, w \in Workers :
           pc[v] \in Assembling /\ pc[w] \in Assembling /\ JobOf(v) = JobOf(w)
               => v = w
    /\ \A j \in Jobs :
           Active(j) /\ remaining[j] <= 0
               => j \in orphaned \/ \E w \in Workers : Assembles(w, j)

\* complete_chunk moves the counter by one; the worker it tells 0 assembles.
LEMMA CompleteEffect ==
    ASSUME Ground, NEW w \in Workers, Complete(w)
    PROVE  /\ JobOf(w) \in Jobs /\ jobStatus[JobOf(w)] # "none"
           /\ task'[w] = task[w]
           /\ remaining'[JobOf(w)] \in {remaining[JobOf(w)], remaining[JobOf(w)] - 1}
           /\ pc'[w] \in Assembling
                  => remaining[JobOf(w)] = 1 /\ remaining'[JobOf(w)] = 0
           /\ remaining[JobOf(w)] = 1 /\ remaining'[JobOf(w)] = 0
                  => pc'[w] = "assemble" \/ JobOf(w) \in orphaned'
           /\ \A v \in Workers : v # w => pc'[v] = pc[v]
<1>1. /\ pc \in [Workers -> PC] /\ remaining \in [Jobs -> Int]
      /\ jobStatus \in [Jobs -> JobState]
  BY DEF Ground, BaseInv, TypeOK, WorkerTypeOK, JobStoreTypeOK
<1>2. /\ JobOf(w) \in Jobs /\ ChunkOf(w) \in Chunks /\ jobStatus[JobOf(w)] # "none"
  <2>1. pc[w] # "idle"
    BY DEF Complete
  <2> QED  BY <2>1, BusyTask DEF Ground, BaseInv, RowInv, JobOf
<1> DEFINE j == JobOf(w)
           result == CompleteResult(JobOf(w), ChunkOf(w))
<1>3. remaining[j] \in Int
  BY <1>1, <1>2
<1>4. /\ pc[w] = "complete_chunk" /\ task' = task
      /\ \A v \in Workers : v # w => pc'[v] = pc[v]
  BY <1>1 DEF Complete, Goto
<1>5. CASE CompleteChunk(j, ChunkOf(w))
  <2> DEFINE counts == chunkStatus[j][ChunkOf(w)] # "done" /\ jobStatus[j] \notin Terminal
  <2>1. /\ counts => remaining'[j] = remaining[j] - 1
        /\ ~counts => remaining' = remaining
    BY <1>1, <1>2, <1>5 DEF CompleteChunk
  <2>2. /\ counts => result = remaining[j] - 1
        /\ ~counts => result \in {-1, -2}
    BY DEF CompleteResult, CHUNK_ALREADY_DONE, JOB_ALREADY_TERMINAL
  <2> HIDE DEF counts, result
  <2>3. remaining'[j] \in {remaining[j], remaining[j] - 1}
    BY <2>1
  <2>4. result = 0 => remaining[j] = 1 /\ remaining'[j] = 0
    BY <1>3, <2>1, <2>2
  <2>5. remaining[j] = 1 /\ remaining'[j] = 0 => result = 0
    BY <1>3, <2>1, <2>2
  <2>6. /\ pc'[w] \in Assembling => result = 0
        /\ result = 0 => pc'[w] = "assemble" \/ j \in orphaned'
    <3>1. result = 0 => ~UNCHANGED jobStoreVars
      BY <2>4 DEF jobStoreVars
    <3>2. \/ pc'[w] = (IF result = 0 THEN "assemble" ELSE "ack")
          \/ /\ pc'[w] = "raised"
             /\ \/ orphaned' = IF result = 0 THEN orphaned \cup {j} ELSE orphaned
                \/ UNCHANGED jobStoreVars
      BY <1>1 DEF Complete, Goto, result
    <3> HIDE DEF j
    <3> QED  BY <3>1, <3>2 DEF Assembling
  <2> HIDE DEF j, result
  <2>7. /\ pc'[w] \in Assembling => remaining[j] = 1 /\ remaining'[j] = 0
        /\ remaining[j] = 1 /\ remaining'[j] = 0 => pc'[w] = "assemble" \/ j \in orphaned'
    BY <2>4, <2>5, <2>6
  <2> QED  BY <1>2, <1>4, <2>3, <2>7 DEF j
<1>6. CASE ~CompleteChunk(j, ChunkOf(w))
  <2>1. UNCHANGED jobStoreVars /\ pc'[w] = "raised"
    BY <1>1, <1>6 DEF Complete, Goto
  <2>2. remaining' = remaining /\ pc'[w] \notin Assembling
    BY <2>1 DEF jobStoreVars, Assembling
  <2>3. ~(remaining[j] = 1 /\ remaining'[j] = 0)
    BY <1>3, <2>2
  <2> HIDE DEF j
  <2> QED  BY <1>2, <1>4, <2>2, <2>3 DEF j
<1> QED  BY <1>5, <1>6

\* The worker that stops assembling leaves a job that ended or is orphaned.
LEMMA LeavesAssembly ==
    ASSUME Ground, [Next]_vars, NEW w \in Workers,
           pc[w] \in Assembling, pc'[w] \notin Assembling
    PROVE  jobStatus'[JobOf(w)] \in Terminal \/ JobOf(w) \in orphaned'
<1>1. pc \in [Workers -> PC] /\ jobStatus \in [Jobs -> JobState]
  BY DEF Ground, BaseInv, TypeOK, WorkerTypeOK, JobStoreTypeOK
<1>2. JobOf(w) \in Jobs
  BY BusyTask DEF Ground, Assembling
<1>3. Finish(w) \/ FailAssembly(w) \/ Crash(w)
  BY StepArrivals DEF Arrivals
<1>4. CASE Finish(w)
  BY <1>1, <1>2, <1>4 DEF Finish, DbCall, FinishJob, Goto, Assembling, Terminal
<1>5. CASE FailAssembly(w)
  BY <1>1, <1>2, <1>5 DEF FailAssembly, FailJob, Orphan, Goto, Assembling, Terminal
<1>6. CASE Crash(w)
  BY <1>6 DEF Crash, Orphan
<1> QED  BY <1>3, <1>4, <1>5, <1>6

\* Every step keeps AssemblerInv: only a worker told 0 starts to assemble.
LEMMA AssemblerStep ==
    ASSUME Ground, AssemblerInv, [Next]_vars
    PROVE  AssemblerInv'
<1>1. Ground' /\ [JobStoreNext]_jobStoreVars /\ Writers /\ orphaned \subseteq orphaned'
  BY GroundStep, StepWriters, Monotone
<1>2. \A j \in Jobs : remaining[j] \in Int
  BY DEF Ground, JobStoreInv, JobStoreTypeOK
<1>3. \A j \in Jobs : remaining'[j] \in {remaining[j], remaining[j] - 1}
  BY <1>1, CompleteEffect DEF Writers
<1>4. \A w \in Workers : pc[w] \in Assembling => JobOf(w) \in Jobs
  BY BusyTask DEF Ground, Assembling
\* Who assembles now did so before, or was just told 0.
<1>5. ASSUME NEW w \in Workers, pc'[w] \in Assembling
      PROVE  /\ JobOf(w)' = JobOf(w)
             /\ JobOf(w) \in Jobs
             /\ pc[w] \in Assembling \/ Complete(w)
  BY <1>4, <1>5, StepArrivals, CompleteEffect DEF Arrivals, JobOf
<1>6. ASSUME NEW w \in Workers, pc'[w] \in Assembling
      PROVE  remaining'[JobOf(w)'] <= 0
  <2>1. CASE pc[w] \in Assembling
    <3>1. remaining[JobOf(w)] <= 0
      BY <2>1 DEF AssemblerInv
    <3>2. ASSUME NEW j \in Jobs, remaining[j] <= 0 PROVE remaining'[j] <= 0
      BY <1>2, <1>3, <3>2
    <3> QED  BY <1>5, <1>6, <3>1, <3>2
  <2>2. CASE Complete(w)
    <3>1. remaining'[JobOf(w)] = 0
      BY <1>6, <2>2, CompleteEffect
    <3> QED  BY <1>5, <1>6, <3>1
  <2> QED  BY <1>5, <1>6, <2>1, <2>2
<1>7. ASSUME NEW v \in Workers, NEW w \in Workers,
             pc'[v] \in Assembling, pc'[w] \in Assembling, JobOf(v)' = JobOf(w)'
      PROVE  v = w
  <2>1. JobOf(v) = JobOf(w)
    BY <1>5, <1>7
  <2>2. CASE pc[v] \in Assembling /\ pc[w] \in Assembling
    BY <2>1, <2>2 DEF AssemblerInv
  <2>3. ASSUME NEW x \in Workers, NEW y \in Workers, JobOf(x) = JobOf(y),
               pc'[x] \in Assembling, pc[x] \in Assembling, Complete(y),
               pc'[y] \in Assembling
        PROVE  FALSE
    <3>1. remaining[JobOf(x)] <= 0 /\ remaining[JobOf(x)] = 1
      BY <2>3, CompleteEffect DEF AssemblerInv
    <3> QED  BY <3>1
  <2>4. CASE Complete(v) /\ Complete(w)
    <3>1. pc[w] = "complete_chunk"
      BY <2>4 DEF Complete
    <3> QED  BY <1>7, <2>4, <3>1, CompleteEffect DEF Assembling
  <2> QED  BY <1>5, <1>7, <2>1, <2>2, <2>3, <2>4
<1>8. ASSUME NEW j \in Jobs, Active(j)', remaining'[j] <= 0
      PROVE  j \in orphaned' \/ \E w \in Workers : Assembles(w, j)'
  <2>1. jobStatus[j] \notin Terminal
    BY <1>1, <1>8, StoreProgress DEF Active, Terminal, Ground, JobStoreInv
  <2>2. ASSUME NEW w \in Workers, Complete(w), JobOf(w) = j, remaining[j] > 0
        PROVE  j \in orphaned' \/ Assembles(w, j)'
    <3>1. remaining[j] = 1 /\ remaining'[j] = 0
      BY <1>2, <1>3, <1>8, <2>2
    <3>2. pc'[w] = "assemble" \/ j \in orphaned'
      BY <2>2, <3>1, CompleteEffect
    <3>3. JobOf(w)' = j
      BY <2>2, CompleteEffect DEF JobOf
    <3> QED  BY <3>2, <3>3 DEF Assembles, Assembling
  <2>3. CASE remaining[j] > 0
    <3>1. PICK w \in Workers : Complete(w) /\ JobOf(w) = j
      <4>1. remaining'[j] # remaining[j]
        BY <1>2, <1>3, <1>8, <2>3
      <4> QED  BY <1>1, <4>1 DEF Writers
    <3> QED  BY <2>2, <2>3, <3>1
  <2>4. CASE remaining[j] <= 0
    <3>1. jobStatus[j] # "none"
      BY <2>4, NumChunksAssumption DEF Ground, JobStoreInv, CounterInv
    <3>2. Active(j)
      BY <2>1, <3>1 DEF Active, Terminal, JobState, Ground, JobStoreInv, JobStoreTypeOK
    <3>3. CASE j \in orphaned
      BY <1>1, <3>3
    <3>4. ASSUME NEW w \in Workers, Assembles(w, j)
          PROVE  j \in orphaned' \/ Assembles(w, j)'
      <4>1. CASE pc'[w] \in Assembling
        BY <1>5, <3>4, <4>1 DEF Assembles
      <4>2. CASE pc'[w] \notin Assembling
        BY <1>8, <3>4, <4>2, LeavesAssembly DEF Assembles, Active, Terminal
      <4> QED  BY <4>1, <4>2
    <3> QED  BY <2>4, <3>2, <3>3, <3>4 DEF AssemblerInv
  <2> QED  BY <1>2, <2>3, <2>4
<1> QED  BY <1>6, <1>7, <1>8 DEF AssemblerInv

\* AssemblerInv always holds.
LEMMA AssemblerInvariant == Spec => [](Ground /\ AssemblerInv)
<1>1. Init => Ground /\ AssemblerInv
  <2>1. Init => AssemblerInv
    BY DEF Init, JobStoreInit, WorkerInit, AssemblerInv, Assembling, Active
  <2> QED  BY <2>1, GroundInitial
<1>2. Ground /\ AssemblerInv /\ [Next]_vars => (Ground /\ AssemblerInv)'
  BY GroundStep, AssemblerStep
<1> QED  BY <1>1, <1>2, PTL DEF Spec

\* However often chunks are redelivered, retried or completed concurrently, at
\* most one worker per job is told that nothing remains, and at most one is
\* in assemble.
THEOREM OneAssembler == Spec => []AtMostOneAssembler
<1>1. Ground /\ AssemblerInv => AtMostOneAssembler
  <2> SUFFICES ASSUME Ground, AssemblerInv, NEW j \in Jobs
               PROVE  AtMostOneAssembler!(j)
    BY DEF AtMostOneAssembler
  <2>1. zeros[j] <= 1
    BY DEF Ground, JobStoreInv, JobStoreTypeOK, CounterInv
  <2>2. \A v, w \in Workers : Assembles(v, j) /\ Assembles(w, j) => v = w
    BY DEF AssemblerInv, Assembles
  <2> QED  BY <2>1, <2>2
<1> QED  BY <1>1, AssemblerInvariant, PTL

-----------------------------------------------------------------------------
(***************************************************************************)
(* Work is not lost: follow one message for chunk c of job j through every *)
(* step, until the chunk is counted or the job has ended.                  *)
(***************************************************************************)
Settles(j, c) ==
    Live(j, c)' \/ <<j, c>> \in dropped' \/ c \in counted'[j] \/ ~Active(j)'

\* What a worker's step does to the queues.
LEMMA WorkerQueue ==
    ASSUME Ground, NEW w \in Workers, WorkerStep(w) \/ WorkerFault(w)
    PROVE  \/ UNCHANGED taskQueueVars
           \/ PublishFailed(task[w])
           \/ \E t \in Task : Deliver(w, t) /\ pc'[w] = "get_job"
           \/ \E n \in 0 .. 2 : PublishRetry(task[w], n) /\ pc[w] = "publish_retry"
           \/ BasicAck(w)
           \/ Requeue(w)
<1>1. pc \in [Workers -> PC]
  BY DEF Ground, BaseInv, TypeOK, WorkerTypeOK
<1>2. CASE Receive(w)
  BY <1>1, <1>2 DEF Receive, Goto
<1>3. CASE Convert(w) \/ ConvertFails(w) \/ ReadParts(w) \/ PutDocument(w)
  BY <1>3 DEF Convert, ConvertFails, ReadParts, PutDocument
<1>4. CASE Park(w) \/ SendRetry(w) \/ Ack(w)
  <2>1. CASE Park(w) \/ Ack(w)
    BY <2>1 DEF Park, Ack
  <2>2. CASE SendRetry(w)
    <3>1. Copies(w) \subseteq 0 .. 2
      BY DEF Copies
    <3> QED  BY <2>2, <3>1 DEF SendRetry
  <2> QED  BY <1>4, <2>1, <2>2
<1>5. CASE WorkerFault(w)
  BY <1>5 DEF WorkerFault, Crash, LoseConnection, PublishFails, AssembleFails, Abandon
<1>6. CASE Complete(w) \/ FailAssembly(w)
  BY <1>6 DEF Complete, FailAssembly
<1>7. CASE GetJob(w) \/ StartChunk(w) \/ StartJob(w) \/ Record(w) \/ Finish(w)
  BY <1>7 DEF GetJob, StartChunk, StartJob, Record, Finish, DbFrame
<1>8. CASE MarkChunkFailed(w) \/ MarkJobFailed(w) \/ Reschedule(w)
  BY <1>8 DEF MarkChunkFailed, MarkJobFailed, Reschedule, DbFrame
<1> QED  BY <1>2, <1>3, <1>4, <1>5, <1>6, <1>7, <1>8 DEF WorkerStep

\* A queued message stays queued or is delivered; another worker's delivery
\* is left alone.
QueuedStay(w) ==
    /\ \A t \in Task : \/ ready[t] > 0 => ready'[t] > 0
                       \/ unacked'[w] = t /\ pc'[w] = "get_job"
    /\ \A t \in Task : retry[t] > 0 => retry'[t] > 0
    /\ \A v \in Workers : v # w => unacked'[v] = unacked[v]

\* No step of a worker takes a message off the queues but to deliver it.
LEMMA WorkerQueuedStay ==
    ASSUME Ground, NEW w \in Workers, WorkerStep(w) \/ WorkerFault(w)
    PROVE  QueuedStay(w)
<1>1. ready \in [Task -> Nat] /\ retry \in [Task -> Nat]
      /\ unacked \in [Workers -> Task \cup {NoTask}]
  BY DEF Ground, BaseInv, TypeOK, TaskQueueTypeOK
<1> USE DEF QueuedStay
<1>2. CASE UNCHANGED taskQueueVars
  BY <1>2 DEF taskQueueVars
<1>3. CASE PublishFailed(task[w]) \/ BasicAck(w)
  BY <1>1, <1>3 DEF PublishFailed, BasicAck
<1>4. ASSUME NEW t \in Task, Deliver(w, t), pc'[w] = "get_job"
      PROVE  QueuedStay(w)
  BY <1>1, <1>4 DEF Deliver
<1>5. ASSUME NEW n \in 0 .. 2, PublishRetry(task[w], n) PROVE QueuedStay(w)
  <2>1. \A t \in Task : retry'[t] \in {retry[t], retry[t] + n}
    BY <1>1, <1>5 DEF PublishRetry
  <2>2. UNCHANGED <<ready, unacked>>
    BY <1>5 DEF PublishRetry
  <2>3. ASSUME NEW t \in Task, retry[t] > 0 PROVE retry'[t] > 0
    BY <1>1, <2>1, <2>3
  <2> QED  BY <2>2, <2>3
<1>6. CASE Requeue(w)
  <2>1. \A t \in Task : ready'[t] \in {ready[t], ready[t] + 1}
    BY <1>1, <1>6 DEF Requeue
  <2> QED  BY <1>1, <1>6, <2>1 DEF Requeue
<1> HIDE DEF QueuedStay
<1> QED  BY <1>2, <1>3, <1>4, <1>5, <1>6, WorkerQueue

\* The message in a worker's hands, when that worker takes a step.
LEMMA HeldSettles ==
    ASSUME Ground, [Next]_vars, NEW w \in Workers, WorkerStep(w) \/ WorkerFault(w),
           unacked[w] # NoTask, pc[w] # "ack",
           NEW j, NEW c, j = unacked[w].job, c = unacked[w].chunk
    PROVE  Settles(j, c)
<1>1. /\ pc \in [Workers -> PC] /\ ready \in [Task -> Nat] /\ retry \in [Task -> Nat]
      /\ unacked \in [Workers -> Task \cup {NoTask}]
      /\ jobStatus \in [Jobs -> JobState] /\ counted \in [Jobs -> SUBSET Chunks]
  BY DEF Ground, BaseInv, TypeOK, WorkerTypeOK, TaskQueueTypeOK, JobStoreTypeOK
<1>2. unacked[w] = task[w] /\ pc[w] # "idle"
  BY DEF Ground, BaseInv, TaskInv
<1>3. /\ task[w] \in Task /\ j \in Jobs /\ c \in Chunks
      /\ j = task[w].job /\ j = JobOf(w) /\ c = task[w].chunk /\ c = ChunkOf(w)
      /\ jobStatus[j] # "none"
      /\ task[w].attempt \in 1 .. MaxAttempts
  BY <1>2, BusyTask DEF Ground, BaseInv, RowInv, JobOf, ChunkOf
<1>4. ASSUME unacked'[w] = unacked[w], pc'[w] # "ack" PROVE Settles(j, c)
  <2>1. unacked'[w] # NoTask /\ unacked'[w].job = j /\ unacked'[w].chunk = c
    BY <1>4
  <2> QED  BY <1>4, <2>1 DEF Settles, Live
<1>5. ASSUME jobStatus'[j] \in Terminal PROVE Settles(j, c)
  BY <1>5 DEF Settles, Active, Terminal
<1>6. ASSUME NEW t \in Task, t.job = j, t.chunk = c, ready'[t] > 0 \/ retry'[t] > 0
      PROVE  Settles(j, c)
  BY <1>6 DEF Settles, Live
<1>7. ASSUME Requeue(w) PROVE Settles(j, c)
  <2>1. ready' = [ready EXCEPT ![task[w]] = @ + 1]
    BY <1>2, <1>3, <1>7 DEF Requeue
  <2>2. ready'[task[w]] > 0
    <3>1. ready[task[w]] \in Nat /\ ready'[task[w]] = ready[task[w]] + 1
      BY <1>1, <1>3, <2>1
    <3> QED  BY <3>1
  <2> QED  BY <1>3, <1>6, <2>2
<1>8. CASE Receive(w)
  BY <1>2, <1>8 DEF Receive
<1>9. CASE Convert(w) \/ ConvertFails(w) \/ ReadParts(w) \/ PutDocument(w) \/ AssembleFails(w)
  BY <1>1, <1>4, <1>9
     DEF Convert, ConvertFails, ReadParts, PutDocument, AssembleFails, Goto, taskQueueVars
<1>10. CASE Park(w)
  BY <1>1, <1>4, <1>10 DEF Park, PublishFailed, Goto, taskQueueVars
<1>11. CASE StartChunk(w) \/ StartJob(w) \/ Record(w) \/ MarkChunkFailed(w) \/ Reschedule(w)
  BY <1>1, <1>4, <1>11
     DEF StartChunk, StartJob, Record, MarkChunkFailed, Reschedule, DbCall, DbFrame,
         Goto, taskQueueVars
<1>12. CASE GetJob(w)
  <2>1. unacked' = unacked /\ (pc'[w] = "ack" => jobStatus'[j] \in Terminal)
    BY <1>1, <1>3, <1>12
       DEF GetJob, DbCall, DbFrame, Goto, taskQueueVars, jobStoreVars
  <2> QED  BY <1>4, <1>5, <2>1
<1>13. CASE Complete(w)
  <2>1. unacked' = unacked
    BY <1>13 DEF Complete, taskQueueVars
  <2>2. CASE pc'[w] # "ack"
    BY <1>4, <2>1, <2>2
  <2>3. CASE pc'[w] = "ack"
    <3>1. CompleteChunk(j, c)
      BY <1>1, <1>3, <1>13, <2>3 DEF Complete, Goto
    <3>2. jobStatus[j] \in Terminal \/ c \in counted'[j]
      <4>1. CASE chunkStatus[j][c] = "done"
        BY <1>1, <1>3, <3>1, <4>1
           DEF CompleteChunk, Ground, JobStoreInv, DoneIsCounted
      <4>2. CASE chunkStatus[j][c] # "done"
        BY <1>1, <1>3, <3>1, <4>2 DEF CompleteChunk
      <4> QED  BY <4>1, <4>2
    <3>3. jobStatus[j] \in Terminal => jobStatus'[j] \in Terminal
      BY <1>3, GroundStep, StoreProgress DEF Ground, JobStoreInv
    <3> QED  BY <1>5, <3>2, <3>3 DEF Settles
  <2> QED  BY <2>2, <2>3
<1>14. CASE Finish(w) \/ MarkJobFailed(w) \/ FailAssembly(w)
  <2>1. unacked' = unacked
    BY <1>14 DEF Finish, MarkJobFailed, FailAssembly, DbFrame, taskQueueVars
  <2>2. pc'[w] = "ack" => FinishJob(j) \/ FailJob(j)
    BY <1>1, <1>3, <1>14 DEF Finish, MarkJobFailed, FailAssembly, DbCall, Goto
  <2>3. FinishJob(j) \/ FailJob(j) => jobStatus'[j] \in Terminal
    BY <1>1, <1>3 DEF FinishJob, FailJob, Terminal
  <2> QED  BY <1>4, <1>5, <2>1, <2>2, <2>3
\* A live delivery means a live connection: the retry is published.
<1>15. CASE SendRetry(w)
  <2>1. PublishRetry(task[w], 1)
    <3>1. Copies(w) = {1}
      BY DEF Copies
    <3> QED  BY <1>15, <3>1 DEF SendRetry
  <2>2. RetryTier(task[w].attempt) \in DeclaredTiers
    BY <1>3, MaxAttemptsAssumption, NumTiersAssumption DEF RetryTier, DeclaredTiers
  <2>3. /\ NextAttempt(task[w]) \in Task
        /\ NextAttempt(task[w]).job = j /\ NextAttempt(task[w]).chunk = c
    <3>1. task[w].attempt < MaxAttempts
      BY <1>15 DEF SendRetry, Ground, BaseInv, TaskInv
    <3> QED  BY <1>3, <3>1, NextAttemptType
  <2>4. retry'[NextAttempt(task[w])] > 0
    BY <1>1, <2>1, <2>2, <2>3 DEF PublishRetry
  <2> QED  BY <1>6, <2>3, <2>4
<1>16. CASE Ack(w)
  BY <1>3, <1>16 DEF Ack, Settles
<1>17. CASE Crash(w) \/ LoseConnection(w) \/ PublishFails(w)
  BY <1>7, <1>17 DEF Crash, LoseConnection, PublishFails, Abandon
<1> QED
  BY <1>8, <1>9, <1>10, <1>11, <1>12, <1>13, <1>14, <1>15, <1>16, <1>17
     DEF WorkerStep, WorkerFault

\* Any live message, whoever takes the step.
LEMMA LiveSettles ==
    ASSUME Ground, [Next]_vars, NEW j \in Jobs, NEW c \in Chunks, Live(j, c)
    PROVE  Settles(j, c)
<1>1. /\ ready \in [Task -> Nat] /\ retry \in [Task -> Nat]
      /\ \A t \in Task : t # NoTask
  BY NoTaskAssumption DEF Ground, BaseInv, TypeOK, TaskQueueTypeOK
<1>2. ASSUME \A t \in Task : ready[t] > 0 \/ retry[t] > 0 => ready'[t] > 0 \/ retry'[t] > 0,
             UNCHANGED <<unacked, pc>>
      PROVE  Live(j, c)'
  BY <1>2 DEF Live
<1>3. ASSUME NEW w \in Workers, WorkerStep(w) \/ WorkerFault(w) PROVE Settles(j, c)
  <2>1. QueuedStay(w)
    BY <1>3, WorkerQueuedStay
  <2>2. ASSUME NEW t \in Task, t.job = j, t.chunk = c, ready[t] > 0 \/ retry[t] > 0
        PROVE  Live(j, c)'
    <3>1. CASE ready'[t] > 0 \/ retry'[t] > 0
      BY <2>2, <3>1 DEF Live
    <3>2. CASE unacked'[w] = t /\ pc'[w] = "get_job"
      BY <1>1, <2>2, <3>2 DEF Live
    <3> QED  BY <2>1, <2>2, <3>1, <3>2 DEF QueuedStay
  <2>3. ASSUME NEW v \in Workers, unacked[v] # NoTask, pc[v] # "ack",
               unacked[v].job = j, unacked[v].chunk = c
        PROVE  Settles(j, c)
    <3>1. CASE v = w
      BY <1>3, <2>3, <3>1, HeldSettles
    <3>2. CASE v # w
      <4>1. unacked'[v] = unacked[v] /\ pc'[v] = pc[v]
        BY <1>3, <2>1, <3>2, OthersStay DEF QueuedStay, Stays
      <4> QED  BY <2>3, <4>1 DEF Settles, Live
    <3> QED  BY <3>1, <3>2
  <2> QED  BY <2>2, <2>3 DEF Live, Settles
<1>4. CASE TierExpires
  <2>1. UNCHANGED <<unacked, pc>>
    BY <1>4 DEF TierExpires, Expire, workerVars
  <2>2. \A t \in Task : ready[t] > 0 \/ retry[t] > 0 => ready'[t] > 0 \/ retry'[t] > 0
    BY <1>1, <1>4 DEF TierExpires, Expire
  <2> QED  BY <1>2, <2>1, <2>2 DEF Settles
<1>5. ASSUME NEW i \in Jobs, ApiStep(i) \/ ApiFault(i) PROVE Settles(j, c)
  <2>1. UNCHANGED pc /\ (UNCHANGED taskQueueVars \/ \E t \in Task : Publish(t))
    <3>1. next[i] \in Chunks
      BY DEF Ground, BaseInv, TypeOK, ApiTypeOK
    <3>2. FirstAttempt(i, next[i]) \in Task
      BY <3>1, FirstAttemptType
    <3> QED
      BY <1>5, <3>2 DEF ApiStep, ApiFault, LookUp, Create, Send, SendFails, ApiCrash,
                        workerVars
  <2>2. /\ UNCHANGED unacked
        /\ \A t \in Task : ready[t] > 0 \/ retry[t] > 0 => ready'[t] > 0 \/ retry'[t] > 0
    BY <1>1, <2>1 DEF taskQueueVars, Publish
  <2> QED  BY <1>2, <2>1, <2>2 DEF Settles
<1>6. CASE UNCHANGED vars
  BY <1>2, <1>6 DEF vars, taskQueueVars, workerVars, Settles
<1> QED  BY <1>3, <1>4, <1>5, <1>6 DEF Next, WorkerNext

\* A message that has just reached the broker is queued.
LEMMA SentIsLive ==
    ASSUME Ground, [Next]_vars, NEW j \in Jobs, NEW c \in Chunks,
           c \in sent'[j], c \notin sent[j]
    PROVE  jobStatus[j] # "none" /\ Live(j, c)'
<1>1. /\ ready \in [Task -> Nat] /\ sent \in [Jobs -> SUBSET Chunks]
      /\ next \in [Jobs -> Chunks]
  BY DEF Ground, BaseInv, TypeOK, TaskQueueTypeOK, ApiTypeOK
<1>2. PICK i \in Jobs : ApiStep(i) \/ ApiFault(i)
  <2>1. sent' # sent
    OBVIOUS
  <2> QED  BY <2>1 DEF Next, vars, apiVars
<1>3. /\ i = j /\ c = next[j] /\ api[j] = "publish"
      /\ Publish(FirstAttempt(j, c))
  <2>1. UNCHANGED sent
        \/ (/\ api[i] = "publish" /\ Publish(FirstAttempt(i, next[i]))
            /\ sent' = [sent EXCEPT ![i] = @ \cup {next[i]}])
    <3>1. CASE LookUp(i) \/ Create(i) \/ ApiCrash(i)
      BY <3>1 DEF LookUp, Create, ApiCrash
    <3>2. CASE Send(i)
      BY <3>2 DEF Send
    <3>3. CASE SendFails(i)
      BY <3>3 DEF SendFails
    <3> QED  BY <1>2, <3>1, <3>2, <3>3 DEF ApiStep, ApiFault
  <2>2. sent' = [sent EXCEPT ![i] = @ \cup {next[i]}] => i = j /\ c = next[j]
    BY <1>1
  <2> QED  BY <2>1, <2>2
<1>4. /\ FirstAttempt(j, c) \in Task
      /\ FirstAttempt(j, c).job = j /\ FirstAttempt(j, c).chunk = c
  BY FirstAttemptType DEF FirstAttempt
<1>5. ready'[FirstAttempt(j, c)] > 0
  BY <1>1, <1>3, <1>4 DEF Publish
<1>6. jobStatus[j] # "none"
  BY <1>3 DEF Ground, BaseInv, RowInv
<1> QED  BY <1>4, <1>5, <1>6 DEF Live

\* Only a job with a row has messages.
WorkInv ==
    /\ NoWorkLost
    /\ \A j \in Jobs : sent[j] # {} => jobStatus[j] # "none"

\* Every step keeps WorkInv.
LEMMA WorkStep ==
    ASSUME Ground, WorkInv, [Next]_vars
    PROVE  WorkInv'
<1>1. /\ Ground' /\ [JobStoreNext]_jobStoreVars
      /\ dropped \subseteq dropped'
  BY GroundStep, Monotone
<1>2. \A j \in Jobs : /\ counted[j] \subseteq counted'[j]
                      /\ jobStatus[j] \in Terminal => jobStatus'[j] \in Terminal
                      /\ jobStatus[j] # "none" => jobStatus'[j] # "none"
  BY <1>1, StoreProgress, RowsStay DEF Ground, JobStoreInv
<1>3. \A j \in Jobs : sent'[j] # {} => jobStatus'[j] # "none"
  <2> SUFFICES ASSUME NEW j \in Jobs, NEW c \in sent'[j] PROVE jobStatus'[j] # "none"
    OBVIOUS
  <2>1. c \in Chunks
    BY <1>1 DEF Ground, BaseInv, TypeOK, ApiTypeOK
  <2>2. CASE c \in sent[j]
    BY <1>2, <2>2 DEF WorkInv
  <2>3. CASE c \notin sent[j]
    BY <1>2, <2>1, <2>3, SentIsLive
  <2> QED  BY <2>2, <2>3
<1>4. ASSUME NEW j \in Jobs, NEW c \in Chunks,
             Active(j)', c \in sent'[j], c \notin counted'[j]
      PROVE  <<j, c>> \in dropped' \/ Live(j, c)'
  <2>1. CASE c \notin sent[j]
    BY <1>4, <2>1, SentIsLive
  <2>2. CASE c \in sent[j]
    <3>1. Active(j) /\ c \notin counted[j]
      BY <1>2, <1>4, <2>2
         DEF WorkInv, Active, Terminal, JobState, Ground, JobStoreInv, JobStoreTypeOK
    <3>2. <<j, c>> \in dropped \/ Live(j, c)
      BY <2>2, <3>1 DEF WorkInv, NoWorkLost
    <3>3. CASE <<j, c>> \in dropped
      BY <1>1, <3>3
    <3>4. CASE Live(j, c)
      BY <1>4, <3>4, LiveSettles DEF Settles
    <3> QED  BY <3>2, <3>3, <3>4
  <2> QED  BY <2>1, <2>2
<1> QED  BY <1>3, <1>4 DEF WorkInv, NoWorkLost

\* WorkInv always holds.
LEMMA WorkInvariant == Spec => [](Ground /\ WorkInv)
<1>1. Init => Ground /\ WorkInv
  <2>1. Init => WorkInv
    BY DEF Init, JobStoreInit, ApiInit, WorkInv, NoWorkLost, Active
  <2> QED  BY <2>1, GroundInitial
<1>2. Ground /\ WorkInv /\ [Next]_vars => (Ground /\ WorkInv)'
  BY GroundStep, WorkStep
<1> QED  BY <1>1, <1>2, PTL DEF Spec

\* A chunk whose message reached the broker is counted, or its job has ended,
\* or a message for it is queued or being handled, or an exception that left
\* handle dropped it (consume acks after handle, handle republishes first).
THEOREM WorkIsKept == Spec => []NoWorkLost
<1>1. WorkInv => NoWorkLost
  BY DEF WorkInv
<1> QED  BY <1>1, WorkInvariant, PTL

\* A fully submitted job with nothing left to act on is being assembled, or
\* its assembler went away, or an exception dropped one of its chunks.
THEOREM NoStall == Spec => []NoSilentStall
<1>1. Ground /\ AssemblerInv /\ WorkInv => NoSilentStall
  <2> SUFFICES ASSUME Ground, AssemblerInv, WorkInv,
                      NEW j \in Jobs, Active(j), sent[j] = Chunks,
                      \A c \in Chunks : <<j, c>> \notin dropped /\ ~Live(j, c)
               PROVE  j \in orphaned \/ \E w \in Workers : Assembles(w, j)
    BY DEF NoSilentStall
  <2>1. \A c \in Chunks : c \in counted[j]
    BY DEF WorkInv, NoWorkLost
  <2>2. counted[j] = Chunks
    BY <2>1 DEF Ground, JobStoreInv, JobStoreTypeOK
  <2>3. remaining[j] \in Int /\ remaining[j] <= NumChunks - NumChunks
    BY <2>2, ChunksFinite DEF Ground, JobStoreInv, JobStoreTypeOK, CounterInv
  <2>4. remaining[j] <= 0
    BY <2>3, NumChunksAssumption
  <2> QED  BY <2>4 DEF AssemblerInv
<1> QED  BY <1>1, AssemblerInvariant, WorkInvariant, PTL
=============================================================================
