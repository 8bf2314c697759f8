--------------------------- MODULE JobStoreProofs ---------------------------
(***************************************************************************)
(* What the job store guarantees to callers that use it in any order; and  *)
(* that the pipeline is such a caller, which takes the pipeline's type     *)
(* invariant and the facts about a worker's task that make it inductive.   *)
(***************************************************************************)
EXTENDS Pipeline, FiniteSetTheorems, TLAPS

-----------------------------------------------------------------------------
(***************************************************************************)
(* The job store.                                                          *)
(***************************************************************************)

\* The counter: it starts above 0 and falls by one, so it passes 0 once; and
\* it falls at least once for every chunk that was counted.
CounterInv ==
    \A j \in Jobs :
        /\ remaining[j] > 0 => zeros[j] = 0
        /\ remaining[j] <= 0 => zeros[j] = 1
        /\ remaining[j] <= NumChunks - Cardinality(counted[j])
        /\ jobStatus[j] = "none" => remaining[j] = NumChunks

\* A chunk row of a job that has not ended reads done only after the chunk
\* was counted.
DoneIsCounted ==
    \A j \in Jobs, c \in Chunks :
        jobStatus[j] \notin Terminal /\ chunkStatus[j][c] = "done"
            => c \in counted[j]

JobStoreInv == JobStoreTypeOK /\ CounterInv /\ DoneIsCounted

\* No caller is told twice that nothing remains.
ZeroAtMostOnce == \A j \in Jobs : zeros[j] <= 1

\* When every chunk has been counted, some caller was told so.
AllCountedTold == \A j \in Jobs : counted[j] = Chunks => zeros[j] = 1

-----------------------------------------------------------------------------
\* There are NumChunks chunks.
LEMMA ChunksFinite ==
    /\ IsFiniteSet(Chunks)
    /\ Cardinality(Chunks) = NumChunks
    /\ \A S \in SUBSET Chunks : IsFiniteSet(S) /\ Cardinality(S) \in Nat
<1>1. IsFiniteSet(Chunks) /\ Cardinality(Chunks) = NumChunks
  BY NumChunksAssumption, FS_Interval DEF Chunks
<1>2. \A S \in SUBSET Chunks : IsFiniteSet(S) /\ Cardinality(S) \in Nat
  BY <1>1, FS_Subset, FS_CardinalityType
<1> QED  BY <1>1, <1>2

\* Setting a chunk row keeps the rows in their type.
LEMMA SetChunkType ==
    ASSUME NEW j \in Jobs, NEW c \in Chunks, NEW s \in ChunkState,
           chunkStatus \in [Jobs -> [Chunks -> ChunkState]],
           SetChunk(j, c, s)
    PROVE  chunkStatus' \in [Jobs -> [Chunks -> ChunkState]]
  BY DEF SetChunk

\* The rows and columns of the store keep their types.
LEMMA JobStoreType == JobStoreTypeOK /\ [JobStoreNext]_jobStoreVars => JobStoreTypeOK'
<1> SUFFICES ASSUME JobStoreTypeOK, [JobStoreNext]_jobStoreVars
             PROVE  JobStoreTypeOK'
  OBVIOUS
<1> USE NumChunksAssumption DEF JobStoreTypeOK, JobState, ChunkState, Terminal
<1>1. ASSUME NEW j \in Jobs, CreateJob(j) PROVE JobStoreTypeOK'
  BY <1>1 DEF CreateJob
<1>2. ASSUME NEW j \in Jobs, NEW c \in Chunks, StartChunkRow(j, c) PROVE JobStoreTypeOK'
  <2>1. CASE chunkStatus[j][c] = "done"  BY <1>2, <2>1 DEF StartChunkRow
  <2>2. CASE chunkStatus[j][c] # "done"  BY <1>2, <2>2 DEF StartChunkRow, SetChunk
  <2> QED  BY <2>1, <2>2
<1>3. ASSUME NEW j \in Jobs, NEW c \in Chunks, CompleteChunk(j, c) PROVE JobStoreTypeOK'
  <2>1. CASE chunkStatus[j][c] = "done"  BY <1>3, <2>1 DEF CompleteChunk
  <2>2. CASE chunkStatus[j][c] # "done" /\ jobStatus[j] \in Terminal
    BY <1>3, <2>2, SetChunkType DEF CompleteChunk
  <2>3. CASE chunkStatus[j][c] # "done" /\ jobStatus[j] \notin Terminal
    <3>1. chunkStatus' \in [Jobs -> [Chunks -> ChunkState]]
      BY <1>3, <2>3, SetChunkType DEF CompleteChunk
    <3>2. /\ remaining' = [remaining EXCEPT ![j] = @ - 1]
          /\ jobStatus' = [jobStatus EXCEPT ![j] = "running"]
          /\ counted' = [counted EXCEPT ![j] = @ \cup {c}]
          /\ zeros' = [zeros EXCEPT ![j] = IF remaining[j] = 1 THEN @ + 1 ELSE @]
          /\ UNCHANGED <<hasError, documents>>
      BY <1>3, <2>3 DEF CompleteChunk
    <3> QED  BY <3>1, <3>2
  <2> QED  BY <2>1, <2>2, <2>3
<1>4. ASSUME NEW j \in Jobs, NEW c \in Chunks, FailChunk(j, c) PROVE JobStoreTypeOK'
  BY <1>4 DEF FailChunk, SetChunk
<1>5. ASSUME NEW j \in Jobs, NEW c \in Chunks, RescheduleChunk(j, c) PROVE JobStoreTypeOK'
  <2>1. CASE chunkStatus[j][c] = "done"  BY <1>5, <2>1 DEF RescheduleChunk
  <2>2. CASE chunkStatus[j][c] # "done"  BY <1>5, <2>2 DEF RescheduleChunk, SetChunk
  <2> QED  BY <2>1, <2>2
<1>6. ASSUME NEW j \in Jobs, StartJobRow(j) PROVE JobStoreTypeOK'
  BY <1>6 DEF StartJobRow
<1>7. ASSUME NEW j \in Jobs, FailJob(j) PROVE JobStoreTypeOK'
  BY <1>7 DEF FailJob
<1>8. ASSUME NEW j \in Jobs, FinishJob(j) PROVE JobStoreTypeOK'
  BY <1>8 DEF FinishJob
<1>9. ASSUME NEW j \in Jobs, RecordDocument(DocOf[j]) PROVE JobStoreTypeOK'
  BY <1>9, DocOfAssumption DEF RecordDocument
<1>10. CASE UNCHANGED jobStoreVars
  BY <1>10 DEF jobStoreVars
<1> QED
  BY <1>1, <1>2, <1>3, <1>4, <1>5, <1>6, <1>7, <1>8, <1>9, <1>10 DEF JobStoreNext

\* CompleteChunk is the only statement that moves the counter.
LEMMA CounterStep ==
    JobStoreTypeOK /\ CounterInv /\ [JobStoreNext]_jobStoreVars => CounterInv'
<1> SUFFICES ASSUME JobStoreTypeOK, CounterInv, [JobStoreNext]_jobStoreVars
             PROVE  CounterInv'
  OBVIOUS
<1> USE DEF JobStoreTypeOK, CounterInv
<1>1. ASSUME NEW j \in Jobs, CreateJob(j) PROVE CounterInv'
  BY <1>1 DEF CreateJob
<1>2. ASSUME NEW j \in Jobs, NEW c \in Chunks, CompleteChunk(j, c),
             jobStatus[j] # "none"
      PROVE  CounterInv'
  <2>1. CASE chunkStatus[j][c] # "done" /\ jobStatus[j] \notin Terminal
    <3>1. IsFiniteSet(counted[j]) /\ Cardinality(counted[j]) \in Nat
      BY ChunksFinite
    <3>5. Cardinality(counted[j] \cup {c}) \in
              {Cardinality(counted[j]), Cardinality(counted[j]) + 1}
      BY <3>1, FS_AddElement, Zenon
    <3>2. /\ remaining' = [remaining EXCEPT ![j] = @ - 1]
          /\ counted' = [counted EXCEPT ![j] = @ \cup {c}]
          /\ zeros' = [zeros EXCEPT ![j] = IF remaining[j] = 1 THEN @ + 1 ELSE @]
          /\ jobStatus' = [jobStatus EXCEPT ![j] = "running"]
      BY <1>2, <2>1 DEF CompleteChunk
    <3> SUFFICES ASSUME NEW i \in Jobs PROVE CounterInv!(i)'
      OBVIOUS
    <3>3. CASE i # j  BY <3>2, <3>3
    <3>4. CASE i = j
      <4>1. /\ remaining[j] \in Int /\ zeros[j] \in Nat
            /\ remaining'[j] = remaining[j] - 1
            /\ zeros'[j] = IF remaining[j] = 1 THEN zeros[j] + 1 ELSE zeros[j]
            /\ counted'[j] = counted[j] \cup {c}
            /\ jobStatus'[j] = "running"
        BY <3>2
      <4>2. /\ remaining'[j] > 0 => zeros'[j] = 0
            /\ remaining'[j] <= 0 => zeros'[j] = 1
        <5>1. zeros[j] = IF remaining[j] <= 0 THEN 1 ELSE 0
          OBVIOUS
        <5> HIDE DEF CounterInv, JobStoreTypeOK
        <5>2. CASE remaining[j] <= 0  BY <4>1, <5>1, <5>2
        <5>3. CASE remaining[j] = 1  BY <4>1, <5>1, <5>3
        <5>4. CASE remaining[j] > 1  BY <4>1, <5>1, <5>4
        <5> QED  BY <4>1, <5>2, <5>3, <5>4
      <4>3. Cardinality(counted'[j]) \in Nat
            /\ Cardinality(counted'[j]) <= Cardinality(counted[j]) + 1
        BY <3>1, <3>5, <4>1
      <4>4. remaining'[j] <= NumChunks - Cardinality(counted'[j])
        BY <3>1, <4>1, <4>3, NumChunksAssumption
      <4> QED  BY <3>4, <4>1, <4>2, <4>4
    <3> QED  BY <3>3, <3>4
  <2>2. CASE ~(chunkStatus[j][c] # "done" /\ jobStatus[j] \notin Terminal)
    BY <1>2, <2>2 DEF CompleteChunk
  <2> QED  BY <2>1, <2>2
<1>3. ASSUME UNCHANGED <<remaining, counted, zeros>>,
             \A j \in Jobs : jobStatus'[j] = "none" => jobStatus[j] = "none"
      PROVE  CounterInv'
  BY <1>3
<1>4. ASSUME NEW j \in Jobs, NEW c \in Chunks,
             StartChunkRow(j, c) \/ FailChunk(j, c) \/ RescheduleChunk(j, c)
      PROVE  CounterInv'
  BY <1>3, <1>4 DEF StartChunkRow, FailChunk, RescheduleChunk
<1>5. ASSUME NEW j \in Jobs,
             StartJobRow(j) \/ FailJob(j) \/ FinishJob(j) \/ RecordDocument(DocOf[j])
      PROVE  CounterInv'
  BY <1>3, <1>5 DEF StartJobRow, FailJob, FinishJob, RecordDocument
<1>6. CASE UNCHANGED jobStoreVars
  BY <1>3, <1>6 DEF jobStoreVars
<1> QED
  BY <1>1, <1>2, <1>4, <1>5, <1>6 DEF JobStoreNext

\* No statement marks a chunk of an active job done without counting it.
LEMMA DoneIsCountedStep ==
    JobStoreTypeOK /\ DoneIsCounted /\ [JobStoreNext]_jobStoreVars => DoneIsCounted'
<1> SUFFICES ASSUME JobStoreTypeOK, DoneIsCounted, [JobStoreNext]_jobStoreVars
             PROVE  DoneIsCounted'
  OBVIOUS
<1> USE DEF JobStoreTypeOK, DoneIsCounted, Terminal
<1>1. ASSUME NEW j \in Jobs, CreateJob(j) PROVE DoneIsCounted'
  BY <1>1 DEF CreateJob
<1>2. ASSUME NEW j \in Jobs, NEW c \in Chunks, StartChunkRow(j, c) PROVE DoneIsCounted'
  <2>1. CASE chunkStatus[j][c] = "done"  BY <1>2, <2>1 DEF StartChunkRow
  <2>2. CASE chunkStatus[j][c] # "done"  BY <1>2, <2>2 DEF StartChunkRow, SetChunk
  <2> QED  BY <2>1, <2>2
<1>3. ASSUME NEW j \in Jobs, NEW c \in Chunks, CompleteChunk(j, c) PROVE DoneIsCounted'
  <2>1. CASE chunkStatus[j][c] = "done"  BY <1>3, <2>1 DEF CompleteChunk
  <2>2. CASE chunkStatus[j][c] # "done" /\ jobStatus[j] \in Terminal
    BY <1>3, <2>2 DEF CompleteChunk, SetChunk
  <2>3. CASE chunkStatus[j][c] # "done" /\ jobStatus[j] \notin Terminal
    BY <1>3, <2>3 DEF CompleteChunk, SetChunk
  <2> QED  BY <2>1, <2>2, <2>3
<1>4. ASSUME NEW j \in Jobs, NEW c \in Chunks, FailChunk(j, c) PROVE DoneIsCounted'
  BY <1>4 DEF FailChunk, SetChunk
<1>5. ASSUME NEW j \in Jobs, NEW c \in Chunks, RescheduleChunk(j, c) PROVE DoneIsCounted'
  <2>1. CASE chunkStatus[j][c] = "done"  BY <1>5, <2>1 DEF RescheduleChunk
  <2>2. CASE chunkStatus[j][c] # "done"  BY <1>5, <2>2 DEF RescheduleChunk, SetChunk
  <2> QED  BY <2>1, <2>2
<1>6. ASSUME NEW j \in Jobs,
             StartJobRow(j) \/ FailJob(j) \/ FinishJob(j) \/ RecordDocument(DocOf[j])
      PROVE  DoneIsCounted'
  BY <1>6 DEF StartJobRow, FailJob, FinishJob, RecordDocument
<1>7. CASE UNCHANGED jobStoreVars
  BY <1>7 DEF jobStoreVars
<1> QED
  BY <1>1, <1>2, <1>3, <1>4, <1>5, <1>6, <1>7 DEF JobStoreNext

\* What no statement of the store undoes: a document row, a counted chunk, the
\* end of a job, and the verdict done; and no job is revived.
LEMMA StoreProgress ==
    ASSUME JobStoreTypeOK, [JobStoreNext]_jobStoreVars
    PROVE  /\ documents \subseteq documents'
           /\ \A j \in Jobs :
                  /\ counted[j] \subseteq counted'[j]
                  /\ jobStatus[j] = "done" => jobStatus'[j] = "done"
                  /\ jobStatus[j] \in Terminal
                         => /\ jobStatus'[j] \in Terminal
                            /\ remaining'[j] = remaining[j]
                            /\ counted'[j] = counted[j]
<1> USE DEF JobStoreTypeOK, Terminal
<1> DEFINE Progress ==
             /\ documents \subseteq documents'
             /\ \A j \in Jobs :
                    /\ counted[j] \subseteq counted'[j]
                    /\ jobStatus[j] = "done" => jobStatus'[j] = "done"
                    /\ jobStatus[j] \in Terminal
                           => /\ jobStatus'[j] \in Terminal
                              /\ remaining'[j] = remaining[j]
                              /\ counted'[j] = counted[j]
<1>1. ASSUME NEW j \in Jobs, CreateJob(j) PROVE Progress
  BY <1>1 DEF CreateJob
<1>2. ASSUME NEW j \in Jobs, NEW c \in Chunks,
             StartChunkRow(j, c) \/ FailChunk(j, c) \/ RescheduleChunk(j, c)
      PROVE  Progress
  BY <1>2 DEF StartChunkRow, FailChunk, RescheduleChunk
<1>3. ASSUME NEW j \in Jobs, NEW c \in Chunks, CompleteChunk(j, c) PROVE Progress
  BY <1>3 DEF CompleteChunk
<1>4. ASSUME NEW j \in Jobs,
             StartJobRow(j) \/ FailJob(j) \/ FinishJob(j) \/ RecordDocument(DocOf[j])
      PROVE  Progress
  BY <1>4 DEF StartJobRow, FailJob, FinishJob, RecordDocument
<1>5. CASE UNCHANGED jobStoreVars
  BY <1>5 DEF jobStoreVars
<1> QED  BY <1>1, <1>2, <1>3, <1>4, <1>5 DEF JobStoreNext

\* The empty tables satisfy the invariant.
LEMMA JobStoreInitial == JobStoreInit => JobStoreInv
<1> SUFFICES ASSUME JobStoreInit PROVE JobStoreInv
  OBVIOUS
<1>1. JobStoreTypeOK
  BY NumChunksAssumption DEF JobStoreInit, JobStoreTypeOK, JobState, ChunkState
<1>2. CounterInv
  <2>1. \A j \in Jobs : Cardinality(counted[j]) = 0
    BY FS_EmptySet DEF JobStoreInit
  <2>2. \A j \in Jobs : remaining[j] = NumChunks /\ zeros[j] = 0
    BY DEF JobStoreInit
  <2>3. NumChunks > 0 /\ ~(NumChunks <= 0) /\ NumChunks <= NumChunks - 0
    BY NumChunksAssumption
  <2> QED  BY <2>1, <2>2, <2>3 DEF CounterInv
<1>3. DoneIsCounted
  BY DEF JobStoreInit, DoneIsCounted
<1> QED  BY <1>1, <1>2, <1>3 DEF JobStoreInv

\* The invariant of the store, whoever calls it and in whatever order.
THEOREM JobStoreInvariant == JobStoreSpec => []JobStoreInv
<1>1. JobStoreInv /\ [JobStoreNext]_jobStoreVars => JobStoreInv'
  BY JobStoreType, CounterStep, DoneIsCountedStep DEF JobStoreInv
<1> QED  BY <1>1, JobStoreInitial, PTL DEF JobStoreSpec

\* What the invariant says of the number of callers told 0.
LEMMA CounterFacts == JobStoreInv => ZeroAtMostOnce /\ AllCountedTold
<1> SUFFICES ASSUME JobStoreInv PROVE ZeroAtMostOnce /\ AllCountedTold
  OBVIOUS
<1>1. \A j \in Jobs : remaining[j] \in Int /\ counted[j] \in SUBSET Chunks
  BY DEF JobStoreInv, JobStoreTypeOK
<1>2. \A j \in Jobs : (remaining[j] <= 0 => zeros[j] = 1)
                     /\ (remaining[j] > 0 => zeros[j] = 0)
                     /\ remaining[j] <= NumChunks - Cardinality(counted[j])
  BY DEF JobStoreInv, CounterInv
<1>3. ZeroAtMostOnce
  <2> SUFFICES ASSUME NEW j \in Jobs PROVE zeros[j] <= 1
    BY DEF ZeroAtMostOnce
  <2>1. remaining[j] <= 0 \/ remaining[j] > 0
    BY <1>1
  <2>2. zeros[j] = 0 \/ zeros[j] = 1
    BY <1>2, <2>1
  <2> QED  BY <2>2
<1>4. AllCountedTold
  BY <1>1, <1>2, ChunksFinite, NumChunksAssumption DEF AllCountedTold
<1> QED  BY <1>3, <1>4

\* complete_chunk tells at most one caller per job that nothing remains, and
\* never fails to tell one when every chunk has been counted.
THEOREM OneCallerToldZero == JobStoreSpec => [](ZeroAtMostOnce /\ AllCountedTold)
  BY JobStoreInvariant, CounterFacts, PTL

-----------------------------------------------------------------------------
(***************************************************************************)
(* The pipeline.                                                           *)
(***************************************************************************)

\* A worker has a task exactly while it is busy; what the broker has
\* outstanding to it is that task or, after a lost connection, nothing; and
\* only a task with attempts left is retried.
TaskInv ==
    \A w \in Workers :
        /\ pc[w] = "idle" <=> task[w] = NoTask
        /\ unacked[w] \in {NoTask, task[w]}
        /\ pc[w] \in {"reschedule_chunk", "publish_retry"}
               => task[w].attempt < MaxAttempts

\* Whatever names a job, the job has a row.
RowInv ==
    /\ \A t \in Task : ready[t] > 0 \/ retry[t] > 0 => jobStatus[t.job] # "none"
    /\ \A w \in Workers : pc[w] # "idle" => jobStatus[task[w].job] # "none"
    /\ \A j \in Jobs : api[j] = "publish" => jobStatus[j] # "none"

BaseInv == TypeOK /\ TaskInv /\ RowInv

-----------------------------------------------------------------------------
\* A busy worker has a task, and the job of the task has a row.
LEMMA BusyTask ==
    ASSUME BaseInv, NEW w \in Workers, pc[w] # "idle"
    PROVE  /\ task[w] \in Task
           /\ JobOf(w) \in Jobs /\ ChunkOf(w) \in Chunks
           /\ task[w].attempt \in 1 .. MaxAttempts
           /\ Doc(w) \in Docs
           /\ jobStatus[JobOf(w)] # "none"
<1>1. task[w] \in Task
  BY DEF BaseInv, TypeOK, WorkerTypeOK, TaskInv
<1>2. JobOf(w) \in Jobs /\ ChunkOf(w) \in Chunks /\ task[w].attempt \in 1 .. MaxAttempts
  BY <1>1 DEF Task, JobOf, ChunkOf
<1>3. Doc(w) \in Docs
  BY <1>2, DocOfAssumption DEF Doc, JobOf
<1>4. jobStatus[JobOf(w)] # "none"
  BY DEF BaseInv, RowInv, JobOf
<1> QED  BY <1>1, <1>2, <1>3, <1>4

\* A fault stays within the bound on faults.
LEMMA FaultType ==
    ASSUME faults \in 0 .. MaxFaults,
           UNCHANGED faults \/ \E k \in AllFaults : Fault(k)
    PROVE  faults' \in 0 .. MaxFaults
  BY MaxFaultsAssumption DEF Fault

\* A task with attempts left has a next attempt, for the same chunk.
LEMMA NextAttemptType ==
    ASSUME NEW t \in Task, t.attempt < MaxAttempts
    PROVE  NextAttempt(t) \in Task /\ NextAttempt(t).job = t.job
           /\ NextAttempt(t).chunk = t.chunk
  BY MaxAttemptsAssumption DEF Task, NextAttempt

\* A row, once inserted, stays.
LEMMA RowsStay ==
    ASSUME JobStoreTypeOK, [JobStoreNext]_jobStoreVars
    PROVE  \A j \in Jobs : jobStatus[j] # "none" => jobStatus'[j] # "none"
<1> USE DEF JobStoreTypeOK
<1>1. ASSUME NEW j \in Jobs, CreateJob(j)
      PROVE  \A i \in Jobs : jobStatus[i] # "none" => jobStatus'[i] # "none"
  BY <1>1 DEF CreateJob
<1>2. ASSUME NEW j \in Jobs, NEW c \in Chunks,
             \/ StartChunkRow(j, c) \/ CompleteChunk(j, c)
             \/ FailChunk(j, c) \/ RescheduleChunk(j, c)
      PROVE  \A i \in Jobs : jobStatus[i] # "none" => jobStatus'[i] # "none"
  BY <1>2 DEF StartChunkRow, CompleteChunk, FailChunk, RescheduleChunk
<1>3. ASSUME NEW j \in Jobs,
             StartJobRow(j) \/ FailJob(j) \/ FinishJob(j) \/ RecordDocument(DocOf[j])
      PROVE  \A i \in Jobs : jobStatus[i] # "none" => jobStatus'[i] # "none"
  BY <1>3 DEF StartJobRow, FailJob, FinishJob, RecordDocument
<1>4. CASE UNCHANGED jobStoreVars
  BY <1>4 DEF jobStoreVars
<1> QED  BY <1>1, <1>2, <1>3, <1>4 DEF JobStoreNext

-----------------------------------------------------------------------------
\* Every step of the pipeline is one statement of the job store, on a job
\* that has a row, or leaves the store alone.
LEMMA StoreStep ==
    ASSUME BaseInv, [Next]_vars
    PROVE  [JobStoreNext]_jobStoreVars
<1>1. ASSUME NEW w \in Workers, pc[w] # "idle",
             \/ UNCHANGED jobStoreVars
             \/ StartChunkRow(JobOf(w), ChunkOf(w)) \/ StartJobRow(JobOf(w))
             \/ CompleteChunk(JobOf(w), ChunkOf(w)) \/ FailChunk(JobOf(w), ChunkOf(w))
             \/ RescheduleChunk(JobOf(w), ChunkOf(w)) \/ FailJob(JobOf(w))
             \/ FinishJob(JobOf(w)) \/ RecordDocument(Doc(w))
      PROVE  [JobStoreNext]_jobStoreVars
  <2>1. Doc(w) = DocOf[JobOf(w)]
    BY DEF Doc, JobOf
  <2> QED  BY <1>1, <2>1, BusyTask DEF JobStoreNext
<1>2. ASSUME NEW w \in Workers, WorkerStep(w) \/ WorkerFault(w)
      PROVE  [JobStoreNext]_jobStoreVars
  <2>1. CASE Receive(w) \/ Convert(w) \/ ConvertFails(w) \/ ReadParts(w)
              \/ PutDocument(w) \/ Park(w) \/ SendRetry(w) \/ Ack(w)
    BY <2>1 DEF Receive, Convert, ConvertFails, ReadParts, PutDocument, Park,
                SendRetry, Ack
  <2>2. CASE WorkerFault(w)
    BY <2>2 DEF WorkerFault, Crash, LoseConnection, PublishFails, AssembleFails
  <2>3. CASE GetJob(w)
    BY <2>3 DEF GetJob, DbCall
  <2>4. CASE StartChunk(w)
    BY <1>1, <2>4 DEF StartChunk, DbCall
  <2>5. CASE StartJob(w)
    BY <1>1, <2>5 DEF StartJob, DbCall
  <2>6. CASE Complete(w)
    BY <1>1, <2>6 DEF Complete
  <2>7. CASE Record(w)
    BY <1>1, <2>7 DEF Record, DbCall
  <2>8. CASE Finish(w)
    BY <1>1, <2>8 DEF Finish, DbCall
  <2>9. CASE FailAssembly(w)
    BY <1>1, <2>9 DEF FailAssembly
  <2>10. CASE MarkChunkFailed(w)
    BY <1>1, <2>10 DEF MarkChunkFailed, DbCall
  <2>11. CASE MarkJobFailed(w)
    BY <1>1, <2>11 DEF MarkJobFailed, DbCall
  <2>12. CASE Reschedule(w)
    BY <1>1, <2>12 DEF Reschedule, DbCall
  <2> QED
    BY <1>2, <2>1, <2>2, <2>3, <2>4, <2>5, <2>6, <2>7, <2>8, <2>9, <2>10,
       <2>11, <2>12 DEF WorkerStep
<1>3. CASE TierExpires
  BY <1>3 DEF TierExpires
<1>4. ASSUME NEW j \in Jobs, ApiStep(j) \/ ApiFault(j)
      PROVE  [JobStoreNext]_jobStoreVars
  BY <1>4 DEF ApiStep, ApiFault, LookUp, Create, Send, SendFails, ApiCrash,
              JobStoreNext
<1>5. CASE UNCHANGED vars
  BY <1>5 DEF vars, jobStoreVars
<1> QED  BY <1>2, <1>3, <1>4, <1>5 DEF Next, WorkerNext

-----------------------------------------------------------------------------
\* What the operations of the queue do to its types.
LEMMA QueueType ==
    ASSUME TaskQueueTypeOK,
           \/ UNCHANGED taskQueueVars
           \/ \E w \in Workers : BasicAck(w) \/ Requeue(w)
           \/ \E w \in Workers, t \in Task : Deliver(w, t)
           \/ \E t \in Task : Publish(t) \/ Expire(t) \/ PublishFailed(t)
           \/ \E t \in Task, n \in 0 .. 2 :
                  t.attempt < MaxAttempts /\ PublishRetry(t, n)
    PROVE  TaskQueueTypeOK'
<1> USE DEF TaskQueueTypeOK
<1>1. CASE UNCHANGED taskQueueVars
  BY <1>1 DEF taskQueueVars
<1>2. ASSUME NEW w \in Workers, BasicAck(w) PROVE TaskQueueTypeOK'
  BY <1>2 DEF BasicAck
<1>3. ASSUME NEW w \in Workers, Requeue(w) PROVE TaskQueueTypeOK'
  BY <1>3 DEF Requeue
<1>4. ASSUME NEW w \in Workers, NEW t \in Task, Deliver(w, t) PROVE TaskQueueTypeOK'
  BY <1>4 DEF Deliver
<1>5. ASSUME NEW t \in Task, Publish(t) PROVE TaskQueueTypeOK'
  BY <1>5 DEF Publish
<1>6. ASSUME NEW t \in Task, Expire(t) PROVE TaskQueueTypeOK'
  BY <1>6 DEF Expire
<1>7. ASSUME NEW t \in Task, PublishFailed(t) PROVE TaskQueueTypeOK'
  BY <1>7 DEF PublishFailed
<1>8. ASSUME NEW t \in Task, NEW n \in 0 .. 2, t.attempt < MaxAttempts,
             PublishRetry(t, n)
      PROVE  TaskQueueTypeOK'
  BY <1>8, NextAttemptType DEF PublishRetry
<1> QED  BY <1>1, <1>2, <1>3, <1>4, <1>5, <1>6, <1>7, <1>8

\* Worker w goes from one call of handle to the next: the queue, its task and
\* the API's state stay, the job store takes one of its steps.
LEMMA BusyMove ==
    ASSUME BaseInv, [JobStoreNext]_jobStoreVars,
           NEW w \in Workers, pc[w] # "idle",
           NEW p \in PC \ {"idle"}, Goto(w, p),
           p \in {"reschedule_chunk", "publish_retry"}
               => task[w].attempt < MaxAttempts,
           UNCHANGED <<taskQueueVars, task, apiVars>>,
           parts' \in SUBSET (Docs \X Chunks), manifests' \in SUBSET Docs,
           dropped' \in SUBSET (Jobs \X Chunks), orphaned' \in SUBSET Jobs,
           faults' \in 0 .. MaxFaults
    PROVE  BaseInv'
<1> USE DEF BaseInv, TypeOK
<1>1. JobStoreTypeOK'
  BY JobStoreType
<1>2. TaskQueueTypeOK' /\ ApiTypeOK'
  BY DEF taskQueueVars, apiVars, TaskQueueTypeOK, ApiTypeOK
<1>3. WorkerTypeOK'
  BY DEF WorkerTypeOK, Goto
<1>4. TaskInv'
  BY DEF TaskInv, WorkerTypeOK, Goto, taskQueueVars
<1>5. RowInv'
  <2>1. \A j \in Jobs : jobStatus[j] # "none" => jobStatus'[j] # "none"
    BY RowsStay
  <2>2. \A t \in Task : t.job \in Jobs
    BY DEF Task
  <2>3. \A v \in Workers : pc'[v] # "idle" => pc[v] # "idle"
    BY DEF Goto, WorkerTypeOK
  <2>4. \A v \in Workers : pc[v] # "idle" => task[v].job \in Jobs
    BY BusyTask DEF JobOf
  <2> QED  BY <2>1, <2>2, <2>3, <2>4 DEF RowInv, taskQueueVars, apiVars
<1> QED  BY <1>1, <1>2, <1>3, <1>4, <1>5

\* The steps of handle that go from one call to the next.
LEMMA HandleStep ==
    ASSUME BaseInv, [JobStoreNext]_jobStoreVars, UNCHANGED apiVars,
           NEW w \in Workers,
           \/ GetJob(w) \/ StartChunk(w) \/ StartJob(w) \/ Convert(w)
           \/ ConvertFails(w) \/ Complete(w) \/ ReadParts(w) \/ PutDocument(w)
           \/ AssembleFails(w) \/ Record(w) \/ Finish(w) \/ FailAssembly(w)
           \/ MarkChunkFailed(w) \/ MarkJobFailed(w) \/ Reschedule(w)
    PROVE  BaseInv'
<1>1. /\ parts \in SUBSET (Docs \X Chunks) /\ manifests \in SUBSET Docs
      /\ dropped \in SUBSET (Jobs \X Chunks) /\ orphaned \in SUBSET Jobs
      /\ faults \in 0 .. MaxFaults
  BY DEF BaseInv, TypeOK, WorkerTypeOK
<1>2. ASSUME UNCHANGED faults \/ Fault("database") \/ Fault("storage")
      PROVE  faults' \in 0 .. MaxFaults
  BY <1>1, <1>2, FaultType DEF AllFaults
<1>3. ASSUME pc[w] # "idle", NEW p \in PC \ {"idle"}, Goto(w, p),
             p \in {"reschedule_chunk", "publish_retry"}
                 => task[w].attempt < MaxAttempts,
             DbFrame, UNCHANGED faults \/ Fault("database")
      PROVE  BaseInv'
  BY <1>1, <1>2, <1>3, BusyMove DEF DbFrame, storageVars
<1>4. CASE GetJob(w)
  BY <1>3, <1>4 DEF GetJob, DbCall, PC
<1>5. CASE StartChunk(w)
  BY <1>3, <1>5 DEF StartChunk, DbCall, PC
<1>6. CASE StartJob(w)
  BY <1>3, <1>6 DEF StartJob, DbCall, PC
<1>7. CASE Record(w)
  BY <1>3, <1>7 DEF Record, DbCall, PC, Assembling
<1>8. CASE Finish(w)
  BY <1>3, <1>8 DEF Finish, DbCall, PC, Assembling
<1>9. CASE MarkChunkFailed(w)
  BY <1>3, <1>9 DEF MarkChunkFailed, DbCall, PC
<1>10. CASE MarkJobFailed(w)
  BY <1>3, <1>10 DEF MarkJobFailed, DbCall, PC
<1>11. CASE Reschedule(w)
  <2>1. task[w].attempt < MaxAttempts
    BY <1>11 DEF Reschedule, BaseInv, TaskInv
  <2> QED  BY <1>3, <1>11, <2>1 DEF Reschedule, DbCall, PC
<1>12. CASE Convert(w) \/ ConvertFails(w)
  <2>1. pc[w] = "convert"
    BY <1>12 DEF Convert, ConvertFails
  <2>2. /\ Doc(w) \in Docs /\ ChunkOf(w) \in Chunks
        /\ task[w].attempt \in 1 .. MaxAttempts
    BY <2>1, BusyTask
  <2>3. parts' \in SUBSET (Docs \X Chunks)
    <3>1. parts' = parts \/ parts' = parts \cup {<<Doc(w), ChunkOf(w)>>}
      BY <1>12 DEF Convert, ConvertFails
    <3>2. <<Doc(w), ChunkOf(w)>> \in Docs \X Chunks
      BY <2>2
    <3>3. parts \in SUBSET (Docs \X Chunks)
      BY <1>1
    <3> QED  BY ONLY <3>1, <3>2, <3>3
  <2>4. CASE Convert(w)
    BY <1>1, <1>2, <2>1, <2>3, <2>4, BusyMove DEF Convert, PC
  <2>5. CASE ConvertFails(w)
    <3>1. CASE task[w].attempt >= MaxAttempts
      <4>1. Goto(w, "publish_failed")
        BY <2>5, <3>1 DEF ConvertFails
      <4> QED  BY <1>1, <1>2, <2>1, <2>3, <2>5, <4>1, BusyMove DEF ConvertFails, PC
    <3>2. CASE ~(task[w].attempt >= MaxAttempts)
      <4>1. task[w].attempt < MaxAttempts
        BY <2>2, <3>2, MaxAttemptsAssumption
      <4>2. Goto(w, "reschedule_chunk")
        BY <2>5, <3>2 DEF ConvertFails
      <4> QED  BY <1>1, <1>2, <2>1, <2>3, <2>5, <4>1, <4>2, BusyMove DEF ConvertFails, PC
    <3> QED  BY <3>1, <3>2
  <2> QED  BY <1>12, <2>4, <2>5
<1>13. CASE Complete(w) \/ FailAssembly(w)
  <2>1. pc[w] # "idle"
    BY <1>13 DEF Complete, FailAssembly
  <2>2. orphaned' \in SUBSET Jobs
    <3>1. JobOf(w) \in Jobs
      BY <2>1, BusyTask
    <3>2. CASE Complete(w)
      BY <1>1, <3>1, <3>2 DEF Complete
    <3>3. CASE FailAssembly(w)
      BY <1>1, <3>1, <3>3 DEF FailAssembly, Orphan
    <3> QED  BY <1>13, <3>2, <3>3
  <2>3. PICK p \in {"assemble", "ack", "raised"} : Goto(w, p)
    BY <1>13 DEF Complete, FailAssembly
  <2>4. UNCHANGED <<taskQueueVars, storageVars, task, dropped>>
    BY <1>13 DEF Complete, FailAssembly
  <2>5. UNCHANGED faults \/ Fault("database")
    BY <1>13 DEF Complete, FailAssembly
  <2> QED
    BY <1>1, <1>2, <2>1, <2>2, <2>3, <2>4, <2>5, BusyMove
       DEF PC, Assembling, storageVars
<1>14. CASE ReadParts(w) \/ PutDocument(w) \/ AssembleFails(w)
  <2>1. pc[w] # "idle"
    BY <1>14 DEF ReadParts, PutDocument, AssembleFails
  <2>2. manifests' \in SUBSET Docs
    <3>1. Doc(w) \in Docs
      BY <2>1, BusyTask
    <3>2. manifests' = manifests \/ manifests' = manifests \cup {Doc(w)}
      BY <1>14 DEF ReadParts, PutDocument, AssembleFails, storageVars
    <3> QED  BY <1>1, <3>1, <3>2
  <2>3. PICK p \in Assembling : Goto(w, p)
    BY <1>14 DEF ReadParts, PutDocument, AssembleFails, Assembling
  <2>4. UNCHANGED <<taskQueueVars, parts, task, dropped, orphaned>>
    BY <1>14 DEF ReadParts, PutDocument, AssembleFails, storageVars
  <2>5. UNCHANGED faults \/ Fault("storage") \/ Fault("database")
    BY <1>14 DEF ReadParts, PutDocument, AssembleFails
  <2> QED
    BY <1>1, <1>2, <2>1, <2>2, <2>3, <2>4, <2>5, BusyMove DEF PC, Assembling
<1> QED
  BY <1>4, <1>5, <1>6, <1>7, <1>8, <1>9, <1>10, <1>11, <1>12, <1>13, <1>14

\* The steps that end a worker's task, or move a message.
LEMMA DeliveryStep ==
    ASSUME BaseInv, UNCHANGED apiVars, NEW w \in Workers,
           \/ Receive(w) \/ Park(w) \/ SendRetry(w) \/ Ack(w)
           \/ Crash(w) \/ LoseConnection(w) \/ PublishFails(w)
    PROVE  BaseInv'
<1> USE DEF BaseInv, TypeOK
<1>1. JobStoreTypeOK' /\ ApiTypeOK' /\ UNCHANGED jobStatus
  BY DEF Receive, Park, SendRetry, Ack, Crash, LoseConnection, PublishFails,
         jobStoreVars, apiVars, JobStoreTypeOK, ApiTypeOK
<1>2. \A t \in Task : t.job \in Jobs
  BY DEF Task
<1>3. CASE Receive(w)
  <2>1. PICK t \in Task : Deliver(w, t) /\ task' = [task EXCEPT ![w] = t]
    BY <1>3 DEF Receive
  <2>2. TaskQueueTypeOK'
    BY <2>1, QueueType
  <2>3. WorkerTypeOK'
    BY <1>3, <2>1 DEF Receive, Goto, WorkerTypeOK, PC, storageVars
  <2>4. TaskInv'
    BY <1>3, <2>1, NoTaskAssumption
       DEF Receive, Deliver, Goto, TaskInv, WorkerTypeOK, TaskQueueTypeOK
  <2>5. RowInv'
    BY <1>1, <1>3, <2>1 DEF Receive, Deliver, Goto, RowInv, WorkerTypeOK,
                            TaskQueueTypeOK, apiVars
  <2> QED  BY <1>1, <2>2, <2>3, <2>4, <2>5
<1>4. CASE Park(w) \/ SendRetry(w)
  <2>1. pc[w] \in {"publish_failed", "publish_retry"}
    BY <1>4 DEF Park, SendRetry
  <2>2. task[w] \in Task /\ jobStatus[task[w].job] # "none"
    BY <2>1, BusyTask DEF JobOf
  <2>3. pc[w] = "publish_retry" => task[w].attempt < MaxAttempts
    BY DEF TaskInv
  <2>4. \/ UNCHANGED taskQueueVars
        \/ PublishFailed(task[w])
        \/ \E n \in 0 .. 2 : pc[w] = "publish_retry" /\ PublishRetry(task[w], n)
    <3>1. CASE Park(w)
      BY <3>1 DEF Park
    <3>2. CASE SendRetry(w)
      <4>1. Copies(w) \subseteq 0 .. 2
        BY DEF Copies
      <4> QED  BY <3>2, <4>1 DEF SendRetry
    <3> QED  BY <1>4, <3>1, <3>2
  <2>5. TaskQueueTypeOK'
    BY <2>2, <2>3, <2>4, QueueType
  <2>6. PICK p \in {"fail_chunk", "ack"} : Goto(w, p)
    BY <1>4 DEF Park, SendRetry
  <2>7. UNCHANGED <<storageVars, task, dropped, orphaned, faults, unacked, ready>>
    BY <1>4, <2>4 DEF Park, SendRetry, PublishFailed, PublishRetry, taskQueueVars
  <2>8. WorkerTypeOK' /\ TaskInv'
    BY <2>1, <2>6, <2>7 DEF WorkerTypeOK, TaskInv, Goto, PC, storageVars
  <2>9. \A t \in Task : retry'[t] > 0 => retry[t] > 0 \/ t.job = task[w].job
    <3>1. CASE UNCHANGED taskQueueVars \/ PublishFailed(task[w])
      BY <3>1 DEF taskQueueVars, PublishFailed
    <3>2. ASSUME NEW n \in 0 .. 2, task[w].attempt < MaxAttempts,
                 PublishRetry(task[w], n)
          PROVE  \A t \in Task : retry'[t] > 0 => retry[t] > 0 \/ t.job = task[w].job
      BY <2>2, <3>2, NextAttemptType DEF PublishRetry, TaskQueueTypeOK
    <3> QED  BY <2>3, <2>4, <3>1, <3>2
  <2>10. RowInv'
    BY <1>1, <2>1, <2>2, <2>6, <2>7, <2>9 DEF RowInv, Goto, WorkerTypeOK, apiVars
  <2> QED  BY <1>1, <2>5, <2>8, <2>10
<1>5. CASE Ack(w)
  <2>1. TaskQueueTypeOK'
    BY <1>5, QueueType DEF Ack
  <2>2. dropped' \in SUBSET (Jobs \X Chunks)
    <3>1. JobOf(w) \in Jobs /\ ChunkOf(w) \in Chunks
      BY <1>5, BusyTask DEF Ack
    <3> QED  BY <1>5, <3>1 DEF Ack, WorkerTypeOK
  <2>3. WorkerTypeOK'
    BY <1>5, <2>2 DEF Ack, Goto, WorkerTypeOK, PC, storageVars
  <2>4. TaskInv'
    BY <1>5 DEF Ack, BasicAck, Goto, TaskInv, WorkerTypeOK, TaskQueueTypeOK
  <2>5. RowInv'
    BY <1>1, <1>5 DEF Ack, BasicAck, Goto, RowInv, WorkerTypeOK, apiVars
  <2> QED  BY <1>1, <2>1, <2>3, <2>4, <2>5
<1>6. CASE Crash(w) \/ LoseConnection(w) \/ PublishFails(w)
  <2>1. Requeue(w)
    BY <1>6 DEF Crash, LoseConnection, PublishFails, Abandon
  <2>2. TaskQueueTypeOK'
    BY <2>1, QueueType
  <2>3. /\ UNCHANGED <<storageVars, dropped>>
        /\ \/ UNCHANGED <<pc, task>>
           \/ Goto(w, "idle") /\ task' = [task EXCEPT ![w] = NoTask]
    BY <1>6 DEF Crash, LoseConnection, PublishFails, Abandon
  <2>4. orphaned' \in SUBSET Jobs
    <3>1. pc[w] \in Assembling => JobOf(w) \in Jobs
      BY BusyTask DEF Assembling
    <3> QED
      BY <1>6, <3>1 DEF Crash, LoseConnection, PublishFails, Orphan, WorkerTypeOK
  <2>5. faults' \in 0 .. MaxFaults
    BY <1>6, FaultType DEF Crash, LoseConnection, PublishFails, AllFaults, WorkerTypeOK
  <2>6. WorkerTypeOK'
    BY <2>3, <2>4, <2>5 DEF WorkerTypeOK, Goto, PC, storageVars
  <2>7. TaskInv'
    BY <2>1, <2>3 DEF Requeue, Goto, TaskInv, WorkerTypeOK, TaskQueueTypeOK
  <2>8. unacked[w] # NoTask => unacked[w] \in Task /\ jobStatus[unacked[w].job] # "none"
    BY DEF TaskInv, RowInv, TaskQueueTypeOK
  <2>9. RowInv'
    BY <1>1, <2>1, <2>3, <2>8 DEF Requeue, Goto, RowInv, WorkerTypeOK,
                                  TaskQueueTypeOK, apiVars
  <2> QED  BY <1>1, <2>2, <2>6, <2>7, <2>9
<1> QED  BY <1>3, <1>4, <1>5, <1>6

\* A TTL that runs out keeps BaseInv.
LEMMA TierStep ==
    ASSUME BaseInv, UNCHANGED apiVars, TierExpires
    PROVE  BaseInv'
<1> USE DEF BaseInv, TypeOK
<1>1. PICK t \in Task : Expire(t)
  BY DEF TierExpires
<1>2. TaskQueueTypeOK'
  BY <1>1, QueueType
<1>3. JobStoreTypeOK' /\ ApiTypeOK' /\ WorkerTypeOK'
  BY DEF TierExpires, jobStoreVars, apiVars, storageVars, workerVars,
         JobStoreTypeOK, ApiTypeOK, WorkerTypeOK
<1>4. TaskInv'
  BY <1>1 DEF TierExpires, workerVars, Expire, TaskInv
<1>5. RowInv'
  BY <1>1 DEF TierExpires, workerVars, jobStoreVars, apiVars, Expire, RowInv,
              TaskQueueTypeOK
<1> QED  BY <1>2, <1>3, <1>4, <1>5

\* The tasks submit publishes are tasks.
LEMMA FirstAttemptType ==
    ASSUME NEW j \in Jobs, NEW c \in Chunks
    PROVE  FirstAttempt(j, c) \in Task /\ FirstAttempt(j, c).job = j
           /\ FirstAttempt(j, c).chunk = c
  BY MaxAttemptsAssumption DEF FirstAttempt, Task

\* The steps of submit.
LEMMA SubmitStep ==
    ASSUME BaseInv, [JobStoreNext]_jobStoreVars, NEW j \in Jobs,
           ApiStep(j) \/ ApiFault(j)
    PROVE  BaseInv'
<1> USE DEF BaseInv, TypeOK
<1>1. JobStoreTypeOK'
  BY JobStoreType
<1>2. \A i \in Jobs : jobStatus[i] # "none" => jobStatus'[i] # "none"
  BY RowsStay
<1>3. UNCHANGED <<storageVars, pc, task, dropped, orphaned>>
  BY DEF ApiStep, ApiFault, LookUp, Create, Send, SendFails, ApiCrash, workerVars
<1>4. UNCHANGED faults \/ \E k \in AllFaults : Fault(k)
  BY DEF ApiStep, ApiFault, LookUp, Create, Send, SendFails, ApiCrash,
         workerVars, AllFaults
<1>5. WorkerTypeOK'
  BY <1>3, <1>4, FaultType DEF WorkerTypeOK, storageVars
<1>6. next[j] \in Chunks /\ FirstAttempt(j, next[j]) \in Task
      /\ FirstAttempt(j, next[j]).job = j
  BY FirstAttemptType DEF ApiTypeOK
<1>7. \/ UNCHANGED taskQueueVars
      \/ api[j] = "publish" /\ Publish(FirstAttempt(j, next[j]))
  BY DEF ApiStep, ApiFault, LookUp, Create, Send, SendFails, ApiCrash
<1>8. TaskQueueTypeOK'
  BY <1>6, <1>7, QueueType
<1>9. ApiTypeOK'
  <2>1. CASE LookUp(j)
    BY <2>1 DEF LookUp, ApiGoto, ApiTypeOK, ApiState, Answered
  <2>2. CASE Create(j)
    BY <2>2 DEF Create, ApiGoto, ApiTypeOK, ApiState, Answered
  <2>3. CASE Send(j)
    BY <1>6, <2>3 DEF Send, ApiGoto, ApiTypeOK, ApiState, Answered
  <2>4. CASE SendFails(j)
    <3>1. 0 \in Chunks
      BY NumChunksAssumption DEF Chunks
    <3> QED
      BY <1>6, <2>4, <3>1 DEF SendFails, ApiGoto, ApiTypeOK, ApiState, Answered
  <2>5. CASE ApiCrash(j)
    BY <2>5 DEF ApiCrash, ApiGoto, ApiTypeOK, ApiState, Answered
  <2> QED  BY <2>1, <2>2, <2>3, <2>4, <2>5 DEF ApiStep, ApiFault
<1>10. TaskInv'
  BY <1>3, <1>7 DEF TaskInv, taskQueueVars, Publish
<1>11. \A i \in Jobs : api'[i] = "publish" => jobStatus'[i] # "none"
  <2>1. CASE Create(j)
    BY <1>2, <2>1 DEF Create, CreateJob, ApiGoto, ApiTypeOK, RowInv, JobStoreTypeOK
  <2>2. CASE ~Create(j)
    <3>1. \A i \in Jobs : api'[i] = "publish" => api[i] = "publish"
      BY <2>2 DEF ApiStep, ApiFault, LookUp, Send, SendFails, ApiCrash, ApiGoto, ApiTypeOK
    <3> QED  BY <1>2, <3>1 DEF RowInv
  <2> QED  BY <2>1, <2>2
<1>12. RowInv'
  <2>1. \A t \in Task : ready'[t] > 0 \/ retry'[t] > 0 => jobStatus'[t.job] # "none"
    BY <1>2, <1>6, <1>7 DEF taskQueueVars, Publish, RowInv, TaskQueueTypeOK, Task
  <2>2. \A w \in Workers : pc'[w] # "idle" => jobStatus'[task'[w].job] # "none"
    BY <1>2, <1>3, BusyTask DEF RowInv, JobOf
  <2> QED  BY <1>11, <2>1, <2>2 DEF RowInv
<1> QED  BY <1>1, <1>5, <1>8, <1>9, <1>10, <1>12

\* Every step keeps BaseInv.
LEMMA BaseStep ==
    ASSUME BaseInv, [Next]_vars
    PROVE  BaseInv'
<1>1. [JobStoreNext]_jobStoreVars
  BY StoreStep
<1>2. ASSUME NEW w \in Workers, WorkerStep(w) \/ WorkerFault(w), UNCHANGED apiVars
      PROVE  BaseInv'
  BY <1>1, <1>2, HandleStep, DeliveryStep DEF WorkerStep, WorkerFault
<1>3. CASE UNCHANGED vars
  BY <1>3 DEF vars, jobStoreVars, taskQueueVars, storageVars, workerVars, apiVars,
              BaseInv, TypeOK, JobStoreTypeOK, TaskQueueTypeOK, WorkerTypeOK,
              ApiTypeOK, TaskInv, RowInv
<1> QED
  BY <1>1, <1>2, <1>3, TierStep, SubmitStep DEF Next, WorkerNext

\* The initial states satisfy BaseInv.
LEMMA BaseInitial == Init => BaseInv
<1> SUFFICES ASSUME Init PROVE BaseInv
  OBVIOUS
<1> USE DEF Init
<1>1. JobStoreTypeOK
  BY JobStoreInitial DEF JobStoreInv
<1>2. TaskQueueTypeOK
  BY DEF TaskQueueInit, TaskQueueTypeOK
<1>3. WorkerTypeOK
  BY MaxFaultsAssumption DEF WorkerInit, WorkerTypeOK, PC
<1>4. ApiTypeOK
  BY NumChunksAssumption DEF ApiInit, ApiTypeOK, ApiState, Chunks
<1>5. TaskInv
  BY DEF TaskQueueInit, WorkerInit, TaskInv
<1>6. RowInv
  BY DEF TaskQueueInit, WorkerInit, ApiInit, RowInv
<1> QED  BY <1>1, <1>2, <1>3, <1>4, <1>5, <1>6 DEF BaseInv, TypeOK

\* BaseInv always holds.
LEMMA BaseInvariant == Spec => []BaseInv
  BY BaseInitial, BaseStep, PTL DEF Spec

\* Every variable of the pipeline keeps its type; in particular no message
\* ever carries an attempt number above MAX_ATTEMPTS.
THEOREM TypeCorrect == Spec => []TypeOK
<1>1. BaseInv => TypeOK
  BY DEF BaseInv
<1> QED  BY <1>1, BaseInvariant, PTL

\* A worker finds the job row of every message it is given.
THEOREM RowsFirst == Spec => []RowBeforeMessage
<1>1. BaseInv => RowBeforeMessage
  BY NoTaskAssumption DEF BaseInv, RowInv, TaskInv, RowBeforeMessage
<1> QED  BY <1>1, BaseInvariant, PTL

\* The pipeline uses the job store as the store's specification allows.
THEOREM UsesJobStore == Spec => JobStoreSpec
<1>1. Init => JobStoreInit
  BY DEF Init
<1> QED  BY <1>1, StoreStep, BaseInvariant, PTL DEF Spec, JobStoreSpec
=============================================================================
