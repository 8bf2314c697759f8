------------------------------ MODULE JobStore ------------------------------
(***************************************************************************)
(* The jobs, job_chunks and documents tables and the statements            *)
(* jobstore.py runs on them.  Every action is one statement or one         *)
(* transaction: the database applies it atomically, and anything may       *)
(* happen between two of them.                                             *)
(*                                                                         *)
(* Left out: the columns that are written and never read back              *)
(* (lease_owner, attempts, last_error, s3_key, error_chunk, timestamps).   *)
(***************************************************************************)
EXTENDS ChunkTask, FiniteSets

VARIABLES
    jobStatus,      \* jobs.status; "none" before the row is inserted
    remaining,      \* jobs.remaining_chunks
    hasError,       \* jobs with a non-NULL error column
    chunkStatus,    \* job_chunks.status
    documents,      \* document keys with a row in documents
    counted,        \* history: the chunks whose completion was counted
    zeros           \* history: how many callers were told "0 remaining"

jobStoreVars == <<jobStatus, remaining, hasError, chunkStatus, documents,
                  counted, zeros>>

Terminal == {"done", "failed"}
JobState == {"none", "queued", "running"} \cup Terminal
ChunkState == {"none", "pending", "running", "done", "failed"}

\* The sentinels of complete_chunk.
JOB_ALREADY_TERMINAL == -1
CHUNK_ALREADY_DONE == -2

JobStoreTypeOK ==
    /\ jobStatus \in [Jobs -> JobState]
    /\ remaining \in [Jobs -> Int]
    /\ hasError \in SUBSET Jobs
    /\ chunkStatus \in [Jobs -> [Chunks -> ChunkState]]
    /\ documents \in SUBSET Docs
    /\ counted \in [Jobs -> SUBSET Chunks]
    /\ zeros \in [Jobs -> Nat]

JobStoreInit ==
    /\ jobStatus = [j \in Jobs |-> "none"]
    /\ remaining = [j \in Jobs |-> NumChunks]
    /\ hasError = {}
    /\ chunkStatus = [j \in Jobs |-> [c \in Chunks |-> "none"]]
    /\ documents = {}
    /\ counted = [j \in Jobs |-> {}]
    /\ zeros = [j \in Jobs |-> 0]

-----------------------------------------------------------------------------
SetChunk(j, c, s) == chunkStatus' = [chunkStatus EXCEPT ![j][c] = s]

\* One transaction inserts the job row and all its chunk rows.
CreateJob(j) ==
    /\ jobStatus[j] = "none"
    /\ jobStatus' = [jobStatus EXCEPT ![j] = "queued"]
    /\ remaining' = [remaining EXCEPT ![j] = NumChunks]
    /\ chunkStatus' = [chunkStatus EXCEPT ![j] = [c \in Chunks |-> "pending"]]
    /\ UNCHANGED <<hasError, documents, counted, zeros>>

\* start_chunk, first statement.
StartChunkRow(j, c) ==
    /\ IF chunkStatus[j][c] # "done"
       THEN SetChunk(j, c, "running")
       ELSE UNCHANGED chunkStatus
    /\ UNCHANGED <<jobStatus, remaining, hasError, documents, counted, zeros>>

\* start_chunk, second statement.
StartJobRow(j) ==
    /\ IF jobStatus[j] = "queued"
       THEN jobStatus' = [jobStatus EXCEPT ![j] = "running"]
       ELSE UNCHANGED jobStatus
    /\ UNCHANGED <<remaining, hasError, chunkStatus, documents, counted, zeros>>

\* A faulty complete_chunk: the counter as it was before the decrement.
CompleteResult_ReadFirst(j, c) ==
    IF chunkStatus[j][c] = "done" THEN CHUNK_ALREADY_DONE
    ELSE IF jobStatus[j] \in Terminal THEN JOB_ALREADY_TERMINAL
    ELSE remaining[j]

\* A faulty complete_chunk: the counter, even when the chunk was done already.
CompleteResult_NotIdempotent(j, c) ==
    IF jobStatus[j] \in Terminal THEN JOB_ALREADY_TERMINAL
    ELSE IF chunkStatus[j][c] = "done" THEN remaining[j]
    ELSE remaining[j] - 1

\* A faulty complete_chunk: the counter is off by one.
CompleteResult_OneShort(j, c) ==
    IF chunkStatus[j][c] = "done" THEN CHUNK_ALREADY_DONE
    ELSE IF jobStatus[j] \in Terminal THEN JOB_ALREADY_TERMINAL
    ELSE remaining[j] - 2

\* What complete_chunk returns.
CompleteResult(j, c) ==
    IF chunkStatus[j][c] = "done" THEN CHUNK_ALREADY_DONE
    ELSE IF jobStatus[j] \in Terminal THEN JOB_ALREADY_TERMINAL
    ELSE remaining[j] - 1

\* A faulty complete_chunk: the counter is not guarded by the job's status.
CompleteChunk_AfterEnd(j, c) ==
    /\ IF chunkStatus[j][c] # "done"
       THEN /\ SetChunk(j, c, "done")
            /\ remaining' = [remaining EXCEPT ![j] = @ - 1]
            /\ counted' = [counted EXCEPT ![j] = @ \cup {c}]
            /\ zeros' = [zeros EXCEPT ![j] = IF remaining[j] = 1 THEN @ + 1 ELSE @]
       ELSE UNCHANGED <<chunkStatus, remaining, counted, zeros>>
    /\ UNCHANGED <<jobStatus, hasError, documents>>

\* The chunk row is guarded by its own status, the counter by the job's.
CompleteChunk(j, c) ==
    /\ IF chunkStatus[j][c] # "done"
       THEN SetChunk(j, c, "done")
       ELSE UNCHANGED chunkStatus
    /\ IF chunkStatus[j][c] # "done" /\ jobStatus[j] \notin Terminal
       THEN /\ remaining' = [remaining EXCEPT ![j] = @ - 1]
            /\ jobStatus' = [jobStatus EXCEPT ![j] = "running"]
            /\ counted' = [counted EXCEPT ![j] = @ \cup {c}]
            /\ zeros' = [zeros EXCEPT ![j] = IF remaining[j] = 1 THEN @ + 1 ELSE @]
       ELSE UNCHANGED <<remaining, jobStatus, counted, zeros>>
    /\ UNCHANGED <<hasError, documents>>

\* No guard on the chunk's current status.
FailChunk(j, c) ==
    /\ SetChunk(j, c, "failed")
    /\ UNCHANGED <<jobStatus, remaining, hasError, documents, counted, zeros>>

RescheduleChunk(j, c) ==
    /\ IF chunkStatus[j][c] # "done"
       THEN SetChunk(j, c, "pending")
       ELSE UNCHANGED chunkStatus
    /\ UNCHANGED <<jobStatus, remaining, hasError, documents, counted, zeros>>

\* A faulty fail_job: no guard on the job's status.
FailJob_Unguarded(j) ==
    /\ jobStatus' = [jobStatus EXCEPT ![j] = "failed"]
    /\ hasError' = hasError \cup {j}
    /\ UNCHANGED <<remaining, chunkStatus, documents, counted, zeros>>

FailJob(j) ==
    /\ IF jobStatus[j] \notin Terminal
       THEN /\ jobStatus' = [jobStatus EXCEPT ![j] = "failed"]
            /\ hasError' = hasError \cup {j}
       ELSE UNCHANGED <<jobStatus, hasError>>
    /\ UNCHANGED <<remaining, chunkStatus, documents, counted, zeros>>

\* No guard on the job's current status.
FinishJob(j) ==
    /\ jobStatus' = [jobStatus EXCEPT ![j] = "done"]
    /\ UNCHANGED <<remaining, hasError, chunkStatus, documents, counted, zeros>>

\* INSERT OR REPLACE.
RecordDocument(d) ==
    /\ documents' = documents \cup {d}
    /\ UNCHANGED <<jobStatus, remaining, hasError, chunkStatus, counted, zeros>>

-----------------------------------------------------------------------------
(***************************************************************************)
(* The store by itself: callers that know of an existing job, and call     *)
(* anything in any order.                                                  *)
(***************************************************************************)
JobStoreNext ==
    \E j \in Jobs :
        \/ CreateJob(j)
        \/ /\ jobStatus[j] # "none"
           /\ \/ \E c \in Chunks : \/ StartChunkRow(j, c)
                                   \/ CompleteChunk(j, c)
                                   \/ FailChunk(j, c)
                                   \/ RescheduleChunk(j, c)
              \/ StartJobRow(j)
              \/ FailJob(j)
              \/ FinishJob(j)
              \/ RecordDocument(DocOf[j])

JobStoreSpec == JobStoreInit /\ [][JobStoreNext]_jobStoreVars

=============================================================================
