------------------------------- MODULE Worker -------------------------------
(***************************************************************************)
(* The worker fleet: worker.handle with _handle_failure and assemble, and  *)
(* the part of run_forever and taskqueue.consume that surrounds it.        *)
(*                                                                         *)
(* pc[w] is the call that worker w is about to make.  Each call to the     *)
(* database, the broker or the object store is a step of its own, so the   *)
(* steps of several workers interleave and a crash may fall between any    *)
(* two.  Objects do not expire here and a document is written in one step. *)
(***************************************************************************)
EXTENDS JobStore, TaskQueue

CONSTANTS
    FaultKinds,     \* which of AllFaults may happen
    MaxFaults       \* bound: how many faults a behaviour may contain

AllFaults == {"crash", "connection", "database", "storage", "publish"}

ASSUME FaultKindsAssumption == FaultKinds \subseteq AllFaults
ASSUME MaxFaultsAssumption == MaxFaults \in Nat

VARIABLES
    pc,             \* the call each worker is about to make
    task,           \* the task each worker is handling
    parts,          \* converted chunks in the object store, by content key
    manifests,      \* documents whose manifest is in the object store
    dropped,        \* history: chunks whose message was acked after a raise
    orphaned,       \* history: jobs whose assembler went away
    faults          \* how many faults have happened

storageVars == <<parts, manifests>>
workerVars == <<pc, task, dropped, orphaned, faults>>

\* The worker that was told "0 remaining" is at one of these calls.
Assembling == {"assemble", "put_document", "record_document", "finish_job",
               "fail_assembly"}

PC == {"idle", "get_job", "start_chunk", "start_job", "convert",
       "complete_chunk", "publish_failed", "fail_chunk", "fail_job",
       "reschedule_chunk", "publish_retry", "raised", "ack"} \cup Assembling

WorkerTypeOK ==
    /\ pc \in [Workers -> PC]
    /\ task \in [Workers -> Task \cup {NoTask}]
    /\ parts \in SUBSET (Docs \X Chunks)
    /\ manifests \in SUBSET Docs
    /\ dropped \in SUBSET (Jobs \X Chunks)
    /\ orphaned \in SUBSET Jobs
    /\ faults \in 0 .. MaxFaults

WorkerInit ==
    /\ pc = [w \in Workers |-> "idle"]
    /\ task = [w \in Workers |-> NoTask]
    /\ parts = {}
    /\ manifests = {}
    /\ dropped = {}
    /\ orphaned = {}
    /\ faults = 0

-----------------------------------------------------------------------------
Goto(w, p) == pc' = [pc EXCEPT ![w] = p]

Fault(kind) ==
    /\ kind \in FaultKinds
    /\ faults < MaxFaults
    /\ faults' = faults + 1

JobOf(w) == task[w].job
ChunkOf(w) == task[w].chunk
Doc(w) == DocOf[task[w].job]

Orphan(w) ==
    orphaned' = IF pc[w] \in Assembling THEN orphaned \cup {JobOf(w)} ELSE orphaned

\* Worker w runs statement stmt and goes on at next.  When the database
\* fails the statement raises and w goes on at escape, whether the statement
\* was applied and only its reply lost, or was never applied.
DbCall(w, stmt, next, escape) ==
    \/ stmt /\ Goto(w, next) /\ UNCHANGED faults
    \/ Fault("database") /\ stmt /\ Goto(w, escape)
    \/ Fault("database") /\ UNCHANGED jobStoreVars /\ Goto(w, escape)

\* What an ordinary database call leaves alone.
DbFrame == UNCHANGED <<taskQueueVars, storageVars, task, dropped, orphaned>>

\* consume: the next delivery, parsed and handed to handle.
Receive(w) ==
    /\ pc[w] = "idle"
    /\ \E t \in Task : Deliver(w, t) /\ task' = [task EXCEPT ![w] = t]
    /\ Goto(w, "get_job")
    /\ UNCHANGED <<jobStoreVars, storageVars, dropped, orphaned, faults>>

\* handle: a message of a job that is gone or terminal is dropped.
GetJob(w) ==
    /\ pc[w] = "get_job"
    /\ DbCall(w, UNCHANGED jobStoreVars,
              IF jobStatus[JobOf(w)] \in Terminal \cup {"none"}
              THEN "ack" ELSE "start_chunk",
              "raised")
    /\ DbFrame

StartChunk(w) ==
    /\ pc[w] = "start_chunk"
    /\ DbCall(w, StartChunkRow(JobOf(w), ChunkOf(w)), "start_job", "raised")
    /\ DbFrame

StartJob(w) ==
    /\ pc[w] = "start_job"
    /\ DbCall(w, StartJobRow(JobOf(w)), "convert", "raised")
    /\ DbFrame

\* convert_range, then put_part under the document's content key.
Convert(w) ==
    /\ pc[w] = "convert"
    /\ parts' = parts \cup {<<Doc(w), ChunkOf(w)>>}
    /\ Goto(w, "complete_chunk")
    /\ UNCHANGED <<jobStoreVars, taskQueueVars, manifests, task, dropped,
                   orphaned, faults>>

\* Anything in the try block raises, possibly after the part was stored:
\* _handle_failure parks the task of a last attempt and retries any other.
ConvertFails(w) ==
    /\ pc[w] = "convert"
    /\ parts' \in {parts, parts \cup {<<Doc(w), ChunkOf(w)>>}}
    /\ Goto(w, IF task[w].attempt >= MaxAttempts
               THEN "publish_failed" ELSE "reschedule_chunk")
    /\ UNCHANGED <<jobStoreVars, taskQueueVars, manifests, task, dropped,
                   orphaned, faults>>

\* complete_chunk: the caller that is told 0 assembles.  When the commit
\* succeeds and its reply is lost, nobody is told.
Complete(w) ==
    LET result == CompleteResult(JobOf(w), ChunkOf(w))
    IN  /\ pc[w] = "complete_chunk"
        /\ \/ /\ CompleteChunk(JobOf(w), ChunkOf(w))
              /\ Goto(w, IF result = 0 THEN "assemble" ELSE "ack")
              /\ UNCHANGED <<faults, orphaned>>
           \/ /\ Fault("database")
              /\ Goto(w, "raised")
              /\ \/ /\ CompleteChunk(JobOf(w), ChunkOf(w))
                    /\ orphaned' = IF result = 0 THEN orphaned \cup {JobOf(w)}
                                   ELSE orphaned
                 \/ UNCHANGED <<jobStoreVars, orphaned>>
        /\ UNCHANGED <<taskQueueVars, storageVars, task, dropped>>

-----------------------------------------------------------------------------
(***************************************************************************)
(* assemble.  The parts are read one by one; as they are never removed,    *)
(* reading them all at the moment of the last (or of the failing) read is  *)
(* the same.                                                               *)
(***************************************************************************)
AllPartsStored(d) == \A c \in Chunks : <<d, c>> \in parts

\* A faulty assemble: a part that is missing from storage is skipped.
ReadParts_SkipMissing(w) ==
    /\ pc[w] = "assemble"
    /\ Goto(w, "put_document")
    /\ UNCHANGED <<jobStoreVars, taskQueueVars, storageVars, task, dropped,
                   orphaned, faults>>

ReadParts(w) ==
    /\ pc[w] = "assemble"
    /\ Goto(w, IF AllPartsStored(Doc(w)) THEN "put_document" ELSE "fail_assembly")
    /\ UNCHANGED <<jobStoreVars, taskQueueVars, storageVars, task, dropped,
                   orphaned, faults>>

PutDocument(w) ==
    /\ pc[w] = "put_document"
    /\ manifests' = manifests \cup {Doc(w)}
    /\ Goto(w, "record_document")
    /\ UNCHANGED <<jobStoreVars, taskQueueVars, parts, task, dropped, orphaned,
                   faults>>

\* An object store call of assemble, or one of its database reads, raises; a
\* failed put may have been applied.
AssembleFails(w) ==
    /\ pc[w] \in {"assemble", "put_document"}
    /\ \/ Fault("storage")
       \/ pc[w] = "assemble" /\ Fault("database")
    /\ manifests' \in {manifests} \cup
           IF pc[w] = "put_document" THEN {manifests \cup {Doc(w)}} ELSE {}
    /\ Goto(w, "fail_assembly")
    /\ UNCHANGED <<jobStoreVars, taskQueueVars, parts, task, dropped, orphaned>>

Record(w) ==
    /\ pc[w] = "record_document"
    /\ DbCall(w, RecordDocument(Doc(w)), "finish_job", "fail_assembly")
    /\ DbFrame

Finish(w) ==
    /\ pc[w] = "finish_job"
    /\ DbCall(w, FinishJob(JobOf(w)), "ack", "fail_assembly")
    /\ DbFrame

\* handle's second except block.
FailAssembly(w) ==
    /\ pc[w] = "fail_assembly"
    /\ \/ /\ FailJob(JobOf(w))
          /\ Goto(w, "ack")
          /\ UNCHANGED <<faults, orphaned>>
       \/ /\ Fault("database")
          /\ Goto(w, "raised")
          /\ \/ FailJob(JobOf(w)) /\ UNCHANGED orphaned
             \/ UNCHANGED jobStoreVars /\ Orphan(w)
    /\ UNCHANGED <<taskQueueVars, storageVars, task, dropped>>

-----------------------------------------------------------------------------
(***************************************************************************)
(* _handle_failure.                                                        *)
(***************************************************************************)

\* How many copies of a message _publish leaves on the broker.  On a live
\* connection one.  On one that died, the first try may have been taken
\* before the error surfaced, or vanish in the socket buffer without one
\* (publishes are not confirmed), and the second try is on a new connection.
Copies(w) == IF unacked[w] # NoTask THEN {1} ELSE {0, 1, 2}

Park(w) ==
    /\ pc[w] = "publish_failed"
    /\ \E n \in Copies(w) :
           IF n > 0 THEN PublishFailed(task[w]) ELSE UNCHANGED taskQueueVars
    /\ Goto(w, "fail_chunk")
    /\ UNCHANGED <<jobStoreVars, storageVars, task, dropped, orphaned, faults>>

MarkChunkFailed(w) ==
    /\ pc[w] = "fail_chunk"
    /\ DbCall(w, FailChunk(JobOf(w), ChunkOf(w)), "fail_job", "raised")
    /\ DbFrame

MarkJobFailed(w) ==
    /\ pc[w] = "fail_job"
    /\ DbCall(w, FailJob(JobOf(w)), "ack", "raised")
    /\ DbFrame

Reschedule(w) ==
    /\ pc[w] = "reschedule_chunk"
    /\ DbCall(w, RescheduleChunk(JobOf(w), ChunkOf(w)), "publish_retry", "raised")
    /\ DbFrame

SendRetry(w) ==
    /\ pc[w] = "publish_retry"
    /\ \E n \in Copies(w) : PublishRetry(task[w], n)
    /\ Goto(w, "ack")
    /\ UNCHANGED <<jobStoreVars, storageVars, task, dropped, orphaned, faults>>

-----------------------------------------------------------------------------
\* consume's finally clause: the delivery is acked however handle ended,
\* on_task having swallowed what handle raised.
Ack(w) ==
    /\ pc[w] \in {"ack", "raised"}
    /\ BasicAck(w)
    /\ dropped' = IF pc[w] = "raised" /\ unacked[w] # NoTask
                  THEN dropped \cup {<<JobOf(w), ChunkOf(w)>>} ELSE dropped
    /\ task' = [task EXCEPT ![w] = NoTask]
    /\ Goto(w, "idle")
    /\ UNCHANGED <<jobStoreVars, storageVars, orphaned, faults>>

\* The delivery goes back to the queue and w is ready for another.
Abandon(w) ==
    /\ Requeue(w)
    /\ task' = [task EXCEPT ![w] = NoTask]
    /\ Goto(w, "idle")

\* The process dies in the middle of handle (out of memory, liveness probe,
\* or a shutdown whose grace period ran out) and a new one takes its place.
Crash(w) ==
    /\ pc[w] # "idle"
    /\ Fault("crash")
    /\ Abandon(w)
    /\ Orphan(w)
    /\ UNCHANGED <<jobStoreVars, storageVars, dropped>>

\* The broker gives up on w's connection (no heartbeat is sent while a chunk
\* converts) and redelivers, while w goes on with the chunk.
LoseConnection(w) ==
    /\ unacked[w] # NoTask
    /\ Fault("connection")
    /\ Requeue(w)
    /\ UNCHANGED <<jobStoreVars, storageVars, pc, task, dropped, orphaned>>

\* Both tries of _publish fail: the error leaves handle, and the ack fails
\* too, as _publish closed the channel it would be sent on.
PublishFails(w) ==
    /\ pc[w] \in {"publish_failed", "publish_retry"}
    /\ Fault("publish")
    /\ Abandon(w)
    /\ UNCHANGED <<jobStoreVars, storageVars, dropped, orphaned>>

TierExpires ==
    /\ \E t \in Task : Expire(t)
    /\ UNCHANGED <<jobStoreVars, storageVars, workerVars>>

\* One step of handle and of the loop around it.
WorkerStep(w) ==
    \/ Receive(w) \/ GetJob(w) \/ StartChunk(w) \/ StartJob(w)
    \/ Convert(w) \/ ConvertFails(w) \/ Complete(w)
    \/ ReadParts(w) \/ PutDocument(w) \/ Record(w) \/ Finish(w)
    \/ FailAssembly(w)
    \/ Park(w) \/ MarkChunkFailed(w) \/ MarkJobFailed(w)
    \/ Reschedule(w) \/ SendRetry(w) \/ Ack(w)

WorkerFault(w) ==
    \/ Crash(w) \/ LoseConnection(w) \/ PublishFails(w) \/ AssembleFails(w)

WorkerNext ==
    \/ \E w \in Workers : WorkerStep(w) \/ WorkerFault(w)
    \/ TierExpires
=============================================================================
