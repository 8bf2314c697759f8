------------------------------ MODULE Pipeline ------------------------------
(***************************************************************************)
(* The conversion pipeline: the API's submit publishes the chunks of a     *)
(* job, the workers convert them, and the one that finishes the last chunk *)
(* assembles the document.                                                 *)
(***************************************************************************)
EXTENDS Worker

VARIABLES
    api,            \* how far submit has come for each job
    pass,           \* which of its two tries _publish is in
    next,           \* the next chunk _publish sends
    sent            \* history: the chunks whose message reached the broker

apiVars == <<api, pass, next, sent>>
vars == <<jobStoreVars, taskQueueVars, storageVars, workerVars, apiVars>>

\* submit has returned or raised.
Answered == {"cached", "accepted", "rejected", "crashed"}
ApiState == {"idle", "create", "publish"} \cup Answered

ApiTypeOK ==
    /\ api \in [Jobs -> ApiState]
    /\ pass \in [Jobs -> 1 .. 2]
    /\ next \in [Jobs -> Chunks]
    /\ sent \in [Jobs -> SUBSET Chunks]

TypeOK == JobStoreTypeOK /\ TaskQueueTypeOK /\ WorkerTypeOK /\ ApiTypeOK

ApiInit ==
    /\ api = [j \in Jobs |-> "idle"]
    /\ pass = [j \in Jobs |-> 1]
    /\ next = [j \in Jobs |-> 0]
    /\ sent = [j \in Jobs |-> {}]

Init == JobStoreInit /\ TaskQueueInit /\ WorkerInit /\ ApiInit

-----------------------------------------------------------------------------
ApiGoto(j, a) == api' = [api EXCEPT ![j] = a]

\* A faulty submit: the messages are published before the rows exist.
LookUp_PublishFirst(j) ==
    /\ api[j] = "idle"
    /\ ApiGoto(j, IF DocOf[j] \in documents \cap manifests
                  THEN "cached" ELSE "publish")
    /\ UNCHANGED <<jobStoreVars, taskQueueVars, storageVars, workerVars, pass,
                   next, sent>>

\* submit up to create_job: a cached document answers the request, a failed
\* download rejects it, anything else is planned and its source stored.
LookUp(j) ==
    /\ api[j] = "idle"
    /\ \/ ApiGoto(j, "rejected")
       \/ ApiGoto(j, IF DocOf[j] \in documents \cap manifests
                     THEN "cached" ELSE "create")
    /\ UNCHANGED <<jobStoreVars, taskQueueVars, storageVars, workerVars, pass,
                   next, sent>>

\* The rows first; a database error rejects the request, and may come after
\* the transaction was committed.
Create(j) ==
    /\ api[j] = "create"
    /\ \/ CreateJob(j) /\ ApiGoto(j, "publish") /\ UNCHANGED faults
       \/ /\ Fault("database")
          /\ CreateJob(j) \/ UNCHANGED jobStoreVars
          /\ ApiGoto(j, "rejected")
    /\ UNCHANGED <<taskQueueVars, storageVars, pc, task, dropped, orphaned,
                   pass, next, sent>>

\* Then _publish sends the messages one by one.  They are not confirmed: one
\* written to a dying connection is lost, and nothing raises.
Send(j) ==
    /\ api[j] = "publish"
    /\ \/ /\ Publish(FirstAttempt(j, next[j]))
          /\ sent' = [sent EXCEPT ![j] = @ \cup {next[j]}]
          /\ UNCHANGED faults
       \/ /\ Fault("connection")
          /\ UNCHANGED <<taskQueueVars, sent>>
    /\ IF next[j] + 1 \in Chunks
       THEN next' = [next EXCEPT ![j] = @ + 1] /\ UNCHANGED api
       ELSE ApiGoto(j, "accepted") /\ UNCHANGED next
    /\ UNCHANGED <<jobStoreVars, storageVars, pc, task, dropped, orphaned, pass>>

\* A publish raises, perhaps after the broker took the message.  The first
\* time _publish reconnects and sends every message again from the start; the
\* second time the request is rejected, and the rows stay.
SendFails(j) ==
    /\ api[j] = "publish"
    /\ Fault("publish")
    /\ \/ /\ Publish(FirstAttempt(j, next[j]))
          /\ sent' = [sent EXCEPT ![j] = @ \cup {next[j]}]
       \/ UNCHANGED <<taskQueueVars, sent>>
    /\ IF pass[j] = 1
       THEN /\ pass' = [pass EXCEPT ![j] = 2]
            /\ next' = [next EXCEPT ![j] = 0]
            /\ UNCHANGED api
       ELSE /\ ApiGoto(j, "rejected")
            /\ UNCHANGED <<pass, next>>
    /\ UNCHANGED <<jobStoreVars, storageVars, pc, task, dropped, orphaned>>

\* The API process dies while it serves the request.
ApiCrash(j) ==
    /\ api[j] \in {"create", "publish"}
    /\ Fault("crash")
    /\ ApiGoto(j, "crashed")
    /\ UNCHANGED <<jobStoreVars, taskQueueVars, storageVars, pc, task, dropped,
                   orphaned, pass, next, sent>>

ApiStep(j) == LookUp(j) \/ Create(j) \/ Send(j)
ApiFault(j) == SendFails(j) \/ ApiCrash(j)

Next ==
    \/ WorkerNext /\ UNCHANGED apiVars
    \/ \E j \in Jobs : ApiStep(j) \/ ApiFault(j)

Spec == Init /\ [][Next]_vars

\* The processes keep running: a worker takes its next step, a TTL runs out,
\* and submit goes on.  No fault is fair, and none is excluded.
Fairness ==
    /\ \A w \in Workers : WF_vars(WorkerStep(w) /\ UNCHANGED apiVars)
    /\ WF_vars(TierExpires /\ UNCHANGED apiVars)
    /\ \A j \in Jobs : WF_vars(ApiStep(j))

FairSpec == Spec /\ Fairness

-----------------------------------------------------------------------------
Active(j) == jobStatus[j] \in {"queued", "running"}

Assembles(w, j) == pc[w] \in Assembling /\ JobOf(w) = j

\* Some message for chunk c of job j will still be acted on: it is queued, or
\* delivered to a worker that has not finished with it.
Live(j, c) ==
    \/ \E t \in Task : /\ t.job = j /\ t.chunk = c
                       /\ ready[t] > 0 \/ retry[t] > 0
    \/ \E w \in Workers : /\ unacked[w] # NoTask
                          /\ unacked[w].job = j /\ unacked[w].chunk = c
                          /\ pc[w] # "ack"

\* Once a chunk's message has reached the broker, then until the chunk is
\* counted or the job ends, some message for it is queued or in a worker's
\* hands.  Crashes, lost connections, redeliveries, unconfirmed publishes and
\* retries never lose it (taskqueue.consume acks after handle, publish_retry
\* comes before the ack); the one thing that does is an exception that leaves
\* handle, whose message consume acks all the same.
NoWorkLost ==
    \A j \in Jobs, c \in Chunks :
        Active(j) /\ c \in sent[j] /\ c \notin counted[j]
            => <<j, c>> \in dropped \/ Live(j, c)

\* complete_chunk tells at most one caller per job that nothing remains,
\* whatever is redelivered and however often: no document is assembled twice.
AtMostOneAssembler ==
    \A j \in Jobs :
        /\ zeros[j] <= 1
        /\ \A v, w \in Workers : Assembles(v, j) /\ Assembles(w, j) => v = w

\* A job that was fully submitted and has no message left to act on is being
\* assembled, unless its assembler went away or an exception dropped one of
\* its chunks: the counter that complete_chunk keeps never misses a chunk.
NoSilentStall ==
    \A j \in Jobs :
        /\ Active(j)
        /\ sent[j] = Chunks
        /\ \A c \in Chunks : <<j, c>> \notin dropped /\ ~Live(j, c)
        => j \in orphaned \/ \E w \in Workers : Assembles(w, j)

\* No document with missing pages: a manifest is written, and a documents
\* row recorded, only once every chunk's part is stored, even when the
\* counter reached 0 too early (assemble's "missing from storage" check).
PublishedIsWhole ==
    /\ documents \subseteq manifests
    /\ \A d \in manifests : AllPartsStored(d)

\* submit inserts the rows before it publishes: no worker ever handles a
\* message whose job it cannot find.
RowBeforeMessage ==
    \A t \in Task :
        \/ ready[t] > 0 \/ retry[t] > 0
        \/ \E w \in Workers : task[w] = t
        => jobStatus[t.job] # "none"

\* The pipeline is a conversion service: a job reads as pending while it is
\* queued or running, and a document is published once it is recorded.
Service ==
    INSTANCE ConversionService WITH
        outcome <- [j \in Jobs |->
                       IF jobStatus[j] = "none" THEN "absent"
                       ELSE IF jobStatus[j] \in Terminal THEN jobStatus[j]
                       ELSE "pending"],
        published <- documents

\* Every step of the pipeline is a step of the service or invisible: a job is
\* done only once its document is recorded, done is final (fail_job and
\* complete_chunk are guarded), and a job that ended is never revived.
ImplementsService == Service!ServiceSpec

\* After a job has ended its counter stands still: a sibling chunk that
\* completes late is not counted (complete_chunk's guard on the job's status).
CountStopsAtEnd ==
    [][\A j \in Jobs : jobStatus[j] \in Terminal
           => remaining'[j] = remaining[j] /\ counted'[j] = counted[j]]_vars

\* Every accepted job ends, unless its assembler went away, an exception
\* dropped one of its chunks, or the broker never got one.
AcceptedJobEnds ==
    \A j \in Jobs :
        api[j] = "accepted"
            ~> \/ jobStatus[j] \in Terminal
               \/ j \in orphaned
               \/ sent[j] # Chunks
               \/ \E c \in Chunks : <<j, c>> \in dropped

-----------------------------------------------------------------------------
(***************************************************************************)
(* What the repository says of the pipeline and the code does not keep.    *)
(***************************************************************************)

\* worker._handle_signal: a process killed in the middle of a chunk is
\* "crash-safe", the broker redelivers.  Every accepted job ends.
CrashSafe ==
    \A j \in Jobs : api[j] = "accepted" ~> jobStatus[j] \in Terminal

\* jobstore.complete_chunk: "Returns 0 when this caller completed the *last*
\* chunk."
ZeroMeansLastChunk == \A j \in Jobs : zeros[j] > 0 => counted[j] = Chunks

\* taskqueue.consume: when a message is acked, the handler "has already
\* republished if it wants another attempt": the chunk of an active job that
\* is not counted has a message.
AckedWorkIsSettled ==
    \A j \in Jobs, c \in Chunks :
        Active(j) /\ c \in sent[j] /\ c \notin counted[j] => Live(j, c)
=============================================================================
