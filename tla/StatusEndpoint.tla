--------------------------- MODULE StatusEndpoint ---------------------------
(***************************************************************************)
(* What clients see of the pipeline: GET /convert/jobs/{job_id}, which     *)
(* reads the job's row twice (get_job, then job_progress), and the rest of *)
(* POST /convert, which polls the row until the job has ended and answers  *)
(* with the document's first page.                                         *)
(***************************************************************************)
EXTENDS Pipeline

CONSTANT NoAnswer

VARIABLES
    row,            \* the status get_job read for a poll in progress, or "none"
    answer,         \* the last answer each job's poller got
    sync            \* how far the synchronous request for each job is

endpointVars == <<row, answer, sync>>
statusVars == <<vars, endpointVars>>

Answer == [status : JobState, completed : Int]

EndpointTypeOK ==
    /\ row \in [Jobs -> JobState]
    /\ answer \in [Jobs -> Answer \cup {NoAnswer}]
    /\ sync \in [Jobs -> {"waiting", "page", "missing", "error"} \cup Terminal]

StatusInit ==
    /\ Init
    /\ row = [j \in Jobs |-> "none"]
    /\ answer = [j \in Jobs |-> NoAnswer]
    /\ sync = [j \in Jobs |-> "waiting"]

-----------------------------------------------------------------------------
\* get_job_endpoint's own read; without a row the answer is 404.
ReadRow(j) ==
    /\ row[j] = "none" /\ jobStatus[j] # "none"
    /\ row' = [row EXCEPT ![j] = jobStatus[j]]
    /\ UNCHANGED <<vars, answer, sync>>

\* job_progress: the chunks that are not remaining.
Completed(j) == NumChunks - remaining[j]

\* _job_payload: the status of the first read, the progress of the second.
Payload(j) == [status |-> row[j], completed |-> Completed(j)]

AnswerPoll(j) ==
    /\ row[j] # "none"
    /\ answer' = [answer EXCEPT ![j] = Payload(j)]
    /\ row' = [row EXCEPT ![j] = "none"]
    /\ UNCHANGED <<vars, sync>>

\* A faulty _wait_for_job: it stops when all chunks are counted.
WaitForJob_AllCounted(j) ==
    /\ api[j] = "accepted" /\ sync[j] = "waiting"
    /\ jobStatus[j] \in Terminal \/ remaining[j] = 0
    /\ sync' = [sync EXCEPT ![j] = IF jobStatus[j] = "failed" THEN "failed" ELSE "done"]
    /\ UNCHANGED <<vars, row, answer>>

\* _wait_for_job: the poll that sees the job ended.
WaitForJob(j) ==
    /\ api[j] = "accepted" /\ sync[j] = "waiting"
    /\ jobStatus[j] \in Terminal
    /\ sync' = [sync EXCEPT ![j] = jobStatus[j]]
    /\ UNCHANGED <<vars, row, answer>>

\* _completed_job_payload
AnswerSync(j) ==
    /\ sync[j] \in Terminal
    /\ sync' = [sync EXCEPT ![j] = IF sync[j] = "failed" THEN "error"
                                   ELSE IF DocOf[j] \in manifests THEN "page"
                                   ELSE "missing"]
    /\ UNCHANGED <<vars, row, answer>>

StatusNext ==
    \/ Next /\ UNCHANGED endpointVars
    \/ \E j \in Jobs : ReadRow(j) \/ AnswerPoll(j) \/ WaitForJob(j) \/ AnswerSync(j)

StatusSpec == StatusInit /\ [][StatusNext]_statusVars

-----------------------------------------------------------------------------
HasAnswer(j) == answer[j] # NoAnswer

\* A poller that is told "done" is not told of chunks still to come, although
\* status and progress come from two reads with anything in between.
DoneIsComplete ==
    \A j \in Jobs : HasAnswer(j) /\ answer[j].status = "done"
        => answer[j].completed >= NumChunks

\* From one answer to the next the progress never falls, and "done" stays.
AnswersAdvance ==
    [][\A j \in Jobs : HasAnswer(j) =>
           /\ answer'[j].completed >= answer[j].completed
           /\ answer[j].status = "done" => answer'[j].status = "done"]_statusVars

\* "Returns only after every chunk has finished and the document has been
\* assembled": the synchronous request that is not answered with an error gets
\* a page of a document with all its parts, and never finds it missing.
SyncGetsDocument ==
    \A j \in Jobs : /\ sync[j] # "missing"
                    /\ sync[j] = "page" => AllPartsStored(DocOf[j])
=============================================================================
