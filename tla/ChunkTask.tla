----------------------------- MODULE ChunkTask -----------------------------
(***************************************************************************)
(* The unit of work that the API publishes and the workers consume         *)
(* (taskqueue.ChunkTask): one page range of one job's document.            *)
(*                                                                         *)
(* The page range, the file hash and the use_llm flag of the message are a *)
(* function of the job and of the chunk index, so the model keeps only the *)
(* job, the index and the attempt number.                                  *)
(***************************************************************************)
EXTENDS Integers

CONSTANTS
    Jobs,           \* job identifiers (uuid4, so never reused)
    Docs,           \* document keys: hash of the source and of the settings
    DocOf,          \* the document each job converts
    NumChunks,      \* len(ranges): how many chunks a document is cut into
    MaxAttempts,    \* config.MAX_ATTEMPTS
    NoTask          \* no delivery in hand

ASSUME DocOfAssumption == DocOf \in [Jobs -> Docs]
ASSUME NumChunksAssumption == NumChunks \in Nat \ {0}
ASSUME MaxAttemptsAssumption == MaxAttempts \in Nat \ {0}

\* Chunk indices, in page order.
Chunks == 0 .. NumChunks - 1

Task == [job : Jobs, chunk : Chunks, attempt : 1 .. MaxAttempts]

ASSUME NoTaskAssumption == NoTask \notin Task

\* The task as it is first published: the attempt field has its default.
FirstAttempt(j, c) == [job |-> j, chunk |-> c, attempt |-> 1]

\* A faulty next_attempt: the retry carries the attempt number it failed with.
NextAttempt_NotCounted(t) == t

\* ChunkTask.next_attempt
NextAttempt(t) == [t EXCEPT !.attempt = @ + 1]
=============================================================================
