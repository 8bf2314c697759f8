----------------------------- MODULE Submission -----------------------------
(***************************************************************************)
(* One request to POST /async/convert from its arrival to its answer:      *)
(* verify_api_key, _submit_request, submit with download and put_source,   *)
(* and the temporary file they share.  Requests run in a threadpool, so    *)
(* their steps interleave; rows and objects may expire between any two,    *)
(* and other jobs may finish and publish documents.                        *)
(***************************************************************************)
EXTENDS Integers

CONSTANTS
    Requests,
    Urls,           \* documents one may ask for
    Length,         \* their lengths, in pieces of _CHUNK_SIZE
    MaxPieces,      \* config.MAX_DOWNLOAD_BYTES, in such pieces
    NoUrl,
    MaxSubmitFaults \* bound: calls that raise, processes that die

ASSUME LengthAssumption == Length \in [Urls -> Nat] /\ MaxPieces \in Nat
ASSUME NoUrlAssumption == NoUrl \notin Urls
ASSUME MaxSubmitFaultsAssumption == MaxSubmitFaults \in Nat

VARIABLES
    at,             \* the next call of each request, or how it ended
    url,            \* what it asks for
    written,        \* pieces downloaded
    onDisk,         \* pieces in its temporary file; -1 when there is none
    answer,         \* the HTTP status; 0 before the answer
    fetched,        \* history: requests whose download succeeded
    rows,           \* document rows
    manifest, page, \* manifests and first pages in the object store
    source,         \* source files in the object store
    lapsed,         \* history: urls whose source has expired since put_source
    created,        \* requests with a job row
    published,      \* requests with messages on the broker
    submitFaults

subVars == <<at, url, written, onDisk, answer, fetched, rows, manifest, page, source,
             lapsed, created, published, submitFaults>>
storeVars == <<rows, manifest, page, source, lapsed>>
jobVars == <<created, published>>

InTry == {"lookup", "get_manifest", "get_page", "exists", "put_source"}

SubInit ==
    /\ at = [r \in Requests |-> "arrived"]
    /\ url \in [Requests -> Urls \cup {NoUrl}]
    /\ written = [r \in Requests |-> 0]
    /\ onDisk = [r \in Requests |-> -1]
    /\ answer = [r \in Requests |-> 0]
    /\ fetched = {}
    /\ rows = {} /\ manifest = {} /\ page = {} /\ source = {}
    /\ lapsed = [r \in Requests |-> FALSE]
    /\ created = {} /\ published = {}
    /\ submitFaults = 0

-----------------------------------------------------------------------------
Now(r, p) == at' = [at EXCEPT ![r] = p]

Respond(r, status) == Now(r, "answered") /\ answer' = [answer EXCEPT ![r] = status]

Quiet == UNCHANGED <<answer, submitFaults>>

\* verify_api_key: no key configured, a wrong one, or the right one.
VerifyApiKey(r) ==
    /\ at[r] = "arrived"
    /\ \/ Respond(r, 500) \/ Respond(r, 401)
       \/ Now(r, "validate") /\ UNCHANGED answer
    /\ UNCHANGED <<url, written, onDisk, fetched, storeVars, jobVars, submitFaults>>

\* _submit_request
Validate(r) ==
    /\ at[r] = "validate"
    /\ IF url[r] = NoUrl THEN Respond(r, 422) ELSE Now(r, "get") /\ UNCHANGED answer
    /\ UNCHANGED <<url, written, onDisk, fetched, storeVars, jobVars, submitFaults>>

\* download: requests.get raises or is not answered with 200; or the
\* temporary file is made and the body streamed to it.
Get(r) ==
    /\ at[r] = "get"
    /\ \/ Respond(r, 400) /\ UNCHANGED onDisk
       \/ /\ Now(r, "stream")
          /\ onDisk' = [onDisk EXCEPT ![r] = 0]
          /\ UNCHANGED answer
    /\ UNCHANGED <<url, written, fetched, storeVars, jobVars, submitFaults>>

\* A faulty download: the cap is checked once the piece is on disk.
Stream_CheckLate(r) ==
    /\ at[r] = "stream" /\ written[r] < Length[url[r]]
    /\ written' = [written EXCEPT ![r] = @ + 1]
    /\ onDisk' = [onDisk EXCEPT ![r] = @ + 1]
    /\ IF written[r] > MaxPieces THEN Now(r, "cleanup_raised") ELSE UNCHANGED at
    /\ UNCHANGED <<url, fetched, storeVars, jobVars>> /\ Quiet

\* One piece of the body.
Stream(r) ==
    /\ at[r] = "stream" /\ written[r] < Length[url[r]]
    /\ written' = [written EXCEPT ![r] = @ + 1]
    /\ IF written[r] + 1 > MaxPieces
       THEN Now(r, "cleanup_raised") /\ UNCHANGED onDisk
       ELSE onDisk' = [onDisk EXCEPT ![r] = @ + 1] /\ UNCHANGED at
    /\ UNCHANGED <<url, fetched, storeVars, jobVars>> /\ Quiet

DownloadEnds(r) ==
    /\ at[r] = "stream" /\ written[r] = Length[url[r]]
    /\ fetched' = fetched \cup {r}
    /\ Now(r, "lookup")
    /\ UNCHANGED <<url, written, onDisk, storeVars, jobVars>> /\ Quiet

\* find_cached_document, then get_manifest, then the first page.
FindCached(r) ==
    /\ at[r] = "lookup"
    /\ Now(r, IF url[r] \in rows THEN "get_manifest" ELSE "exists")
    /\ UNCHANGED <<url, written, onDisk, fetched, storeVars, jobVars>> /\ Quiet

GetManifest(r) ==
    /\ at[r] = "get_manifest"
    /\ Now(r, IF url[r] \in manifest THEN "get_page" ELSE "exists")
    /\ UNCHANGED <<url, written, onDisk, fetched, storeVars, jobVars>> /\ Quiet

FirstPage(r) ==
    /\ at[r] = "get_page"
    /\ Now(r, IF url[r] \in page THEN "cleanup_cached" ELSE "exists")
    /\ UNCHANGED <<url, written, onDisk, fetched, storeVars, jobVars>> /\ Quiet

\* A faulty put_source: the documents row vouches for the source.
Exists_ByRow(r) == url[r] \in source \cup rows

Exists(r) == url[r] \in source

\* put_source: the check (after page_count and plan_chunks), then the upload.
PutSourceCheck(r) ==
    /\ at[r] = "exists"
    /\ Now(r, IF Exists(r) THEN "cleanup" ELSE "put_source")
    /\ lapsed' = [lapsed EXCEPT ![r] = FALSE]
    /\ UNCHANGED <<url, written, onDisk, fetched, rows, manifest, page, source, jobVars>>
    /\ Quiet

PutSource(r) ==
    /\ at[r] = "put_source"
    /\ source' = source \cup {url[r]}
    /\ lapsed' = [lapsed EXCEPT ![r] = FALSE]
    /\ Now(r, "cleanup")
    /\ UNCHANGED <<url, written, onDisk, fetched, rows, manifest, page, jobVars>> /\ Quiet

\* A faulty submit: what raises leaves the temporary file behind.
Cleanup_NotOnError(r) ==
    /\ at[r] \in {"cleanup", "cleanup_cached", "cleanup_raised"}
    /\ onDisk' = [onDisk EXCEPT ![r] = IF at[r] = "cleanup_raised" THEN @ ELSE -1]
    /\ CASE at[r] = "cleanup" -> Now(r, "create") /\ UNCHANGED answer
         [] at[r] = "cleanup_cached" -> Respond(r, 200)
         [] at[r] = "cleanup_raised" -> Respond(r, 400)
    /\ UNCHANGED <<url, written, fetched, storeVars, jobVars, submitFaults>>

\* The finally clause of submit, and download's own, for each way out.
Cleanup(r) ==
    /\ at[r] \in {"cleanup", "cleanup_cached", "cleanup_raised"}
    /\ onDisk' = [onDisk EXCEPT ![r] = -1]
    /\ CASE at[r] = "cleanup" -> Now(r, "create") /\ UNCHANGED answer
         [] at[r] = "cleanup_cached" -> Respond(r, 200)
         [] at[r] = "cleanup_raised" -> Respond(r, 400)
    /\ UNCHANGED <<url, written, fetched, storeVars, jobVars, submitFaults>>

\* A faulty async_convert_endpoint: it answers once the rows are there.
Create_AnswerEarly(r) ==
    /\ at[r] = "create"
    /\ created' = created \cup {r}
    /\ Respond(r, 202)
    /\ UNCHANGED <<url, written, onDisk, fetched, storeVars, published, submitFaults>>

Create(r) ==
    /\ at[r] = "create"
    /\ created' = created \cup {r}
    /\ Now(r, "publish")
    /\ UNCHANGED <<url, written, onDisk, fetched, storeVars, published>> /\ Quiet

Publish(r) ==
    /\ at[r] = "publish"
    /\ published' = published \cup {r}
    /\ Respond(r, 202)
    /\ UNCHANGED <<url, written, onDisk, fetched, storeVars, created, submitFaults>>

-----------------------------------------------------------------------------
SubmitFault == submitFaults < MaxSubmitFaults /\ submitFaults' = submitFaults + 1

\* A call raises: the finally clause runs and _submit_request answers 400.  A
\* write may have been applied all the same.
Raises(r) ==
    /\ SubmitFault
    /\ \/ /\ at[r] \in InTry \cup {"stream"}
          /\ Now(r, "cleanup_raised") /\ UNCHANGED answer
       \/ at[r] \in {"create", "publish"} /\ Respond(r, 400)
    /\ source' \in {source} \cup IF at[r] = "put_source" THEN {source \cup {url[r]}} ELSE {}
    /\ created' \in {created} \cup IF at[r] = "create" THEN {created \cup {r}} ELSE {}
    /\ published' \in {published} \cup
           IF at[r] = "publish" THEN {published \cup {r}} ELSE {}
    /\ UNCHANGED <<url, written, onDisk, fetched, rows, manifest, page, lapsed>>

\* The API process dies.
Dies(r) ==
    /\ at[r] \notin {"answered", "died"}
    /\ SubmitFault
    /\ Now(r, "died")
    /\ UNCHANGED <<url, written, onDisk, answer, fetched, storeVars, jobVars>>

\* A worker publishes the document of some job for u, perhaps of another pod.
DocumentDone(u) ==
    /\ rows' = rows \cup {u} /\ manifest' = manifest \cup {u} /\ page' = page \cup {u}
    /\ UNCHANGED <<at, url, written, onDisk, answer, fetched, source, lapsed, jobVars,
                   submitFaults>>

\* The bucket's lifecycle rule takes a source or the objects of a document.
Expire(u) ==
    /\ \/ source' = source \ {u} /\ UNCHANGED <<manifest, page>>
       \/ manifest' = manifest \ {u} /\ UNCHANGED <<page, source>>
       \/ page' = page \ {u} /\ UNCHANGED <<manifest, source>>
    /\ lapsed' = [r \in Requests |-> lapsed[r] \/ (url[r] = u /\ source' # source)]
    /\ UNCHANGED <<at, url, written, onDisk, answer, fetched, rows, jobVars, submitFaults>>

SubmitStep(r) ==
    \/ VerifyApiKey(r) \/ Validate(r) \/ Get(r) \/ Stream(r) \/ DownloadEnds(r)
    \/ FindCached(r) \/ GetManifest(r) \/ FirstPage(r) \/ PutSourceCheck(r)
    \/ PutSource(r) \/ Cleanup(r) \/ Create(r) \/ Publish(r)

SubNext ==
    \/ \E r \in Requests : SubmitStep(r) \/ Raises(r) \/ Dies(r)
    \/ \E u \in Urls : DocumentDone(u) \/ Expire(u)

SubSpec == SubInit /\ [][SubNext]_subVars

-----------------------------------------------------------------------------
\* The temporary file is gone when the request is answered, in whatever way,
\* and already before its job is created: only a process that dies leaves one.
TempFileGone ==
    \A r \in Requests : at[r] \in {"answered", "create", "publish"} => onDisk[r] = -1

\* The download never puts more than MAX_DOWNLOAD_BYTES on the disk.
DownloadCapped == \A r \in Requests : onDisk[r] <= MaxPieces

\* A job's source is in the object store when its rows are created, unless it
\* expired after put_source had seen or stored it: a source that expired
\* earlier was uploaded again.
JobHasSource ==
    \A r \in Requests :
        at[r] \in {"create", "publish"} \/ answer[r] = 202
            => url[r] \in source \/ lapsed[r]

\* 202 promises a job whose messages are on the broker; 200 answers without a
\* job; and a request that is refused, or whose download is, leaves no trace.
AnswersFit ==
    \A r \in Requests :
        /\ answer[r] = 202 => r \in created \cap published
        /\ answer[r] \in {200, 401, 422, 500} \/ r \notin fetched
           => r \notin created \cup published
=============================================================================
