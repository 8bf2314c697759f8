--------------------------- MODULE DocumentStore ---------------------------
(***************************************************************************)
(* The objects and the documents row of one document key, the jobs that    *)
(* convert it and the requests that read it.                               *)
(*                                                                         *)
(* A job is one call of /convert with the assembly it causes: submit looks *)
(* for a finished document, a worker writes the pages one by one and then  *)
(* the manifest, and the caller is answered from what is stored by then.   *)
(* Several jobs may convert the same document at once; with the language   *)
(* model in play their outputs may differ, in length too.  The lifecycle   *)
(* rule of the bucket deletes any object at any time.                      *)
(***************************************************************************)
EXTENDS Integers

CONSTANTS
    DocJobs,        \* jobs for this document
    Readers,        \* requests for one of its pages
    Versions,       \* the markdown a conversion may produce
    MaxPages,
    PagesOf,        \* len(paginate(...)) of each version
    None            \* no such object

ASSUME MaxPagesAssumption == MaxPages \in Nat \ {0}
ASSUME PagesOfAssumption == PagesOf \in [Versions -> 1 .. MaxPages]
ASSUME NoneAssumption == None \notin Versions
ASSUME ClientsAssumption == DocJobs \cap Readers = {}

VARIABLES
    page,           \* the version each stored page was cut from
    manifest,       \* the version the stored manifest describes
    recorded,       \* there is a documents row
    expired,        \* history: the pages (0: the manifest) that ever expired
    at,             \* the call each job or request is about to make
    version,        \* the version a job is storing
    index,          \* the page a job writes next, or a request asks for
    answer          \* what the caller was answered

docVars == <<page, manifest, recorded, expired, at, version, index, answer>>

Clients == DocJobs \cup Readers
PageNums == 1 .. MaxPages

DocTypeOK ==
    /\ page \in [PageNums -> Versions \cup {None}]
    /\ manifest \in Versions \cup {None}
    /\ recorded \in BOOLEAN
    /\ expired \in SUBSET (0 .. MaxPages)
    /\ at \in [Clients -> {"find_row", "find_manifest", "find_page", "convert",
                           "put_page", "put_manifest", "record", "finish",
                           "get_manifest", "get_page", "end"}]
    /\ version \in [DocJobs -> Versions \cup {None}]
    /\ index \in [Clients -> PageNums]
    /\ answer \in [Clients -> {"none", "page", "no_document", "no_page"}]

DocInit ==
    /\ page = [i \in PageNums |-> None]
    /\ manifest = None
    /\ recorded = FALSE
    /\ expired = {}
    /\ at = [k \in Clients |-> IF k \in DocJobs THEN "find_row" ELSE "get_manifest"]
    /\ version = [j \in DocJobs |-> None]
    /\ index = [k \in Clients |-> 1]
    /\ answer = [k \in Clients |-> "none"]

-----------------------------------------------------------------------------
Move(k, to) == at' = [at EXCEPT ![k] = to]

Answer(k, what) ==
    /\ Move(k, "end")
    /\ answer' = [answer EXCEPT ![k] = what]

objects == <<page, manifest, recorded, expired>>

\* submit: the row, then the manifest, then the first page; whatever is
\* missing, the document is converted again.
FindRow(j) ==
    /\ at[j] = "find_row"
    /\ Move(j, IF recorded THEN "find_manifest" ELSE "convert")
    /\ UNCHANGED <<objects, version, index, answer>>

FindManifest(j) ==
    /\ at[j] = "find_manifest"
    /\ Move(j, IF manifest # None THEN "find_page" ELSE "convert")
    /\ UNCHANGED <<objects, version, index, answer>>

FindPage(j) ==
    /\ at[j] = "find_page"
    /\ \/ page[1] # None /\ Answer(j, "page")
       \/ page[1] = None /\ Move(j, "convert") /\ UNCHANGED answer
    /\ UNCHANGED <<objects, version, index>>

\* The chunks are converted, their parts joined and cut into pages.
ConvertDocument(j) ==
    /\ at[j] = "convert"
    /\ \E v \in Versions : version' = [version EXCEPT ![j] = v]
    /\ Move(j, "put_page")
    /\ UNCHANGED <<objects, index, answer>>

\* A faulty put_document: the last of several pages is not written.
PutPage_OneShort(j) ==
    /\ at[j] = "put_page"
    /\ page' = [page EXCEPT ![index[j]] = version[j]]
    /\ IF index[j] < PagesOf[version[j]] - 1
       THEN index' = [index EXCEPT ![j] = @ + 1] /\ UNCHANGED at
       ELSE Move(j, "put_manifest") /\ UNCHANGED index
    /\ UNCHANGED <<manifest, recorded, expired, version, answer>>

\* put_document: the pages in order, then the manifest.
PutPage(j) ==
    /\ at[j] = "put_page"
    /\ page' = [page EXCEPT ![index[j]] = version[j]]
    /\ IF index[j] < PagesOf[version[j]]
       THEN index' = [index EXCEPT ![j] = @ + 1] /\ UNCHANGED at
       ELSE Move(j, "put_manifest") /\ UNCHANGED index
    /\ UNCHANGED <<manifest, recorded, expired, version, answer>>

PutManifest(j) ==
    /\ at[j] = "put_manifest"
    /\ manifest' = version[j]
    /\ Move(j, "record")
    /\ UNCHANGED <<page, recorded, expired, version, index, answer>>

\* record_document, and then finish_job: the caller that polls in
\* _wait_for_job sees the job done.
RecordRow(j) ==
    /\ at[j] = "record"
    /\ recorded' = TRUE
    /\ Move(j, "finish")
    /\ UNCHANGED <<page, manifest, expired, version, index, answer>>

FinishRow(j) ==
    /\ at[j] = "finish"
    /\ Move(j, "get_manifest")
    /\ UNCHANGED <<objects, version, index, answer>>

\* The worker dies, or a call raises, in the middle of assembly.
AssemblyStops(j) ==
    /\ at[j] \in {"put_page", "put_manifest", "record", "finish"}
    /\ Move(j, "end")
    /\ UNCHANGED <<objects, version, index, answer>>

\* The caller of a job gets the first page; the URL of a request may ask for
\* any page number.
PageAsked(k) == IF k \in DocJobs THEN {1} ELSE 0 .. MaxPages + 1

\* A faulty get_page_endpoint: no upper bound on the page number.
GetManifest_NoUpperBound(k) ==
    /\ at[k] = "get_manifest"
    /\ \E p \in PageAsked(k) \cap PageNums :
           IF manifest # None
           THEN /\ Move(k, "get_page")
                /\ index' = [index EXCEPT ![k] = p]
                /\ UNCHANGED answer
           ELSE Answer(k, "no_document") /\ UNCHANGED index
    /\ UNCHANGED <<objects, version>>

\* get_page_endpoint, and _completed_job_payload for the caller of a job.
GetManifest(k) ==
    /\ at[k] = "get_manifest"
    /\ \E p \in PageAsked(k) :
           IF manifest # None /\ p \in 1 .. PagesOf[manifest]
           THEN /\ Move(k, "get_page")
                /\ index' = [index EXCEPT ![k] = p]
                /\ UNCHANGED answer
           ELSE Answer(k, "no_document") /\ UNCHANGED index
    /\ UNCHANGED <<objects, version>>

GetPage(k) ==
    /\ at[k] = "get_page"
    /\ Answer(k, IF page[index[k]] # None THEN "page" ELSE "no_page")
    /\ UNCHANGED <<objects, version, index>>

\* The lifecycle rule deletes an object.
ExpireObject ==
    /\ \/ /\ manifest # None
          /\ manifest' = None
          /\ expired' = expired \cup {0}
          /\ UNCHANGED page
       \/ \E i \in PageNums :
              /\ page[i] # None
              /\ page' = [page EXCEPT ![i] = None]
              /\ expired' = expired \cup {i}
              /\ UNCHANGED manifest
    /\ UNCHANGED <<recorded, at, version, index, answer>>

DocNext ==
    \/ \E j \in DocJobs :
           \/ FindRow(j) \/ FindManifest(j) \/ FindPage(j) \/ ConvertDocument(j)
           \/ PutPage(j) \/ PutManifest(j) \/ RecordRow(j) \/ FinishRow(j)
           \/ AssemblyStops(j)
    \/ \E k \in Clients : GetManifest(k) \/ GetPage(k)
    \/ ExpireObject

DocSpec == DocInit /\ [][DocNext]_docVars

-----------------------------------------------------------------------------
\* put_document writes the manifest last: whatever jobs race or stop halfway,
\* and however their page counts differ, a page the manifest counts is missing
\* only when the lifecycle rule took it.
ManifestBacked ==
    manifest # None =>
        \A i \in 1 .. PagesOf[manifest] : page[i] # None \/ i \in expired

\* The caller of a job that is done, and a request for a page the manifest
\* counts, find nothing only when what they look for has expired: the checks
\* of get_page_endpoint and _completed_job_payload are not outrun by a job
\* that rewrites the document between their two reads.
DoneIsReadable ==
    \A k \in Clients :
        /\ answer[k] = "no_page" => index[k] \in expired
        /\ answer[k] = "no_document" /\ k \in DocJobs => 0 \in expired
=============================================================================
