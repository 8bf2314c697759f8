---------------------------- MODULE ContentKeys ----------------------------
(***************************************************************************)
(* One source file, submitted several times while the API pods are         *)
(* upgraded or reconfigured one after the other.  A pod derives the        *)
(* document key and the page ranges from its own settings; the parts and   *)
(* the finished document are stored under that key, and jobs with the same *)
(* key overwrite each other's parts.  Which pages went into a text is all  *)
(* that is kept of it, so the worker's own settings play no part.          *)
(***************************************************************************)
EXTENDS Chunker

CONSTANTS
    ApiPods,
    KeyJobs,        \* submissions of the file
    Settings,       \* what a pod may be configured with
    PageCounts,     \* what page_count may answer
    NoJob

\* The settings that change the output.
Setting == [markitdown : STRING, model : STRING, pageSize : Nat \ {0},
            perChunk : Nat \ {0}, minPages : Int]

ASSUME SettingsAssumption == Settings \subseteq Setting
ASSUME PageCountsAssumption == PageCounts \subseteq Nat \cup {NotAPdf}

VARIABLES
    pageCount,      \* page_count of the file
    settings,       \* what each pod runs with
    job,            \* the key and the page ranges of each submission
    done,           \* the chunks converted for each job
    parts,          \* the stored parts, by key and chunk index
    joined,         \* the parts each job's assembly has read so far
    document        \* the stored documents, by key

keyVars == <<pageCount, settings, job, done, parts, joined, document>>

Put(f, k, v) == [x \in DOMAIN f \cup {k} |-> IF x = k THEN v ELSE f[x]]

KeyInit ==
    /\ pageCount \in PageCounts
    /\ settings \in {[p \in ApiPods |-> s] : s \in Settings}
    /\ job = [j \in KeyJobs |-> NoJob]
    /\ done = [j \in KeyJobs |-> {}]
    /\ parts = << >>
    /\ joined = [j \in KeyJobs |-> << >>]
    /\ document = << >>

\* A pod is replaced by one with other settings.
Upgrade(p) ==
    /\ \E s \in Settings : settings' = [settings EXCEPT ![p] = s]
    /\ UNCHANGED <<pageCount, job, done, parts, joined, document>>

\* A faulty config_fingerprint: the size of the chunks is not part of it.
config_fingerprint_NoChunkSize(s, llm) ==
    <<s.markitdown, IF llm THEN "llm" ELSE "nollm",
      IF llm THEN s.model ELSE "-", s.pageSize, s.minPages>>

\* SHA-256 is taken to be injective.
config_fingerprint(s, llm) ==
    <<s.markitdown, IF llm THEN "llm" ELSE "nollm",
      IF llm THEN s.model ELSE "-", s.pageSize, s.perChunk, s.minPages>>

\* submit; the hash of the file is the same for all jobs.
SubmitFile(a, j) ==
    /\ job[j] = NoJob
    /\ \E llm \in BOOLEAN :
           job' = [job EXCEPT ![j] =
                      [key |-> config_fingerprint(settings[a], llm),
                       plan |-> plan_chunks(pageCount, settings[a].perChunk,
                                            settings[a].minPages)]]
    /\ UNCHANGED <<pageCount, settings, done, parts, joined, document>>

\* The range comes with the message.
ConvertChunk(j) ==
    /\ job[j] # NoJob
    /\ \E i \in DOMAIN job[j].plan \ done[j] :
           /\ parts' = Put(parts, <<job[j].key, i>>,
                           extract_pages(pageCount, job[j].plan[i]))
           /\ done' = [done EXCEPT ![j] = @ \cup {i}]
    /\ UNCHANGED <<pageCount, settings, job, joined, document>>

\* assemble reads the parts in the order of their index.
JoinPart(j) ==
    /\ job[j] # NoJob
    /\ done[j] = DOMAIN job[j].plan
    /\ Len(joined[j]) < Len(job[j].plan)
    /\ joined' = [joined EXCEPT ![j] =
                     Append(@, parts[<<job[j].key, Len(joined[j]) + 1>>])]
    /\ UNCHANGED <<pageCount, settings, job, done, parts, document>>

Concat(texts) ==
    LET upTo[i \in 0 .. Len(texts)] ==
            IF i = 0 THEN << >> ELSE upTo[i - 1] \o texts[i]
    IN  upTo[Len(texts)]

\* ... and stores the document.
StoreDocument(j) ==
    /\ job[j] # NoJob
    /\ job[j].plan # << >>
    /\ Len(joined[j]) = Len(job[j].plan)
    /\ document' = Put(document, job[j].key, Concat(joined[j]))
    /\ UNCHANGED <<pageCount, settings, job, done, parts, joined>>

KeyNext ==
    \/ \E p \in ApiPods : Upgrade(p)
    \/ \E j \in KeyJobs :
           \/ \E a \in ApiPods : SubmitFile(a, j)
           \/ ConvertChunk(j) \/ JoinPart(j) \/ StoreDocument(j)

KeySpec == KeyInit /\ [][KeyNext]_keyVars

-----------------------------------------------------------------------------
\* plan_chunks partitions the pages of every PDF it splits, in order: whatever
\* the page count, the chunk size and the threshold, no page is converted
\* twice and none is left out.
PlanPartitions ==
    \A j \in KeyJobs :
        job[j] # NoJob /\ job[j].plan # <<WHOLE_FILE>> => Partitions(job[j].plan, pageCount)

\* Every stored document holds every page once, in order, though the jobs of
\* one key overwrite each other's parts and API pods with other settings plan
\* other ranges at the same time: the fingerprint keeps the parts of
\* different plans apart.
DocumentHasEveryPage ==
    \A k \in DOMAIN document :
        document[k] = extract_pages(pageCount, WHOLE_FILE)
=============================================================================
