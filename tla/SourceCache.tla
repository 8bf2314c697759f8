---------------------------- MODULE SourceCache ----------------------------
(***************************************************************************)
(* The workers' local cache of source files: fetch_source with             *)
(* storage.get_source, prune_source_cache, and convert_range's use of the  *)
(* file.  Worker processes on one host share the directory.                *)
(*                                                                         *)
(* A file has a name, which is the hash of a source or a temporary name,   *)
(* the time of its last access, its size, and whether its contents are     *)
(* complete.  A system call is a step; listing the directory with its      *)
(* stats is one step.  Time is counted in chunks received.                 *)
(***************************************************************************)
EXTENDS Integers, FiniteSets, FiniteSetsExt, Functions

CONSTANTS
    Procs,          \* worker processes sharing SOURCE_CACHE_DIR
    Hashes,         \* source files
    SizeOf,         \* and their sizes
    CacheBytes,     \* config.SOURCE_CACHE_MAX_BYTES
    MaxReceived,    \* bound: chunks received in all
    MaxCrashes      \* bound: processes that die

\* MAX_DOWNLOAD_BYTES keeps every source far below the budget.
ASSUME SizesAssumption ==
    /\ Hashes # {} /\ SizeOf \in [Hashes -> Nat] /\ CacheBytes \in Nat
    /\ \A h \in Hashes : SizeOf[h] <= CacheBytes
ASSUME CacheBoundsAssumption == MaxReceived \in Nat /\ MaxCrashes \in Nat

VARIABLES
    step,           \* where each process is
    want,           \* the source each process is fetching
    temp,           \* the temporary name it has made
    files,          \* the directory
    seen,           \* prune's entries: what the directory held
    clock, crashes,
    lastUse,        \* history: when each source was last found or made
    fetchers        \* history: the processes that have used the directory

cacheVars == <<step, want, temp, files, seen, clock, crashes, lastUse, fetchers>>

\* mkstemp makes a name nobody has: a process makes at most one per tick.
TempNames == Procs \X (1 .. MaxReceived)
ASSUME TempNamesAssumption == Hashes \cap TempNames = {}

File == [atime : Nat, size : Nat, whole : BOOLEAN]
Steps == {"idle", "exists", "utime", "download", "replace", "list", "prune", "use"}

CacheInit ==
    /\ step = [p \in Procs |-> "idle"]
    /\ want \in [Procs -> {CHOOSE h \in Hashes : TRUE}]
    /\ temp = [p \in Procs |-> <<p, 1>>]
    /\ files = << >>
    /\ seen = [p \in Procs |-> << >>]
    /\ clock = 0 /\ crashes = 0
    /\ lastUse = [h \in Hashes |-> 0]
    /\ fetchers = {}

-----------------------------------------------------------------------------
GoTo(p, s) == step' = [step EXCEPT ![p] = s]

Without(dir, n) == Restrict(dir, DOMAIN dir \ {n})
With(dir, n, f) == [m \in DOMAIN dir \cup {n} |-> IF m = n THEN f ELSE dir[m]]
TotalSize(dir) == MapThenSumSet(LAMBDA n : dir[n].size, DOMAIN dir)

\* handle reaches convert_range.
Receive(p) ==
    /\ step[p] = "idle" /\ clock < MaxReceived
    /\ \E h \in Hashes : want' = [want EXCEPT ![p] = h]
    /\ clock' = clock + 1
    /\ fetchers' = fetchers \cup {p}
    /\ GoTo(p, "exists")
    /\ UNCHANGED <<temp, files, seen, crashes, lastUse>>

Uses(p) == lastUse' = [lastUse EXCEPT ![want[p]] = clock]

CacheHit(p) ==
    /\ step[p] = "exists" /\ want[p] \in DOMAIN files
    /\ GoTo(p, "utime")
    /\ UNCHANGED <<want, temp, files, seen, clock, crashes, fetchers, lastUse>>

\* A faulty fetch_source: a hit does not count as a use.
Touch_Missing(p) ==
    /\ step[p] = "utime"
    /\ GoTo(p, "use")
    /\ Uses(p)
    /\ UNCHANGED <<want, temp, files, seen, clock, crashes, fetchers>>

\* os.utime, which raises when the file has been evicted since.
Touch(p) ==
    /\ step[p] = "utime"
    /\ IF want[p] \in DOMAIN files
       THEN /\ files' = [files EXCEPT ![want[p]].atime = clock]
            /\ GoTo(p, "use")
            /\ Uses(p)
       ELSE GoTo(p, "idle") /\ UNCHANGED <<files, lastUse>>
    /\ UNCHANGED <<want, temp, seen, clock, crashes, fetchers>>

\* A faulty fetch_source: it downloads straight to the cached name.
CacheMiss_InPlace(p) ==
    /\ step[p] = "exists" /\ want[p] \notin DOMAIN files
    /\ \E size \in 0 .. SizeOf[want[p]] :
           files' = With(files, want[p], [atime |-> clock, size |-> size, whole |-> FALSE])
    /\ temp' = [temp EXCEPT ![p] = <<p, clock>>]
    /\ GoTo(p, "download")
    /\ UNCHANGED <<want, seen, clock, crashes, fetchers, lastUse>>

\* mkstemp, and the download begins; size is how far it gets before anyone
\* looks.
CacheMiss(p) ==
    /\ step[p] = "exists" /\ want[p] \notin DOMAIN files
    /\ \E size \in 0 .. SizeOf[want[p]] :
           files' = With(files, <<p, clock>>,
                         [atime |-> clock, size |-> size, whole |-> FALSE])
    /\ temp' = [temp EXCEPT ![p] = <<p, clock>>]
    /\ GoTo(p, "download")
    /\ UNCHANGED <<want, seen, clock, crashes, fetchers, lastUse>>

\* get_source ends.  The client downloads beside its destination and renames,
\* so the file is there again even if another process evicted it meanwhile.
Downloaded(p) ==
    /\ step[p] = "download"
    /\ \E a \in {clock} \cup {files[n].atime : n \in DOMAIN files \cap {temp[p]}} :
           files' = With(files, temp[p],
                         [atime |-> a, size |-> SizeOf[want[p]], whole |-> TRUE])
    /\ GoTo(p, "replace")
    /\ UNCHANGED <<want, temp, seen, clock, crashes, fetchers, lastUse>>

\* A faulty fetch_source: the temporary file stays.
DownloadFails_Leak(p) ==
    /\ step[p] = "download"
    /\ GoTo(p, "idle")
    /\ UNCHANGED <<want, temp, files, seen, clock, crashes, fetchers, lastUse>>

\* get_source raises, and the temporary file goes.
DownloadFails(p) ==
    /\ step[p] = "download"
    /\ files' = Without(files, temp[p])
    /\ GoTo(p, "idle")
    /\ UNCHANGED <<want, temp, seen, clock, crashes, fetchers, lastUse>>

\* os.replace, which raises when the temporary file has been evicted.
Replace(p) ==
    /\ step[p] = "replace"
    /\ IF temp[p] \in DOMAIN files
       THEN /\ files' = With(Without(files, temp[p]), want[p], files[temp[p]])
            /\ GoTo(p, "list")
            /\ Uses(p)
       ELSE GoTo(p, "idle") /\ UNCHANGED <<files, lastUse>>
    /\ UNCHANGED <<want, temp, seen, clock, crashes, fetchers>>

-----------------------------------------------------------------------------
(***************************************************************************)
(* prune_source_cache.  seen shrinks as entries are removed, so its size   *)
(* is the code's running total; it goes when prune returns.                *)
(***************************************************************************)
List(p) ==
    /\ step[p] = "list"
    /\ seen' = [seen EXCEPT ![p] = files]
    /\ GoTo(p, "prune")
    /\ UNCHANGED <<want, temp, files, clock, crashes, fetchers, lastUse>>

\* The entries the sort may put first.
Victims(p) ==
    {n \in DOMAIN seen[p] :
        \A m \in DOMAIN seen[p] : seen[p][n].atime <= seen[p][m].atime}

\* A faulty prune: its limit is off by one.
OverBudget_OneMore(p) == TotalSize(seen[p]) > CacheBytes + 1

\* A faulty prune: it does not stop when the rest fits.
OverBudget_NeverStops(p) == DOMAIN seen[p] # {}

OverBudget(p) == TotalSize(seen[p]) > CacheBytes

Forget(p) == seen' = [seen EXCEPT ![p] = << >>]

\* os.remove, which raises when another process was faster: prune gives up.
Evict(p) ==
    /\ step[p] = "prune" /\ OverBudget(p)
    /\ \E n \in Victims(p) :
           IF n \in DOMAIN files
           THEN /\ files' = Without(files, n)
                /\ seen' = [seen EXCEPT ![p] = Without(@, n)]
                /\ UNCHANGED step
           ELSE GoTo(p, "use") /\ Forget(p) /\ UNCHANGED files
    /\ UNCHANGED <<want, temp, clock, crashes, fetchers, lastUse>>

Pruned(p) ==
    /\ step[p] = "prune" /\ ~ OverBudget(p)
    /\ GoTo(p, "use")
    /\ Forget(p)
    /\ UNCHANGED <<want, temp, files, clock, crashes, fetchers, lastUse>>

-----------------------------------------------------------------------------
\* extract_pages or convert_file opens the source; if it has been evicted the
\* chunk fails and is retried.
Use(p) ==
    /\ step[p] = "use"
    /\ GoTo(p, "idle")
    /\ UNCHANGED <<want, temp, files, seen, clock, crashes, fetchers, lastUse>>

\* The process dies and leaves what it was downloading.
Die(p) ==
    /\ step[p] # "idle" /\ crashes < MaxCrashes
    /\ crashes' = crashes + 1
    /\ GoTo(p, "idle")
    /\ Forget(p)
    /\ UNCHANGED <<want, temp, files, clock, lastUse, fetchers>>

CacheNext ==
    \E p \in Procs :
        \/ Receive(p) \/ CacheHit(p) \/ Touch(p) \/ CacheMiss(p) \/ Downloaded(p)
        \/ DownloadFails(p) \/ Replace(p) \/ List(p) \/ Evict(p) \/ Pruned(p)
        \/ Use(p) \/ Die(p)

CacheSpec == CacheInit /\ [][CacheNext]_cacheVars

-----------------------------------------------------------------------------
\* "A crashed download cannot leave a truncated file that later looks like a
\* valid cache hit": what has the name of a source is complete, whoever
\* downloads, prunes or dies next to it.
CachedIsWhole ==
    \A h \in Hashes \cap DOMAIN files : files[h].whole /\ files[h].size = SizeOf[h]

\* Failed downloads, hits and evictions leave no temporary file behind: there
\* is at most one for each process that died.
LitterOnlyFromCrashes ==
    Cardinality({n \in TempNames \cap DOMAIN files :
                     \A p \in Procs : temp[p] = n => step[p] \notin {"download", "replace"}})
    <= crashes

\* Only p has used the directory so far.
Alone(p) == fetchers = {p}

\* A process that has the directory to itself finds the file it has fetched
\* when it opens it: prune has not evicted it, whatever earlier downloads,
\* crashes and partial files have left behind.
FetchedIsThere ==
    \A p \in Procs : Alone(p) /\ step[p] = "use" => want[p] \in DOMAIN files

\* Nor does such a process evict a source while one that was used less
\* recently stays: hits count as uses.
EvictsLeastRecent ==
    [][\A p \in Procs : Alone(p) => \A h, k \in Hashes :
           h \in DOMAIN files /\ h \notin DOMAIN files' /\ k \in DOMAIN files'
           => lastUse[h] <= lastUse[k]]_cacheVars

\* "Until the cache fits in its budget": it does after every prune of such a
\* process, the leavings of crashed downloads included.
PrunedFits ==
    [][\A p \in Procs : Alone(p) /\ step[p] = "prune" /\ step'[p] = "use"
           => TotalSize(files') <= CacheBytes]_cacheVars
=============================================================================
