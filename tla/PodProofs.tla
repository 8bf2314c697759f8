----------------------------- MODULE PodProofs -----------------------------
(***************************************************************************)
(* What one pod keeps right by itself, for any number of processes,        *)
(* sources, requests and crashes: a worker's cache of source files, an API *)
(* pod's handling of a submission, and its readiness probe.                *)
(***************************************************************************)
EXTENDS SourceCache, Submission, Readiness, FiniteSetTheorems, WellFoundedInduction, TLAPS

-----------------------------------------------------------------------------
(***************************************************************************)
(* The cache.  A file gets the name of a source only by os.replace, from   *)
(* the temporary file of the process that fetches that source, which is    *)
(* complete by then and which no other process writes to.                  *)
(***************************************************************************)
Fetching(p) == step[p] \in {"download", "replace"}

FetchInv ==
    /\ DOMAIN step = Procs /\ DOMAIN temp = Procs /\ want \in [Procs -> Hashes]
    /\ clock \in 0 .. MaxReceived
    /\ \A p \in Procs : step[p] = "exists" => clock > 0
    /\ files = [n \in DOMAIN files |-> files[n]]
    /\ \A n \in DOMAIN files : files[n] \in File
    /\ \A p \in Procs : Fetching(p) => temp[p] \in TempNames /\ temp[p][1] = p
    /\ \A p \in Procs : step[p] = "replace" /\ temp[p] \in DOMAIN files =>
           files[temp[p]].whole /\ files[temp[p]].size = SizeOf[want[p]]
    /\ CachedIsWhole

LEMMA FetchInit == CacheInit => FetchInv
<1> SUFFICES ASSUME CacheInit PROVE FetchInv
  OBVIOUS
<1>1. want \in [Procs -> Hashes]
  BY SizesAssumption DEF CacheInit
<1> QED  BY <1>1, CacheBoundsAssumption DEF CacheInit, FetchInv, Fetching, CachedIsWhole

\* A step that writes no file, moves only p, and not to a download or to os.replace.
LEMMA QuietStep ==
    ASSUME FetchInv, NEW p \in Procs, NEW s \in Steps \ {"download", "replace", "exists"},
           GoTo(p, s), UNCHANGED <<want, temp, files, clock>>
    PROVE  FetchInv'
  BY DEF FetchInv, Fetching, CachedIsWhole, GoTo

LEMMA FetchNext == FetchInv /\ [CacheNext]_cacheVars => FetchInv'
<1> SUFFICES ASSUME FetchInv, [CacheNext]_cacheVars PROVE FetchInv'
  OBVIOUS
<1>1. ASSUME NEW p \in Procs, Receive(p) PROVE FetchInv'
  <2>1. /\ temp' = temp /\ files' = files /\ clock' = clock + 1 /\ clock < MaxReceived
        /\ step' = [step EXCEPT ![p] = "exists"] /\ step[p] = "idle"
    BY <1>1 DEF Receive, GoTo
  <2>2. want' \in [Procs -> Hashes] /\ \A q \in Procs \ {p} : want'[q] = want[q]
    BY <1>1 DEF Receive, FetchInv
  <2>3. clock' \in 0 .. MaxReceived /\ clock' > 0
    BY <2>1, CacheBoundsAssumption DEF FetchInv
  <2>4. \A q \in Procs : Fetching(q)' => Fetching(q) /\ q # p
    BY <2>1 DEF FetchInv, Fetching
  <2>5. \A q \in Procs : step'[q] = "replace" => step[q] = "replace" /\ q # p
    BY <2>1 DEF FetchInv
  <2>6. CachedIsWhole'
    BY <2>1 DEF FetchInv, CachedIsWhole
  <2> QED  BY <2>1, <2>2, <2>3, <2>4, <2>5, <2>6, Zenon DEF FetchInv
<1>2. ASSUME NEW p \in Procs, CacheHit(p) PROVE FetchInv'
  BY <1>2, QuietStep DEF CacheHit, Steps
<1>3. ASSUME NEW p \in Procs, Touch(p) PROVE FetchInv'
  <2>1. CASE want[p] \in DOMAIN files
    <3> DEFINE h == want[p]
    <3>1. /\ files' = [files EXCEPT ![h].atime = clock]
          /\ step' = [step EXCEPT ![p] = "use"]
          /\ want' = want /\ temp' = temp /\ clock' = clock
      BY <1>3, <2>1 DEF Touch, GoTo
    <3>2. h \in Hashes /\ clock \in Nat /\ files[h] \in File
      BY <2>1, CacheBoundsAssumption DEF FetchInv
    <3>3. DOMAIN files' = DOMAIN files /\ files' = [n \in DOMAIN files' |-> files'[n]]
      BY <3>1, Zenon
    <3>4. /\ files'[h] = [files[h] EXCEPT !.atime = clock]
          /\ \A n \in DOMAIN files \ {h} : files'[n] = files[n]
      BY <2>1, <3>1
    <3>5. files'[h] \in File /\ files'[h].whole = files[h].whole
          /\ files'[h].size = files[h].size
      BY <3>2, <3>4 DEF File
    <3>6. \A n \in DOMAIN files' : /\ files'[n] \in File
                                   /\ files'[n].whole = files[n].whole
                                   /\ files'[n].size = files[n].size
      BY <3>3, <3>4, <3>5, Zenon DEF FetchInv
    <3>7. /\ DOMAIN step' = Procs
          /\ \A q \in Procs : /\ Fetching(q)' => Fetching(q)
                              /\ step'[q] = "replace" => step[q] = "replace"
                              /\ step'[q] = "exists" => step[q] = "exists"
      BY <3>1 DEF FetchInv, Fetching
    <3> HIDE DEF h
    <3>8. CachedIsWhole'
      BY <3>3, <3>6 DEF FetchInv, CachedIsWhole
    <3>9. ASSUME NEW q \in Procs, step'[q] = "replace", temp'[q] \in DOMAIN files'
          PROVE  files'[temp'[q]].whole /\ files'[temp'[q]].size = SizeOf[want'[q]]
      <4>1. step[q] = "replace" /\ temp'[q] = temp[q] /\ temp[q] \in DOMAIN files
        BY <3>1, <3>3, <3>7, <3>9
      <4>2. files[temp[q]].whole /\ files[temp[q]].size = SizeOf[want[q]]
        BY <4>1 DEF FetchInv
      <4> QED  BY <3>1, <3>3, <3>6, <4>1, <4>2
    <3> QED  BY <3>1, <3>3, <3>6, <3>7, <3>8, <3>9 DEF FetchInv
  <2>2. CASE want[p] \notin DOMAIN files
    BY <1>3, <2>2, QuietStep DEF Touch, Steps
  <2> QED  BY <2>1, <2>2
<1>4. ASSUME NEW p \in Procs, CacheMiss(p) PROVE FetchInv'
  <2>1. PICK size \in 0 .. SizeOf[want[p]] :
            files' = With(files, <<p, clock>>,
                          [atime |-> clock, size |-> size, whole |-> FALSE])
    BY <1>4, Zenon DEF CacheMiss
  <2>2. /\ temp' = [temp EXCEPT ![p] = <<p, clock>>]
        /\ step' = [step EXCEPT ![p] = "download"]
        /\ want' = want /\ clock' = clock /\ step[p] = "exists"
    BY <1>4 DEF CacheMiss, GoTo
  <2> DEFINE f == [atime |-> clock, size |-> size, whole |-> FALSE]
  <2>3. <<p, clock>> \in TempNames /\ <<p, clock>> \notin Hashes
    BY <2>2, CacheBoundsAssumption, TempNamesAssumption DEF FetchInv, TempNames
  <2>4. f \in File
    <3>1. SizeOf[want[p]] \in Nat /\ clock \in Nat
      BY SizesAssumption, CacheBoundsAssumption DEF FetchInv
    <3>2. size \in Nat
      BY <3>1
    <3> QED  BY <3>1, <3>2 DEF File
  <2>5. /\ DOMAIN files' = DOMAIN files \cup {<<p, clock>>} /\ files'[<<p, clock>>] = f
        /\ \A m \in DOMAIN files \ {<<p, clock>>} : files'[m] = files[m]
        /\ files' = [m \in DOMAIN files' |-> files'[m]]
    BY <2>1 DEF With
  <2> HIDE DEF f
  <2>6. \A n \in DOMAIN files' : files'[n] \in File
    BY <2>4, <2>5 DEF FetchInv
  <2>7. CachedIsWhole'
    BY <2>3, <2>5 DEF FetchInv, CachedIsWhole
  <2>8. ASSUME NEW q \in Procs, Fetching(q)'
        PROVE  /\ temp'[q] \in TempNames /\ temp'[q][1] = q
               /\ step'[q] = "replace" =>
                      /\ q # p /\ step[q] = "replace"
                      /\ temp'[q] = temp[q] /\ temp[q] # <<p, clock>>
    <3>1. CASE q = p
      BY <2>2, <2>3, <3>1 DEF FetchInv
    <3>2. CASE q # p
      <4>1. temp'[q] = temp[q] /\ step'[q] = step[q]
        BY <2>2, <3>2 DEF FetchInv
      <4>2. Fetching(q)
        BY <2>8, <4>1 DEF Fetching
      <4> QED  BY <3>2, <4>1, <4>2 DEF FetchInv
    <3> QED  BY <3>1, <3>2
  <2>9. ASSUME NEW q \in Procs, step'[q] = "replace", temp'[q] \in DOMAIN files'
        PROVE  files'[temp'[q]].whole /\ files'[temp'[q]].size = SizeOf[want'[q]]
    <3>1. Fetching(q)'
      BY <2>9 DEF Fetching
    <3> QED  BY <2>2, <2>5, <2>8, <2>9, <3>1 DEF FetchInv
  <2>10. DOMAIN step' = Procs /\ DOMAIN temp' = Procs
         /\ \A q \in Procs : step'[q] = "exists" => step[q] = "exists"
    BY <2>2 DEF FetchInv
  <2> QED  BY <2>2, <2>5, <2>6, <2>7, <2>8, <2>9, <2>10 DEF FetchInv
<1>5. ASSUME NEW p \in Procs, Downloaded(p) PROVE FetchInv'
  <2> DEFINE n == temp[p]
  <2>1. n \in TempNames /\ n[1] = p /\ n \notin Hashes
    BY <1>5, TempNamesAssumption DEF Downloaded, FetchInv, Fetching
  <2>2. PICK a \in {clock} \cup {files[m].atime : m \in DOMAIN files \cap {n}} :
            files' = With(files, n,
                          [atime |-> a, size |-> SizeOf[want[p]], whole |-> TRUE])
    BY <1>5, Zenon DEF Downloaded
  <2>3. /\ step' = [step EXCEPT ![p] = "replace"] /\ step[p] = "download"
        /\ want' = want /\ clock' = clock /\ temp' = temp
    BY <1>5 DEF Downloaded, GoTo
  <2> DEFINE f == [atime |-> a, size |-> SizeOf[want[p]], whole |-> TRUE]
  <2>4. f \in File
    <3>1. a \in Nat
      <4>1. \A m \in DOMAIN files : files[m].atime \in Nat
        BY DEF FetchInv, File
      <4> QED  BY <4>1, CacheBoundsAssumption DEF FetchInv
    <3>2. SizeOf[want[p]] \in Nat
      BY SizesAssumption DEF FetchInv
    <3> QED  BY <3>1, <3>2 DEF File
  <2>5. /\ DOMAIN files' = DOMAIN files \cup {n} /\ files'[n] = f
        /\ \A m \in DOMAIN files \ {n} : files'[m] = files[m]
        /\ files' = [m \in DOMAIN files' |-> files'[m]]
    BY <2>2 DEF With
  <2>6. f.whole /\ f.size = SizeOf[want[p]]
    OBVIOUS
  <2> HIDE DEF f, n
  <2>7. \A m \in DOMAIN files' : files'[m] \in File
    BY <2>4, <2>5 DEF FetchInv
  <2>8. CachedIsWhole'
    BY <2>1, <2>5 DEF FetchInv, CachedIsWhole
  <2>9. ASSUME NEW q \in Procs, step'[q] = "replace", temp[q] \in DOMAIN files'
        PROVE  files'[temp[q]].whole /\ files'[temp[q]].size = SizeOf[want[q]]
    <3>1. CASE q = p
      BY <2>5, <2>6, <3>1 DEF n
    <3>2. CASE q # p
      <4>1. step[q] = "replace"
        BY <2>3, <2>9, <3>2 DEF FetchInv
      <4>2. temp[q] # n
        BY <2>1, <3>2, <4>1 DEF FetchInv, Fetching
      <4> QED  BY <2>5, <2>9, <4>1, <4>2 DEF FetchInv
    <3> QED  BY <3>1, <3>2
  <2>10. /\ DOMAIN step' = Procs
         /\ \A q \in Procs : /\ Fetching(q)' => Fetching(q)
                             /\ step'[q] = "exists" => step[q] = "exists"
    BY <2>3 DEF FetchInv, Fetching
  <2> QED  BY <2>3, <2>5, <2>7, <2>8, <2>9, <2>10 DEF FetchInv
<1>6. ASSUME NEW p \in Procs, NEW n, files' = Without(files, n),
             DOMAIN step' = Procs, UNCHANGED <<want, temp, clock>>,
             \A q \in Procs : step'[q] = step[q] \/ step'[q] = "idle"
      PROVE  FetchInv'
  <2>1. /\ DOMAIN files' = DOMAIN files \ {n}
        /\ \A m \in DOMAIN files' : files'[m] = files[m]
        /\ files' = [m \in DOMAIN files' |-> files'[m]]
    BY <1>6 DEF Without, Restrict
  <2>2. CachedIsWhole'
    BY <2>1 DEF FetchInv, CachedIsWhole
  <2>3. \A q \in Procs : /\ Fetching(q)' => Fetching(q)
                         /\ step'[q] = "exists" => step[q] = "exists"
                         /\ step'[q] = "replace" => step[q] = "replace"
    BY <1>6 DEF Fetching
  <2> QED  BY <1>6, <2>1, <2>2, <2>3 DEF FetchInv
<1>7. ASSUME NEW p \in Procs, DownloadFails(p) PROVE FetchInv'
  BY <1>6, <1>7 DEF DownloadFails, GoTo, FetchInv
<1>8. ASSUME NEW p \in Procs, Replace(p) PROVE FetchInv'
  <2>1. CASE temp[p] \in DOMAIN files
    <3> DEFINE n == temp[p]
               h == want[p]
               without == Without(files, n)
    <3>1. /\ files' = With(without, h, files[n]) /\ step' = [step EXCEPT ![p] = "list"]
          /\ want' = want /\ temp' = temp /\ clock' = clock /\ step[p] = "replace"
      BY <1>8, <2>1 DEF Replace, GoTo
    <3>2. /\ n \in TempNames /\ n[1] = p /\ n \notin Hashes /\ h \in Hashes
          /\ files[n] \in File /\ files[n].whole /\ files[n].size = SizeOf[h]
      BY <2>1, <3>1, TempNamesAssumption DEF FetchInv, Fetching
    <3>3. /\ DOMAIN without = DOMAIN files \ {n}
          /\ \A m \in DOMAIN files \ {n} : without[m] = files[m]
      BY DEF Without, Restrict
    <3> HIDE DEF n, h, without
    <3>4. /\ DOMAIN files' = (DOMAIN files \ {n}) \cup {h} /\ files'[h] = files[n]
          /\ \A m \in DOMAIN files \ {n, h} : files'[m] = files[m]
          /\ files' = [m \in DOMAIN files' |-> files'[m]]
      BY <3>1, <3>3 DEF With
    <3>5. \A m \in DOMAIN files' : files'[m] \in File
      BY <3>2, <3>4 DEF FetchInv
    <3>6. CachedIsWhole'
      BY <3>2, <3>4 DEF FetchInv, CachedIsWhole
    <3>7. ASSUME NEW q \in Procs, step'[q] = "replace", temp[q] \in DOMAIN files'
          PROVE  files'[temp[q]].whole /\ files'[temp[q]].size = SizeOf[want[q]]
      <4>1. q # p /\ step[q] = "replace"
        BY <3>1, <3>7 DEF FetchInv
      <4>2. temp[q] \in TempNames /\ temp[q][1] = q
        BY <4>1 DEF FetchInv, Fetching
      <4>3. temp[q] # h /\ temp[q] # n
        BY <3>2, <4>1, <4>2, TempNamesAssumption
      <4> QED  BY <3>4, <3>7, <4>1, <4>3 DEF FetchInv
    <3>8. /\ DOMAIN step' = Procs
          /\ \A q \in Procs : /\ Fetching(q)' => Fetching(q)
                              /\ step'[q] = "exists" => step[q] = "exists"
      BY <3>1 DEF FetchInv, Fetching
    <3> QED  BY <3>1, <3>4, <3>5, <3>6, <3>7, <3>8 DEF FetchInv
  <2>2. CASE temp[p] \notin DOMAIN files
    BY <1>8, <2>2, QuietStep DEF Replace, Steps
  <2> QED  BY <2>1, <2>2
<1>9. ASSUME NEW p \in Procs, List(p) PROVE FetchInv'
  BY <1>9, QuietStep DEF List, Steps
<1>10. ASSUME NEW p \in Procs, Evict(p) PROVE FetchInv'
  <2>1. PICK n \in Victims(p) :
            IF n \in DOMAIN files
            THEN files' = Without(files, n) /\ step' = step
            ELSE GoTo(p, "use") /\ files' = files
    BY <1>10 DEF Evict
  <2>2. UNCHANGED <<want, temp, clock>>
    BY <1>10 DEF Evict
  <2>3. CASE n \in DOMAIN files
    BY <1>6, <2>1, <2>2, <2>3 DEF FetchInv
  <2>4. CASE n \notin DOMAIN files
    BY <2>1, <2>2, <2>4, QuietStep DEF Steps
  <2> QED  BY <2>3, <2>4
<1>11. ASSUME NEW p \in Procs, Pruned(p) \/ Use(p) \/ Die(p) PROVE FetchInv'
  BY <1>11, QuietStep DEF Pruned, Use, Die, Steps
<1>12. CASE UNCHANGED cacheVars
  BY <1>12 DEF cacheVars, FetchInv, Fetching, CachedIsWhole
<1> QED
  BY <1>1, <1>2, <1>3, <1>4, <1>5, <1>7, <1>8, <1>9, <1>10, <1>11, <1>12 DEF CacheNext

\* What is found under the hash of a source is the whole source, for any
\* number of worker processes that share the directory, prune it and die.
THEOREM CachedIsWholeHolds == CacheSpec => []CachedIsWhole
<1>1. FetchInv => CachedIsWhole
  BY DEF FetchInv
<1> QED  BY <1>1, FetchInit, FetchNext, PTL DEF CacheSpec

\* A directory with one more file, and with one less.
LEMMA WithFacts ==
    ASSUME NEW dir, NEW n, NEW f
    PROVE  /\ DOMAIN With(dir, n, f) = DOMAIN dir \cup {n}
           /\ With(dir, n, f)[n] = f
           /\ \A m \in DOMAIN dir \ {n} : With(dir, n, f)[m] = dir[m]
  BY DEF With

LEMMA WithoutFacts ==
    ASSUME NEW dir, NEW n
    PROVE  /\ DOMAIN Without(dir, n) = DOMAIN dir \ {n}
           /\ \A m \in DOMAIN dir \ {n} : Without(dir, n)[m] = dir[m]
  BY DEF Without, Restrict

-----------------------------------------------------------------------------
(***************************************************************************)
(* What is left behind.  Only a death turns the temporary file of a        *)
(* download into litter, and one at most.                                  *)
(***************************************************************************)
Litter == {n \in TempNames \cap DOMAIN files :
               \A p \in Procs : temp[p] = n => step[p] \notin {"download", "replace"}}

LitterInv == crashes \in Nat /\ IsFiniteSet(Litter) /\ Cardinality(Litter) <= crashes

\* A step that makes no litter and counts no crash.
LEMMA LitterShrinks ==
    ASSUME LitterInv, crashes' = crashes, Litter' \subseteq Litter
    PROVE  LitterInv'
<1>1. IsFiniteSet(Litter') /\ Cardinality(Litter') <= Cardinality(Litter)
  BY FS_Subset DEF LitterInv
<1>2. Cardinality(Litter') \in Nat /\ Cardinality(Litter) \in Nat
  BY <1>1, FS_CardinalityType DEF LitterInv
<1> HIDE DEF Litter
<1> QED  BY <1>1, <1>2 DEF LitterInv

\* One step per action.  Every other end of a download removes its file, renames
\* it or finds it evicted.
LEMMA LitterNext == FetchInv /\ LitterInv /\ [CacheNext]_cacheVars => LitterInv'
<1> SUFFICES ASSUME FetchInv, LitterInv, [CacheNext]_cacheVars PROVE LitterInv'
  OBVIOUS
<1>1. ASSUME NEW p \in Procs, temp' = temp, crashes' = crashes,
             \A q \in Procs : Fetching(q) => Fetching(q)' \/ temp[q] \notin DOMAIN files',
             DOMAIN files' \subseteq DOMAIN files \cup {n \in {temp[p]} : Fetching(p)'}
      PROVE  LitterInv'
  <2>1. Litter' \subseteq Litter
    BY <1>1 DEF Litter, Fetching
  <2> QED  BY <1>1, <2>1, LitterShrinks
<1>2. ASSUME NEW p \in Procs, temp' = temp, crashes' = crashes, DOMAIN files' \subseteq DOMAIN files,
             ~ Fetching(p), \A q \in Procs \ {p} : step'[q] = step[q]
      PROVE  LitterInv'
  <2>1. \A q \in Procs : Fetching(q) => Fetching(q)'
    BY <1>2 DEF Fetching
  <2> QED  BY <1>1, <1>2, <2>1
<1>3. ASSUME NEW p \in Procs, Receive(p) \/ CacheHit(p) \/ List(p) \/ Pruned(p) \/ Use(p)
      PROVE  LitterInv'
  <2>1. /\ temp' = temp /\ crashes' = crashes /\ files' = files
        /\ \A q \in Procs \ {p} : step'[q] = step[q]
    BY <1>3 DEF Receive, CacheHit, List, Pruned, Use, GoTo, FetchInv
  <2>2. ~ Fetching(p)
    BY <1>3 DEF Receive, CacheHit, List, Pruned, Use, Fetching
  <2> QED  BY <1>2, <2>1, <2>2
<1>4. ASSUME NEW p \in Procs, Touch(p) PROVE LitterInv'
  <2>1. /\ temp' = temp /\ crashes' = crashes /\ ~ Fetching(p)
        /\ \A q \in Procs \ {p} : step'[q] = step[q]
    BY <1>4 DEF Touch, Fetching, GoTo, FetchInv
  <2>2. DOMAIN files' = DOMAIN files
    BY <1>4 DEF Touch
  <2> QED  BY <1>2, <2>1, <2>2
<1>5. ASSUME NEW p \in Procs, CacheMiss(p) PROVE LitterInv'
  <2>1. /\ DOMAIN files' = DOMAIN files \cup {<<p, clock>>}
        /\ temp' = [temp EXCEPT ![p] = <<p, clock>>]
        /\ step' = [step EXCEPT ![p] = "download"]
        /\ crashes' = crashes /\ step[p] = "exists"
    BY <1>5, WithFacts, Zenon DEF CacheMiss, GoTo
  <2>2. temp'[p] = <<p, clock>> /\ step'[p] = "download"
    BY <2>1 DEF FetchInv
  <2>3. \A q \in Procs \ {p} : temp'[q] = temp[q] /\ step'[q] = step[q]
    BY <2>1 DEF FetchInv
  <2>4. ASSUME NEW n \in Litter' PROVE n \in Litter
    <3>1. n # <<p, clock>>
      BY <2>2, <2>4 DEF Litter
    <3>2. n \in TempNames \cap DOMAIN files
      BY <2>1, <2>4, <3>1 DEF Litter
    <3>3. ASSUME NEW q \in Procs, temp[q] = n PROVE step[q] \notin {"download", "replace"}
      BY <2>1, <2>3, <2>4, <3>3 DEF Litter
    <3> QED  BY <3>2, <3>3 DEF Litter
  <2> QED  BY <2>1, <2>4, LitterShrinks
<1>6. ASSUME NEW p \in Procs, Downloaded(p) PROVE LitterInv'
  <2>1. /\ DOMAIN files' = DOMAIN files \cup {temp[p]} /\ temp' = temp /\ crashes' = crashes
        /\ step' = [step EXCEPT ![p] = "replace"]
    BY <1>6 DEF Downloaded, GoTo, With
  <2>2. Fetching(p)' /\ \A q \in Procs : Fetching(q) => Fetching(q)'
    BY <2>1 DEF FetchInv, Fetching
  <2> QED  BY <1>1, <2>1, <2>2
<1>7. ASSUME NEW p \in Procs, DownloadFails(p) PROVE LitterInv'
  <2>1. /\ DOMAIN files' = DOMAIN files \ {temp[p]} /\ temp' = temp /\ crashes' = crashes
        /\ step' = [step EXCEPT ![p] = "idle"]
    BY <1>7, WithoutFacts, Zenon DEF DownloadFails, GoTo
  <2>2. \A q \in Procs : Fetching(q) => Fetching(q)' \/ temp[q] \notin DOMAIN files'
    BY <2>1 DEF FetchInv, Fetching
  <2> QED  BY <1>1, <2>1, <2>2
<1>8. ASSUME NEW p \in Procs, Replace(p) PROVE LitterInv'
  <2>1. temp' = temp /\ crashes' = crashes /\ step[p] = "replace"
        /\ \E s : step' = [step EXCEPT ![p] = s]
    BY <1>8 DEF Replace, GoTo
  <2>2. temp[p] \in TempNames /\ want[p] \in Hashes
    BY <2>1 DEF FetchInv, Fetching
  <2>3. temp[p] \notin DOMAIN files' /\ DOMAIN files' \subseteq DOMAIN files \cup {want[p]}
    <3>1. CASE temp[p] \in DOMAIN files
      <4> DEFINE rest == Without(files, temp[p])
      <4>1. files' = With(rest, want[p], files[temp[p]])
        BY <1>8, <3>1 DEF Replace
      <4>2. DOMAIN rest = DOMAIN files \ {temp[p]}
        BY WithoutFacts, Zenon
      <4> HIDE DEF rest
      <4>3. DOMAIN files' = (DOMAIN files \ {temp[p]}) \cup {want[p]}
        BY <4>1, <4>2 DEF With
      <4> QED  BY <2>2, <4>3, TempNamesAssumption
    <3>2. CASE temp[p] \notin DOMAIN files
      BY <1>8, <3>2 DEF Replace
    <3> QED  BY <3>1, <3>2
  <2>4. \A q \in Procs \ {p} : step'[q] = step[q]
    BY <2>1 DEF FetchInv
  <2>5. Litter' \subseteq Litter
    BY <2>1, <2>2, <2>3, <2>4, TempNamesAssumption DEF Litter
  <2> QED  BY <2>1, <2>5, LitterShrinks
<1>9. ASSUME NEW p \in Procs, Evict(p) PROVE LitterInv'
  <2>1. temp' = temp /\ crashes' = crashes /\ ~ Fetching(p)
    BY <1>9 DEF Evict, Fetching
  <2>2. \A q \in Procs \ {p} : step'[q] = step[q]
    BY <1>9 DEF Evict, GoTo, FetchInv
  <2>3. files' = files \/ \E n : files' = Without(files, n)
    BY <1>9 DEF Evict
  <2>4. DOMAIN files' \subseteq DOMAIN files
    BY <2>3, WithoutFacts, Zenon
  <2> QED  BY <1>2, <2>1, <2>2, <2>4
<1>10. ASSUME NEW p \in Procs, Die(p) PROVE LitterInv'
  <2>1. /\ crashes' = crashes + 1 /\ temp' = temp /\ files' = files
        /\ step' = [step EXCEPT ![p] = "idle"]
    BY <1>10 DEF Die, GoTo
  <2>2. \A q \in Procs \ {p} : step'[q] = step[q]
    BY <2>1 DEF FetchInv
  <2>3. Litter' \subseteq Litter \cup {temp[p]}
    BY <2>1, <2>2 DEF Litter
  <2> HIDE DEF Litter
  <2>3a. IsFiniteSet(Litter) /\ Cardinality(Litter) \in Nat
    BY FS_CardinalityType DEF LitterInv
  <2>4. /\ IsFiniteSet(Litter \cup {temp[p]})
        /\ Cardinality(Litter \cup {temp[p]}) <= Cardinality(Litter) + 1
    BY <2>3a, FS_AddElement
  <2>5. /\ IsFiniteSet(Litter') /\ Cardinality(Litter') <= Cardinality(Litter \cup {temp[p]})
        /\ Cardinality(Litter') \in Nat /\ Cardinality(Litter \cup {temp[p]}) \in Nat
    BY <2>3, <2>4, FS_Subset, FS_CardinalityType
  <2> QED  BY <2>1, <2>3a, <2>4, <2>5 DEF LitterInv
<1>11. CASE UNCHANGED cacheVars
  <2>1. Litter' \subseteq Litter /\ crashes' = crashes
    BY <1>11 DEF cacheVars, Litter
  <2> QED  BY <2>1, LitterShrinks
<1> QED
  BY <1>3, <1>4, <1>5, <1>6, <1>7, <1>8, <1>9, <1>10, <1>11 DEF CacheNext

\* fetch_source's except clause leaves a temporary file only to a process that
\* dies (LitterOnlyFromCrashes), for any number of processes and crashes.
THEOREM LitterOnlyFromCrashesHolds == CacheSpec => []LitterOnlyFromCrashes
<1>1. CacheInit => LitterInv
  <2> SUFFICES ASSUME CacheInit PROVE LitterInv
    OBVIOUS
  <2>1. Litter = {} /\ crashes = 0
    BY DEF CacheInit, Litter
  <2> QED  BY <2>1, FS_EmptySet DEF LitterInv
<1>2. LitterInv => LitterOnlyFromCrashes
  BY DEF LitterInv, LitterOnlyFromCrashes, Litter
<1> QED  BY <1>1, <1>2, FetchInit, FetchNext, LitterNext, PTL DEF CacheSpec

-----------------------------------------------------------------------------
(***************************************************************************)
(* The size of the cache.  TotalSize sums over a finite set by taking out  *)
(* one element after the other; a least counterexample shows that the sum  *)
(* exists and is a number.                                                 *)
(***************************************************************************)
LEMMA LeastNatural ==
    ASSUME NEW T, T \subseteq Nat, T # {}
    PROVE  \E n \in T : \A m \in T : n <= m
<1>1. PICK n \in T : \A m \in T : ~ (<<m, n>> \in OpToRel(<, Nat))
  BY NatLessThanWellFounded, WFMin, Zenon
<1>2. \A m \in T : <<m, n>> \in OpToRel(<, Nat) <=> m < n
  BY DEF OpToRel
<1>3. \A m \in T : m \in Nat /\ n \in Nat /\ ~ (m < n)
  BY <1>1, <1>2, Zenon
<1>4. \A m \in T : n <= m
  BY <1>3
<1> QED  BY <1>4

\* What the sum takes out of a set leaves one that is smaller by one.
LEMMA RemoveChosen ==
    ASSUME NEW S, IsFiniteSet(S), NEW s \in SUBSET S, s # {}
    PROVE  LET x == CHOOSE x \in s : TRUE
           IN  x \in s /\ s \ {x} \in SUBSET S
               /\ Cardinality(s) \in Nat /\ Cardinality(s \ {x}) = Cardinality(s) - 1
               /\ Cardinality(s \ {x}) \in Nat
<1> DEFINE x == CHOOSE x \in s : TRUE
<1>1. x \in s
  OBVIOUS
<1> HIDE DEF x
<1>2. IsFiniteSet(s)
  BY FS_Subset
<1>3. IsFiniteSet(s \ {x}) /\ Cardinality(s \ {x}) = Cardinality(s) - 1
  BY <1>1, <1>2, FS_RemoveElement
<1>4. Cardinality(s) \in Nat /\ Cardinality(s \ {x}) \in Nat
  BY <1>2, <1>3, FS_CardinalityType
<1> QED  BY <1>1, <1>3, <1>4 DEF x

\* prune_source_cache adds up sizes to a size.
LEMMA TotalIsNatural ==
    ASSUME NEW dir, IsFiniteSet(DOMAIN dir), \A n \in DOMAIN dir : dir[n].size \in Nat
    PROVE  TotalSize(dir) \in Nat
<1> DEFINE S == DOMAIN dir
           pick(s) == CHOOSE x \in s : TRUE
           Body(g, s) == IF s = {} THEN 0 ELSE dir[pick(s)].size + g[s \ {pick(s)}]
           Iter(g) == g = [s \in SUBSET S |->
                             IF s = {} THEN 0
                             ELSE LET x == CHOOSE x \in s : TRUE
                                  IN  dir[x].size + g[s \ {x}]]
           it == CHOOSE g : Iter(g)
           Small(n) == {s \in SUBSET S : Cardinality(s) <= n}
           Bad == {n \in Nat : ~ \E g : g = [s \in Small(n) |-> Body(g, s)]}
<1>1. TotalSize(dir) = it[S]
  BY DEF TotalSize, MapThenSumSet, MapThenFoldSet
<1>2. \A s \in SUBSET S : s # {} =>
          /\ pick(s) \in s /\ s \ {pick(s)} \in SUBSET S
          /\ Cardinality(s) \in Nat /\ Cardinality(s \ {pick(s)}) = Cardinality(s) - 1
          /\ Cardinality(s \ {pick(s)}) \in Nat
  BY RemoveChosen
<1>3. \A s \in SUBSET S : Cardinality(s) \in Nat /\ (Cardinality(s) = 0 <=> s = {})
  BY FS_Subset, FS_CardinalityType, FS_EmptySet
<1> HIDE DEF pick
<1>4. Bad = {}
  <2> SUFFICES ASSUME Bad # {} PROVE FALSE
    BY Zenon
  <2>1. PICK n \in Bad : \A m \in Bad : n <= m
    BY LeastNatural, Zenon
  <2>n. n \in Nat /\ ~ \E g : g = [s \in Small(n) |-> Body(g, s)]
    BY <2>1, Zenon
  <2>2. CASE n = 0
    <3>1. Small(0) = {{}}
      BY <1>3
    <3> DEFINE g == [s \in Small(0) |-> 0]
    <3>2. g = [s \in Small(0) |-> Body(g, s)]
      BY <3>1
    <3> QED  BY <2>n, <2>2, <3>2, Zenon
  <2>3. CASE n # 0
    <3>1. n - 1 \in Nat /\ n - 1 \notin Bad
      <4> HIDE DEF Bad
      <4> QED  BY <2>1, <2>n, <2>3
    <3>2. PICK g : g = [s \in Small(n - 1) |-> Body(g, s)]
      BY <3>1, Zenon
    <3> DEFINE f == [s \in Small(n) |-> Body(g, s)]
    <3>3. \A s \in Small(n) : s # {} => s \ {pick(s)} \in Small(n - 1)
                                        /\ s \ {pick(s)} \in Small(n)
      <4> SUFFICES ASSUME NEW s \in Small(n), s # {}
                   PROVE  s \ {pick(s)} \in Small(n - 1) /\ s \ {pick(s)} \in Small(n)
        OBVIOUS
      <4>1. s \in SUBSET S /\ Cardinality(s) <= n
        OBVIOUS
      <4> QED BY <1>2, <2>n, <4>1
    <3>4. \A s \in Small(n - 1) : s \in Small(n)
      BY <1>3, <2>n
    <3>8. \A s \in Small(n - 1) : g[s] = Body(g, s)
      BY <1>3, <2>n, <3>2, Zenon
    <3>5. \A s \in Small(n - 1) : f[s] = g[s]
      BY <3>4, <3>8
    <3>6. \A s \in Small(n) : Body(f, s) = Body(g, s)
      <4> HIDE DEF f
      <4> QED BY <3>3, <3>5
    <3>7. f = [s \in Small(n) |-> Body(f, s)]
      <4> DEFINE h == [s \in Small(n) |-> Body(f, s)]
      <4>1. f = h
        BY <3>6, Zenon
      <4> QED BY <4>1, Zenon
    <3> QED  BY <2>n, <3>7, Zenon
  <2> QED  BY <2>2, <2>3
<1>5. \E g : Iter(g)
  <2>1. Cardinality(S) \in Nat /\ \A s \in SUBSET S : Cardinality(s) <= Cardinality(S)
    BY FS_CardinalityType, FS_Subset
  <2>2. Small(Cardinality(S)) = SUBSET S
    BY <2>1
  <2>3. PICK g : g = [s \in Small(Cardinality(S)) |-> Body(g, s)]
    BY <1>4, <2>1, Zenon
  <2>4. g = [s \in SUBSET S |-> Body(g, s)]
    BY <2>2, <2>3, Zenon
  <2>5. Iter(g)
    BY <2>4 DEF pick
  <2> QED BY <2>5, Zenon
<1>6. Iter(it)
  BY <1>5, Zenon
<1> HIDE DEF it
<1>7. \A s \in SUBSET S : it[s] = Body(it, s)
  BY <1>6 DEF pick
<1> DEFINE Odd == {n \in Nat : \E s \in SUBSET S : Cardinality(s) = n /\ it[s] \notin Nat}
<1>8. Odd = {}
  <2> SUFFICES ASSUME Odd # {} PROVE FALSE
    OBVIOUS
  <2>1. PICK n \in Odd : \A m \in Odd : n <= m
    BY LeastNatural, Zenon
  <2>2. PICK s \in SUBSET S : Cardinality(s) = n /\ it[s] \notin Nat
    BY <2>1
  <2>3. s # {}
    <3>1. it[{}] = 0
      BY <1>7, Zenon
    <3> QED  BY <2>2, <3>1
  <2> DEFINE t == s \ {pick(s)}
  <2>4. /\ pick(s) \in S /\ t \in SUBSET S /\ Cardinality(t) = n - 1 /\ n - 1 \in Nat
        /\ n \in Nat
    BY <1>2, <2>2, <2>3, Zenon
  <2>5. it[t] \in Nat
    <3>1. n - 1 \notin Odd
      <4> HIDE DEF Odd
      <4> QED  BY <2>1, <2>4
    <3> QED  BY <2>4, <3>1
  <2>6. it[s] = dir[pick(s)].size + it[t]
    BY <1>7, <2>3, Zenon
  <2> QED  BY <2>2, <2>4, <2>5, <2>6
<1>9. Cardinality(S) \in Nat
  BY FS_CardinalityType
<1> QED  BY <1>1, <1>8, <1>9

\* A directory of one file has its size.
LEMMA TotalOfOne ==
    ASSUME NEW dir, NEW n, DOMAIN dir = {n}, dir[n].size \in Nat
    PROVE  TotalSize(dir) = dir[n].size
<1> DEFINE Iter(g) == g = [s \in SUBSET {n} |->
                             IF s = {} THEN 0
                             ELSE LET x == CHOOSE x \in s : TRUE
                                  IN  dir[x].size + g[s \ {x}]]
           it == CHOOSE g : Iter(g)
<1>1. TotalSize(dir) = it[{n}]
  BY DEF TotalSize, MapThenSumSet, MapThenFoldSet
<1>2. Iter([s \in SUBSET {n} |-> IF s = {} THEN 0 ELSE dir[n].size])
  OBVIOUS
<1>3. Iter(it)
  BY <1>2, Zenon
<1> HIDE DEF it
<1>4. (CHOOSE x \in {n} : TRUE) = n
  OBVIOUS
<1>5. it[{}] = 0 /\ it[{n}] = dir[n].size + it[{n} \ {n}]
  BY <1>3, <1>4
<1>6. {n} \ {n} = {}
  OBVIOUS
<1> QED  BY <1>1, <1>5, <1>6

-----------------------------------------------------------------------------
(***************************************************************************)
(* A process that has the directory to itself.  The file it is fetching is *)
(* the one used last, all others were used before this chunk; so while it  *)
(* prunes, its own file comes last in the order of eviction, and alone it  *)
(* fits.                                                                   *)
(***************************************************************************)
Latest(n) ==
    /\ n \in DOMAIN files /\ files[n].atime = clock
    /\ \A m \in DOMAIN files \ {n} : files[m].atime < clock

\* What a process alone knows: its list is the directory, the recorded uses are
\* the access times, and its source is the latest.
OwnInv(p) ==
    /\ \A n \in DOMAIN files : files[n].atime <= clock
    /\ step[p] \in {"exists", "utime"} => \A n \in DOMAIN files : files[n].atime < clock
    /\ step[p] \in {"download", "replace"} => Latest(temp[p])
    /\ step[p] \in {"list", "prune"} => Latest(want[p])
    /\ step[p] = "use" => want[p] \in DOMAIN files
    /\ step[p] = "prune" => seen[p] = files
    /\ \A h \in Hashes \cap DOMAIN files : files[h].atime = lastUse[h]

\* Only a process that has received a chunk is at work, so a step taken while
\* fetchers = {p} is p's own.
AloneInv ==
    /\ DOMAIN seen = Procs /\ DOMAIN lastUse = Hashes
    /\ \A q \in Procs : step[q] # "idle" => q \in fetchers
    /\ fetchers = {} => DOMAIN files = {}
    /\ \A p \in Procs : Alone(p) => OwnInv(p)

\* prune never takes the file that was just fetched: it would have to be the
\* only one left, and MAX_DOWNLOAD_BYTES keeps a single source below the budget.
LEMMA VictimIsAnother ==
    ASSUME FetchInv, NEW p \in Procs, OwnInv(p), step[p] = "prune", OverBudget(p),
           NEW n \in Victims(p)
    PROVE  n \in DOMAIN files /\ n # want[p]
<1>1. seen[p] = files /\ Latest(want[p]) /\ n \in DOMAIN files
      /\ \A m \in DOMAIN files : files[n].atime <= files[m].atime
  BY DEF OwnInv, Victims
<1>2. SUFFICES ASSUME n = want[p] PROVE FALSE
  BY <1>1
<1>3. \A m \in DOMAIN files : files[m].atime \in Nat
  BY DEF FetchInv, File
<1>4. clock \in Nat
  BY CacheBoundsAssumption DEF FetchInv
<1>5. DOMAIN files = {n}
  BY <1>1, <1>2, <1>3, <1>4 DEF Latest
<1>6. want[p] \in Hashes /\ files[n].size = SizeOf[want[p]]
  BY <1>1, <1>2 DEF FetchInv, CachedIsWhole
<1>7. files[n].size \in Nat /\ files[n].size <= CacheBytes /\ CacheBytes \in Nat
  BY <1>6, SizesAssumption
<1>8. TotalSize(seen[p]) = files[n].size
  BY <1>1, <1>5, <1>7, TotalOfOne
<1> QED  BY <1>7, <1>8 DEF OverBudget

\* One step per action, each of which is a step of the process alone or of one
\* that is then no longer alone.
LEMMA AloneNext == FetchInv /\ AloneInv /\ [CacheNext]_cacheVars => AloneInv'
<1> SUFFICES ASSUME FetchInv, AloneInv, [CacheNext]_cacheVars PROVE AloneInv'
  OBVIOUS
<1>0. /\ clock \in Nat /\ \A n \in DOMAIN files : files[n].atime \in Nat
      /\ \A q \in Procs : want[q] \in Hashes
  BY CacheBoundsAssumption DEF FetchInv, File
\* A step of a process that is at work.
<1>1. ASSUME NEW p \in Procs, step[p] # "idle", fetchers' = fetchers,
             DOMAIN seen' = Procs, DOMAIN lastUse' = Hashes,
             \A q \in Procs \ {p} : step'[q] = step[q],
             OwnInv(p) => OwnInv(p)'
      PROVE  AloneInv'
  <2>1. p \in fetchers
    BY <1>1 DEF AloneInv
  <2>2. ASSUME NEW q \in Procs, Alone(q)' PROVE OwnInv(q)'
    BY <1>1, <2>1, <2>2 DEF Alone, AloneInv
  <2> QED  BY <1>1, <2>1, <2>2 DEF AloneInv
<1>2. ASSUME NEW p \in Procs, Receive(p) PROVE AloneInv'
  <2>1. /\ step' = [step EXCEPT ![p] = "exists"] /\ clock' = clock + 1
        /\ fetchers' = fetchers \cup {p} /\ UNCHANGED <<files, seen, lastUse>>
    BY <1>2 DEF Receive, GoTo
  <2>2. step'[p] = "exists" /\ \A q \in Procs \ {p} : step'[q] = step[q]
    BY <2>1 DEF FetchInv
  <2>3. ASSUME NEW q \in Procs, Alone(q)' PROVE OwnInv(q)'
    <3>1. q = p /\ (fetchers = {p} \/ fetchers = {})
      BY <2>1, <2>3 DEF Alone
    <3>2. /\ \A n \in DOMAIN files : files[n].atime <= clock
          /\ \A h \in Hashes \cap DOMAIN files : files[h].atime = lastUse[h]
      BY <3>1 DEF AloneInv, Alone, OwnInv
    <3>3. \A n \in DOMAIN files : files[n].atime < clock'
      BY <1>0, <2>1, <3>2
    <3> QED  BY <1>0, <2>1, <2>2, <3>1, <3>2, <3>3 DEF OwnInv
  <2> QED  BY <2>1, <2>2, <2>3 DEF AloneInv
<1>3. ASSUME NEW p \in Procs, CacheHit(p) PROVE AloneInv'
  <2>1. /\ step' = [step EXCEPT ![p] = "utime"] /\ step[p] = "exists"
        /\ UNCHANGED <<want, temp, files, seen, clock, fetchers, lastUse>>
    BY <1>3 DEF CacheHit, GoTo
  <2>2. step'[p] = "utime" /\ \A q \in Procs \ {p} : step'[q] = step[q]
    BY <2>1 DEF FetchInv
  <2>3. OwnInv(p) => OwnInv(p)'
    BY <2>1, <2>2 DEF OwnInv
  <2> QED  BY <1>1, <2>1, <2>2, <2>3 DEF AloneInv
<1>4. ASSUME NEW p \in Procs, Touch(p) PROVE AloneInv'
  <2> DEFINE h == want[p]
  <2>1. step[p] = "utime" /\ UNCHANGED <<want, temp, seen, clock, fetchers>>
        /\ \A q \in Procs \ {p} : step'[q] = step[q]
    BY <1>4 DEF Touch, GoTo, FetchInv
  <2>2. CASE h \in DOMAIN files
    <3>1. /\ files' = [files EXCEPT ![h].atime = clock] /\ step'[p] = "use"
          /\ lastUse' = [lastUse EXCEPT ![h] = clock]
      BY <1>4, <2>2 DEF Touch, Uses, GoTo, FetchInv
    <3>2. /\ DOMAIN files' = DOMAIN files /\ files'[h].atime = clock
          /\ \A n \in DOMAIN files \ {h} : files'[n] = files[n]
      <4>1. files[h] \in File
        BY <2>2 DEF FetchInv
      <4> QED  BY <2>2, <3>1, <4>1 DEF File
    <3>3. /\ DOMAIN lastUse' = Hashes /\ lastUse'[h] = clock
          /\ \A k \in Hashes \ {h} : lastUse'[k] = lastUse[k]
      BY <1>0, <3>1 DEF AloneInv
    <3> HIDE DEF h
    <3>4. OwnInv(p) => OwnInv(p)'
      BY <1>0, <2>1, <2>2, <3>1, <3>2, <3>3, SMTT(20) DEF OwnInv, h
    <3> QED  BY <1>1, <2>1, <3>3, <3>4 DEF AloneInv
  <2>3. CASE h \notin DOMAIN files
    <3>1. UNCHANGED <<files, lastUse>> /\ step'[p] = "idle"
      BY <1>4, <2>3 DEF Touch, GoTo, FetchInv
    <3>2. OwnInv(p) => OwnInv(p)'
      BY <2>1, <3>1 DEF OwnInv
    <3> QED  BY <1>1, <2>1, <3>1, <3>2 DEF AloneInv
  <2> QED  BY <2>2, <2>3
<1>5. ASSUME NEW p \in Procs, CacheMiss(p) PROVE AloneInv'
  <2> DEFINE n == <<p, clock>>
  <2>1. /\ step[p] = "exists" /\ UNCHANGED <<want, seen, clock, fetchers, lastUse>>
        /\ step'[p] = "download" /\ temp'[p] = n
        /\ \A q \in Procs \ {p} : step'[q] = step[q]
    BY <1>5 DEF CacheMiss, GoTo, FetchInv
  <2>2. /\ DOMAIN files' = DOMAIN files \cup {n} /\ files'[n].atime = clock
        /\ \A m \in DOMAIN files \ {n} : files'[m] = files[m]
    BY <1>5 DEF CacheMiss, With
  <2>3. n \notin Hashes
    BY <2>1, CacheBoundsAssumption, TempNamesAssumption DEF FetchInv, TempNames
  <2> HIDE DEF n
  <2>4. OwnInv(p) => OwnInv(p)'
    BY <1>0, <2>1, <2>2, <2>3 DEF OwnInv, Latest
  <2> QED  BY <1>1, <2>1, <2>4 DEF AloneInv
<1>6. ASSUME NEW p \in Procs, Downloaded(p) PROVE AloneInv'
  <2> DEFINE n == temp[p]
  <2>1. /\ step[p] = "download" /\ UNCHANGED <<want, temp, seen, clock, fetchers, lastUse>>
        /\ step'[p] = "replace" /\ \A q \in Procs \ {p} : step'[q] = step[q]
    BY <1>6 DEF Downloaded, GoTo, FetchInv
  <2>2. /\ DOMAIN files' = DOMAIN files \cup {n}
        /\ n \in DOMAIN files => files'[n].atime \in {clock, files[n].atime}
        /\ \A m \in DOMAIN files \ {n} : files'[m] = files[m]
    <3>1. PICK a \in {clock} \cup {files[m].atime : m \in DOMAIN files \cap {n}} :
              files' = With(files, n, [atime |-> a, size |-> SizeOf[want[p]], whole |-> TRUE])
      BY <1>6, Zenon DEF Downloaded
    <3>2. n \in DOMAIN files => a \in {clock, files[n].atime}
      OBVIOUS
    <3> HIDE DEF n
    <3> QED  BY ONLY <3>1, <3>2 DEF With
  <2>3. n \notin Hashes
    BY <2>1, TempNamesAssumption DEF FetchInv, Fetching
  <2>4. OwnInv(p) => OwnInv(p)'
    BY <1>0, <2>1, <2>2, <2>3 DEF OwnInv, Latest
  <2> QED  BY <1>1, <2>1, <2>4 DEF AloneInv
<1>7. ASSUME NEW p \in Procs, DownloadFails(p) PROVE AloneInv'
  <2>1. /\ step[p] = "download" /\ UNCHANGED <<want, temp, seen, clock, fetchers, lastUse>>
        /\ step'[p] = "idle" /\ \A q \in Procs \ {p} : step'[q] = step[q]
    BY <1>7 DEF DownloadFails, GoTo, FetchInv
  <2>2. /\ DOMAIN files' \subseteq DOMAIN files
        /\ \A m \in DOMAIN files' : files'[m] = files[m]
    BY <1>7 DEF DownloadFails, Without, Restrict
  <2>3. OwnInv(p) => OwnInv(p)'
    BY <2>1, <2>2, Zenon DEF OwnInv
  <2> QED  BY <1>1, <2>1, <2>3, Zenon DEF AloneInv
<1>8. ASSUME NEW p \in Procs, Replace(p) PROVE AloneInv'
  <2> DEFINE n == temp[p]
             h == want[p]
             rest == Without(files, n)
  <2>1. step[p] = "replace" /\ UNCHANGED <<want, temp, seen, clock, fetchers>>
        /\ \A q \in Procs \ {p} : step'[q] = step[q]
    BY <1>8 DEF Replace, GoTo, FetchInv
  <2>2. CASE n \in DOMAIN files
    <3>1. /\ files' = With(rest, h, files[n]) /\ step'[p] = "list"
          /\ lastUse' = [lastUse EXCEPT ![h] = clock]
      BY <1>8, <2>2 DEF Replace, Uses, GoTo, FetchInv
    <3>2. /\ DOMAIN rest = DOMAIN files \ {n}
          /\ \A m \in DOMAIN files \ {n} : rest[m] = files[m]
      BY DEF Without, Restrict
    <3> HIDE DEF rest
    <3>3. /\ DOMAIN files' = (DOMAIN files \ {n}) \cup {h} /\ files'[h] = files[n]
          /\ \A m \in DOMAIN files \ {n, h} : files'[m] = files[m]
      BY <3>1, <3>2, Zenon DEF With
    <3>4. /\ DOMAIN lastUse' = Hashes /\ lastUse'[h] = clock
          /\ \A k \in Hashes \ {h} : lastUse'[k] = lastUse[k]
      BY <1>0, <3>1 DEF AloneInv
    <3>5. OwnInv(p) => OwnInv(p)'
      BY <1>0, <2>1, <2>2, <3>1, <3>3, <3>4 DEF OwnInv, Latest
    <3> QED  BY <1>1, <2>1, <3>4, <3>5, Zenon DEF AloneInv
  <2>3. CASE n \notin DOMAIN files
    <3>1. UNCHANGED <<files, lastUse>> /\ step'[p] = "idle"
      BY <1>8, <2>3 DEF Replace, GoTo, FetchInv
    <3>2. OwnInv(p) => OwnInv(p)'
      BY <2>1, <3>1 DEF OwnInv
    <3> QED  BY <1>1, <2>1, <3>1, <3>2 DEF AloneInv
  <2> QED  BY <2>2, <2>3
<1>9. ASSUME NEW p \in Procs, List(p) PROVE AloneInv'
  <2>1. /\ step[p] = "list" /\ UNCHANGED <<want, temp, files, clock, fetchers, lastUse>>
        /\ step'[p] = "prune" /\ \A q \in Procs \ {p} : step'[q] = step[q]
        /\ seen' = [seen EXCEPT ![p] = files]
    BY <1>9, SMTT(20) DEF List, GoTo, FetchInv
  <2>2. DOMAIN seen' = Procs /\ seen'[p] = files
    BY <2>1 DEF AloneInv
  <2>3. OwnInv(p) => OwnInv(p)'
    BY <2>1, <2>2, Zenon DEF OwnInv, Latest
  <2> QED  BY <1>1, <2>1, <2>2, <2>3, Zenon DEF AloneInv
<1>10. ASSUME NEW p \in Procs, Evict(p) PROVE AloneInv'
  <2>1. step[p] = "prune" /\ OverBudget(p)
        /\ UNCHANGED <<want, temp, clock, fetchers, lastUse>>
    BY <1>10, Zenon DEF Evict
  <2>2. PICK n \in Victims(p) :
            IF n \in DOMAIN files
            THEN /\ files' = Without(files, n) /\ step' = step
                 /\ seen' = [seen EXCEPT ![p] = Without(@, n)]
            ELSE GoTo(p, "use") /\ Forget(p) /\ files' = files
    BY <1>10 DEF Evict
  <2>3. DOMAIN seen' = Procs /\ \A q \in Procs \ {p} : step'[q] = step[q]
    BY <2>2 DEF Forget, GoTo, AloneInv, FetchInv
  <2>4. ASSUME OwnInv(p) PROVE OwnInv(p)'
    <3>1. n \in DOMAIN files /\ n # want[p] /\ seen[p] = files
      BY <2>1, <2>4, VictimIsAnother, Zenon DEF OwnInv
    <3>2. files' = Without(files, n) /\ step' = step /\ seen'[p] = files'
      BY <2>2, <3>1 DEF AloneInv
    <3>3. DOMAIN files' = DOMAIN files \ {n} /\ \A m \in DOMAIN files' : files'[m] = files[m]
      BY <3>2 DEF Without, Restrict
    <3> QED  BY <2>1, <2>4, <3>1, <3>2, <3>3, Zenon DEF OwnInv, Latest
  <2> QED  BY <1>1, <2>1, <2>3, <2>4, Zenon DEF AloneInv
<1>11. ASSUME NEW p \in Procs, Pruned(p) \/ Use(p) \/ Die(p) PROVE AloneInv'
  <2>1. /\ step[p] # "idle" /\ UNCHANGED <<want, temp, files, clock, fetchers, lastUse>>
        /\ \A q \in Procs \ {p} : step'[q] = step[q]
        /\ \/ step'[p] = "idle"
           \/ step[p] = "prune" /\ step'[p] = "use"
    <3>1. CASE Pruned(p)
      BY <3>1 DEF Pruned, GoTo, FetchInv
    <3>2. CASE Use(p)
      BY <3>2 DEF Use, GoTo, FetchInv
    <3>3. CASE Die(p)
      BY <3>3 DEF Die, GoTo, FetchInv
    <3> QED  BY <1>11, <3>1, <3>2, <3>3
  <2>2. DOMAIN seen' = Procs
    BY <1>11 DEF Pruned, Use, Die, Forget, AloneInv
  <2>3. OwnInv(p) => OwnInv(p)'
    BY <2>1, Zenon DEF OwnInv, Latest
  <2> QED  BY <1>1, <2>1, <2>2, <2>3 DEF AloneInv
<1>12. CASE UNCHANGED cacheVars
  BY <1>12, Zenon DEF cacheVars, AloneInv, Alone, OwnInv, Latest
<1> QED
  BY <1>2, <1>3, <1>4, <1>5, <1>6, <1>7, <1>8, <1>9, <1>10, <1>11, <1>12 DEF CacheNext

\* A step adds at most one name to the directory.
FinitelyMany == IsFiniteSet(DOMAIN files)

LEMMA FinitelyManyNext == FinitelyMany /\ [CacheNext]_cacheVars => FinitelyMany'
<1> SUFFICES ASSUME IsFiniteSet(DOMAIN files), [CacheNext]_cacheVars
             PROVE  IsFiniteSet(DOMAIN files')
  BY DEF FinitelyMany
<1>1. ASSUME NEW n, DOMAIN files' \subseteq DOMAIN files \cup {n}
      PROVE  IsFiniteSet(DOMAIN files')
  BY <1>1, FS_AddElement, FS_Subset, Zenon
<1>2. CASE files' = files
  BY <1>2
<1>3. ASSUME NEW p \in Procs, CacheMiss(p) PROVE IsFiniteSet(DOMAIN files')
  <2>1. DOMAIN files' = DOMAIN files \cup {<<p, clock>>}
    BY <1>3 DEF CacheMiss, With
  <2> QED  BY <1>1, <2>1
<1>4. ASSUME NEW p \in Procs, Downloaded(p) PROVE IsFiniteSet(DOMAIN files')
  <2>1. DOMAIN files' = DOMAIN files \cup {temp[p]}
    BY <1>4 DEF Downloaded, With
  <2> QED  BY <1>1, <2>1
<1>5. ASSUME NEW p \in Procs, Replace(p) PROVE IsFiniteSet(DOMAIN files')
  <2>1. CASE temp[p] \in DOMAIN files
    <3>1. DOMAIN files' \subseteq DOMAIN files \cup {want[p]}
      BY <1>5, <2>1 DEF Replace, With, Without, Restrict
    <3> QED  BY <1>1, <3>1
  <2>2. CASE temp[p] \notin DOMAIN files
    BY <1>5, <2>2 DEF Replace
  <2> QED  BY <2>1, <2>2
<1>6. ASSUME NEW p \in Procs, Touch(p) \/ DownloadFails(p) \/ Evict(p)
      PROVE  IsFiniteSet(DOMAIN files')
  <2>1. DOMAIN files' \subseteq DOMAIN files
    BY <1>6, Zenon DEF Touch, DownloadFails, Evict, Without, Restrict
  <2> QED  BY <2>1, FS_Subset
<1> QED
  BY <1>2, <1>3, <1>4, <1>5, <1>6
  DEF CacheNext, cacheVars, Receive, CacheHit, List, Pruned, Use, Die

LEMMA CacheInvariant == CacheSpec => [](FetchInv /\ AloneInv /\ FinitelyMany)
<1>1. CacheInit => AloneInv /\ FinitelyMany
  <2> SUFFICES ASSUME CacheInit PROVE AloneInv /\ FinitelyMany
    OBVIOUS
  <2>1. DOMAIN files = {}
    BY DEF CacheInit
  <2>2. FinitelyMany
    BY <2>1, FS_EmptySet DEF FinitelyMany
  <2>3. AloneInv
    BY <2>1 DEF CacheInit, AloneInv, Alone
  <2> QED  BY <2>2, <2>3
<1> QED  BY <1>1, FetchInit, FetchNext, AloneNext, FinitelyManyNext, PTL DEF CacheSpec

\* A process alone finds the file it has fetched when it opens it
\* (FetchedIsThere): prune_source_cache spares it, for any sizes, budget and
\* leavings of crashes.
THEOREM FetchedIsThereHolds == CacheSpec => []FetchedIsThere
<1>1. AloneInv => FetchedIsThere
  BY DEF AloneInv, OwnInv, FetchedIsThere
<1> QED  BY <1>1, CacheInvariant, PTL

\* prune_source_cache of a process alone evicts in the order of last use, hits
\* included (EvictsLeastRecent).
THEOREM EvictsLeastRecentHolds == CacheSpec => EvictsLeastRecent
<1> DEFINE Act == \A p \in Procs : Alone(p) => \A h, k \in Hashes :
                      h \in DOMAIN files /\ h \notin DOMAIN files' /\ k \in DOMAIN files'
                      => lastUse[h] <= lastUse[k]
<1>1. ASSUME FetchInv, AloneInv, [CacheNext]_cacheVars PROVE [Act]_cacheVars
  <2>1. SUFFICES ASSUME NEW p \in Procs, Alone(p), CacheNext, NEW h \in Hashes, NEW k \in Hashes,
                        h \in DOMAIN files, h \notin DOMAIN files', k \in DOMAIN files'
                 PROVE  lastUse[h] <= lastUse[k]
    BY <1>1, SMTT(20) DEF Act
  <2>2. PICK q \in Procs :
            \/ Receive(q) \/ CacheHit(q) \/ Touch(q) \/ CacheMiss(q) \/ Downloaded(q)
            \/ DownloadFails(q) \/ Replace(q) \/ List(q) \/ Evict(q) \/ Pruned(q)
            \/ Use(q) \/ Die(q)
    BY <2>1 DEF CacheNext
  <2>3. CASE Receive(q) \/ CacheHit(q) \/ List(q) \/ Pruned(q) \/ Use(q) \/ Die(q)
    <3>1. files' = files
      BY <2>3 DEF Receive, CacheHit, List, Pruned, Use, Die
    <3> QED  BY <2>1, <3>1
  <2>4. CASE Touch(q) \/ CacheMiss(q) \/ Downloaded(q)
    <3>1. DOMAIN files \subseteq DOMAIN files'
      BY <2>4 DEF Touch, CacheMiss, Downloaded, With
    <3> QED  BY <2>1, <3>1
  <2>5. CASE DownloadFails(q) \/ Replace(q)
    <3>1. DOMAIN files \ {temp[q]} \subseteq DOMAIN files'
      BY <2>5 DEF DownloadFails, Replace, With, Without, Restrict
    <3>2. temp[q] \notin Hashes
      <4>1. Fetching(q)
        BY <2>5, Zenon DEF DownloadFails, Replace, Fetching
      <4>2. temp[q] \in TempNames
        BY <1>1, <4>1, SMTT(20) DEF FetchInv
      <4> QED  BY <4>2, TempNamesAssumption
    <3> QED  BY <2>1, <3>1, <3>2
  <2>6. CASE Evict(q)
    <3>1. step[q] = "prune" /\ q = p
      BY <1>1, <2>1, <2>6 DEF Evict, AloneInv, Alone
    <3>2. seen[p] = files /\ \A m \in Hashes \cap DOMAIN files : files[m].atime = lastUse[m]
      BY <1>1, <2>1, <3>1 DEF AloneInv, OwnInv
    <3>3. PICK n \in Victims(p) :
              files' = Without(files, n) \/ files' = files
      BY <2>6, <3>1 DEF Evict
    <3>4. h = n /\ k \in DOMAIN files
      BY <2>1, <3>3 DEF Without, Restrict
    <3> QED  BY <2>1, <3>2, <3>4, SMTT(20) DEF Victims
  <2> QED  BY <2>2, <2>3, <2>4, <2>5, <2>6
<1> QED  BY <1>1, CacheInvariant, PTL DEF CacheSpec, EvictsLeastRecent

\* When prune_source_cache of a process alone returns, the directory fits in
\* SOURCE_CACHE_MAX_BYTES (PrunedFits): the entries it counted are all there are.
THEOREM PrunedFitsHolds == CacheSpec => PrunedFits
<1> DEFINE Act == \A p \in Procs : Alone(p) /\ step[p] = "prune" /\ step'[p] = "use"
                      => TotalSize(files') <= CacheBytes
<1>1. ASSUME FetchInv, AloneInv, FinitelyMany, [CacheNext]_cacheVars
      PROVE  [Act]_cacheVars
  <2>1. SUFFICES ASSUME NEW p \in Procs, Alone(p), CacheNext, step[p] = "prune", step'[p] = "use"
                 PROVE  TotalSize(files') <= CacheBytes
    BY <1>1, SMTT(20) DEF Act
  <2>2. OwnInv(p) /\ seen[p] = files
    BY <1>1, <2>1 DEF AloneInv, OwnInv
  <2>3. Evict(p) \/ Pruned(p) \/ Die(p)
    <3>1. PICK q \in Procs :
              \/ Receive(q) \/ CacheHit(q) \/ Touch(q) \/ CacheMiss(q) \/ Downloaded(q)
              \/ DownloadFails(q) \/ Replace(q) \/ List(q) \/ Evict(q) \/ Pruned(q)
              \/ Use(q) \/ Die(q)
      BY <2>1 DEF CacheNext
    <3>2. DOMAIN step = Procs
      BY <1>1, SMTT(20) DEF FetchInv
    <3>3. q = p
      <4> SUFFICES ASSUME q # p PROVE step'[p] = step[p]
        BY <2>1
      <4>1. CASE Receive(q) \/ CacheHit(q) \/ Touch(q) \/ CacheMiss(q)
        BY <2>1, <3>2, <4>1 DEF Receive, CacheHit, Touch, CacheMiss, GoTo
      <4>2. CASE Downloaded(q) \/ DownloadFails(q) \/ Replace(q) \/ List(q)
        BY <2>1, <3>2, <4>2, Zenon DEF Downloaded, DownloadFails, Replace, List, GoTo
      <4>3. CASE Evict(q) \/ Pruned(q) \/ Use(q) \/ Die(q)
        BY <2>1, <3>2, <4>3, Zenon DEF Evict, Pruned, Use, Die, GoTo
      <4> QED  BY <3>1, <4>1, <4>2, <4>3
    <3>4. CASE \/ Receive(q) \/ CacheHit(q) \/ Touch(q) \/ CacheMiss(q) \/ Downloaded(q)
               \/ DownloadFails(q) \/ Replace(q) \/ List(q) \/ Use(q)
      BY <2>1, <3>3, <3>4 DEF Receive, CacheHit, Touch, CacheMiss, Downloaded, DownloadFails,
                              Replace, List, Use
    <3> QED  BY <3>1, <3>3, <3>4, SMTT(20)
  <2>4. ~ Die(p)
    BY <1>1, <2>1 DEF Die, GoTo, FetchInv
  <2>5. ASSUME Evict(p) PROVE FALSE
    <3>1. PICK n \in Victims(p) : n \in DOMAIN files => step' = step
      BY <2>5 DEF Evict
    <3>2. n \in DOMAIN files
      BY <1>1, <2>1, <2>2, <2>5, VictimIsAnother DEF Evict
    <3> QED  BY <2>1, <3>1, <3>2
  <2>6. Pruned(p)
    BY <2>3, <2>4, <2>5
  <2>7. files' = seen[p] /\ ~ OverBudget(p)
    BY <2>2, <2>6 DEF Pruned
  <2>8. TotalSize(files) \in Nat
    BY <1>1, TotalIsNatural DEF FetchInv, File, FinitelyMany
  <2> QED  BY <2>2, <2>7, <2>8, SizesAssumption DEF OverBudget
<1> QED  BY <1>1, CacheInvariant, PTL DEF CacheSpec, PrunedFits

-----------------------------------------------------------------------------
(***************************************************************************)
(* Submissions.  For each request: where its temporary file is, that its   *)
(* source is stored by the time a job may need it, and what it has left in *)
(* the database and on the broker.                                         *)
(***************************************************************************)
Cleaning == {"cleanup", "cleanup_cached", "cleanup_raised"}
Calls == {"arrived", "validate", "get", "stream", "create", "publish", "answered", "died"}
         \cup InTry \cup Cleaning

SubTypes ==
    /\ at \in [Requests -> Calls]
    /\ url \in [Requests -> Urls \cup {NoUrl}]
    /\ written \in [Requests -> Nat]
    /\ onDisk \in [Requests -> Int]
    /\ answer \in [Requests -> Nat]
    /\ lapsed \in [Requests -> BOOLEAN]

\* The file exists from the download to the clean-up and holds what was written.
FileInv(r) ==
    /\ at[r] \in {"arrived", "validate", "get"} => written[r] = 0
    /\ at[r] = "stream" => onDisk[r] = written[r]
    /\ at[r] \in {"arrived", "validate", "get", "create", "publish", "answered"}
           => onDisk[r] = -1
    /\ onDisk[r] <= MaxPieces

\* put_source has seen or stored the source before the request leaves the try.
SourceInv(r) ==
    at[r] \in {"cleanup", "create", "publish"} \/ answer[r] = 202
        => url[r] \in source \/ lapsed[r]

\* Rows and messages come only after the download, and an answer comes last.
TraceInv(r) ==
    /\ answer[r] # 0 => at[r] = "answered"
    /\ at[r] \in InTry \cup {"cleanup", "cleanup_cached", "create", "publish"} => r \in fetched
    /\ r \in created \cup published =>
           /\ r \in fetched /\ at[r] \in {"publish", "answered", "died"}
           /\ answer[r] \in {0, 202, 400}
    /\ at[r] = "publish" => r \in created
    /\ answer[r] = 202 => r \in created \cap published

RequestInv == SubTypes /\ \A r \in Requests : FileInv(r) /\ SourceInv(r) /\ TraceInv(r)

\* What a step of request r leaves alone.
StepOfRequest(r) ==
    /\ \A q \in Requests \ {r} :
           /\ at'[q] = at[q] /\ written'[q] = written[q] /\ onDisk'[q] = onDisk[q]
           /\ answer'[q] = answer[q] /\ lapsed'[q] = lapsed[q]
           /\ q \in fetched' <=> q \in fetched
           /\ q \in created' <=> q \in created
           /\ q \in published' <=> q \in published
    /\ url' = url /\ source \subseteq source'

\* It keeps the invariant of the others.
LEMMA OthersKeep ==
    ASSUME RequestInv, NEW r \in Requests, StepOfRequest(r), SubTypes',
           FileInv(r)', SourceInv(r)', TraceInv(r)'
    PROVE  RequestInv'
<1>1. ASSUME NEW q \in Requests \ {r} PROVE FileInv(q)' /\ SourceInv(q)' /\ TraceInv(q)'
  <2>1. FileInv(q) /\ SourceInv(q) /\ TraceInv(q)
    BY DEF RequestInv
  <2>2. FileInv(q)'
    BY <2>1 DEF FileInv, StepOfRequest
  <2>3. SourceInv(q)'
    BY <2>1, SMTT(20) DEF SourceInv, StepOfRequest
  <2>4. TraceInv(q)'
    <3>1. /\ at'[q] = at[q] /\ answer'[q] = answer[q]
          /\ q \in fetched' <=> q \in fetched
          /\ q \in created' <=> q \in created
          /\ q \in published' <=> q \in published
      BY DEF StepOfRequest
    <3> QED  BY ONLY <2>1, <3>1, SMTT(20) DEF TraceInv
  <2> QED  BY <2>2, <2>3, <2>4
<1> QED  BY <1>1 DEF RequestInv

\* One step per call of submit, and one for a call that raises and for a death.
LEMMA SubmitStepKeeps ==
    ASSUME RequestInv, NEW r \in Requests,
           SubmitStep(r) \/ Raises(r) \/ Dies(r)
    PROVE  RequestInv'
<1>1. SubTypes /\ FileInv(r) /\ SourceInv(r) /\ TraceInv(r) /\ MaxPieces \in Nat
  BY LengthAssumption DEF RequestInv
<1> USE DEF Now, Respond, Quiet, storeVars, jobVars
<1>2. CASE VerifyApiKey(r)
  <2>1. SubTypes' /\ StepOfRequest(r)
    BY <1>1, <1>2 DEF VerifyApiKey, SubTypes, StepOfRequest, Calls, Cleaning, InTry
  <2>2. FileInv(r)' /\ SourceInv(r)' /\ TraceInv(r)'
    BY <1>1, <1>2 DEF VerifyApiKey, SubTypes, FileInv, SourceInv, TraceInv, InTry
  <2> QED  BY <2>1, <2>2, OthersKeep
<1>3. CASE Validate(r)
  <2>1. SubTypes' /\ StepOfRequest(r)
    BY <1>1, <1>3 DEF Validate, SubTypes, StepOfRequest, Calls, Cleaning, InTry
  <2>2. FileInv(r)' /\ SourceInv(r)' /\ TraceInv(r)'
    BY <1>1, <1>3 DEF Validate, SubTypes, FileInv, SourceInv, TraceInv, InTry
  <2> QED  BY <2>1, <2>2, OthersKeep
<1>4. CASE Get(r)
  <2>1. SubTypes' /\ StepOfRequest(r)
    BY <1>1, <1>4 DEF Get, SubTypes, StepOfRequest, Calls, Cleaning, InTry
  <2>2. FileInv(r)' /\ SourceInv(r)' /\ TraceInv(r)'
    BY <1>1, <1>4 DEF Get, SubTypes, FileInv, SourceInv, TraceInv, InTry
  <2> QED  BY <2>1, <2>2, OthersKeep
<1>5. CASE Stream(r)
  <2>1. SubTypes' /\ StepOfRequest(r)
    BY <1>1, <1>5 DEF Stream, SubTypes, StepOfRequest, Calls, Cleaning, InTry
  <2>2. FileInv(r)' /\ SourceInv(r)' /\ TraceInv(r)'
    BY <1>1, <1>5 DEF Stream, SubTypes, FileInv, SourceInv, TraceInv, InTry
  <2> QED  BY <2>1, <2>2, OthersKeep
<1>6. CASE DownloadEnds(r)
  <2>1. SubTypes' /\ StepOfRequest(r)
    BY <1>1, <1>6 DEF DownloadEnds, SubTypes, StepOfRequest, Calls, Cleaning, InTry
  <2>2. FileInv(r)' /\ SourceInv(r)' /\ TraceInv(r)'
    BY <1>1, <1>6 DEF DownloadEnds, SubTypes, FileInv, SourceInv, TraceInv, InTry
  <2> QED  BY <2>1, <2>2, OthersKeep
<1>7. CASE FindCached(r)
  <2>1. SubTypes' /\ StepOfRequest(r)
    BY <1>1, <1>7 DEF FindCached, SubTypes, StepOfRequest, Calls, Cleaning, InTry
  <2>2. FileInv(r)' /\ SourceInv(r)' /\ TraceInv(r)'
    BY <1>1, <1>7 DEF FindCached, SubTypes, FileInv, SourceInv, TraceInv, InTry
  <2> QED  BY <2>1, <2>2, OthersKeep
<1>8. CASE GetManifest(r)
  <2>1. SubTypes' /\ StepOfRequest(r)
    BY <1>1, <1>8 DEF GetManifest, SubTypes, StepOfRequest, Calls, Cleaning, InTry
  <2>2. FileInv(r)' /\ SourceInv(r)' /\ TraceInv(r)'
    BY <1>1, <1>8 DEF GetManifest, SubTypes, FileInv, SourceInv, TraceInv, InTry
  <2> QED  BY <2>1, <2>2, OthersKeep
<1>9. CASE FirstPage(r)
  <2>1. SubTypes' /\ StepOfRequest(r)
    BY <1>1, <1>9 DEF FirstPage, SubTypes, StepOfRequest, Calls, Cleaning, InTry
  <2>2. FileInv(r)' /\ SourceInv(r)' /\ TraceInv(r)'
    BY <1>1, <1>9 DEF FirstPage, SubTypes, FileInv, SourceInv, TraceInv, InTry
  <2> QED  BY <2>1, <2>2, OthersKeep
<1>10. CASE PutSourceCheck(r)
  <2>1. SubTypes' /\ StepOfRequest(r)
    BY <1>1, <1>10 DEF PutSourceCheck, Exists, SubTypes, StepOfRequest, Calls, Cleaning, InTry
  <2>2. FileInv(r)' /\ SourceInv(r)' /\ TraceInv(r)'
    BY <1>1, <1>10 DEF PutSourceCheck, Exists, SubTypes, FileInv, SourceInv, TraceInv, InTry
  <2> QED  BY <2>1, <2>2, OthersKeep
<1>11. CASE PutSource(r)
  <2>1. SubTypes' /\ StepOfRequest(r)
    BY <1>1, <1>11 DEF PutSource, SubTypes, StepOfRequest, Calls, Cleaning, InTry
  <2>2. FileInv(r)'
    BY <1>1, <1>11 DEF PutSource, SubTypes, FileInv, InTry
  <2>3. SourceInv(r)'
    BY <1>1, <1>11 DEF PutSource, SubTypes, SourceInv, TraceInv, InTry
  <2>4. TraceInv(r)'
    BY <1>1, <1>11 DEF PutSource, SubTypes, TraceInv, InTry
  <2> QED  BY <2>1, <2>2, <2>3, <2>4, OthersKeep
<1>12. CASE Cleanup(r)
  <2>1. /\ onDisk' = [onDisk EXCEPT ![r] = -1]
        /\ UNCHANGED <<url, written, fetched, source, lapsed, created, published>>
    BY <1>12 DEF Cleanup
  <2>2. \/ at[r] = "cleanup" /\ Now(r, "create") /\ answer' = answer
        \/ at[r] = "cleanup_cached" /\ Respond(r, 200)
        \/ at[r] = "cleanup_raised" /\ Respond(r, 400)
    BY <1>12, Zenon DEF Cleanup
  <2>3. SubTypes' /\ StepOfRequest(r)
    BY <1>1, <2>1, <2>2 DEF SubTypes, StepOfRequest, Calls
  <2>4. FileInv(r)' /\ SourceInv(r)' /\ TraceInv(r)'
    BY <1>1, <2>1, <2>2 DEF SubTypes, FileInv, SourceInv, TraceInv, InTry
  <2> QED  BY <2>3, <2>4, OthersKeep
<1>13. CASE Create(r)
  <2>1. SubTypes' /\ StepOfRequest(r)
    BY <1>1, <1>13, SMTT(20) DEF Create, SubTypes, StepOfRequest, Calls, Cleaning, InTry
  <2>2. FileInv(r)' /\ SourceInv(r)' /\ TraceInv(r)'
    BY <1>1, <1>13, SMTT(20) DEF Create, SubTypes, FileInv, SourceInv, TraceInv, InTry
  <2> QED  BY <2>1, <2>2, OthersKeep
<1>14. CASE Publish(r)
  <2>1. SubTypes' /\ StepOfRequest(r)
    BY <1>1, <1>14 DEF Publish, SubTypes, StepOfRequest, Calls, Cleaning, InTry
  <2>2. FileInv(r)'
    BY <1>1, <1>14 DEF Publish, SubTypes, FileInv, InTry
  <2>3. SourceInv(r)'
    BY <1>1, <1>14 DEF Publish, SubTypes, SourceInv, TraceInv, InTry
  <2>4. TraceInv(r)'
    BY <1>1, <1>14, SMTT(20) DEF Publish, SubTypes, TraceInv, InTry
  <2> QED  BY <2>1, <2>2, <2>3, <2>4, OthersKeep
<1>15. CASE Raises(r)
  <2>1. SubTypes' /\ StepOfRequest(r)
    BY <1>1, <1>15, SMTT(20) DEF Raises, SubTypes, StepOfRequest, Calls, Cleaning, InTry
  <2>2. FileInv(r)'
    BY <1>1, <1>15 DEF Raises, SubTypes, FileInv, InTry
  <2>3. SourceInv(r)'
    BY <1>1, <1>15, SMTT(20) DEF Raises, SubTypes, SourceInv, TraceInv, InTry
  <2>4. TraceInv(r)'
    BY <1>1, <1>15, SMTT(20) DEF Raises, SubTypes, TraceInv, InTry
  <2> QED  BY <2>1, <2>2, <2>3, <2>4, OthersKeep
<1>16. CASE Dies(r)
  <2>1. SubTypes' /\ StepOfRequest(r)
    BY <1>1, <1>16, SMTT(20) DEF Dies, SubTypes, StepOfRequest, Calls, Cleaning, InTry
  <2>2. FileInv(r)' /\ SourceInv(r)' /\ TraceInv(r)'
    BY <1>1, <1>16 DEF Dies, SubTypes, FileInv, SourceInv, TraceInv, InTry
  <2> QED  BY <2>1, <2>2, OthersKeep
<1> QED
  BY <1>2, <1>3, <1>4, <1>5, <1>6, <1>7, <1>8, <1>9, <1>10,
     <1>11, <1>12, <1>13, <1>14, <1>15, <1>16 DEF SubmitStep

\* The requests, and the documents and sources that come and go meanwhile.
LEMMA RequestNext == RequestInv /\ [SubNext]_subVars => RequestInv'
<1> SUFFICES ASSUME RequestInv, [SubNext]_subVars PROVE RequestInv'
  OBVIOUS
<1>1. ASSUME UNCHANGED <<at, url, written, onDisk, answer, fetched, created, published>>,
             lapsed' \in [Requests -> BOOLEAN],
             \A r \in Requests : url[r] \in source \/ lapsed[r] =>
                 url[r] \in source' \/ lapsed'[r]
      PROVE  RequestInv'
  <2>1. SubTypes'
    BY <1>1 DEF RequestInv, SubTypes
  <2>2. ASSUME NEW r \in Requests PROVE FileInv(r)' /\ SourceInv(r)' /\ TraceInv(r)'
    <3>1. FileInv(r) /\ SourceInv(r) /\ TraceInv(r)
      BY DEF RequestInv
    <3>2. FileInv(r)'
      BY ONLY <1>1, <3>1, SMTT(20) DEF FileInv
    <3>3. SourceInv(r)'
      BY <1>1, <3>1 DEF SourceInv
    <3>4. TraceInv(r)'
      BY ONLY <1>1, <3>1, Zenon DEF TraceInv
    <3> QED  BY <3>2, <3>3, <3>4
  <2> QED  BY <2>1, <2>2 DEF RequestInv
<1>2. ASSUME NEW u \in Urls, DocumentDone(u) PROVE RequestInv'
  BY <1>1, <1>2 DEF DocumentDone, jobVars, RequestInv, SubTypes
<1>3. ASSUME NEW u \in Urls, Expire(u) PROVE RequestInv'
  <2>1. /\ source' = source \ {u} \/ source' = source
        /\ lapsed' = [r \in Requests |-> lapsed[r] \/ (url[r] = u /\ source' # source)]
        /\ UNCHANGED <<at, url, written, onDisk, answer, fetched, created, published>>
    BY <1>3 DEF Expire, jobVars
  <2>2. lapsed' \in [Requests -> BOOLEAN]
    BY <2>1
  <2>3. ASSUME NEW r \in Requests, url[r] \in source \/ lapsed[r]
        PROVE  url[r] \in source' \/ lapsed'[r]
    BY <2>1, <2>3, Zenon
  <2> QED  BY <1>1, <2>1, <2>2, <2>3, Zenon
<1>4. CASE UNCHANGED subVars
  BY <1>1, <1>4 DEF subVars, RequestInv, SubTypes
<1> QED  BY <1>2, <1>3, <1>4, SubmitStepKeeps DEF SubNext

LEMMA RequestInvariant == SubSpec => []RequestInv
<1>1. SubInit => RequestInv
  <2> SUFFICES ASSUME SubInit PROVE RequestInv
    OBVIOUS
  <2>1. SubTypes
    BY DEF SubInit, SubTypes, Calls
  <2>2. ASSUME NEW r \in Requests PROVE FileInv(r) /\ SourceInv(r) /\ TraceInv(r)
    BY LengthAssumption DEF SubInit, FileInv, SourceInv, TraceInv, InTry
  <2> QED  BY <2>1, <2>2 DEF RequestInv
<1> QED  BY <1>1, RequestNext, PTL DEF SubSpec

\* submit's finally removes the temporary file on every path to an answer, and
\* before the job is created (TempFileGone).
THEOREM TempFileGoneHolds == SubSpec => []TempFileGone
<1>1. RequestInv => TempFileGone
  BY DEF RequestInv, FileInv, TempFileGone
<1> QED  BY <1>1, RequestInvariant, PTL

\* _download stops before MAX_DOWNLOAD_BYTES are exceeded, whatever the server
\* announces and sends (DownloadCapped).
THEOREM DownloadCappedHolds == SubSpec => []DownloadCapped
<1>1. RequestInv => DownloadCapped
  BY DEF RequestInv, FileInv, DownloadCapped
<1> QED  BY <1>1, RequestInvariant, PTL

\* A job's source is stored when its rows are created, or expired after
\* put_source had dealt with it (JobHasSource).
THEOREM JobHasSourceHolds == SubSpec => []JobHasSource
<1>1. RequestInv => JobHasSource
  BY DEF RequestInv, SourceInv, JobHasSource
<1> QED  BY <1>1, RequestInvariant, PTL

\* submit's answers agree with what it has done (AnswersFit): 202 stands for rows
\* and messages, 200 and a refused request or download for neither.
THEOREM AnswersFitHolds == SubSpec => []AnswersFit
<1>1. ASSUME RequestInv PROVE AnswersFit
  <2> SUFFICES ASSUME NEW r \in Requests
               PROVE  /\ answer[r] = 202 => r \in created \cap published
                      /\ answer[r] \in {200, 401, 422, 500} \/ r \notin fetched
                             => r \notin created \cup published
    BY DEF AnswersFit
  <2>1. TraceInv(r)
    BY <1>1 DEF RequestInv
  <2> QED  BY <2>1 DEF TraceInv
<1> QED  BY <1>1, RequestInvariant, PTL

-----------------------------------------------------------------------------
(***************************************************************************)
(* The readiness probe.  What a check has returned in this probe was so at *)
(* the time, and up or down then is seen up or down since the probe began. *)
(***************************************************************************)
ProbeInv ==
    /\ up \subseteq sawUp /\ Dependencies \ up \subseteq sawDown
    /\ done \in 0 .. 3 /\ ready \in {"none", "ok", "degraded"}
    /\ results \in [Dependencies -> BOOLEAN]
    /\ ready # "none" => done = 3
    /\ ready = "ok" => \A d \in Dependencies : results[d]
    /\ ready = "degraded" => \E d \in Dependencies : ~ results[d]
    /\ done >= 1 => IF results["database"] THEN "database" \in sawUp
                                           ELSE "database" \in sawDown
    /\ done >= 2 => IF results["storage"] THEN "storage" \in sawUp
                                          ELSE "storage" \in sawDown
    /\ done >= 3 /\ ~ results["queue"] => "queue" \in sawDown

LEMMA ProbeNext == ProbeInv /\ [ReadyNext]_readyVars => ProbeInv'
<1> SUFFICES ASSUME ProbeInv, [ReadyNext]_readyVars PROVE ProbeInv'
  OBVIOUS
<1>1. Len(Checks) = 3 /\ Checks[1] = "database" /\ Checks[2] = "storage" /\ Checks[3] = "queue"
  BY DEF Checks
<1>2. /\ Running("database") => ready = "none" /\ done = 0
      /\ Running("storage") => ready = "none" /\ done = 1
      /\ Running("queue") => ready = "none" /\ done = 2
  <2>1. done < Len(Checks) => done = 0 \/ done = 1 \/ done = 2
    BY <1>1 DEF ProbeInv
  <2> QED  BY <1>1, <2>1 DEF Running, ProbeInv
<1>3. ASSUME NEW d \in Dependencies, GoDown(d) \/ ComeUp(d) PROVE ProbeInv'
  <2>1. UNCHANGED <<done, results, ready>>
    BY <1>3 DEF GoDown, ComeUp, probeVars
  <2>2. sawUp \subseteq sawUp' /\ sawDown \subseteq sawDown'
        /\ up' \subseteq sawUp' /\ Dependencies \ up' \subseteq sawDown'
    BY <1>3 DEF GoDown, ComeUp, ProbeInv
  <2> QED  BY <2>1, <2>2 DEF ProbeInv
<1>4. ASSUME NEW t \in PoolThreads, IdleExpires(t) PROVE ProbeInv'
  BY <1>4 DEF IdleExpires, probeVars, ProbeInv
<1>5. ASSUME NEW t \in PoolThreads, DbHealth(t) PROVE ProbeInv'
  <2>1. /\ done = 0 /\ done' = 1 /\ ready' = "none" /\ UNCHANGED <<up, sawUp, sawDown>>
        /\ results' = [results EXCEPT !["database"] = ("database" \in up)]
    BY <1>2, <1>5 DEF DbHealth, Report, DbAnswers
  <2>2. results' \in [Dependencies -> BOOLEAN] /\ results'["database"] = ("database" \in up)
    BY <2>1 DEF ProbeInv, Dependencies
  <2>3. /\ results'["database"] => "database" \in sawUp
        /\ ~ results'["database"] => "database" \in sawDown
    BY <2>2 DEF ProbeInv, Dependencies
  <2> QED  BY <2>1, <2>2, <2>3 DEF ProbeInv
<1>6. CASE StorageHealth
  <2>1. /\ done = 1 /\ done' = 2 /\ ready' = "none" /\ UNCHANGED <<up, sawUp, sawDown>>
        /\ results' = [results EXCEPT !["storage"] = ("storage" \in up)]
    BY <1>2, <1>6 DEF StorageHealth, Report
  <2>2. results' \in [Dependencies -> BOOLEAN] /\ results'["storage"] = ("storage" \in up)
        /\ results'["database"] = results["database"]
    BY <2>1 DEF ProbeInv, Dependencies
  <2>3. /\ results'["storage"] => "storage" \in sawUp
        /\ ~ results'["storage"] => "storage" \in sawDown
    BY <2>2 DEF ProbeInv, Dependencies
  <2> QED  BY <2>1, <2>2, <2>3 DEF ProbeInv
<1>7. ASSUME NEW t \in PoolThreads, QueueHealth(t) PROVE ProbeInv'
  <2>1. PICK ok \in BOOLEAN : Report("queue", ok) /\ (~ ok => "queue" \notin up)
    BY <1>7, Zenon DEF QueueHealth
  <2>2. /\ done = 2 /\ done' = 3 /\ ready' = "none" /\ UNCHANGED <<up, sawUp, sawDown>>
        /\ results' = [results EXCEPT !["queue"] = ok]
    BY <1>2, <1>7, <2>1 DEF QueueHealth, Report
  <2>3. results' \in [Dependencies -> BOOLEAN] /\ results'["queue"] = ok
        /\ results'["database"] = results["database"]
        /\ results'["storage"] = results["storage"]
    BY <2>2 DEF ProbeInv, Dependencies
  <2> QED  BY <2>1, <2>2, <2>3 DEF ProbeInv, Dependencies
<1>8. CASE Verdict
  BY <1>1, <1>8 DEF Verdict, AllHealthy, ProbeInv
<1>9. CASE NextProbe
  BY <1>9 DEF NextProbe, ProbeInv
<1>10. CASE UNCHANGED readyVars
  BY <1>10 DEF readyVars, probeVars, ProbeInv
<1> QED  BY <1>3, <1>4, <1>5, <1>6, <1>7, <1>8, <1>9, <1>10 DEF ReadyNext

LEMMA ProbeInvariant == ReadySpec => []ProbeInv
<1>1. ReadyInit => ProbeInv
  BY DEF ReadyInit, ProbeInv
<1> QED  BY <1>1, ProbeNext, PTL DEF ReadySpec

\* readyz says ready only if the database and the object store have both been up
\* during the probe (ReadyMeansDataUp).
THEOREM ReadyMeansDataUpHolds == ReadySpec => []ReadyMeansDataUp
<1>1. ProbeInv => ReadyMeansDataUp
  BY DEF ProbeInv, ReadyMeansDataUp, Dependencies
<1> QED  BY <1>1, ProbeInvariant, PTL

\* readyz takes a pod out of service only if a dependency was down during the
\* probe: an expired idle connection is reopened (DegradedMeansDown).
THEOREM DegradedMeansDownHolds == ReadySpec => []DegradedMeansDown
<1>1. ProbeInv => DegradedMeansDown
  BY DEF ProbeInv, DegradedMeansDown, Dependencies
<1> QED  BY <1>1, ProbeInvariant, PTL
=============================================================================
