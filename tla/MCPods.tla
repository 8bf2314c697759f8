------------------------------- MODULE MCPods -------------------------------
(***************************************************************************)
(* Small instances, for TLC, of the modules about what a pod keeps to      *)
(* itself: the temporary file of a request, the connections its threads    *)
(* have cached, the source files a worker has cached.  They share no       *)
(* state: a behaviour is one of one of them, part says of which, and the   *)
(* variables of the others keep a fixed value.                             *)
(***************************************************************************)
EXTENDS Submission, Readiness, SourceCache, TLC

CONSTANTS r1, r2, small, large, t1, t2, h1, h2, h3, proc1, proc2

\* One url within the cap of one piece and one beyond it.
TwoLengths == small :> 1 @@ large :> 2

\* Any two sources fit the budget of two, but not all three.
OneEach == [h \in Hashes |-> 1]

PodSymmetry ==
    Permutations({r1, r2}) \cup Permutations({t1, t2}) \cup Permutations({proc1, proc2})

-----------------------------------------------------------------------------
VARIABLE part

allVars == <<part, subVars, readyVars, cacheVars>>

SubFixed == url = [r \in Requests |-> NoUrl]
ReadyFixed == up = Dependencies

PodsInit ==
    /\ SubInit /\ ReadyInit /\ CacheInit
    /\ \/ part = "submission" /\ ReadyFixed
       \/ part = "readiness" /\ SubFixed
       \/ part = "cache" /\ SubFixed /\ ReadyFixed

StepOfSubmission ==
    part = "submission" /\ SubNext /\ UNCHANGED <<part, readyVars, cacheVars>>
StepOfReadiness ==
    part = "readiness" /\ ReadyNext /\ UNCHANGED <<part, subVars, cacheVars>>
StepOfCache ==
    part = "cache" /\ CacheNext /\ UNCHANGED <<part, subVars, readyVars>>

PodsSpec ==
    PodsInit /\ [][StepOfSubmission \/ StepOfReadiness \/ StepOfCache]_allVars
=============================================================================
