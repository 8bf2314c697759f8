----------------------------- MODULE Readiness -----------------------------
(***************************************************************************)
(* GET /readyz: db.health, storage.health and taskqueue.health, one after  *)
(* the other, each in some thread of the pool with that thread's cached    *)
(* connections, while the dependencies go down and come back.              *)
(***************************************************************************)
EXTENDS Integers, Sequences

CONSTANT PoolThreads

Dependencies == {"database", "storage", "queue"}
Checks == <<"database", "storage", "queue">>

VARIABLES
    up,             \* the dependencies that answer
    dbConn,         \* each thread's database connection
    mqConn,         \* each thread's broker connection
    done,           \* how many checks the probe has made
    results,        \* and what they returned
    ready,          \* the last probe's verdict, or "none" while one runs
    sawUp, sawDown  \* history: dependencies seen up, seen down since it began

probeVars == <<done, results, ready>>
readyVars == <<up, dbConn, mqConn, probeVars, sawUp, sawDown>>

ReadyInit ==
    /\ up \in SUBSET Dependencies
    /\ dbConn = [t \in PoolThreads |-> "none"]
    /\ mqConn = [t \in PoolThreads |-> "none"]
    /\ done = 0
    /\ results = [d \in Dependencies |-> FALSE]
    /\ ready = "none"
    /\ sawUp = up /\ sawDown = Dependencies \ up

-----------------------------------------------------------------------------
\* The connections to a dependency that goes down are dead, which nobody
\* notices before using them.
GoDown(d) ==
    /\ d \in up
    /\ up' = up \ {d} /\ sawDown' = sawDown \cup {d}
    /\ dbConn' = IF d # "database" THEN dbConn
                 ELSE [t \in PoolThreads |-> IF dbConn[t] = "open" THEN "stale" ELSE dbConn[t]]
    /\ mqConn' = IF d # "queue" THEN mqConn
                 ELSE [t \in PoolThreads |-> IF mqConn[t] = "open" THEN "lost" ELSE mqConn[t]]
    /\ UNCHANGED <<probeVars, sawUp>>

ComeUp(d) ==
    /\ d \in Dependencies \ up
    /\ up' = up \cup {d} /\ sawUp' = sawUp \cup {d}
    /\ UNCHANGED <<dbConn, mqConn, probeVars, sawDown>>

\* An idle thread's stream handle expires; the broker drops an idle thread's
\* connection, which sends no heartbeat.
IdleExpires(t) ==
    /\ \/ /\ dbConn[t] = "open"
          /\ dbConn' = [dbConn EXCEPT ![t] = "stale"] /\ UNCHANGED mqConn
       \/ /\ mqConn[t] = "open"
          /\ mqConn' = [mqConn EXCEPT ![t] = "lost"] /\ UNCHANGED dbConn
    /\ UNCHANGED <<up, probeVars, sawUp, sawDown>>

-----------------------------------------------------------------------------
Running(check) == ready = "none" /\ done < Len(Checks) /\ Checks[done + 1] = check

Report(check, ok) ==
    /\ results' = [results EXCEPT ![check] = ok]
    /\ done' = done + 1
    /\ UNCHANGED <<up, ready, sawUp, sawDown>>

\* A faulty db.health: it bypasses _run, and a stale connection is an error.
DbAnswers_NoRetry(t) == "database" \in up /\ dbConn[t] # "stale"

\* _run reopens a stale connection once, so only the server counts.
DbAnswers(t) == "database" \in up

DbHealth(t) ==
    /\ Running("database")
    /\ Report("database", DbAnswers(t))
    /\ dbConn' = [dbConn EXCEPT ![t] = IF DbAnswers(t) THEN "open"
                                       ELSE IF @ = "stale" THEN "none" ELSE @]
    /\ UNCHANGED mqConn

\* head_bucket
StorageHealth ==
    /\ Running("storage")
    /\ Report("storage", "storage" \in up)
    /\ UNCHANGED <<dbConn, mqConn>>

\* connect returns a cached connection that is_open, which a lost one is until
\* it is used; otherwise it opens one and declares the topology, in one step.
QueueHealth(t) ==
    /\ Running("queue")
    /\ \/ mqConn[t] # "none" /\ Report("queue", TRUE) /\ UNCHANGED mqConn
       \/ /\ mqConn[t] = "none" /\ "queue" \in up
          /\ mqConn' = [mqConn EXCEPT ![t] = "open"]
          /\ Report("queue", TRUE)
       \/ /\ mqConn[t] = "none" /\ "queue" \notin up
          /\ Report("queue", FALSE)
          /\ UNCHANGED mqConn
    /\ UNCHANGED dbConn

\* A faulty readyz: one healthy dependency is enough.
AllHealthy_Any == \E d \in Dependencies : results[d]

AllHealthy == \A d \in Dependencies : results[d]

Verdict ==
    /\ ready = "none" /\ done = Len(Checks)
    /\ ready' = IF AllHealthy THEN "ok" ELSE "degraded"
    /\ UNCHANGED <<up, dbConn, mqConn, done, results, sawUp, sawDown>>

NextProbe ==
    /\ ready # "none"
    /\ ready' = "none" /\ done' = 0
    /\ sawUp' = up /\ sawDown' = Dependencies \ up
    /\ UNCHANGED <<up, dbConn, mqConn, results>>

ReadyNext ==
    \/ \E d \in Dependencies : GoDown(d) \/ ComeUp(d)
    \/ \E t \in PoolThreads : IdleExpires(t) \/ DbHealth(t) \/ QueueHealth(t)
    \/ StorageHealth \/ Verdict \/ NextProbe

ReadySpec == ReadyInit /\ [][ReadyNext]_readyVars

-----------------------------------------------------------------------------
\* A pod that reports ready has had an answer from the database and from the
\* object store during this probe, whatever its connections were before.
ReadyMeansDataUp == ready = "ok" => {"database", "storage"} \subseteq sawUp

\* A pod is taken out of the Service only for a dependency that was down
\* during the probe: "a connection that expired while the pod was idle is
\* reopened here rather than reported as a dead dependency".
DegradedMeansDown == ready = "degraded" => sawDown # {}
=============================================================================
