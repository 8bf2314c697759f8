----------------------------- MODULE TaskQueue -----------------------------
(***************************************************************************)
(* The RabbitMQ topology taskqueue.py declares, as that module uses it:    *)
(* the work queue, the retry tiers whose messages dead-letter back to the  *)
(* work queue when their TTL runs out, the failed queue, and the one       *)
(* unacknowledged delivery (prefetch 1) the broker remembers per consumer. *)
(*                                                                         *)
(* Queues are bags: redelivery and TTLs reorder messages anyway, and the   *)
(* same task may be queued more than once.                                 *)
(***************************************************************************)
EXTENDS ChunkTask

CONSTANTS
    Workers,        \* consumers of the work queue
    NumTiers        \* len(config.RETRY_DELAYS)

ASSUME NumTiersAssumption == NumTiers \in Nat \ {0}

VARIABLES
    ready,          \* bag of tasks on the work queue
    retry,          \* bag of tasks waiting out a delay on a retry tier
    parked,         \* tasks on the failed queue
    unacked         \* the delivery the broker has outstanding to each worker

taskQueueVars == <<ready, retry, parked, unacked>>

TaskQueueTypeOK ==
    /\ ready \in [Task -> Nat]
    /\ retry \in [Task -> Nat]
    /\ parked \in SUBSET Task
    /\ unacked \in [Workers -> Task \cup {NoTask}]

TaskQueueInit ==
    /\ ready = [t \in Task |-> 0]
    /\ retry = [t \in Task |-> 0]
    /\ parked = {}
    /\ unacked = [w \in Workers |-> NoTask]

-----------------------------------------------------------------------------
\* A message sent to a routing key no queue is bound to is dropped: only
\* tiers 1 .. NumTiers are declared.
DeclaredTiers == 1 .. NumTiers

\* A faulty retry_queue_name: one tier too far, and no clamp.
RetryTier_OffByOne(a) == a + 1

\* retry_queue_name, clamped to the last tier.
RetryTier(a) == IF a < NumTiers THEN a ELSE NumTiers

Publish(t) ==
    /\ ready' = [ready EXCEPT ![t] = @ + 1]
    /\ UNCHANGED <<retry, parked, unacked>>

\* The broker takes n copies of the next attempt of t: normally one.
PublishRetry(t, n) ==
    /\ IF RetryTier(t.attempt) \in DeclaredTiers
       THEN retry' = [retry EXCEPT ![NextAttempt(t)] = @ + n]
       ELSE UNCHANGED retry
    /\ UNCHANGED <<ready, parked, unacked>>

PublishFailed(t) ==
    /\ parked' = parked \cup {t}
    /\ UNCHANGED <<ready, retry, unacked>>

\* Prefetch 1: a worker with an outstanding delivery gets no other.
Deliver(w, t) ==
    /\ unacked[w] = NoTask
    /\ ready[t] > 0
    /\ ready' = [ready EXCEPT ![t] = @ - 1]
    /\ unacked' = [unacked EXCEPT ![w] = t]
    /\ UNCHANGED <<retry, parked>>

\* The broker forgets the delivery; without one the call raises and the
\* worker reconnects, which leaves the broker's state alone.
BasicAck(w) ==
    /\ unacked' = [unacked EXCEPT ![w] = NoTask]
    /\ UNCHANGED <<ready, retry, parked>>

\* The broker sees w's connection go down and requeues what w had not acked.
Requeue(w) ==
    /\ IF unacked[w] # NoTask
       THEN ready' = [ready EXCEPT ![unacked[w]] = @ + 1]
       ELSE UNCHANGED ready
    /\ unacked' = [unacked EXCEPT ![w] = NoTask]
    /\ UNCHANGED <<retry, parked>>

\* x-message-ttl runs out: the message dead-letters to the work queue.
Expire(t) ==
    /\ retry[t] > 0
    /\ retry' = [retry EXCEPT ![t] = @ - 1]
    /\ ready' = [ready EXCEPT ![t] = @ + 1]
    /\ UNCHANGED <<parked, unacked>>
=============================================================================
