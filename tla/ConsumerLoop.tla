---------------------------- MODULE ConsumerLoop ----------------------------
(***************************************************************************)
(* The worker process around handle: run_forever, taskqueue.consume with   *)
(* connect and close, the signal handler, and the liveness file with the   *)
(* probe that reads it.                                                    *)
(*                                                                         *)
(* A message is on the queue, outstanding at a worker, or gone, which is   *)
(* the broker's view.  What handle does with a chunk is left to Worker:    *)
(* here it ends, or the process dies of the chunk, each time anew.         *)
(* The liveness file's age is counted in inactivity timeouts.              *)
(***************************************************************************)
EXTENDS Integers, FiniteSets

CONSTANTS
    Consumers,      \* worker processes
    Leaving,        \* the ones that are sent a SIGTERM
    Messages,
    Malformed,      \* messages from_bytes cannot parse
    Poison,         \* chunks a process may die of (out of memory)
    ProbeLimit,     \* the age at which the probe restarts the container
    MaxDisturbed    \* bound: connections lost and processes killed

ASSUME LeavingAssumption == Leaving \subseteq Consumers
ASSUME MessagesAssumption ==
    /\ Malformed \subseteq Messages /\ Poison \subseteq Messages \ Malformed
    /\ {"queue", "gone"} \cap Consumers = {}
ASSUME LoopBoundsAssumption == ProbeLimit \in Nat /\ MaxDisturbed \in Nat

VARIABLES
    loop,           \* where each process is
    stop,           \* _stop
    link,           \* its connection: "none", "open", or "lost" unnoticed
    where,          \* where each message is
    handled,        \* history: messages handle has returned from
    failedQueue,    \* messages with a copy on the failed queue
    age,            \* inactivity timeouts since the liveness file was touched
    disturbed

loopVars == <<loop, stop, link, where, handled, failedQueue, age, disturbed>>

Places == {"top", "connect", "consume", "park", "handle", "ack", "raised", "close",
           "stopped"}

Held(w) == {m \in Messages : where[m] = w}

\* Types; a delivery is outstanding only on a live connection, and one at a
\* time (prefetch 1).
LoopTypeOK ==
    /\ loop \in [Consumers -> Places]
    /\ stop \in [Consumers -> BOOLEAN]
    /\ link \in [Consumers -> {"none", "open", "lost"}]
    /\ where \in [Messages -> {"queue", "gone"} \cup Consumers]
    /\ handled \in SUBSET Messages /\ failedQueue \in SUBSET Messages
    /\ age \in [Consumers -> 0 .. ProbeLimit + 1]
    /\ disturbed \in 0 .. MaxDisturbed
    /\ \A w \in Consumers : /\ Cardinality(Held(w)) <= 1
                            /\ Held(w) # {} => link[w] = "open"

LoopInit ==
    /\ loop = [w \in Consumers |-> "top"]
    /\ stop = [w \in Consumers |-> FALSE]
    /\ link = [w \in Consumers |-> "none"]
    /\ where = [m \in Messages |-> "queue"]
    /\ handled = {} /\ failedQueue = {}
    /\ age = [w \in Consumers |-> 0]
    /\ disturbed = 0

-----------------------------------------------------------------------------
At(w, p) == loop[w] = p
Enter(w, p) == loop' = [loop EXCEPT ![w] = p]

\* The broker sees the end of w's connection and requeues what w has not acked.
Requeued(w) == [m \in Messages |-> IF where[m] = w THEN "queue" ELSE where[m]]

\* _touch_liveness
Touched(w) == [age EXCEPT ![w] = 0]

\* run_forever: the while condition, and the touch before consume.
Top(w) ==
    /\ At(w, "top")
    /\ IF stop[w]
       THEN Enter(w, "close") /\ UNCHANGED age
       ELSE Enter(w, "connect") /\ age' = Touched(w)
    /\ UNCHANGED <<stop, link, where, handled, failedQueue, disturbed>>

\* connect with declare, basic_qos and basic_consume; any of them may raise.
Connect(w) ==
    /\ At(w, "connect")
    /\ \/ Enter(w, "consume") /\ link' = [link EXCEPT ![w] = "open"]
       \/ Enter(w, "raised") /\ UNCHANGED link
    /\ UNCHANGED <<stop, where, handled, failedQueue, age, disturbed>>

\* A faulty consume: the broker is not told to hold back further messages.
Deliver_NoQos(w) ==
    /\ loop[w] \in {"consume", "handle"} /\ link[w] = "open"
    /\ \E m \in Messages :
           /\ where[m] = "queue"
           /\ where' = [where EXCEPT ![m] = w]
           /\ Enter(w, IF m \in Malformed THEN "park" ELSE "handle")
    /\ UNCHANGED <<stop, link, handled, failedQueue, age, disturbed>>

\* consume is yielded a message.  When it must stop it leaves the loop, the
\* message unacked; a malformed one is put on the failed queue.
Deliver(w) ==
    /\ At(w, "consume") /\ link[w] = "open"
    /\ \E m \in Messages :
           /\ where[m] = "queue"
           /\ where' = [where EXCEPT ![m] = w]
           /\ Enter(w, IF stop[w] THEN "close"
                       ELSE IF m \in Malformed THEN "park" ELSE "handle")
           /\ age' = IF stop[w] \/ m \in Malformed THEN age ELSE Touched(w)
    /\ UNCHANGED <<stop, link, handled, failedQueue, disturbed>>

\* A faulty consume: start_consuming, which returns control with a message.
InactivityTimeout_Never(w) ==
    /\ At(w, "consume") /\ link[w] = "open"
    /\ ~ stop[w]
    /\ age' = [age EXCEPT ![w] = IF @ > ProbeLimit THEN @ ELSE @ + 1]
    /\ UNCHANGED <<loop, stop, link, where, handled, failedQueue, disturbed>>

\* The inactivity timeout: no message, and the loop inside consume goes on.
InactivityTimeout(w) ==
    /\ At(w, "consume") /\ link[w] = "open"
    /\ IF stop[w]
       THEN Enter(w, "close") /\ UNCHANGED age
       ELSE /\ age' = [age EXCEPT ![w] = IF @ > ProbeLimit THEN @ ELSE @ + 1]
            /\ UNCHANGED loop
    /\ UNCHANGED <<stop, link, where, handled, failedQueue, disturbed>>

\* Next to nothing of a lost connection is noticed but by using it.
ConsumeRaises(w) ==
    /\ loop[w] \in {"consume", "ack"} /\ link[w] = "lost"
    /\ Enter(w, "raised")
    /\ UNCHANGED <<stop, link, where, handled, failedQueue, age, disturbed>>

\* A faulty consume: the copy is sent to a routing key without a queue.
Park_Unrouted(w) ==
    /\ At(w, "park")
    /\ Enter(w, "ack")
    /\ UNCHANGED <<stop, link, where, handled, failedQueue, age, disturbed>>

\* The copy of a malformed message, on the channel its ack will be sent on.
Park(w) ==
    /\ At(w, "park")
    /\ Enter(w, "ack")
    /\ failedQueue' = failedQueue \cup Held(w)
    /\ UNCHANGED <<stop, link, where, handled, age, disturbed>>

\* handle returns, or raises and on_task swallows it.
HandleEnds(w) ==
    /\ At(w, "handle")
    /\ Enter(w, "ack")
    /\ handled' = handled \cup Held(w)
    /\ UNCHANGED <<stop, link, where, failedQueue, age, disturbed>>

BasicAck(w) ==
    /\ At(w, "ack") /\ link[w] # "lost"
    /\ where' = [m \in Messages |-> IF where[m] = w THEN "gone" ELSE where[m]]
    /\ Enter(w, "consume")
    /\ UNCHANGED <<stop, link, handled, failedQueue, age, disturbed>>

\* A faulty run_forever: a lost connection ends the process' loop.
Reconnect_GiveUp(w) ==
    /\ At(w, "raised")
    /\ Enter(w, "close")
    /\ UNCHANGED <<stop, link, where, handled, failedQueue, age, disturbed>>

\* The except block of run_forever: close and wait, unless it must stop.
Reconnect(w) ==
    /\ At(w, "raised")
    /\ IF stop[w]
       THEN Enter(w, "close") /\ UNCHANGED <<link, where>>
       ELSE /\ Enter(w, "top")
            /\ link' = [link EXCEPT ![w] = "none"]
            /\ where' = Requeued(w)
    /\ UNCHANGED <<stop, handled, failedQueue, age, disturbed>>

\* A faulty run_forever: the connection is left open.
Close_KeepOpen(w) ==
    /\ At(w, "close")
    /\ Enter(w, "stopped")
    /\ UNCHANGED <<stop, link, where, handled, failedQueue, age, disturbed>>

\* taskqueue.close after the loop; the process ends.
Close(w) ==
    /\ At(w, "close")
    /\ Enter(w, "stopped")
    /\ link' = [link EXCEPT ![w] = "none"]
    /\ where' = Requeued(w)
    /\ UNCHANGED <<stop, handled, failedQueue, age, disturbed>>

-----------------------------------------------------------------------------
Signal(w) ==
    /\ w \in Leaving /\ ~ stop[w]
    /\ stop' = [stop EXCEPT ![w] = TRUE]
    /\ UNCHANGED <<loop, link, where, handled, failedQueue, age, disturbed>>

Restarted(w) ==
    /\ Enter(w, "top")
    /\ link' = [link EXCEPT ![w] = "none"]
    /\ where' = Requeued(w)
    /\ UNCHANGED <<stop, handled, failedQueue>>

\* The chunk kills the process, and the container is started again.
DieOfChunk(w) ==
    /\ At(w, "handle") /\ Held(w) \cap Poison # {}
    /\ Restarted(w)
    /\ UNCHANGED <<age, disturbed>>

\* The process dies of something else.
Kill(w) ==
    /\ loop[w] # "stopped" /\ ~ stop[w]
    /\ disturbed < MaxDisturbed /\ disturbed' = disturbed + 1
    /\ Restarted(w)
    /\ UNCHANGED age

\* The probe finds the file too old and the container is restarted.
ProbeFails(w) ==
    /\ age[w] > ProbeLimit /\ loop[w] # "stopped"
    /\ disturbed < MaxDisturbed /\ disturbed' = disturbed + 1
    /\ Restarted(w)
    /\ UNCHANGED age

\* The broker drops the connection (it restarts, or misses heartbeats).
LoseLink(w) ==
    /\ link[w] = "open"
    /\ disturbed < MaxDisturbed /\ disturbed' = disturbed + 1
    /\ link' = [link EXCEPT ![w] = "lost"]
    /\ where' = Requeued(w)
    /\ UNCHANGED <<loop, stop, handled, failedQueue, age>>

LoopStep(w) ==
    \/ Top(w) \/ Deliver(w) \/ InactivityTimeout(w) \/ ConsumeRaises(w)
    \/ Park(w) \/ HandleEnds(w) \/ BasicAck(w) \/ Reconnect(w) \/ Close(w)

LoopNext ==
    \E w \in Consumers :
        \/ LoopStep(w) \/ Connect(w) \/ DieOfChunk(w)
        \/ Signal(w) \/ Kill(w) \/ ProbeFails(w) \/ LoseLink(w)

LoopSpec == LoopInit /\ [][LoopNext]_loopVars

\* A process runs on; a broker that is tried again and again answers at last;
\* and a queued message is delivered to a consumer that keeps asking.  Nothing
\* is assumed of a chunk that kills its process: it may do so every time.
FairLoopSpec ==
    /\ LoopSpec
    /\ \A w \in Consumers :
           /\ WF_loopVars(LoopStep(w))
           /\ WF_loopVars(Connect(w))
           /\ SF_loopVars(Connect(w) /\ loop'[w] = "consume")
           /\ SF_loopVars(Deliver(w))

-----------------------------------------------------------------------------
\* A message leaves the broker only when handle has returned from it, or, if
\* it cannot be parsed, once a copy is on the failed queue: publish and ack
\* take the same channel, so a lost connection loses both or the ack alone.
NothingVanishes ==
    \A m \in Messages : where[m] = "gone" =>
        m \in IF m \in Malformed THEN failedQueue ELSE handled

\* A process that has stopped holds no message: the delivery it was yielded
\* after the signal went back to the queue when it closed its connection.
StoppedHoldsNothing == \A w \in Consumers : At(w, "stopped") => Held(w) = {}

\* "Stop after the current chunk": a process that is told to stop does,
\* whether or not messages arrive and the broker answers.
StopsWhenTold ==
    \A w \in Consumers : stop[w] ~> At(w, "stopped")

\* Every message is settled in the end, across reconnects and restarts, as
\* long as one process stays, unless a chunk that kills processes keeps coming
\* back, for it can keep the others waiting.
EveryMessageSettles ==
    Leaving # Consumers =>
        \A m \in Messages :
            \/ <>[](where[m] = "gone")
            \/ []<>(\E w \in Consumers : At(w, "handle") /\ Held(w) \cap Poison # {})

\* _touch_liveness: "Touched on every consume tick, including idle ones".  A
\* worker that only waits is not restarted.
IdleWorkerIsAlive == \A w \in Consumers : At(w, "consume") => age[w] <= ProbeLimit

\* The attempts column: "an OOM-killed worker still burns an attempt".  A
\* chunk that kills every worker is given up.
OomBurnsAttempt == \A m \in Poison : <>[](where[m] = "gone")
=============================================================================
