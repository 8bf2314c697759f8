---------------------------- MODULE WorkerProofs ----------------------------
(***************************************************************************)
(* What a worker takes from the broker and what it leaves in the object    *)
(* store: a message goes only when it has been dealt with, and the         *)
(* manifest never counts a page that was not written, on which readers     *)
(* rely.  For any number of workers, messages, jobs, requests, versions    *)
(* and pages.                                                              *)
(***************************************************************************)
EXTENDS ConsumerLoop, DocumentStore, FiniteSetTheorems, TLAPS

-----------------------------------------------------------------------------
(***************************************************************************)
(* The loop.  A process holds a message only between its delivery and its  *)
(* ack, and by the time it can ack the message is on the failed queue or   *)
(* has been handled.                                                       *)
(***************************************************************************)
Settled(m) == m \in IF m \in Malformed THEN failedQueue ELSE handled

HeldInv(w) ==
    /\ loop[w] \in {"top", "connect", "consume", "stopped"} => Held(w) = {}
    /\ loop[w] = "park" => Held(w) \subseteq Malformed
    /\ loop[w] = "handle" => Held(w) \cap Malformed = {}
    /\ loop[w] = "ack" => \A m \in Held(w) : Settled(m)

LoopInv ==
    /\ loop \in [Consumers -> Places]
    /\ where \in [Messages -> {"queue", "gone"} \cup Consumers]
    /\ \A w \in Consumers : HeldInv(w)
    /\ NothingVanishes

\* A step of w touches the place of w and messages that are queued or w's own,
\* and takes nothing back from the failed queue or from what was handled.
StepOf(w) ==
    /\ loop' \in [Consumers -> Places]
    /\ \A u \in Consumers \ {w} : loop'[u] = loop[u]
    /\ where' \in [Messages -> {"queue", "gone"} \cup Consumers]
    /\ \A m \in Messages : \/ where'[m] = where[m]
                           \/ {where[m], where'[m]} \subseteq {"queue", w}
                           \/ where[m] = w /\ where'[m] = "gone"
    /\ handled \subseteq handled' /\ failedQueue \subseteq failedQueue'

LEMMA StepOfKeeps ==
    ASSUME LoopInv, NEW w \in Consumers, StepOf(w), HeldInv(w)',
           \A m \in Messages : where[m] = w /\ where'[m] = "gone" => Settled(m)'
    PROVE  LoopInv'
<1>1. \A m \in Messages : Settled(m) => Settled(m)'
  BY DEF Settled, StepOf
<1>2. ASSUME NEW u \in Consumers \ {w} PROVE HeldInv(u)'
  <2>1. loop'[u] = loop[u] /\ HeldInv(u)
    BY DEF StepOf, LoopInv
  <2>2. u \notin {"queue", "gone", w}
    BY MessagesAssumption
  <2>3. ASSUME NEW m \in Messages PROVE where'[m] = u <=> where[m] = u
    BY <2>2 DEF StepOf
  <2>4. Held(u)' = Held(u)
    BY <2>3 DEF Held
  <2>5. Held(u) \subseteq Messages
    BY DEF Held
  <2> HIDE DEF Held
  <2> QED  BY <1>1, <2>1, <2>4, <2>5 DEF HeldInv
<1>3. NothingVanishes'
  <2> SUFFICES ASSUME NEW m \in Messages, where'[m] = "gone" PROVE Settled(m)'
    BY DEF NothingVanishes, Settled
  <2>1. CASE where[m] = "gone"
    <3>1. Settled(m)
      BY <2>1 DEF LoopInv, NothingVanishes, Settled
    <3> QED  BY <1>1, <3>1
  <2>2. CASE where[m] # "gone"
    <3>1. w # "gone"
      BY MessagesAssumption
    <3>2. where[m] = w
      BY <2>2, <3>1 DEF StepOf
    <3> QED  BY <3>2
  <2> QED  BY <2>1, <2>2
<1> QED  BY <1>2, <1>3 DEF LoopInv, StepOf

\* A step of w that leaves the messages where they are and goes to a place
\* that asks no more of them.
LEMMA MoveKeeps ==
    ASSUME LoopInv, NEW w \in Consumers, NEW p \in Places, Enter(w, p),
           where' = where, handled' = handled, failedQueue' = failedQueue,
           \/ p \in {"raised", "close"}
           \/ p \in {"top", "connect", "consume"} /\ Held(w) = {}
    PROVE  LoopInv'
<1>1. StepOf(w) /\ loop'[w] = p
  BY DEF LoopInv, StepOf, Enter
<1>2. Held(w)' = Held(w)
  BY DEF Held
<1>3. HeldInv(w)'
  BY <1>1, <1>2 DEF HeldInv
<1>4. w # "gone"
  BY MessagesAssumption
<1> QED  BY <1>1, <1>3, <1>4, StepOfKeeps

\* The broker requeues what w holds.
LEMMA RequeueKeeps ==
    ASSUME LoopInv, NEW w \in Consumers, NEW p \in Places,
           Enter(w, p) \/ loop' = loop,
           where' = Requeued(w), handled' = handled, failedQueue' = failedQueue
    PROVE  LoopInv'
<1>1. /\ where' \in [Messages -> {"queue", "gone"} \cup Consumers]
      /\ \A m \in Messages : where'[m] = IF where[m] = w THEN "queue" ELSE where[m]
  BY DEF LoopInv, Requeued
<1>2. StepOf(w)
  <2>1. loop' \in [Consumers -> Places] /\ \A u \in Consumers \ {w} : loop'[u] = loop[u]
    BY DEF LoopInv, Enter
  <2> QED  BY <1>1, <2>1 DEF StepOf
<1>3. w \notin {"queue", "gone"}
  BY MessagesAssumption
<1>4. Held(w)' = {}
  BY <1>1, <1>3 DEF Held
<1>5. HeldInv(w)'
  BY <1>4 DEF HeldInv
<1>6. ASSUME NEW m \in Messages, where[m] = w PROVE where'[m] # "gone"
  BY <1>1, <1>6
<1> QED  BY <1>2, <1>5, <1>6, StepOfKeeps

LEMMA LoopStepKeeps ==
    ASSUME LoopInv, NEW w \in Consumers, LoopStep(w)
    PROVE  LoopInv'
<1>1. /\ loop[w] \in Places /\ HeldInv(w) /\ w \notin {"queue", "gone"}
      /\ DOMAIN loop = Consumers /\ DOMAIN where = Messages
  BY MessagesAssumption DEF LoopInv
<1>2. CASE Top(w)
  <2>1. Held(w) = {}
    BY <1>1, <1>2 DEF Top, At, HeldInv
  <2>2. Enter(w, "close") \/ Enter(w, "connect")
    BY <1>2 DEF Top
  <2>3. where' = where /\ handled' = handled /\ failedQueue' = failedQueue
    BY <1>2 DEF Top
  <2> QED  BY <2>1, <2>2, <2>3, MoveKeeps DEF Places
<1>3. CASE Deliver(w)
  <2>1. Held(w) = {} /\ handled' = handled /\ failedQueue' = failedQueue
    BY <1>1, <1>3 DEF Deliver, At, HeldInv
  <2>2. PICK m \in Messages :
            /\ where[m] = "queue" /\ where' = [where EXCEPT ![m] = w]
            /\ Enter(w, IF stop[w] THEN "close"
                        ELSE IF m \in Malformed THEN "park" ELSE "handle")
    BY <1>3, Zenon DEF Deliver
  <2>3. /\ \A u \in Consumers \ {w} : loop'[u] = loop[u]
        /\ loop' \in [Consumers -> Places]
        /\ \/ loop'[w] = "close"
           \/ loop'[w] = "park" /\ m \in Malformed
           \/ loop'[w] = "handle" /\ m \notin Malformed
    <3>1. CASE stop[w]
      BY <2>2, <3>1 DEF Enter, LoopInv, Places
    <3>2. CASE ~ stop[w] /\ m \in Malformed
      BY <2>2, <3>2 DEF Enter, LoopInv, Places
    <3>3. CASE ~ stop[w] /\ m \notin Malformed
      BY <2>2, <3>3 DEF Enter, LoopInv, Places
    <3> QED  BY <3>1, <3>2, <3>3
  <2>4. StepOf(w)
    BY <2>1, <2>2, <2>3 DEF StepOf, LoopInv
  <2>5. Held(w)' = {m}
    BY <1>1, <2>1, <2>2 DEF Held
  <2>6. HeldInv(w)'
    BY <2>3, <2>5 DEF HeldInv
  <2>7. \A k \in Messages : where[k] = w => where'[k] # "gone"
    BY <1>1, <2>2
  <2> QED  BY <2>4, <2>6, <2>7, StepOfKeeps
<1>4. CASE InactivityTimeout(w)
  <2>1. Held(w) = {} /\ At(w, "consume")
    BY <1>1, <1>4 DEF InactivityTimeout, At, HeldInv
  <2>2. Enter(w, "close") \/ Enter(w, "consume")
    BY <1>1, <1>4, <2>1 DEF InactivityTimeout, Enter, At, LoopInv
  <2>3. where' = where /\ handled' = handled /\ failedQueue' = failedQueue
    BY <1>4 DEF InactivityTimeout
  <2> QED  BY <2>1, <2>2, <2>3, MoveKeeps DEF Places
<1>5. CASE ConsumeRaises(w)
  BY <1>5, MoveKeeps DEF ConsumeRaises, Places
<1>6. CASE Park(w)
  <2>1. /\ Held(w) \subseteq Malformed /\ Enter(w, "ack") /\ where' = where
        /\ handled' = handled /\ failedQueue' = failedQueue \cup Held(w)
    BY <1>1, <1>6 DEF Park, At, HeldInv
  <2>2. StepOf(w) /\ loop'[w] = "ack"
    BY <2>1 DEF StepOf, LoopInv, Enter, Places
  <2>3. Held(w)' = Held(w)
    BY <2>1 DEF Held
  <2>4. \A m \in Held(w) : Settled(m)'
    BY <2>1 DEF Settled
  <2>5. HeldInv(w)'
    BY <2>2, <2>3, <2>4 DEF HeldInv
  <2> QED  BY <1>1, <2>1, <2>2, <2>5, StepOfKeeps
<1>7. CASE HandleEnds(w)
  <2>1. /\ Held(w) \cap Malformed = {} /\ Enter(w, "ack") /\ where' = where
        /\ handled' = handled \cup Held(w) /\ failedQueue' = failedQueue
    BY <1>1, <1>7 DEF HandleEnds, At, HeldInv
  <2>2. StepOf(w) /\ loop'[w] = "ack"
    BY <2>1 DEF StepOf, LoopInv, Enter, Places
  <2>3. Held(w)' = Held(w)
    BY <2>1 DEF Held
  <2>4. \A m \in Held(w) : Settled(m)'
    BY <2>1 DEF Settled
  <2>5. HeldInv(w)'
    BY <2>2, <2>3, <2>4 DEF HeldInv
  <2> QED  BY <1>1, <2>1, <2>2, <2>5, StepOfKeeps
<1>8. CASE BasicAck(w)
  <2>1. /\ \A m \in Held(w) : Settled(m)
        /\ Enter(w, "consume") /\ handled' = handled /\ failedQueue' = failedQueue
        /\ where' = [m \in Messages |-> IF where[m] = w THEN "gone" ELSE where[m]]
    BY <1>1, <1>8 DEF BasicAck, At, HeldInv
  <2>2. /\ where' \in [Messages -> {"queue", "gone"} \cup Consumers]
        /\ \A m \in Messages : where'[m] = IF where[m] = w THEN "gone" ELSE where[m]
    BY <2>1 DEF LoopInv
  <2>3. StepOf(w) /\ loop'[w] = "consume"
    BY <2>1, <2>2 DEF StepOf, LoopInv, Enter, Places
  <2>4. Held(w)' = {}
    BY <1>1, <2>2 DEF Held
  <2>5. HeldInv(w)'
    BY <2>3, <2>4 DEF HeldInv
  <2>6. \A m \in Messages : where[m] = w => Settled(m)'
    BY <2>1 DEF Held, Settled
  <2> QED  BY <2>3, <2>5, <2>6, StepOfKeeps
<1>9. CASE Reconnect(w)
  <2>1. handled' = handled /\ failedQueue' = failedQueue
    BY <1>9 DEF Reconnect
  <2>2. \/ Enter(w, "close") /\ where' = where
        \/ Enter(w, "top") /\ where' = Requeued(w)
    BY <1>9 DEF Reconnect
  <2> QED  BY <2>1, <2>2, MoveKeeps, RequeueKeeps DEF Places
<1>10. CASE Close(w)
  BY <1>10, RequeueKeeps DEF Close, Places
<1> QED
  BY <1>2, <1>3, <1>4, <1>5, <1>6, <1>7, <1>8, <1>9, <1>10 DEF LoopStep

LEMMA LoopNextKeeps == LoopInv /\ [LoopNext]_loopVars => LoopInv'
<1> SUFFICES ASSUME LoopInv, [LoopNext]_loopVars PROVE LoopInv'
  OBVIOUS
<1>1. ASSUME NEW w \in Consumers, Connect(w) PROVE LoopInv'
  <2>1. /\ Held(w) = {} /\ (Enter(w, "consume") \/ Enter(w, "raised"))
        /\ where' = where /\ handled' = handled /\ failedQueue' = failedQueue
    BY <1>1 DEF Connect, At, LoopInv, HeldInv
  <2> QED  BY <2>1, MoveKeeps DEF Places
<1>2. ASSUME NEW w \in Consumers, DieOfChunk(w) \/ Kill(w) \/ ProbeFails(w)
      PROVE  LoopInv'
  BY <1>2, RequeueKeeps DEF DieOfChunk, Kill, ProbeFails, Restarted, Places
<1>3. ASSUME NEW w \in Consumers, LoseLink(w) PROVE LoopInv'
  <2>1. "top" \in Places
    BY DEF Places
  <2> QED  BY <1>3, <2>1, RequeueKeeps DEF LoseLink
<1>4. CASE UNCHANGED <<loop, where, handled, failedQueue>>
  <2>1. \A w : Held(w)' = Held(w)
    BY <1>4 DEF Held
  <2>2. \A m : Settled(m)' = Settled(m)
    BY <1>4 DEF Settled
  <2>3. \A w : HeldInv(w)' = HeldInv(w)
    BY <1>4, <2>1, <2>2 DEF HeldInv
  <2> QED  BY <1>4, <2>3 DEF LoopInv, NothingVanishes
<1>5. ASSUME NEW w \in Consumers, Signal(w) PROVE LoopInv'
  BY <1>4, <1>5 DEF Signal
<1>6. CASE UNCHANGED loopVars
  BY <1>4, <1>6 DEF loopVars
<1> QED  BY <1>1, <1>2, <1>3, <1>5, <1>6, LoopStepKeeps DEF LoopNext

LEMMA LoopInvHolds == LoopSpec => []LoopInv
<1>1. LoopInit => LoopInv
  <2> SUFFICES ASSUME LoopInit PROVE LoopInv
    OBVIOUS
  <2>1. \A w \in Consumers : Held(w) = {}
    BY MessagesAssumption DEF LoopInit, Held
  <2> QED  BY <2>1 DEF LoopInit, LoopInv, HeldInv, NothingVanishes, Places
<1> QED  BY <1>1, LoopNextKeeps, PTL DEF LoopSpec

\* A message leaves the broker handled or with a copy on the failed queue, for
\* any number of processes that lose connections, are killed and restarted.
THEOREM NothingVanishesHolds == LoopSpec => []NothingVanishes
<1>1. LoopInv => NothingVanishes
  BY DEF LoopInv
<1> QED  BY <1>1, LoopInvHolds, PTL

\* A process that has stopped holds no message, whenever it was told to stop.
THEOREM StoppedHoldsNothingHolds == LoopSpec => []StoppedHoldsNothing
<1>1. LoopInv => StoppedHoldsNothing
  BY DEF LoopInv, HeldInv, StoppedHoldsNothing, At
<1> QED  BY <1>1, LoopInvHolds, PTL

\* The broker's side: types, one delivery at a time, and none without a live
\* connection.
LinkInv ==
    /\ stop \in [Consumers -> BOOLEAN]
    /\ link \in [Consumers -> {"none", "open", "lost"}]
    /\ handled \in SUBSET Messages /\ failedQueue \in SUBSET Messages
    /\ age \in [Consumers -> 0 .. ProbeLimit + 1]
    /\ disturbed \in 0 .. MaxDisturbed
    /\ \A m, n \in Messages : where[m] \in Consumers =>
           /\ where[n] = where[m] => n = m
           /\ link[where[m]] = "open"

\* A step that delivers no message and keeps or requeues what is held.
LEMMA LinkFrame ==
    ASSUME LinkInv, NEW w \in Consumers,
           where' = where \/ where' = Requeued(w),
           link' = link \/ \E l \in {"none", "open", "lost"} : link' = [link EXCEPT ![w] = l],
           where' = where => link' = link \/ Held(w) = {}
    PROVE  \A m, n \in Messages : where'[m] \in Consumers =>
               /\ where'[n] = where'[m] => n = m
               /\ link'[where'[m]] = "open"
<1> SUFFICES ASSUME NEW m \in Messages, NEW n \in Messages, where'[m] \in Consumers
             PROVE  (where'[n] = where'[m] => n = m) /\ link'[where'[m]] = "open"
  OBVIOUS
<1>1. "queue" \notin Consumers
  BY MessagesAssumption
<1>2. where'[m] = where[m] /\ (where'[n] = where'[m] => where[n] = where[m])
  BY <1>1 DEF Requeued
<1>3. (where[n] = where[m] => n = m) /\ link[where[m]] = "open"
  BY <1>2 DEF LinkInv
<1>4. link' = link \/ where[m] # w
  BY <1>1, <1>2 DEF Held, Requeued
<1>5. link'[where[m]] = link[where[m]]
  BY <1>2, <1>4 DEF LinkInv
<1> QED  BY <1>2, <1>3, <1>5

\* One step per action of the loop and per disturbance.
LEMMA LinkNext == LoopInv /\ LinkInv /\ [LoopNext]_loopVars => LinkInv'
<1> SUFFICES ASSUME LoopInv, LinkInv, [LoopNext]_loopVars PROVE LinkInv'
  OBVIOUS
<1>0. ProbeLimit \in Nat /\ MaxDisturbed \in Nat
  BY LoopBoundsAssumption
<1>1. ASSUME NEW w \in Consumers, Top(w) PROVE LinkInv'
  <2>1. UNCHANGED <<stop, link, where, handled, failedQueue, disturbed>>
        /\ age' \in [Consumers -> 0 .. ProbeLimit + 1]
    BY <1>0, <1>1 DEF Top, Touched, LinkInv
  <2> QED  BY <2>1 DEF LinkInv
<1>2. ASSUME NEW w \in Consumers, Connect(w) PROVE LinkInv'
  <2>1. UNCHANGED <<stop, where, handled, failedQueue, age, disturbed>>
        /\ (link' = link \/ link' = [link EXCEPT ![w] = "open"])
    BY <1>2 DEF Connect
  <2>2. Held(w) = {}
    BY <1>2 DEF Connect, At, LoopInv, HeldInv
  <2>3. link' \in [Consumers -> {"none", "open", "lost"}]
    BY <2>1 DEF LinkInv
  <2> QED  BY <2>1, <2>2, <2>3, LinkFrame DEF LinkInv
<1>3. ASSUME NEW w \in Consumers, Deliver(w) PROVE LinkInv'
  <2>1. UNCHANGED <<stop, link, handled, failedQueue, disturbed>>
        /\ Held(w) = {} /\ link[w] = "open"
    BY <1>3 DEF Deliver, At, LoopInv, HeldInv
  <2>2. PICK k \in Messages : where' = [where EXCEPT ![k] = w]
    BY <1>3, Zenon DEF Deliver
  <2>3. age' \in [Consumers -> 0 .. ProbeLimit + 1]
    <3>1. age' = age \/ age' = [age EXCEPT ![w] = 0]
      BY <1>3 DEF Deliver, Touched
    <3> QED  BY <1>0, <3>1 DEF LinkInv
  <2>4. \A m \in Messages : where'[m] = IF m = k THEN w ELSE where[m]
    BY <2>2 DEF LoopInv
  <2>5. \A m \in Messages : where[m] # w
    BY <2>1 DEF Held
  <2>6. \A m, n \in Messages : where'[m] \in Consumers =>
           /\ where'[n] = where'[m] => n = m
           /\ link[where'[m]] = "open"
    BY <2>1, <2>4, <2>5 DEF LinkInv
  <2> QED  BY <2>1, <2>3, <2>6 DEF LinkInv
<1>4. ASSUME NEW w \in Consumers, InactivityTimeout(w) PROVE LinkInv'
  <2>1. UNCHANGED <<stop, link, where, handled, failedQueue, disturbed>>
    BY <1>4 DEF InactivityTimeout
  <2>2. age' \in [Consumers -> 0 .. ProbeLimit + 1]
    <3>1. age' = age \/ age' = [age EXCEPT ![w] = IF @ > ProbeLimit THEN @ ELSE @ + 1]
      BY <1>4 DEF InactivityTimeout
    <3> QED  BY <1>0, <3>1 DEF LinkInv
  <2> QED  BY <2>1, <2>2 DEF LinkInv
<1>5. ASSUME NEW w \in Consumers, ConsumeRaises(w) PROVE LinkInv'
  BY <1>5 DEF ConsumeRaises, LinkInv
<1>6. ASSUME NEW w \in Consumers, Park(w) \/ HandleEnds(w) PROVE LinkInv'
  BY <1>6 DEF Park, HandleEnds, Held, LinkInv
<1>7. ASSUME NEW w \in Consumers, BasicAck(w) PROVE LinkInv'
  <2>1. UNCHANGED <<stop, link, handled, failedQueue, age, disturbed>>
        /\ where' = [m \in Messages |-> IF where[m] = w THEN "gone" ELSE where[m]]
    BY <1>7 DEF BasicAck
  <2>2. "gone" \notin Consumers
    BY MessagesAssumption
  <2> QED  BY <2>1, <2>2 DEF LinkInv
<1>8. ASSUME NEW w \in Consumers, Reconnect(w) \/ Close(w) PROVE LinkInv'
  <2>1. /\ UNCHANGED <<stop, handled, failedQueue, age, disturbed>>
        /\ \/ link' = link /\ where' = where
           \/ link' = [link EXCEPT ![w] = "none"] /\ where' = Requeued(w)
    BY <1>8 DEF Reconnect, Close
  <2>2. link' \in [Consumers -> {"none", "open", "lost"}]
    BY <2>1 DEF LinkInv
  <2>3. where' = where => link' = link \/ Held(w) = {}
    BY <2>1, MessagesAssumption DEF Requeued, Held
  <2> QED  BY <2>1, <2>2, <2>3, LinkFrame DEF LinkInv
<1>9. ASSUME NEW w \in Consumers, DieOfChunk(w) \/ Kill(w) \/ ProbeFails(w) \/ LoseLink(w)
      PROVE LinkInv'
  <2>1. /\ UNCHANGED <<stop, handled, failedQueue, age>>
        /\ \E l \in {"none", "open", "lost"} : link' = [link EXCEPT ![w] = l]
        /\ where' = Requeued(w)
        /\ disturbed' \in 0 .. MaxDisturbed
    BY <1>0, <1>9 DEF DieOfChunk, Kill, ProbeFails, LoseLink, Restarted, LinkInv
  <2>2. link' \in [Consumers -> {"none", "open", "lost"}]
    BY <2>1 DEF LinkInv
  <2>3. where' = where => link' = link \/ Held(w) = {}
    BY <2>1, MessagesAssumption DEF Requeued, Held
  <2> QED  BY <2>1, <2>2, <2>3, LinkFrame, Zenon DEF LinkInv
<1>10. ASSUME NEW w \in Consumers, Signal(w) PROVE LinkInv'
  BY <1>10 DEF Signal, LinkInv
<1>11. CASE UNCHANGED loopVars
  BY <1>11 DEF loopVars, LinkInv
<1> QED
  BY <1>1, <1>2, <1>3, <1>4, <1>5, <1>6, <1>7, <1>8, <1>9, <1>10, <1>11
     DEF LoopNext, LoopStep

LEMMA LinkInvariant == LoopSpec => []LinkInv
<1>1. LoopInit => LinkInv
  BY MessagesAssumption, LoopBoundsAssumption DEF LoopInit, LinkInv
<1> QED  BY <1>1, LinkNext, LoopInvHolds, PTL DEF LoopSpec

\* A worker has at most one message, and none without a live connection
\* (LoopTypeOK, prefetch_count = 1): what the broker requeues when the connection
\* goes is exactly what the worker can no longer ack.
THEOREM LoopTypesHold == LoopSpec => []LoopTypeOK
<1>1. ASSUME LoopInv, LinkInv PROVE LoopTypeOK
  <2>1. ASSUME NEW w \in Consumers
        PROVE  Cardinality(Held(w)) <= 1 /\ (Held(w) # {} => link[w] = "open")
    <3>1. CASE Held(w) = {}
      BY <3>1, FS_EmptySet
    <3>2. CASE Held(w) # {}
      <4>1. PICK m \in Messages : where[m] = w
        BY <3>2 DEF Held
      <4>2. Held(w) = {m} /\ link[w] = "open"
        BY <1>1, <4>1 DEF Held, LinkInv
      <4>3. Cardinality({m}) = 1
        BY FS_Singleton
      <4> QED  BY <4>2, <4>3
    <3> QED  BY <3>1, <3>2
  <2> QED  BY <1>1, <2>1 DEF LoopInv, LinkInv, LoopTypeOK
<1> QED  BY <1>1, LoopInvHolds, LinkInvariant, PTL

-----------------------------------------------------------------------------
(***************************************************************************)
(* The stored objects.                                                     *)
(***************************************************************************)
\* A page was written and is there, or the lifecycle rule took it.
Stored(i) == page[i] # None \/ i \in expired
\* The same of the manifest.
Manifested == manifest # None \/ 0 \in expired

\* How far an assembly has come.
AssemblyInv ==
    \A j \in DocJobs :
        /\ at[j] \in {"find_row", "find_manifest", "find_page", "convert"} => index[j] = 1
        /\ at[j] \in {"put_page", "put_manifest", "record"} => version[j] \in Versions
        /\ at[j] = "put_page"
               => /\ index[j] <= PagesOf[version[j]]
                  /\ \A i \in 1 .. index[j] - 1 : Stored(i)
        /\ at[j] = "put_manifest" => \A i \in 1 .. PagesOf[version[j]] : Stored(i)
        /\ at[j] \in {"record", "finish", "get_manifest", "get_page"} => Manifested

\* What a caller between two reads knows, and what it was answered.
ReadInv ==
    \A k \in Clients :
        /\ at[k] = "get_page" => Stored(index[k])
        /\ at[k] # "end" => answer[k] = "none"
        /\ k \in Readers => at[k] \in {"get_manifest", "get_page", "end"}

DocInv == DocTypeOK /\ AssemblyInv /\ ManifestBacked /\ ReadInv /\ DoneIsReadable

-----------------------------------------------------------------------------
\* No step but an expiry takes an object away.
LEMMA StoredStays ==
    ASSUME DocInv, [DocNext]_docVars
    PROVE  /\ \A i \in PageNums : Stored(i) => Stored(i)'
           /\ Manifested => Manifested'
           /\ expired \subseteq expired'
<1> USE NoneAssumption DEF DocInv, DocTypeOK, Stored, Manifested, objects
<1>1. ASSUME NEW j \in DocJobs, PutPage(j) \/ PutManifest(j)
      PROVE  /\ \A i \in PageNums : Stored(i) => Stored(i)'
             /\ Manifested => Manifested'
             /\ expired \subseteq expired'
  BY <1>1 DEF PutPage, PutManifest, AssemblyInv
<1>2. CASE ExpireObject
  BY <1>2 DEF ExpireObject
<1>3. CASE UNCHANGED <<page, manifest, expired>>
  BY <1>3
<1>4. ASSUME NEW j \in DocJobs,
             \/ FindRow(j) \/ FindManifest(j) \/ FindPage(j) \/ ConvertDocument(j)
             \/ RecordRow(j) \/ FinishRow(j) \/ AssemblyStops(j)
      PROVE  UNCHANGED <<page, manifest, expired>>
  BY <1>4 DEF FindRow, FindManifest, FindPage, ConvertDocument, RecordRow, FinishRow, AssemblyStops
<1>5. ASSUME NEW k \in Clients, GetManifest(k) \/ GetPage(k)
      PROVE  UNCHANGED <<page, manifest, expired>>
  BY <1>5 DEF GetManifest, GetPage
<1>6. CASE UNCHANGED docVars
  BY <1>3, <1>6 DEF docVars
<1> QED  BY <1>1, <1>2, <1>3, <1>4, <1>5, <1>6 DEF DocNext

\* The two outcomes of reading the manifest.
LEMMA ManifestRead ==
    ASSUME NEW k \in Clients, DocInv, GetManifest(k)
    PROVE  /\ UNCHANGED <<page, manifest, recorded, expired, version>>
           /\ \/ /\ Answer(k, "no_document") /\ UNCHANGED index
                 /\ k \in DocJobs => manifest = None
              \/ /\ manifest # None
                 /\ \E p \in PageNums :
                        /\ p <= PagesOf[manifest]
                        /\ Move(k, "get_page")
                        /\ index' = [index EXCEPT ![k] = p]
                        /\ UNCHANGED answer
<1>1. UNCHANGED <<page, manifest, recorded, expired, version>>
  BY DEF GetManifest, objects
<1>2. PICK p \in PageAsked(k) :
          IF manifest # None /\ p \in 1 .. PagesOf[manifest]
          THEN /\ Move(k, "get_page")
               /\ index' = [index EXCEPT ![k] = p]
               /\ UNCHANGED answer
          ELSE Answer(k, "no_document") /\ UNCHANGED index
  BY DEF GetManifest
<1>3. p \in Int /\ (k \in DocJobs => p = 1)
  BY MaxPagesAssumption DEF PageAsked
<1>4. manifest # None => PagesOf[manifest] \in 1 .. MaxPages
  BY PagesOfAssumption DEF DocInv, DocTypeOK
<1>5. CASE manifest # None /\ p \in 1 .. PagesOf[manifest]
  <2>1. p \in PageNums /\ p <= PagesOf[manifest]
    BY <1>4, <1>5, MaxPagesAssumption DEF PageNums
  <2> QED  BY <1>1, <1>2, <1>5, <2>1
<1>6. CASE ~(manifest # None /\ p \in 1 .. PagesOf[manifest])
  <2>1. k \in DocJobs => manifest = None
    BY <1>3, <1>4, <1>6, MaxPagesAssumption
  <2> QED  BY <1>1, <1>2, <1>6, <2>1
<1> QED  BY <1>5, <1>6

\* The two outcomes of reading a page.
LEMMA PageRead ==
    ASSUME NEW k \in Clients, GetPage(k)
    PROVE  \/ Answer(k, "page")
           \/ Answer(k, "no_page") /\ page[index[k]] = None
<1>1. CASE page[index[k]] = None
  BY <1>1 DEF GetPage
<1>2. CASE page[index[k]] # None
  BY <1>2 DEF GetPage
<1> QED  BY <1>1, <1>2

\* Every step keeps the variables in their types.
LEMMA DocTypeStep ==
    ASSUME DocInv, [DocNext]_docVars
    PROVE  DocTypeOK'
<1> USE MaxPagesAssumption, PagesOfAssumption
    DEF DocInv, DocTypeOK, Clients, PageNums, objects, Move, Answer
<1>1. ASSUME NEW j \in DocJobs,
             FindRow(j) \/ FindManifest(j) \/ FindPage(j) \/ ConvertDocument(j)
      PROVE  DocTypeOK'
  <2>1. CASE FindRow(j)
    BY <2>1 DEF FindRow
  <2>2. CASE FindManifest(j)
    BY <2>2 DEF FindManifest
  <2>3. CASE FindPage(j)
    BY <2>3, Zenon DEF FindPage
  <2>4. CASE ConvertDocument(j)
    BY <2>4 DEF ConvertDocument
  <2> QED  BY <1>1, <2>1, <2>2, <2>3, <2>4
<1>2. ASSUME NEW j \in DocJobs, PutPage(j) PROVE DocTypeOK'
  <2>1. index[j] \in 1 .. MaxPages /\ version[j] \in Versions
        /\ index[j] <= PagesOf[version[j]] /\ PagesOf[version[j]] \in 1 .. MaxPages
    BY <1>2 DEF PutPage, AssemblyInv
  <2>2. index[j] < PagesOf[version[j]] => index[j] + 1 \in 1 .. MaxPages
    BY <2>1
  <2> QED  BY <1>2, <2>1, <2>2, Zenon DEF PutPage
<1>3. ASSUME NEW j \in DocJobs, PutManifest(j) \/ RecordRow(j) \/ FinishRow(j) \/ AssemblyStops(j)
      PROVE  DocTypeOK'
  <2>1. CASE PutManifest(j)
    BY <2>1 DEF PutManifest
  <2>2. CASE RecordRow(j)
    <3>1. recorded' \in BOOLEAN
      BY <2>2 DEF RecordRow
    <3> QED  BY <2>2, <3>1 DEF RecordRow
  <2>3. CASE FinishRow(j)
    BY <2>3 DEF FinishRow
  <2>4. CASE AssemblyStops(j)
    BY <2>4 DEF AssemblyStops
  <2> QED  BY <1>3, <2>1, <2>2, <2>3, <2>4
<1>4. ASSUME NEW k \in Clients, GetManifest(k) PROVE DocTypeOK'
  <2>1. UNCHANGED <<page, manifest, recorded, expired, version>>
    BY <1>4, ManifestRead, Zenon
  <2>2. CASE Answer(k, "no_document") /\ UNCHANGED index
    BY <2>1, <2>2
  <2>3. ASSUME NEW p \in PageNums, Move(k, "get_page"),
               index' = [index EXCEPT ![k] = p], UNCHANGED answer
        PROVE  DocTypeOK'
    BY <2>1, <2>3
  <2>4. CASE \E p \in PageNums : /\ Move(k, "get_page")
                                 /\ index' = [index EXCEPT ![k] = p]
                                 /\ UNCHANGED answer
    BY <2>3, <2>4, Zenon
  <2> HIDE DEF DocInv, DocTypeOK, Clients, PageNums, objects, Move, Answer
  <2>5. \/ Answer(k, "no_document") /\ UNCHANGED index
        \/ \E p \in PageNums : /\ Move(k, "get_page")
                               /\ index' = [index EXCEPT ![k] = p]
                               /\ UNCHANGED answer
    BY <1>4, ManifestRead, Zenon
  <2> QED  BY <2>2, <2>4, <2>5
<1>5. ASSUME NEW k \in Clients, GetPage(k) PROVE DocTypeOK'
  <2>1. UNCHANGED <<page, manifest, recorded, expired, version, index>>
    BY <1>5 DEF GetPage
  <2>2. CASE Answer(k, "page")
    BY <2>1, <2>2
  <2>3. CASE Answer(k, "no_page")
    BY <2>1, <2>3
  <2>4. Answer(k, "page") \/ Answer(k, "no_page")
    BY <1>5, PageRead
  <2> QED  BY <2>2, <2>3, <2>4
<1>6. CASE ExpireObject
  <2>0. 0 \in 0 .. MaxPages /\ PageNums \subseteq 0 .. MaxPages
    OBVIOUS
  <2>1. expired' \in SUBSET (0 .. MaxPages)
    <3>1. \E i \in 0 .. MaxPages : expired' = expired \cup {i}
      BY <1>6, <2>0 DEF ExpireObject
    <3> QED  BY <3>1
  <2>2. page' \in [PageNums -> Versions \cup {None}]
    BY <1>6 DEF ExpireObject
  <2>3. manifest' \in Versions \cup {None}
    BY <1>6 DEF ExpireObject
  <2> QED  BY <1>6, <2>1, <2>2, <2>3 DEF ExpireObject
<1>7. CASE UNCHANGED docVars
  BY <1>7 DEF docVars
<1> QED  BY <1>1, <1>2, <1>3, <1>4, <1>5, <1>6, <1>7, Zenon DEF DocNext

\* Every step keeps what an assembly has already stored.
LEMMA AssemblyStep ==
    ASSUME DocInv, [DocNext]_docVars
    PROVE  AssemblyInv'
<1>0. DocTypeOK' /\ PagesOf \in [Versions -> 1 .. MaxPages] /\ MaxPages \in Nat
  BY DocTypeStep, PagesOfAssumption, MaxPagesAssumption
<1>1. /\ \A i \in PageNums : Stored(i) => Stored(i)'
      /\ Manifested => Manifested'
  BY StoredStays
<1> SUFFICES ASSUME NEW j \in DocJobs
             PROVE  /\ at'[j] \in {"find_row", "find_manifest", "find_page", "convert"} => index'[j] = 1
                    /\ at'[j] \in {"put_page", "put_manifest", "record"} => version'[j] \in Versions
                    /\ at'[j] = "put_page"
                           => /\ index'[j] <= PagesOf[version'[j]]
                              /\ \A i \in 1 .. index'[j] - 1 : Stored(i)'
                    /\ at'[j] = "put_manifest" => \A i \in 1 .. PagesOf[version'[j]] : Stored(i)'
                    /\ at'[j] \in {"record", "finish", "get_manifest", "get_page"} => Manifested'
  BY DEF AssemblyInv
<1> DEFINE Mine == at'[j] = at[j] /\ index'[j] = index[j] /\ version'[j] = version[j]
<1>2. /\ at \in [Clients -> {"find_row", "find_manifest", "find_page", "convert",
                             "put_page", "put_manifest", "record", "finish",
                             "get_manifest", "get_page", "end"}]
      /\ j \in Clients
      /\ index \in [Clients -> 1 .. MaxPages] /\ PageNums = 1 .. MaxPages
      /\ version \in [DocJobs -> Versions \cup {None}]
  BY DEF DocInv, DocTypeOK, Clients, PageNums
<1>3. /\ at[j] \in {"find_row", "find_manifest", "find_page", "convert"} => index[j] = 1
      /\ at[j] \in {"put_page", "put_manifest", "record"} => version[j] \in Versions
      /\ at[j] = "put_page"
             => index[j] <= PagesOf[version[j]] /\ \A i \in 1 .. index[j] - 1 : Stored(i)
      /\ at[j] = "put_manifest" => \A i \in 1 .. PagesOf[version[j]] : Stored(i)
      /\ at[j] \in {"record", "finish", "get_manifest", "get_page"} => Manifested
  BY DEF DocInv, AssemblyInv
<1>4. \A i \in 1 .. MaxPages : Stored(i) => Stored(i)'
  BY <1>1, <1>2
<1>5. CASE Mine
  <2>1. /\ at[j] = "put_page" => index[j] - 1 <= MaxPages
        /\ at[j] = "put_manifest" => PagesOf[version[j]] <= MaxPages
    BY <1>0, <1>2, <1>3
  <2>2. at[j] = "put_page" => \A i \in 1 .. index[j] - 1 : Stored(i)'
    BY <1>0, <1>2, <1>3, <1>4, <2>1
  <2>3. at[j] = "put_manifest" => \A i \in 1 .. PagesOf[version[j]] : Stored(i)'
    BY <1>0, <1>2, <1>3, <1>4, <2>1
  <2> QED  BY <1>1, <1>3, <1>5, <2>2, <2>3
<1>6. CASE FindRow(j) \/ FindManifest(j) \/ FindPage(j)
  BY <1>2, <1>3, <1>6 DEF FindRow, FindManifest, FindPage, Move, Answer
<1>7. CASE ConvertDocument(j)
  <2>1. at'[j] = "put_page" /\ index'[j] = 1 /\ version'[j] \in Versions
    BY <1>2, <1>3, <1>7 DEF ConvertDocument, Move
  <2> QED  BY <1>0, <2>1
<1>8. CASE PutPage(j)
  <2>1. /\ at[j] = "put_page" /\ UNCHANGED <<version, expired>>
        /\ page' = [page EXCEPT ![index[j]] = version[j]]
    BY <1>8 DEF PutPage
  <2>2. index[j] \in 1 .. MaxPages /\ version[j] \in Versions /\ PagesOf[version[j]] \in 1 .. MaxPages
    BY <1>0, <1>2, <1>3, <2>1
  <2>3. ASSUME NEW i \in 1 .. MaxPages, i = index[j]
        PROVE  Stored(i)'
    <3>1. page'[i] = version[j]
      BY <2>1, <2>2, <2>3, <1>2 DEF DocInv, DocTypeOK
    <3> QED  BY <2>2, <3>1, NoneAssumption DEF Stored
  <2>4. ASSUME NEW i \in 1 .. index[j]
        PROVE  Stored(i)'
    <3>1. i \in 1 .. MaxPages /\ (i # index[j] => i \in 1 .. index[j] - 1)
      BY <1>0, <2>2
    <3> QED  BY <1>3, <1>4, <2>1, <2>3, <3>1
  <2>5. CASE index[j] < PagesOf[version[j]]
    <3>1. at'[j] = "put_page" /\ index'[j] = index[j] + 1 /\ version'[j] = version[j]
      BY <1>2, <1>8, <2>5 DEF PutPage
    <3>2. index'[j] <= PagesOf[version[j]] /\ 1 .. index'[j] - 1 = 1 .. index[j]
      BY <2>2, <2>5, <3>1
    <3> QED  BY <2>2, <2>4, <3>1, <3>2
  <2>6. CASE ~(index[j] < PagesOf[version[j]])
    <3>1. at'[j] = "put_manifest" /\ version'[j] = version[j]
      BY <1>2, <1>8, <2>6 DEF PutPage, Move
    <3>2. 1 .. PagesOf[version[j]] = 1 .. index[j]
      BY <1>3, <2>1, <2>2, <2>6
    <3> QED  BY <2>2, <2>4, <3>1, <3>2
  <2> QED  BY <2>5, <2>6
<1>9. CASE PutManifest(j)
  <2>1. at'[j] = "record" /\ version'[j] \in Versions /\ manifest' \in Versions
    BY <1>2, <1>3, <1>9 DEF PutManifest, Move
  <2> QED  BY <2>1, NoneAssumption DEF Manifested
<1>10. CASE RecordRow(j) \/ FinishRow(j)
  <2>1. at[j] \in {"record", "finish"} /\ at'[j] \in {"finish", "get_manifest"}
    BY <1>2, <1>10 DEF RecordRow, FinishRow, Move
  <2> QED  BY <1>1, <1>3, <2>1
<1>11. CASE AssemblyStops(j)
  <2>1. at'[j] = "end"
    BY <1>2, <1>11 DEF AssemblyStops, Move
  <2> QED  BY <2>1
<1>12. CASE GetManifest(j)
  <2>1. at[j] = "get_manifest" /\ at'[j] \in {"end", "get_page"}
    BY <1>2, <1>12, ManifestRead DEF Answer, Move, GetManifest
  <2> QED  BY <1>1, <1>3, <2>1
<1>13. CASE GetPage(j)
  <2>1. at'[j] = "end"
    BY <1>2, <1>13, PageRead DEF Answer, Move
  <2> QED  BY <2>1
<1>14. ASSUME NEW k \in Clients, k # j, GetManifest(k) \/ GetPage(k)
       PROVE  Mine
  <2>1. CASE GetManifest(k)
    BY <1>2, <1>14, <2>1, ManifestRead DEF Answer, Move
  <2>2. CASE GetPage(k)
    BY <1>2, <1>14, <2>2, SMTT(20) DEF GetPage, Answer, Move
  <2> QED  BY <1>14, <2>1, <2>2
<1>15. ASSUME NEW k \in DocJobs, k # j,
              \/ FindRow(k) \/ FindManifest(k) \/ FindPage(k) \/ ConvertDocument(k)
              \/ PutPage(k) \/ PutManifest(k) \/ RecordRow(k) \/ FinishRow(k) \/ AssemblyStops(k)
       PROVE  Mine
  <2>1. k \in Clients
    BY DEF Clients
  <2>2. CASE FindRow(k) \/ FindManifest(k) \/ FindPage(k) \/ ConvertDocument(k)
    BY <1>2, <1>15, <2>1, <2>2 DEF FindRow, FindManifest, FindPage, ConvertDocument, Answer, Move
  <2>3. CASE PutPage(k) \/ PutManifest(k) \/ RecordRow(k) \/ FinishRow(k) \/ AssemblyStops(k)
    BY <1>2, <1>15, <2>1, <2>3 DEF PutPage, PutManifest, RecordRow, FinishRow, AssemblyStops, Move
  <2> QED  BY <1>15, <2>2, <2>3
<1>16. CASE ExpireObject \/ UNCHANGED docVars
  BY <1>5, <1>16, Zenon DEF ExpireObject, docVars
<1> HIDE DEF Mine
<1> QED  BY <1>5, <1>6, <1>7, <1>8, <1>9, <1>10, <1>11, <1>12, <1>13, <1>14, <1>15, <1>16, Zenon DEF DocNext

\* A step leaves the manifest, removes it, or writes it with all its pages there.
LEMMA ManifestStep ==
    ASSUME DocInv, [DocNext]_docVars
    PROVE  ManifestBacked'
<1>0. /\ \A i \in 1 .. MaxPages : Stored(i) => Stored(i)'
      /\ \A v \in Versions : 1 .. PagesOf[v] \subseteq 1 .. MaxPages
      /\ manifest \in Versions \cup {None}
  BY StoredStays, PagesOfAssumption, MaxPagesAssumption DEF DocInv, DocTypeOK, PageNums
<1>1. SUFFICES ASSUME manifest' # None, NEW i \in 1 .. PagesOf[manifest']
               PROVE  Stored(i)'
  BY DEF ManifestBacked, Stored
<1>2. CASE UNCHANGED manifest
  <2>1. i \in 1 .. MaxPages /\ Stored(i)
    BY <1>0, <1>1, <1>2 DEF DocInv, ManifestBacked, Stored
  <2> QED  BY <1>0, <2>1
<1>3. ASSUME NEW j \in DocJobs, PutManifest(j)
      PROVE  Stored(i)'
  <2>1. manifest' = version[j] /\ version[j] \in Versions
    BY <1>3 DEF PutManifest, DocInv, AssemblyInv
  <2>2. i \in 1 .. MaxPages /\ Stored(i)
    BY <1>0, <1>1, <1>3, <2>1 DEF PutManifest, DocInv, AssemblyInv
  <2> QED  BY <1>0, <2>2
<1>4. CASE ExpireObject
  BY <1>1, <1>2, <1>4 DEF ExpireObject
<1>5. ASSUME NEW j \in DocJobs,
             \/ FindRow(j) \/ FindManifest(j) \/ FindPage(j) \/ ConvertDocument(j)
             \/ PutPage(j) \/ RecordRow(j) \/ FinishRow(j) \/ AssemblyStops(j)
      PROVE  UNCHANGED manifest
  BY <1>5 DEF FindRow, FindManifest, FindPage, ConvertDocument, PutPage, RecordRow, FinishRow, AssemblyStops, objects
<1>6. ASSUME NEW k \in Clients, GetManifest(k) \/ GetPage(k)
      PROVE  UNCHANGED manifest
  BY <1>6 DEF GetManifest, GetPage, objects
<1>7. CASE UNCHANGED docVars
  BY <1>2, <1>7 DEF docVars
<1> QED  BY <1>2, <1>3, <1>4, <1>5, <1>6, <1>7 DEF DocNext

\* A caller that saw a manifest finds the page, unless it expired meanwhile.
LEMMA ReadStep ==
    ASSUME DocInv, [DocNext]_docVars
    PROVE  ReadInv' /\ DoneIsReadable'
<1>0. /\ \A i \in PageNums : Stored(i) => Stored(i)'
      /\ expired \subseteq expired'
  BY StoredStays
<1> SUFFICES ASSUME NEW k \in Clients
             PROVE  /\ \A i \in PageNums : at'[k] = "get_page" /\ index'[k] = i => Stored(i)'
                    /\ at'[k] # "end" => answer'[k] = "none"
                    /\ k \in Readers => at'[k] \in {"get_manifest", "get_page", "end"}
                    /\ answer'[k] = "no_page" => index'[k] \in expired'
                    /\ answer'[k] = "no_document" /\ k \in DocJobs => 0 \in expired'
  <2>1. \A c \in Clients : index'[c] \in PageNums
    BY DocTypeStep DEF DocTypeOK
  <2> QED  BY <2>1 DEF ReadInv, DoneIsReadable, Stored
<1> DEFINE Mine == at'[k] = at[k] /\ index'[k] = index[k] /\ answer'[k] = answer[k]
<1>1. /\ k \in DOMAIN at /\ k \in DOMAIN index /\ k \in DOMAIN answer
      /\ DOMAIN at = Clients /\ DOMAIN index = Clients /\ DOMAIN answer = Clients
      /\ index[k] \in PageNums
  BY DEF DocInv, DocTypeOK
<1>2. /\ at[k] = "get_page" => Stored(index[k])
      /\ at[k] # "end" => answer[k] = "none"
      /\ k \in Readers => at[k] \in {"get_manifest", "get_page", "end"}
      /\ answer[k] = "no_page" => index[k] \in expired
      /\ answer[k] = "no_document" /\ k \in DocJobs => 0 \in expired
  BY DEF DocInv, ReadInv, DoneIsReadable
<1>3. CASE Mine
  BY <1>0, <1>1, <1>2, <1>3, SMTT(20)
<1>4. CASE k \in DocJobs /\ (FindRow(k) \/ FindManifest(k) \/ ConvertDocument(k))
  <2>1. at'[k] \in {"find_manifest", "find_page", "convert", "put_page"} /\ answer'[k] = "none"
    BY <1>1, <1>2, <1>4 DEF FindRow, FindManifest, ConvertDocument, Move
  <2> QED  BY <2>1, <1>4, ClientsAssumption
<1>5. CASE k \in DocJobs /\ (PutPage(k) \/ PutManifest(k) \/ RecordRow(k) \/ FinishRow(k) \/ AssemblyStops(k))
  <2>1. /\ at'[k] \in {"put_page", "put_manifest", "record", "finish", "get_manifest", "end"}
        /\ answer'[k] = "none"
    BY <1>1, <1>2, <1>5 DEF PutPage, PutManifest, RecordRow, FinishRow, AssemblyStops, Move
  <2> QED  BY <2>1, <1>5, ClientsAssumption
<1>6. CASE k \in DocJobs /\ FindPage(k)
  <2>1. \/ at'[k] = "end" /\ answer'[k] = "page"
        \/ at'[k] = "convert" /\ answer'[k] = "none"
    BY <1>1, <1>2, <1>6, SMTT(20) DEF FindPage, Move, Answer
  <2> QED  BY <2>1, <1>6, ClientsAssumption
<1>7. CASE GetManifest(k)
  <2>0. at[k] = "get_manifest"
    BY <1>7 DEF GetManifest
  <2>1. CASE Answer(k, "no_document") /\ UNCHANGED index /\ (k \in DocJobs => manifest = None)
    <3>1. at'[k] = "end" /\ answer'[k] = "no_document"
      BY <1>1, <2>1 DEF Answer, Move
    <3>2. k \in DocJobs => 0 \in expired'
      BY <1>0, <2>0, <2>1 DEF DocInv, AssemblyInv, Manifested
    <3> QED  BY <3>1, <3>2
  <2>2. ASSUME manifest # None,
               NEW p \in PageNums, p <= PagesOf[manifest], Move(k, "get_page"),
               index' = [index EXCEPT ![k] = p], UNCHANGED answer
        PROVE  at'[k] = "get_page" /\ index'[k] = p /\ answer'[k] = "none" /\ Stored(p)'
    <3>1. at'[k] = "get_page" /\ index'[k] = p /\ answer'[k] = "none"
      BY <1>1, <1>2, <2>0, <2>2 DEF Move
    <3>2. manifest \in Versions
      BY <2>2 DEF DocInv, DocTypeOK
    <3>3. p \in 1 .. PagesOf[manifest]
      BY <2>2, <3>2, PagesOfAssumption, MaxPagesAssumption DEF PageNums
    <3>4. Stored(p)
      BY <2>2, <3>3 DEF DocInv, ManifestBacked, Stored
    <3> QED  BY <1>0, <3>1, <3>4
  <2>3. CASE \E p \in PageNums : at'[k] = "get_page" /\ index'[k] = p /\ answer'[k] = "none" /\ Stored(p)'
    BY <2>3
  <2> QED  BY <1>7, <2>1, <2>2, <2>3, ManifestRead
<1>8. CASE GetPage(k)
  <2>0. at[k] = "get_page" /\ UNCHANGED index /\ UNCHANGED expired
    BY <1>8 DEF GetPage, objects
  <2>1. /\ at'[k] = "end"
        /\ answer'[k] = "page" \/ (answer'[k] = "no_page" /\ page[index[k]] = None)
    BY <1>1, <1>8, PageRead DEF Answer, Move
  <2> QED  BY <1>2, <2>0, <2>1 DEF Stored
<1>9. ASSUME NEW c \in Clients, c # k, GetManifest(c) \/ GetPage(c)
      PROVE  Mine
  <2>1. CASE GetManifest(c)
    BY <1>1, <1>9, <2>1, ManifestRead DEF Answer, Move
  <2>2. CASE GetPage(c)
    BY <1>1, <1>9, <2>2 DEF GetPage, Answer, Move
  <2> QED  BY <1>9, <2>1, <2>2
<1>10. ASSUME NEW j \in DocJobs, j # k,
              \/ FindRow(j) \/ FindManifest(j) \/ FindPage(j) \/ ConvertDocument(j)
              \/ PutPage(j) \/ PutManifest(j) \/ RecordRow(j) \/ FinishRow(j) \/ AssemblyStops(j)
       PROVE  Mine
  <2>1. CASE FindRow(j) \/ FindManifest(j) \/ FindPage(j) \/ ConvertDocument(j)
    BY <1>1, <1>10, <2>1 DEF FindRow, FindManifest, FindPage, ConvertDocument, Answer, Move
  <2>2. CASE PutPage(j) \/ PutManifest(j) \/ RecordRow(j) \/ FinishRow(j) \/ AssemblyStops(j)
    BY <1>1, <1>10, <2>2, Zenon DEF PutPage, PutManifest, RecordRow, FinishRow, AssemblyStops, Move
  <2> QED  BY <1>10, <2>1, <2>2, SMTT(20)
<1>11. CASE ExpireObject \/ UNCHANGED docVars
  BY <1>3, <1>11, Zenon DEF ExpireObject, docVars
<1> HIDE DEF Mine
<1> QED  BY <1>3, <1>4, <1>5, <1>6, <1>7, <1>8, <1>9, <1>10, <1>11, Zenon DEF DocNext

-----------------------------------------------------------------------------
\* The inductive invariant behind the three theorems.
LEMMA DocInvariant == DocSpec => []DocInv
<1>1. DocInit => DocInv
  <2> SUFFICES ASSUME DocInit PROVE DocInv
    OBVIOUS
  <2>1. DocTypeOK
    <3>1. at \in [Clients -> {"find_row", "find_manifest", "find_page", "convert",
                             "put_page", "put_manifest", "record", "finish",
                             "get_manifest", "get_page", "end"}]
      BY DEF DocInit
    <3>2. index \in [Clients -> PageNums]
      BY MaxPagesAssumption DEF DocInit, PageNums
    <3>3. answer \in [Clients -> {"none", "page", "no_document", "no_page"}]
      BY DEF DocInit
    <3>4. recorded \in BOOLEAN /\ expired \in SUBSET (0 .. MaxPages) /\ manifest \in Versions \cup {None}
      BY Zenon DEF DocInit
    <3>5. page \in [PageNums -> Versions \cup {None}] /\ version \in [DocJobs -> Versions \cup {None}]
      BY DEF DocInit
    <3> QED  BY <3>1, <3>2, <3>3, <3>4, <3>5 DEF DocTypeOK
  <2>2. AssemblyInv
    BY DEF DocInit, AssemblyInv, Clients
  <2>3. ASSUME NEW k \in Clients
        PROVE  /\ at[k] \in {"find_row", "get_manifest"} /\ answer[k] = "none"
               /\ k \in Readers => at[k] = "get_manifest"
    <3>1. k \in Readers => k \notin DocJobs
      BY ClientsAssumption
    <3> QED  BY <3>1 DEF DocInit
  <2>4. ReadInv
    BY <2>3 DEF ReadInv
  <2>5. ManifestBacked /\ DoneIsReadable
    BY DEF DocInit, ManifestBacked, DoneIsReadable
  <2> QED  BY <2>1, <2>2, <2>4, <2>5 DEF DocInv
<1>2. DocInv /\ [DocNext]_docVars => DocInv'
  BY DocTypeStep, AssemblyStep, ManifestStep, ReadStep DEF DocInv
<1> QED  BY <1>1, <1>2, PTL DEF DocSpec

\* The objects and the calls keep their types; the index of put_document's
\* loop stays within the pages of the version it stores.
THEOREM DocTypeCorrect == DocSpec => []DocTypeOK
<1>1. DocInv => DocTypeOK
  BY DEF DocInv
<1> QED  BY <1>1, DocInvariant, PTL

\* The manifest counts only pages put_document has written, for any number of
\* racing jobs and any page counts.
THEOREM ManifestLast == DocSpec => []ManifestBacked
<1>1. DocInv => ManifestBacked
  BY DEF DocInv
<1> QED  BY <1>1, DocInvariant, PTL

\* Callers of a finished job, and page requests the manifest admits, are
\* refused only what the lifecycle rule deleted.
THEOREM FinishedIsReadable == DocSpec => []DoneIsReadable
<1>1. DocInv => DoneIsReadable
  BY DEF DocInv
<1> QED  BY <1>1, DocInvariant, PTL
=============================================================================
