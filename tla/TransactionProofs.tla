------------------------- MODULE TransactionProofs -------------------------
(***************************************************************************)
(* Which writes of an operation are committed, and that those of a         *)
(* transaction are committed together, for any number of threads,          *)
(* processes, operations and faults.                                       *)
(***************************************************************************)
EXTENDS DatabaseProofs

-----------------------------------------------------------------------------
(***************************************************************************)
(* What is committed is what the operation has executed: on a connection   *)
(* that is not stale every statement so far is pending.                    *)
(***************************************************************************)
PendingOf(t) ==
    conn[t] # "stale" =>
        /\ at[t] = "commit" => <<t, Len(kinds[t]), 1>> \in pending[t]
        /\ at[t] \in {"block", "commit_block"} =>
               \A i \in 1 .. BlockSize :
                   i < stmt[t] => <<t, Len(kinds[t]), i>> \in pending[t]

OpDurable(t, n) ==
    /\ kinds[t][n] = "execute" => applied[<<t, n, 1>>] > 0
    /\ kinds[t][n] = "transaction" =>
           \A i \in 1 .. BlockSize : applied[<<t, n, i>>] > 0

DurableInv ==
    /\ applied \in [Writes -> Nat]
    /\ \A t \in Threads : PendingOf(t)
    /\ returned \subseteq Ops
    /\ \A t \in Threads : \A n \in Nat : <<t, n>> \in returned =>
           n \in 1 .. Len(kinds[t]) /\ OpDurable(t, n)

\* A commit applies what is pending and takes nothing back.
LEMMA CommitGrows ==
    ASSUME applied \in [Writes -> Nat], NEW t, CommitPending(t)
    PROVE  /\ applied' \in [Writes -> Nat]
           /\ \A w \in Writes : applied[w] <= applied'[w]
           /\ \A w \in Writes : w \in pending[t] => applied'[w] = applied[w] + 1
           /\ \A w \in Writes : w \notin pending[t] => applied'[w] = applied[w]
  BY DEF CommitPending

\* What a step of t does to the writes.
Recorded(t) ==
    /\ \A u \in Threads \ {t} :
           SamePlace(u) /\ conn'[u] = conn[u] /\ pending'[u] = pending[u]
    /\ PendingOf(t)'
    /\ applied' = applied \/ CommitPending(t)
    /\ kinds' = kinds \/ \E k \in Kinds : kinds' = [kinds EXCEPT ![t] = Append(@, k)]
    /\ \/ returned' = returned
       \/ /\ returned' = returned \cup {Op(t)}
          /\ kinds' = kinds /\ Len(kinds[t]) >= 1
          /\ OpDurable(t, Len(kinds[t]))'

\* Operations begun keep their kind.
LEMMA KindsStay ==
    ASSUME ControlInv, NEW t \in Threads, Recorded(t),
           NEW u \in Threads, NEW n \in 1 .. Len(kinds[u])
    PROVE  n \in 1 .. Len(kinds'[u]) /\ kinds'[u][n] = kinds[u][n]
<1>1. CASE kinds' = kinds
  BY <1>1
<1>2. ASSUME NEW k \in Kinds, kinds' = [kinds EXCEPT ![t] = Append(@, k)]
      PROVE  n \in 1 .. Len(kinds'[u]) /\ kinds'[u][n] = kinds[u][n]
  <2>1. kinds \in [Threads -> Seq(Kinds)]
    BY DEF ControlInv, Domains
  <2>2. CASE u = t
    <3>1. kinds'[u] = Append(kinds[u], k) /\ kinds[u] \in Seq(Kinds)
      BY <1>2, <2>1, <2>2
    <3>2. Len(kinds[u]) \in Nat
      BY <3>1, LenProperties
    <3> QED  BY <3>1, <3>2, AppendProperties
  <2>3. CASE u # t
    BY <1>2, <2>1, <2>3
  <2> QED  BY <2>2, <2>3
<1> QED  BY <1>1, <1>2 DEF Recorded

LEMMA RecordedKeeps ==
    ASSUME ControlInv, DurableInv, NEW t \in Threads, Recorded(t)
    PROVE  DurableInv'
<1>1. applied' \in [Writes -> Nat] /\ \A w \in Writes : applied[w] <= applied'[w]
  <2>1. applied \in [Writes -> Nat]
    BY DEF DurableInv
  <2> QED  BY <2>1, CommitGrows DEF Recorded
<1>2. ASSUME NEW u \in Threads PROVE PendingOf(u)'
  <2>1. CASE u = t
    BY <2>1 DEF Recorded
  <2>2. CASE u # t
    <3>1. SamePlace(u) /\ conn'[u] = conn[u] /\ pending'[u] = pending[u] /\ PendingOf(u)
      BY <2>2 DEF Recorded, DurableInv
    <3> QED  BY <3>1 DEF PendingOf, SamePlace
  <2> QED  BY <2>1, <2>2
<1>3. returned' \subseteq Ops
  BY OpTypes DEF DurableInv, Recorded
<1>4. ASSUME NEW u \in Threads, NEW n \in Nat, <<u, n>> \in returned'
      PROVE  n \in 1 .. Len(kinds'[u]) /\ OpDurable(u, n)'
  <2>1. CASE <<u, n>> \in returned
    <3>1. n \in 1 .. Len(kinds[u]) /\ OpDurable(u, n)
      BY <2>1 DEF DurableInv
    <3>2. n \in 1 .. Len(kinds'[u]) /\ kinds'[u][n] = kinds[u][n]
      BY <3>1, KindsStay
    <3>3. n \in 1 .. MaxOps
      BY <3>1, OpTypes, DbBoundsAssumption DEF ControlInv, ControlOf
    <3>4. \A i \in 1 .. BlockSize : <<u, n, i>> \in Writes
      BY <3>3 DEF Writes
    <3>5. \A i \in 1 .. BlockSize :
              applied[<<u, n, i>>] > 0 => applied'[<<u, n, i>>] > 0
      BY <1>1, <3>4 DEF DurableInv
    <3>6. 1 \in 1 .. BlockSize
      BY DEF BlockSize
    <3> QED  BY <3>1, <3>2, <3>5, <3>6 DEF OpDurable
  <2>2. CASE <<u, n>> \notin returned
    <3>1. <<u, n>> = Op(t) /\ kinds' = kinds /\ Len(kinds[t]) >= 1
          /\ OpDurable(t, Len(kinds[t]))'
      BY <1>4, <2>2 DEF Recorded
    <3>2. u = t /\ n = Len(kinds[t])
      BY <3>1 DEF Op
    <3> QED  BY <3>1, <3>2 DEF OpDurable
  <2> QED  BY <2>1, <2>2
<1> QED  BY <1>1, <1>2, <1>3, <1>4 DEF DurableInv

\* What one thread can do.
ThreadStep(t) ==
    \/ Begin(t) \/ DbStep(t) \/ BlockRaises(t)
    \/ CommitReplyLost(t) \/ CommitBlockReplyLost(t)
    \/ GoStale(t) \/ Timeout(t) \/ Busy(t)

LEMMA StepsRecord ==
    ASSUME ControlInv, DurableInv, NEW t \in Threads, ThreadStep(t)
    PROVE  Recorded(t)
<1> USE DEF ControlInv, Domains, Recorded, SamePlace
<1>1. CASE Begin(t)
  BY <1>1 DEF Begin, Step, endVars, PendingOf
<1>2. CASE StartProcess(t)
  BY <1>2 DEF StartProcess, Step, endVars, PendingOf
<1>3. CASE Migrate(t)
  BY <1>3 DEF Migrate, Step, endVars, PendingOf
<1>4. CASE MigrateRaises(t)
  BY <1>4 DEF MigrateRaises, Step, endVars, PendingOf
<1>5. CASE Execute(t)
  <2>1. at[t] = "run" /\ kinds' = kinds /\ stmt' = stmt /\ applied' = applied
        /\ stmt[t] = 1 /\ Len(kinds[t]) >= 1
    BY <1>5, ExecuteCases DEF ControlOf, Body
  <2>2. CASE conn[t] = "stale" /\ Stale(t)
    BY <2>1, <2>2 DEF Stale, Step, Raise, endVars, PendingOf
  <2>3. CASE conn[t] # "stale" /\ Kind(t) = "query"
    <3>1. conn' = [conn EXCEPT ![t] = "open"] /\ pending' = pending /\ Return(t)
      BY <1>5, <2>3, ExecuteCases
    <3>2. OpDurable(t, Len(kinds[t]))'
      BY <2>1, <2>3 DEF OpDurable, Kind
    <3> QED  BY <2>1, <3>1, <3>2 DEF Return, Step, PendingOf
  <2>4. CASE conn[t] # "stale" /\ Kind(t) = "execute"
    <3>1. /\ conn' = [conn EXCEPT ![t] = "open"]
          /\ Step(t, "commit") /\ returned' = returned
          /\ pending' = [pending EXCEPT ![t] = @ \cup {Write(t)}]
      BY <1>5, <2>4, ExecuteCases DEF endVars
    <3>2. <<t, Len(kinds[t]), 1>> \in pending'[t]
      BY <2>1, <3>1 DEF Write
    <3> QED  BY <2>1, <3>1, <3>2 DEF Step, PendingOf
  <2>5. CASE conn[t] # "stale" /\ Kind(t) = "transaction"
    <3>1. /\ conn' = [conn EXCEPT ![t] = "open"]
          /\ Step(t, "block") /\ returned' = returned
          /\ pending' = pending
      BY <1>5, <2>5, ExecuteCases DEF endVars
    <3>2. \A i \in 1 .. BlockSize : ~(i < stmt[t])
      <4>1. stmt[t] = 1
        BY <2>1
      <4>2. \A i \in 1 .. BlockSize : ~(i < 1)
        OBVIOUS
      <4> QED  BY <4>1, <4>2
    <3> QED  BY <2>1, <3>1, <3>2 DEF Step, PendingOf
  <2> QED  BY <1>5, <2>2, <2>3, <2>4, <2>5, ExecuteCases
<1>6. CASE Commit(t)
  <2>1. at[t] = "commit" /\ kinds' = kinds /\ stmt' = stmt
        /\ Len(kinds[t]) >= 1 /\ Kind(t) = "execute"
    BY <1>6 DEF Commit, ControlOf, Body
  <2>2. CASE conn[t] = "stale"
    BY <1>6, <2>1, <2>2 DEF Commit, Stale, Step, Raise, endVars, PendingOf
  <2>3. CASE conn[t] # "stale"
    <3>1. /\ CommitPending(t) /\ conn' = conn /\ Return(t)
          /\ pending' = [pending EXCEPT ![t] = {}]
      BY <1>6, <2>3 DEF Commit
    <3>2. <<t, Len(kinds[t]), 1>> \in pending[t] /\ <<t, Len(kinds[t]), 1>> \in Writes
      <4>1. at[t] \in Body /\ 1 \in 1 .. BlockSize
        BY <2>1 DEF Body, BlockSize
      <4>2. <<t, Len(kinds[t]), 1>> \in Writes
        BY <4>1, OpTypes
      <4> QED  BY <2>1, <2>3, <4>2 DEF DurableInv, PendingOf
    <3>3. applied'[<<t, Len(kinds[t]), 1>>] > 0
      <4>1. applied \in [Writes -> Nat]
        BY DEF DurableInv
      <4>2. applied'[<<t, Len(kinds[t]), 1>>] = applied[<<t, Len(kinds[t]), 1>>] + 1
        BY <3>1, <3>2, <4>1, CommitGrows
      <4>3. applied[<<t, Len(kinds[t]), 1>>] \in Nat
        BY <3>2, <4>1
      <4> HIDE DEF ControlInv, Domains, Recorded, SamePlace
      <4> QED  BY <4>2, <4>3
    <3>4. OpDurable(t, Len(kinds[t]))'
      BY <2>1, <3>3 DEF OpDurable, Kind
    <3> QED  BY <2>1, <3>1, <3>4 DEF Return, Step, PendingOf
  <2> QED  BY <2>2, <2>3
<1>7. CASE CommitReplyLost(t)
  BY <1>7 DEF CommitReplyLost, Stale, Step, Raise, endVars, PendingOf
<1>8. CASE Block(t)
  <2>1. at[t] = "block" /\ kinds' = kinds /\ applied' = applied /\ conn' = conn
        /\ returned' = returned
    BY <1>8 DEF Block, endVars
  <2>2. CASE conn[t] = "stale"
    BY <1>8, <2>1, <2>2 DEF Block, Step, PendingOf
  <2>3. CASE conn[t] # "stale"
    <3>1. /\ pending' = [pending EXCEPT ![t] = @ \cup {Write(t)}]
          /\ stmt' = [stmt EXCEPT ![t] = @ + 1]
          /\ \E label \in {"block", "commit_block"} : at' = [at EXCEPT ![t] = label]
      BY <1>8, <2>3 DEF Block, Step
    <3>2. stmt'[t] = stmt[t] + 1 /\ stmt[t] \in Nat
          /\ pending'[t] = pending[t] \cup {<<t, Len(kinds[t]), stmt[t]>>}
      BY <3>1 DEF Write
    <3>3. ASSUME NEW i \in 1 .. BlockSize, i < stmt'[t]
          PROVE  <<t, Len(kinds[t]), i>> \in pending'[t]
      <4>1. i < stmt[t] \/ i = stmt[t]
        BY <3>2, <3>3
      <4> QED  BY <2>1, <2>3, <3>2, <4>1 DEF DurableInv, PendingOf
    <3>4. at'[t] \in {"block", "commit_block"}
      BY <3>1
    <3>5. PendingOf(t)'
      BY <2>1, <3>3, <3>4 DEF PendingOf
    <3> QED  BY <2>1, <3>1, <3>5
  <2> QED  BY <2>2, <2>3
<1>9. CASE BlockRaises(t)
  BY <1>9 DEF BlockRaises, Step, endVars, PendingOf
<1>10. CASE CommitBlock(t)
  <2>1. /\ at[t] = "commit_block" /\ kinds' = kinds /\ stmt' = stmt /\ conn' = conn
        /\ Len(kinds[t]) >= 1 /\ Kind(t) = "transaction" /\ stmt[t] = BlockSize + 1
    BY <1>10 DEF CommitBlock, ControlOf, Body
  <2>2. CASE conn[t] = "stale"
    BY <1>10, <2>1, <2>2 DEF CommitBlock, Step, endVars, PendingOf
  <2>3. CASE conn[t] # "stale"
    <3>1. CommitPending(t) /\ Return(t) /\ pending' = [pending EXCEPT ![t] = {}]
      BY <1>10, <2>3 DEF CommitBlock
    <3>2. \A i \in 1 .. BlockSize : i < stmt[t]
      BY <2>1 DEF BlockSize
    <3>3. \A i \in 1 .. BlockSize : /\ <<t, Len(kinds[t]), i>> \in pending[t]
                                    /\ <<t, Len(kinds[t]), i>> \in Writes
      <4>1. \A i \in 1 .. BlockSize : <<t, Len(kinds[t]), i>> \in Writes
        BY <2>1, OpTypes DEF Body
      <4>2. PendingOf(t)
        BY DEF DurableInv
      <4> QED  BY <2>1, <2>3, <3>2, <4>1, <4>2 DEF PendingOf
    <3>4. \A i \in 1 .. BlockSize : applied'[<<t, Len(kinds[t]), i>>] > 0
      <4>1. applied \in [Writes -> Nat]
        BY DEF DurableInv
      <4> QED  BY <3>1, <3>3, <4>1, CommitGrows
    <3>5. OpDurable(t, Len(kinds[t]))'
      BY <2>1, <3>4 DEF OpDurable, Kind
    <3> QED  BY <2>1, <3>1, <3>5 DEF Return, Step, PendingOf
  <2> QED  BY <2>2, <2>3
<1>11. CASE CommitBlockReplyLost(t)
  BY <1>11 DEF CommitBlockReplyLost, Step, endVars, PendingOf
<1>12. CASE Rollback(t)
  BY <1>12 DEF Rollback, Raise, Step, PendingOf
<1>13. CASE GoStale(t)
  BY <1>13 DEF GoStale, threadVars, endVars, PendingOf
<1>14. CASE Timeout(t)
  BY <1>14 DEF Timeout, Raise, Step, endVars, PendingOf, Body
<1>15. CASE Busy(t)
  BY <1>15 DEF Busy, Raise, Step, endVars, PendingOf
<1> HIDE DEF ControlInv, Domains, Recorded, SamePlace
<1> QED
  BY <1>1, <1>2, <1>3, <1>4, <1>5, <1>6, <1>7, <1>8, <1>9, <1>10, <1>11, <1>12,
     <1>13, <1>14, <1>15 DEF ThreadStep, DbStep

LEMMA DurableNext == ControlInv /\ DurableInv /\ [DbNext]_dbVars => DurableInv'
<1> SUFFICES ASSUME ControlInv, DurableInv, [DbNext]_dbVars PROVE DurableInv'
  OBVIOUS
<1>1. ASSUME NEW p \in Processes, Restart(p) PROVE DurableInv'
  <2>1. applied' = applied /\ returned' = returned /\ kinds' = kinds /\ stmt' = stmt
    BY <1>1 DEF Restart, endVars
  <2>2. \A t \in Threads : \/ at'[t] = "idle"
                           \/ /\ at'[t] = at[t] /\ conn'[t] = conn[t]
                              /\ pending'[t] = pending[t]
    BY <1>1 DEF Restart
  <2>3. \A t \in Threads : PendingOf(t)'
    BY <2>1, <2>2 DEF DurableInv, PendingOf
  <2> QED  BY <2>1, <2>3 DEF DurableInv, OpDurable
<1>2. CASE UNCHANGED dbVars
  BY <1>2 DEF dbVars, threadVars, endVars, DurableInv, PendingOf, OpDurable
<1> QED  BY <1>1, <1>2, StepsRecord, RecordedKeeps DEF DbNext, ThreadStep

LEMMA DurableInvariant == DbSpec => []DurableInv
<1>1. DbInit => DurableInv
  BY DEF DbInit, DurableInv, PendingOf
<1> QED  BY <1>1, ControlInvariant, DurableNext, PTL DEF DbSpec

\* An operation that returned has committed all its writes, whatever faults
\* happen and however often its connection was reopened.
THEOREM ReturnedIsDurableHolds == DbSpec => []ReturnedIsDurable
<1>1. ControlInv /\ DurableInv => ReturnedIsDurable
  <2> SUFFICES ASSUME ControlInv, DurableInv, NEW op \in returned
               PROVE  LET Committed(i) == applied[<<op[1], op[2], i>>] > 0
                      IN  CASE kinds[op[1]][op[2]] = "query" -> TRUE
                            [] kinds[op[1]][op[2]] = "execute" -> Committed(1)
                            [] kinds[op[1]][op[2]] = "transaction" ->
                                   \A i \in 1 .. BlockSize : Committed(i)
    BY DEF ReturnedIsDurable
  <2>1. PICK t \in Threads, n \in Nat : op = <<t, n>>
    BY DEF DurableInv, Ops
  <2>2. n \in 1 .. Len(kinds[t]) /\ OpDurable(t, n)
    BY <2>1 DEF DurableInv
  <2>3. kinds[t][n] \in Kinds
    <3>1. kinds[t] \in Seq(Kinds)
      BY DEF ControlInv, Domains
    <3> QED  BY <2>2, <3>1, ElementOfSeq
  <2>4. op[1] = t /\ op[2] = n
    BY <2>1
  <2> QED  BY <2>2, <2>3, <2>4 DEF OpDurable, Kinds
<1> QED  BY <1>1, ControlInvariant, DurableInvariant, PTL

-----------------------------------------------------------------------------
(***************************************************************************)
(* Transactions are atomic: nothing is pending on a connection but writes  *)
(* of the operation that is running, and of operations that a request      *)
(* which failed without its connection has cut short (leaked).             *)
(***************************************************************************)
OwnWrites(t) == {<<t, Len(kinds[t]), i>> : i \in 1 .. BlockSize}

Uniform(t, n) == \E k \in {0, 1} : \A i \in 1 .. BlockSize : applied[<<t, n, i>>] = k

Leaked(t, w) == w[1] = t /\ <<t, w[2]>> \in leaked

AtomicOf(t) ==
    /\ \A w \in pending[t] : w \in OwnWrites(t) \/ Leaked(t, w)
    /\ at[t] \in {"idle", "migrate", "run"} => \A w \in pending[t] : Leaked(t, w)
    /\ at[t] \in Body => Op(t) \notin leaked
    /\ \A n \in 1 .. MaxOps : n > Len(kinds[t]) =>
           <<t, n>> \notin leaked /\ \A i \in 1 .. BlockSize : applied[<<t, n, i>>] = 0
    /\ at[t] \in {"run", "block", "commit_block"} /\ Kind(t) = "transaction" =>
           \A i \in 1 .. BlockSize : applied[<<t, Len(kinds[t]), i>>] = 0
    /\ \A n \in 1 .. Len(kinds[t]) :
           kinds[t][n] = "transaction" /\ <<t, n>> \notin leaked => Uniform(t, n)

AtomicInv == \A t \in Threads : AtomicOf(t)

\* A step of t that commits nothing.
Uncommitted(t) ==
    /\ applied' = applied /\ kinds' = kinds /\ leaked' = leaked
    /\ pending'[t] \subseteq pending[t] \cup OwnWrites(t)
    /\ at'[t] \in {"idle", "migrate", "run"} => \A w \in pending'[t] : Leaked(t, w)
    /\ at'[t] \in Body => at[t] \in Body
    /\ at'[t] \in {"run", "block", "commit_block"} =>
           at[t] \in {"run", "block", "commit_block"} \/ Kind(t) # "transaction"

LEMMA UncommittedKeeps ==
    ASSUME ControlInv, AtomicInv, NEW t \in Threads, Uncommitted(t)
    PROVE  AtomicOf(t)'
<1>1. /\ AtomicOf(t) /\ OwnWrites(t)' = OwnWrites(t) /\ Kind(t)' = Kind(t)
      /\ Op(t)' = Op(t) /\ \A w : Leaked(t, w)' = Leaked(t, w)
      /\ \A n : Uniform(t, n)' = Uniform(t, n)
  BY DEF AtomicInv, Uncommitted, OwnWrites, Kind, Op, Leaked, Uniform
<1> QED  BY <1>1 DEF AtomicOf, Uncommitted

\* A step of t leaks nothing but the operation of t.
LeaksOnly(t) == leaked' = leaked \/ leaked' = leaked \cup {Op(t)}

LEMMA StepsLeak ==
    ASSUME ControlInv, NEW t \in Threads, ThreadStep(t)
    PROVE  LeaksOnly(t)
<1> USE DEF LeaksOnly, endVars
<1>1. CASE Execute(t)
  <2>1. \/ Stale(t) \/ Return(t) \/ UNCHANGED endVars
    BY <1>1, ExecuteCases
  <2> QED  BY <2>1 DEF Stale, Return, Raise
<1>2. CASE Commit(t)
  BY <1>2 DEF Commit, Stale, Return, Raise
<1>3. CASE CommitReplyLost(t)
  BY <1>3 DEF CommitReplyLost, Stale, Raise
<1>4. CASE CommitBlock(t)
  BY <1>4 DEF CommitBlock, Return
<1>5. CASE Rollback(t)
  BY <1>5 DEF Rollback, Raise
<1>6. CASE Timeout(t)
  BY <1>6 DEF Timeout
<1>7. CASE Busy(t)
  BY <1>7 DEF Busy, Raise
<1>8. CASE \/ Begin(t) \/ StartProcess(t) \/ Migrate(t) \/ MigrateRaises(t) \/ Block(t)
           \/ BlockRaises(t) \/ CommitBlockReplyLost(t) \/ GoStale(t)
  BY <1>8 DEF Begin, StartProcess, Migrate, MigrateRaises, Block, BlockRaises,
     CommitBlockReplyLost, GoStale
<1> QED
  BY <1>1, <1>2, <1>3, <1>4, <1>5, <1>6, <1>7, <1>8 DEF ThreadStep, DbStep

\* A commit of t leaves the writes of other threads alone.
LEMMA OthersAtomic ==
    ASSUME ControlInv, DurableInv, AtomicInv, NEW t \in Threads, Recorded(t),
           LeaksOnly(t), NEW u \in Threads \ {t}
    PROVE  AtomicOf(u)'
<1>1. SamePlace(u) /\ pending'[u] = pending[u] /\ AtomicOf(u)
  BY DEF Recorded, AtomicInv
<1>2. Len(kinds[u]) \in Nat /\ Len(kinds[u]) <= MaxOps /\ MaxOps \in Nat
  BY OpTypes, DbBoundsAssumption DEF ControlInv, ControlOf
<1>3. ASSUME NEW n \in 1 .. MaxOps, NEW i \in 1 .. BlockSize
      PROVE  applied'[<<u, n, i>>] = applied[<<u, n, i>>]
  <2>1. <<u, n, i>> \in Writes
    BY DEF Writes
  <2>2. \A w \in pending[t] : w[1] = t
    <3>1. \A w \in pending[t] : w \in OwnWrites(t) \/ Leaked(t, w)
      BY DEF AtomicInv, AtomicOf
    <3>2. \A w \in OwnWrites(t) : w[1] = t
      BY DEF OwnWrites
    <3> QED  BY <3>1, <3>2 DEF Leaked
  <2>3. <<u, n, i>> \notin pending[t]
    BY <2>2
  <2> QED  BY <2>1, <2>3, CommitGrows DEF Recorded, DurableInv
<1>4. at[u] \in Body => Len(kinds[u]) >= 1
  BY DEF ControlInv, ControlOf
<1>5. /\ OwnWrites(u)' = OwnWrites(u) /\ Kind(u)' = Kind(u) /\ Op(u)' = Op(u)
      /\ \A n : <<u, n>> \in leaked' <=> <<u, n>> \in leaked
  BY <1>1 DEF SamePlace, OwnWrites, Kind, Op, LeaksOnly
<1>9. /\ \A w : Leaked(u, w)' <=> Leaked(u, w)
      /\ Op(u)' \in leaked' <=> Op(u) \in leaked
  BY <1>1, <1>5 DEF Leaked, Op, SamePlace
<1>6. \A n \in 1 .. Len(kinds[u]) : n \in 1 .. MaxOps
  BY <1>2
<1>7. \A n \in 1 .. Len(kinds[u]) : Uniform(u, n) => Uniform(u, n)'
  BY <1>3, <1>6 DEF Uniform
<1>8. at[u] \in {"run", "block", "commit_block"} => Len(kinds[u]) \in 1 .. MaxOps
  BY <1>2, <1>4 DEF Body
<1> QED  BY <1>1, <1>3, <1>5, <1>7, <1>8, <1>9 DEF AtomicOf, SamePlace

\* The commit of an execute touches no transaction.
LEMMA ExecuteCommits ==
    ASSUME ControlInv, DurableInv, AtomicInv, NEW t \in Threads, at[t] = "commit",
           CommitPending(t), kinds' = kinds, leaked' = leaked, pending'[t] = {},
           at'[t] \in {"idle", "run"}
    PROVE  AtomicOf(t)'
<1>1. /\ AtomicOf(t) /\ Kind(t) = "execute" /\ Kind(t)' = Kind(t)
      /\ Op(t)' = Op(t) /\ Op(t) \notin leaked
  BY DEF AtomicInv, AtomicOf, ControlInv, ControlOf, Kind, Op, Body
<1>2. Len(kinds[t]) \in Nat /\ Len(kinds[t]) <= MaxOps /\ MaxOps \in Nat
  BY OpTypes, DbBoundsAssumption DEF ControlInv, ControlOf
<1>3. ASSUME NEW n \in 1 .. MaxOps, n # Len(kinds[t]), <<t, n>> \notin leaked,
             NEW i \in 1 .. BlockSize
      PROVE  applied'[<<t, n, i>>] = applied[<<t, n, i>>]
  <2>1. <<t, n, i>> \in Writes
    BY DEF Writes
  <2>2. <<t, n, i>> \notin pending[t]
    BY <1>1, <1>3 DEF AtomicOf, OwnWrites, Leaked
  <2> QED  BY <2>1, <2>2, CommitGrows DEF DurableInv
<1>4. ASSUME NEW n \in 1 .. Len(kinds[t]), kinds[t][n] = "transaction",
             <<t, n>> \notin leaked
      PROVE  Uniform(t, n)'
  <2>1. n # Len(kinds[t]) /\ n \in 1 .. MaxOps
    BY <1>1, <1>2, <1>4 DEF Kind
  <2> QED  BY <1>1, <1>3, <1>4, <2>1 DEF AtomicOf, Uniform
<1>5. ASSUME NEW n \in 1 .. MaxOps, n > Len(kinds[t]), NEW i \in 1 .. BlockSize
      PROVE  applied'[<<t, n, i>>] = 0
  <2>1. n # Len(kinds[t]) /\ applied[<<t, n, i>>] = 0 /\ <<t, n>> \notin leaked
    BY <1>1, <1>2, <1>5 DEF AtomicOf
  <2> QED  BY <1>3, <2>1
<1> QED  BY <1>1, <1>4, <1>5 DEF AtomicOf, Body

\* The commit of a transaction applies the whole block, for the first time.
LEMMA TransactionCommits ==
    ASSUME ControlInv, DurableInv, AtomicInv, NEW t \in Threads,
           at[t] = "commit_block", conn[t] # "stale",
           CommitPending(t), kinds' = kinds, leaked' = leaked, pending'[t] = {},
           at'[t] \in {"idle", "rollback"}
    PROVE  AtomicOf(t)'
<1>1. /\ AtomicOf(t) /\ Kind(t) = "transaction" /\ stmt[t] = BlockSize + 1
      /\ at[t] \in Body /\ Op(t)' = Op(t) /\ Op(t) \notin leaked
  BY DEF AtomicInv, AtomicOf, ControlInv, ControlOf, Body, Op
<1>2. Len(kinds[t]) \in Nat /\ Len(kinds[t]) <= MaxOps /\ MaxOps \in Nat
  BY OpTypes, DbBoundsAssumption DEF ControlInv, ControlOf
<1>3. ASSUME NEW n \in 1 .. MaxOps, n # Len(kinds[t]), <<t, n>> \notin leaked,
             NEW i \in 1 .. BlockSize
      PROVE  applied'[<<t, n, i>>] = applied[<<t, n, i>>]
  <2>1. <<t, n, i>> \in Writes
    BY DEF Writes
  <2>2. <<t, n, i>> \notin pending[t]
    BY <1>1, <1>3 DEF AtomicOf, OwnWrites, Leaked
  <2> QED  BY <2>1, <2>2, CommitGrows DEF DurableInv
<1>4. ASSUME NEW i \in 1 .. BlockSize
      PROVE  applied'[<<t, Len(kinds[t]), i>>] = 1
  <2>1. <<t, Len(kinds[t]), i>> \in Writes
    BY <1>1, OpTypes
  <2>2. i < stmt[t]
    BY <1>1 DEF BlockSize
  <2>3. <<t, Len(kinds[t]), i>> \in pending[t]
    BY <2>2 DEF DurableInv, PendingOf
  <2>4. applied[<<t, Len(kinds[t]), i>>] = 0
    BY <1>1 DEF AtomicOf
  <2>5. applied \in [Writes -> Nat]
    BY DEF DurableInv
  <2> QED  BY <2>1, <2>3, <2>4, <2>5, CommitGrows
<1>5. ASSUME NEW n \in 1 .. Len(kinds[t]), kinds[t][n] = "transaction",
             <<t, n>> \notin leaked
      PROVE  Uniform(t, n)'
  <2>1. CASE n = Len(kinds[t])
    BY <1>4, <2>1 DEF Uniform
  <2>2. CASE n # Len(kinds[t])
    <3>1. n \in 1 .. MaxOps
      BY <1>2
    <3> QED  BY <1>1, <1>3, <1>5, <2>2, <3>1 DEF AtomicOf, Uniform
  <2> QED  BY <2>1, <2>2
<1>6. ASSUME NEW n \in 1 .. MaxOps, n > Len(kinds[t]), NEW i \in 1 .. BlockSize
      PROVE  applied'[<<t, n, i>>] = 0
  <2>1. n # Len(kinds[t])
    BY <1>2, <1>6
  <2>2. applied[<<t, n, i>>] = 0 /\ <<t, n>> \notin leaked
    BY <1>1, <1>6 DEF AtomicOf
  <2> QED  BY <1>3, <2>1, <2>2
<1> QED  BY <1>1, <1>5, <1>6 DEF AtomicOf

\* A new operation starts with nothing of its own applied or pending.
LEMMA BeginIsFresh ==
    ASSUME ControlInv, AtomicInv, NEW t \in Threads, Begin(t)
    PROVE  AtomicOf(t)'
<1>1. PICK k \in Kinds : kinds' = [kinds EXCEPT ![t] = Append(@, k)]
  BY DEF Begin
<1>2. kinds'[t] = Append(kinds[t], k) /\ kinds[t] \in Seq(Kinds)
  BY <1>1 DEF ControlInv, Domains
<1>3. Len(kinds[t]) \in Nat
  BY <1>2, LenProperties
<1>4. /\ Len(kinds'[t]) = Len(kinds[t]) + 1
      /\ \A n \in 1 .. Len(kinds[t]) : kinds'[t][n] = kinds[t][n]
  BY <1>2, AppendProperties
<1>5. /\ applied' = applied /\ pending' = pending /\ at'[t] = "run" /\ at[t] = "idle"
      /\ Len(kinds[t]) < MaxOps
  BY DEF Begin, Step, ControlInv, Domains
<1>6. /\ AtomicOf(t) /\ leaked' = leaked
      /\ \A w \in pending[t] : Leaked(t, w) /\ Leaked(t, w)'
  BY <1>5 DEF AtomicInv, AtomicOf, Begin, endVars, Leaked
<1>7. Len(kinds[t]) + 1 \in 1 .. MaxOps /\ Len(kinds[t]) + 1 > Len(kinds[t])
  BY <1>3, <1>5, DbBoundsAssumption
<1>8. /\ \A i \in 1 .. BlockSize : applied[<<t, Len(kinds[t]) + 1, i>>] = 0
      /\ Op(t)' \notin leaked'
  BY <1>4, <1>6, <1>7 DEF AtomicOf, Op
<1>9. ASSUME NEW n \in 1 .. Len(kinds'[t]), kinds'[t][n] = "transaction",
             <<t, n>> \notin leaked'
      PROVE  Uniform(t, n)'
  <2>1. CASE n = Len(kinds[t]) + 1
    BY <1>5, <1>8, <2>1 DEF Uniform
  <2>2. CASE n \in 1 .. Len(kinds[t])
    BY <1>4, <1>5, <1>6, <1>9, <2>2 DEF AtomicOf, Uniform
  <2> QED  BY <1>3, <1>4, <2>1, <2>2
<1>10. \A n \in 1 .. MaxOps : n > Len(kinds'[t]) =>
           <<t, n>> \notin leaked' /\ \A i \in 1 .. BlockSize : applied'[<<t, n, i>>] = 0
  <2>1. \A n \in 1 .. MaxOps : n > Len(kinds'[t]) => n > Len(kinds[t])
    BY <1>3, <1>4
  <2> QED  BY <1>5, <1>6, <2>1 DEF AtomicOf
<1> QED  BY <1>4, <1>5, <1>6, <1>8, <1>9, <1>10 DEF AtomicOf

LEMMA AtomicStep ==
    ASSUME ControlInv, DurableInv, AtomicInv, NEW t \in Threads, ThreadStep(t)
    PROVE  AtomicOf(t)'
<1> USE DEF ControlInv, Domains, Uncommitted, endVars, Body
<1>1. AtomicOf(t) /\ ControlOf(t)
  BY DEF AtomicInv
<1>2. CASE Begin(t)
  BY <1>2, BeginIsFresh
<1>3. CASE StartProcess(t)
  <2>1. Uncommitted(t)
    BY <1>1, <1>3 DEF StartProcess, Starting, Step, AtomicOf
  <2> QED  BY <2>1, UncommittedKeeps
<1>4. CASE Migrate(t)
  <2>1. Uncommitted(t)
    BY <1>1, <1>4 DEF Migrate, Step, AtomicOf
  <2> QED  BY <2>1, UncommittedKeeps
<1>5. CASE MigrateRaises(t)
  <2>1. Uncommitted(t)
    BY <1>1, <1>5 DEF MigrateRaises, Step, AtomicOf
  <2> QED  BY <2>1, UncommittedKeeps
<1>6. CASE Execute(t)
  <2>1. /\ at[t] = "run" /\ kinds' = kinds /\ applied' = applied
        /\ stmt[t] = 1 /\ \A w \in pending[t] : Leaked(t, w)
    BY <1>1, <1>6, ExecuteCases DEF ControlOf, AtomicOf
  <2>2. CASE conn[t] = "stale" /\ Stale(t)
    <3>1. Uncommitted(t)
      BY <2>1, <2>2 DEF Stale, Raise, Step
    <3> QED  BY <3>1, UncommittedKeeps
  <2>3. CASE conn[t] # "stale"
    <3>1. Write(t) \in OwnWrites(t)
      <4>1. stmt[t] \in 1 .. BlockSize
        BY <2>1 DEF BlockSize
      <4> QED  BY <4>1 DEF Write, OwnWrites
    <3>2. Uncommitted(t)
      <4>1. CASE Kind(t) = "query"
        BY <1>6, <2>1, <2>3, <4>1, ExecuteCases DEF Return, Step
      <4>2. CASE Kind(t) = "execute"
        <5>1. /\ pending' = [pending EXCEPT ![t] = @ \cup {Write(t)}]
              /\ at' = [at EXCEPT ![t] = "commit"] /\ leaked' = leaked
          BY <1>6, <2>3, <4>2, ExecuteCases DEF Step
        <5>2. pending'[t] = pending[t] \cup {Write(t)} /\ at'[t] = "commit"
          BY <5>1
        <5> QED  BY <2>1, <3>1, <5>1, <5>2
      <4>3. CASE Kind(t) = "transaction"
        BY <1>6, <2>1, <2>3, <4>3, ExecuteCases DEF Step
      <4> QED  BY <1>6, <2>3, <4>1, <4>2, <4>3, ExecuteCases
    <3> QED  BY <3>2, UncommittedKeeps
  <2> QED  BY <1>6, <2>2, <2>3, ExecuteCases
<1>7. CASE Commit(t)
  <2>1. CASE conn[t] = "stale"
    <3>1. Uncommitted(t)
      BY <1>1, <1>7, <2>1 DEF Commit, Stale, Raise, Step, ControlOf
    <3> QED  BY <3>1, UncommittedKeeps
  <2>2. CASE conn[t] # "stale"
    BY <1>7, <2>2, ExecuteCommits DEF Commit, Return, Step
  <2> QED  BY <2>1, <2>2
<1>8. CASE CommitReplyLost(t)
  BY <1>8, ExecuteCommits DEF CommitReplyLost, Stale, Raise, Step
<1>9. CASE Block(t)
  <2>1. /\ at[t] = "block" /\ stmt[t] \in 1 .. BlockSize
        /\ kinds' = kinds /\ applied' = applied /\ leaked' = leaked
    BY <1>1, <1>9 DEF Block, ControlOf
  <2>2. Write(t) \in OwnWrites(t)
    BY <2>1 DEF Write, OwnWrites
  <2>3. CASE conn[t] = "stale"
    <3>1. Uncommitted(t)
      BY <1>9, <2>1, <2>3 DEF Block, Step
    <3> QED  BY <3>1, UncommittedKeeps
  <2>4. CASE conn[t] # "stale"
    <3>1. /\ pending'[t] = pending[t] \cup {Write(t)}
          /\ at'[t] \in {"block", "commit_block"}
      BY <1>9, <2>4 DEF Block, Step
    <3>2. Uncommitted(t)
      BY <2>1, <2>2, <3>1
    <3> QED  BY <3>2, UncommittedKeeps
  <2> QED  BY <2>3, <2>4
<1>10. CASE BlockRaises(t)
  <2>1. Uncommitted(t)
    BY <1>10 DEF BlockRaises, Step
  <2> QED  BY <2>1, UncommittedKeeps
<1>11. CASE CommitBlock(t)
  <2>1. CASE conn[t] = "stale"
    <3>1. Uncommitted(t)
      BY <1>11, <2>1 DEF CommitBlock, Step
    <3> QED  BY <3>1, UncommittedKeeps
  <2>2. CASE conn[t] # "stale"
    BY <1>11, <2>2, TransactionCommits DEF CommitBlock, Return, Step
  <2> QED  BY <2>1, <2>2
<1>12. CASE CommitBlockReplyLost(t)
  BY <1>12, TransactionCommits DEF CommitBlockReplyLost, Step
<1>13. CASE Rollback(t)
  <2>1. Uncommitted(t)
    BY <1>13 DEF Rollback, Raise, Step
  <2> QED  BY <2>1, UncommittedKeeps
<1>14. CASE GoStale(t)
  <2>1. Uncommitted(t)
    BY <1>14 DEF GoStale, threadVars
  <2> QED  BY <2>1, UncommittedKeeps
<1>15. CASE Timeout(t)
  <2>1. /\ kinds' = kinds /\ applied' = applied /\ pending' = pending /\ at[t] \in Body
        /\ Op(t)' = Op(t)
    BY <1>15 DEF Timeout, Op
  <2>2. CASE at[t] \in {"block", "commit_block"}
    <3>1. Uncommitted(t)
      BY <1>15, <2>1, <2>2 DEF Timeout, Step
    <3> QED  BY <3>1, UncommittedKeeps
  <2>3. CASE at[t] \notin {"block", "commit_block"}
    <3>1. /\ at'[t] = "idle"
          /\ leaked' = leaked \cup IF pending[t] = {} THEN {} ELSE {Op(t)}
      BY <1>15, <2>3 DEF Timeout, Step
    <3>2. Len(kinds[t]) \in Nat
      BY OpTypes DEF ControlOf
    <3>3. \A w \in pending'[t] : Leaked(t, w)'
      BY <1>1, <2>1, <3>1 DEF AtomicOf, OwnWrites, Leaked, Op
    <3>4. \A n \in 1 .. MaxOps : n > Len(kinds[t]) => <<t, n>> \notin leaked'
      <4> SUFFICES ASSUME NEW n \in 1 .. MaxOps, n > Len(kinds[t]) PROVE <<t, n>> \notin leaked'
        OBVIOUS
      <4>1. <<t, n>> \notin leaked
        BY <1>1 DEF AtomicOf
      <4>2. <<t, n>> # Op(t)
        BY <3>2 DEF Op
      <4> QED  BY <3>1, <4>1, <4>2
    <3>5. \A n : Uniform(t, n)' = Uniform(t, n)
      BY <2>1 DEF Uniform
    <3>6. \A n : <<t, n>> \notin leaked' => <<t, n>> \notin leaked
      BY <3>1
    <3>7. \A n \in 1 .. Len(kinds'[t]) :
              kinds'[t][n] = "transaction" /\ <<t, n>> \notin leaked' => Uniform(t, n)'
      BY <1>1, <2>1, <3>5, <3>6 DEF AtomicOf
    <3>8. \A n \in 1 .. MaxOps : n > Len(kinds'[t]) =>
              <<t, n>> \notin leaked' /\ \A i \in 1 .. BlockSize : applied'[<<t, n, i>>] = 0
      BY <1>1, <2>1, <3>4 DEF AtomicOf
    <3> QED  BY <3>1, <3>3, <3>7, <3>8 DEF AtomicOf
  <2> QED  BY <2>2, <2>3
<1>16. CASE Busy(t)
  <2>1. /\ at'[t] \in {"rollback", "idle"} /\ at[t] \in Body /\ leaked' = leaked
        /\ at'[t] = "idle" => \A w \in pending[t] : Leaked(t, w)
    BY <1>1, <1>16 DEF Busy, Raise, Step, AtomicOf
  <2>2. Uncommitted(t)
    BY <1>16, <2>1 DEF Busy
  <2> QED  BY <2>2, UncommittedKeeps
<1> HIDE DEF ControlInv, Domains, Uncommitted, endVars, Body
<1> QED
  BY <1>2, <1>3, <1>4, <1>5, <1>6, <1>7, <1>8, <1>9, <1>10, <1>11, <1>12, <1>13,
     <1>14, <1>15, <1>16 DEF ThreadStep, DbStep

LEMMA AtomicNext ==
    ControlInv /\ DurableInv /\ AtomicInv /\ [DbNext]_dbVars
    => AtomicInv'
<1> SUFFICES ASSUME ControlInv, DurableInv, AtomicInv, [DbNext]_dbVars
             PROVE  AtomicInv'
  OBVIOUS
<1>1. ASSUME NEW t \in Threads, ThreadStep(t) PROVE AtomicInv'
  <2>1. Recorded(t) /\ AtomicOf(t)' /\ LeaksOnly(t)
    BY <1>1, StepsRecord, AtomicStep, StepsLeak
  <2> QED  BY <2>1, OthersAtomic DEF AtomicInv
<1>2. ASSUME NEW p \in Processes, Restart(p) PROVE AtomicInv'
  <2>1. applied' = applied /\ kinds' = kinds /\ leaked' = leaked
    BY <1>2 DEF Restart, endVars
  <2>2. \A t \in Threads : \/ at'[t] = "idle" /\ pending'[t] = {}
                           \/ at'[t] = at[t] /\ pending'[t] = pending[t]
    BY <1>2 DEF Restart
  <2>3. ASSUME NEW t \in Threads PROVE AtomicOf(t)'
    <3>1. /\ OwnWrites(t)' = OwnWrites(t) /\ Kind(t)' = Kind(t) /\ AtomicOf(t)
          /\ Op(t)' = Op(t) /\ \A w : Leaked(t, w)' = Leaked(t, w)
      BY <2>1 DEF OwnWrites, Kind, AtomicInv, Op, Leaked
    <3>2. \A n : Uniform(t, n)' = Uniform(t, n)
      BY <2>1 DEF Uniform
    <3> QED  BY <2>1, <2>2, <3>1, <3>2 DEF AtomicOf, Body
  <2> QED  BY <2>3 DEF AtomicInv
<1>3. CASE UNCHANGED dbVars
  <2>1. UNCHANGED <<at, kinds, pending, applied, leaked>>
    BY <1>3 DEF dbVars, threadVars, endVars
  <2>2. ASSUME NEW t \in Threads PROVE AtomicOf(t)'
    <3>1. /\ OwnWrites(t)' = OwnWrites(t) /\ Kind(t)' = Kind(t) /\ AtomicOf(t)
          /\ Op(t)' = Op(t) /\ \A w : Leaked(t, w)' = Leaked(t, w)
      BY <2>1 DEF OwnWrites, Kind, AtomicInv, Op, Leaked
    <3>2. \A n : Uniform(t, n)' = Uniform(t, n)
      BY <2>1 DEF Uniform
    <3> QED  BY <2>1, <3>1, <3>2 DEF AtomicOf
  <2> QED  BY <2>2 DEF AtomicInv
<1> QED  BY <1>1, <1>2, <1>3 DEF DbNext, ThreadStep

\* Transactions are all or nothing, and not applied twice, unless their
\* rollback failed on a connection that survived.
THEOREM TransactionAtomicHolds == DbSpec => []TransactionAtomic
<1>1. DbInit => AtomicInv
  <2> SUFFICES ASSUME DbInit, NEW t \in Threads PROVE AtomicOf(t)
    BY DEF AtomicInv
  <2>1. /\ kinds[t] = << >> /\ pending[t] = {} /\ at[t] = "idle" /\ Len(kinds[t]) = 0
        /\ leaked = {}
    BY DEF DbInit
  <2>2. \A n \in 1 .. MaxOps, i \in 1 .. BlockSize : applied[<<t, n, i>>] = 0
    BY DEF DbInit, Writes
  <2>3. \A n : n \notin 1 .. Len(kinds[t])
    BY <2>1
  <2> QED  BY <2>1, <2>2, <2>3 DEF AtomicOf, Body
<1>2. ControlInv /\ AtomicInv => TransactionAtomic
  <2> SUFFICES ASSUME ControlInv, AtomicInv, NEW t \in Threads, NEW n \in DOMAIN kinds[t],
                      kinds[t][n] = "transaction", <<t, n>> \notin leaked
               PROVE  \E k \in {0, 1} : \A i \in 1 .. BlockSize : applied[<<t, n, i>>] = k
    BY DEF TransactionAtomic
  <2>1. n \in 1 .. Len(kinds[t])
    <3>1. kinds[t] \in Seq(Kinds)
      BY DEF ControlInv, Domains
    <3> QED  BY <3>1, LenProperties
  <2> QED  BY <2>1 DEF AtomicInv, AtomicOf, Uniform
<1>3. ControlInv /\ DurableInv /\ AtomicInv /\ [DbNext]_dbVars => AtomicInv'
  BY AtomicNext
<1> QED  BY <1>1, <1>2, <1>3, ControlInvariant, DurableInvariant, PTL DEF DbSpec
=============================================================================
