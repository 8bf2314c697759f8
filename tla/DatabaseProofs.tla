--------------------------- MODULE DatabaseProofs ---------------------------
(***************************************************************************)
(* What db.py guarantees, for any number of threads, processes, operations *)
(* and faults.                                                             *)
(***************************************************************************)
EXTENDS Database, SequenceTheorems, TLAPS

-----------------------------------------------------------------------------
(***************************************************************************)
(* Control: which statement a thread is at, and of what kind of operation. *)
(***************************************************************************)
ControlOf(t) ==
    /\ Len(kinds[t]) <= MaxOps
    /\ at[t] \in Body => Len(kinds[t]) >= 1
    /\ at[t] \in {"run", "commit"} => stmt[t] = 1
    /\ at[t] = "commit" => Kind(t) = "execute"
    /\ at[t] \in {"block", "commit_block"} => Kind(t) = "transaction"
    /\ at[t] = "block" => stmt[t] \in 1 .. BlockSize
    /\ at[t] = "commit_block" => stmt[t] = BlockSize + 1

\* Every thread has its place in each of these.
Domains ==
    /\ DOMAIN at = Threads /\ DOMAIN attempt = Threads /\ DOMAIN conn = Threads
    /\ DOMAIN pending = Threads /\ DOMAIN migrated = Processes
    /\ kinds \in [Threads -> Seq(Kinds)]
    /\ stmt \in [Threads -> Nat \ {0}]

ControlInv == Domains /\ \A t \in Threads : ControlOf(t)

\* An operation is one of Ops, and a write of it one of Writes.
LEMMA OpTypes ==
    ASSUME ControlInv, NEW t \in Threads
    PROVE  /\ Len(kinds[t]) \in Nat /\ Op(t) \in Ops
           /\ at[t] \in Body =>
                  \A i \in 1 .. BlockSize : <<t, Len(kinds[t]), i>> \in Writes
           /\ at[t] \in Body => Kind(t) \in Kinds
<1>1. kinds[t] \in Seq(Kinds)
  BY DEF ControlInv, Domains
<1>2. Len(kinds[t]) \in Nat /\ DOMAIN kinds[t] = 1 .. Len(kinds[t])
  BY <1>1, LenProperties
<1>3. Len(kinds[t]) <= MaxOps /\ MaxOps \in Nat
  BY DbBoundsAssumption DEF ControlInv, ControlOf
<1>4. Op(t) \in Ops
  BY <1>2, <1>3 DEF Op, Ops
<1>5. ASSUME at[t] \in Body
      PROVE  /\ Kind(t) \in Kinds
             /\ \A i \in 1 .. BlockSize : <<t, Len(kinds[t]), i>> \in Writes
  <2>1. Len(kinds[t]) \in 1 .. MaxOps /\ Len(kinds[t]) \in 1 .. Len(kinds[t])
    BY <1>2, <1>3, <1>5 DEF ControlInv, ControlOf
  <2> QED  BY <1>1, <2>1, ElementOfSeq DEF Kind, Writes
<1> QED  BY <1>2, <1>4, <1>5

\* What an action of another thread leaves alone.
SamePlace(u) == at'[u] = at[u] /\ kinds'[u] = kinds[u] /\ stmt'[u] = stmt[u]

LEMMA OthersControl ==
    ASSUME ControlInv, NEW u \in Threads, SamePlace(u)
    PROVE  ControlOf(u)'
  BY DEF ControlInv, ControlOf, Kind, SamePlace

LEMMA ControlInit == DbInit => ControlInv
<1> SUFFICES ASSUME DbInit PROVE ControlInv
  OBVIOUS
<1>1. Domains
  BY DEF DbInit, Domains
<1>2. ASSUME NEW t \in Threads PROVE ControlOf(t)
  BY DbBoundsAssumption DEF DbInit, ControlOf, Body
<1> QED  BY <1>1, <1>2 DEF ControlInv

\* What Execute does, by what the connection and the operation are.
LEMMA ExecuteCases ==
    ASSUME ControlInv, NEW t \in Threads, Execute(t)
    PROVE  /\ at[t] = "run" /\ kinds' = kinds /\ stmt' = stmt /\ applied' = applied
           /\ migrated' = migrated /\ schema' = schema /\ NoDbFault
           /\ \/ conn[t] = "stale" /\ Stale(t)
              \/ /\ conn[t] # "stale" /\ conn' = [conn EXCEPT ![t] = "open"]
                 /\ attempt' = attempt
                 /\ \/ Kind(t) = "query" /\ Return(t) /\ pending' = pending
                    \/ /\ Kind(t) = "execute" /\ Step(t, "commit") /\ UNCHANGED endVars
                       /\ pending' = [pending EXCEPT ![t] = @ \cup {Write(t)}]
                    \/ /\ Kind(t) = "transaction" /\ Step(t, "block") /\ UNCHANGED endVars
                       /\ pending' = pending
<1>1. /\ at[t] = "run" /\ kinds' = kinds /\ stmt' = stmt /\ applied' = applied
      /\ migrated' = migrated /\ schema' = schema /\ NoDbFault
  BY DEF Execute, migrateVars
<1>2. Connected(t) = "stale" <=> conn[t] = "stale"
  BY DEF Connected
<1>3. CASE conn[t] = "stale"
  BY <1>1, <1>2, <1>3 DEF Execute
<1>4. CASE conn[t] # "stale"
  <2>1. /\ conn' = [conn EXCEPT ![t] = "open"] /\ attempt' = attempt
        /\ AfterExecute(t)
        /\ IF Kind(t) = "execute"
           THEN pending' = [pending EXCEPT ![t] = @ \cup {Write(t)}]
           ELSE pending' = pending
    BY <1>2, <1>4 DEF Execute
  <2>2. Kind(t) \in Kinds
    BY <1>1, OpTypes DEF Body
  <2>3. CASE Kind(t) = "query"
    BY <1>1, <1>4, <2>1, <2>3 DEF AfterExecute
  <2>4. CASE Kind(t) = "execute"
    BY <1>1, <1>4, <2>1, <2>4 DEF AfterExecute
  <2>5. CASE Kind(t) = "transaction"
    BY <1>1, <1>4, <2>1, <2>5 DEF AfterExecute
  <2> QED  BY <2>2, <2>3, <2>4, <2>5 DEF Kinds
<1> QED  BY <1>3, <1>4

LEMMA ControlNext == ControlInv /\ [DbNext]_dbVars => ControlInv'
<1> SUFFICES ASSUME ControlInv, [DbNext]_dbVars PROVE ControlInv'
  OBVIOUS
<1>1. ASSUME NEW t \in Threads, Begin(t) PROVE ControlInv'
  <2>1. Domains'
    BY <1>1 DEF ControlInv, Domains, Begin, Step, migrateVars
  <2>2. ControlOf(t)'
    <3>1. PICK k \in Kinds : kinds' = [kinds EXCEPT ![t] = Append(@, k)]
      BY <1>1 DEF Begin
    <3>2. kinds'[t] = Append(kinds[t], k) /\ kinds[t] \in Seq(Kinds)
      BY <3>1 DEF ControlInv, Domains
    <3>3. Len(kinds'[t]) = Len(kinds[t]) + 1 /\ Len(kinds[t]) \in Nat
      BY <3>2, AppendProperties, LenProperties
    <3>4. at'[t] = "run" /\ stmt'[t] = 1 /\ Len(kinds[t]) < MaxOps
      BY <1>1 DEF Begin, Step, ControlInv, Domains
    <3> QED  BY <3>3, <3>4, DbBoundsAssumption DEF ControlOf
  <2>3. \A u \in Threads \ {t} : SamePlace(u)
    BY <1>1 DEF ControlInv, Domains, Begin, Step, migrateVars, SamePlace
  <2> QED  BY <2>1, <2>2, <2>3, OthersControl DEF ControlInv
<1>2. ASSUME NEW t \in Threads, StartProcess(t) PROVE ControlInv'
  <2>1. Domains'
    BY <1>2 DEF ControlInv, Domains, StartProcess, Step, migrateVars
  <2>2. ControlOf(t)'
    BY <1>2, OpTypes
      DEF ControlInv, Domains, ControlOf, Kind, Body, StartProcess, Step, migrateVars
  <2>3. \A u \in Threads \ {t} : SamePlace(u)
    BY <1>2 DEF ControlInv, Domains, StartProcess, Step, migrateVars, SamePlace
  <2> QED  BY <2>1, <2>2, <2>3, OthersControl DEF ControlInv
<1>3. ASSUME NEW t \in Threads, Migrate(t) PROVE ControlInv'
  <2>1. Domains'
    <3>1. stmt' \in [Threads -> Nat \ {0}]
      <4>1. stmt \in [Threads -> Nat \ {0}]
            /\ (stmt' = stmt \/ stmt' = [stmt EXCEPT ![t] = stmt[t] + 1])
        BY <1>3 DEF ControlInv, Domains, Migrate
      <4> QED  BY <4>1
    <3> QED  BY <1>3, <3>1 DEF ControlInv, Domains, Migrate, Step
  <2>2. ControlOf(t)'
    <3>1. kinds'[t] = kinds[t] /\ at'[t] \in {"migrate", "idle"}
      BY <1>3 DEF Migrate, Step, ControlInv, Domains
    <3> QED  BY <3>1 DEF ControlInv, ControlOf, Body
  <2>3. \A u \in Threads \ {t} : SamePlace(u)
    BY <1>3 DEF ControlInv, Domains, Migrate, Step, SamePlace
  <2> QED  BY <2>1, <2>2, <2>3, OthersControl DEF ControlInv
<1>4. ASSUME NEW t \in Threads, MigrateRaises(t) PROVE ControlInv'
  <2>1. Domains'
    BY <1>4 DEF ControlInv, Domains, MigrateRaises, Step, migrateVars
  <2>2. ControlOf(t)'
    BY <1>4, OpTypes
      DEF ControlInv, Domains, ControlOf, Kind, Body, MigrateRaises, Step, migrateVars
  <2>3. \A u \in Threads \ {t} : SamePlace(u)
    BY <1>4 DEF ControlInv, Domains, MigrateRaises, Step, migrateVars, SamePlace
  <2> QED  BY <2>1, <2>2, <2>3, OthersControl DEF ControlInv
<1>5. ASSUME NEW t \in Threads, Execute(t) PROVE ControlInv'
  <2>1. at[t] = "run" /\ kinds' = kinds /\ stmt' = stmt /\ migrated' = migrated
    BY <1>5, ExecuteCases
  <2>2. DOMAIN conn' = Threads /\ DOMAIN attempt' = Threads /\ DOMAIN pending' = Threads
    BY <1>5, ExecuteCases DEF Stale, ControlInv, Domains
  <2>3. PICK label \in {"run", "idle", "commit", "block"} :
            /\ at' = [at EXCEPT ![t] = label]
            /\ label = "commit" => Kind(t) = "execute"
            /\ label = "block" => Kind(t) = "transaction"
    BY <1>5, ExecuteCases DEF Stale, Return, Raise, Step
  <2>4. Domains'
    BY <2>1, <2>2, <2>3 DEF ControlInv, Domains
  <2>5. ControlOf(t)'
    BY <2>1, <2>3 DEF ControlInv, Domains, ControlOf, Kind, Body, BlockSize
  <2>6. \A u \in Threads \ {t} : SamePlace(u)
    BY <2>1, <2>3 DEF ControlInv, Domains, SamePlace
  <2> QED  BY <2>4, <2>5, <2>6, OthersControl DEF ControlInv
<1>6. ASSUME NEW t \in Threads, Commit(t) PROVE ControlInv'
  <2>1. Domains'
    BY <1>6 DEF ControlInv, Domains, Commit, Stale, Return, Raise, Step, migrateVars
  <2>2. ControlOf(t)'
    BY <1>6, OpTypes
      DEF ControlInv, Domains, ControlOf, Kind, Body, Commit, Stale, Return, Raise,
          Step, migrateVars
  <2>3. \A u \in Threads \ {t} : SamePlace(u)
    BY <1>6 DEF ControlInv, Domains, Commit, Stale, Return, Raise, Step,
        migrateVars, SamePlace
  <2> QED  BY <2>1, <2>2, <2>3, OthersControl DEF ControlInv
<1>7. ASSUME NEW t \in Threads, CommitReplyLost(t) PROVE ControlInv'
  <2>1. Domains'
    BY <1>7 DEF ControlInv, Domains, CommitReplyLost, Stale, Raise, Step, migrateVars
  <2>2. ControlOf(t)'
    BY <1>7, OpTypes
      DEF ControlInv, Domains, ControlOf, Kind, Body, CommitReplyLost, Stale,
          Raise, Step, migrateVars
  <2>3. \A u \in Threads \ {t} : SamePlace(u)
    BY <1>7 DEF ControlInv, Domains, CommitReplyLost, Stale, Raise, Step,
        migrateVars, SamePlace
  <2> QED  BY <2>1, <2>2, <2>3, OthersControl DEF ControlInv
<1>8. ASSUME NEW t \in Threads, Block(t) PROVE ControlInv'
  <2>1. Domains'
    BY <1>8 DEF ControlInv, Domains, Block, Step, migrateVars
  <2>2. ControlOf(t)'
    <3>1. at[t] = "block" /\ kinds' = kinds
      BY <1>8 DEF Block
    <3>2. Kind(t) = "transaction" /\ stmt[t] \in 1 .. 2
          /\ Len(kinds[t]) <= MaxOps /\ Len(kinds[t]) >= 1
      BY <3>1 DEF ControlInv, ControlOf, Body, BlockSize
    <3>3. CASE conn[t] = "stale"
      BY <1>8, <3>1, <3>2, <3>3 DEF Block, Step, ControlInv, Domains, ControlOf
    <3>4. CASE conn[t] # "stale"
      <4>1. /\ stmt'[t] = stmt[t] + 1
            /\ at'[t] = IF stmt[t] = BlockSize THEN "commit_block" ELSE "block"
        BY <1>8, <3>4 DEF Block, Step, ControlInv, Domains
      <4> QED  BY <3>1, <3>2, <4>1 DEF ControlOf, Kind, BlockSize
    <3> QED  BY <3>3, <3>4
  <2>3. \A u \in Threads \ {t} : SamePlace(u)
    BY <1>8 DEF ControlInv, Domains, Block, Step, migrateVars, SamePlace
  <2> QED  BY <2>1, <2>2, <2>3, OthersControl DEF ControlInv
<1>9. ASSUME NEW t \in Threads, BlockRaises(t) PROVE ControlInv'
  <2>1. Domains'
    BY <1>9 DEF ControlInv, Domains, BlockRaises, Step, migrateVars
  <2>2. ControlOf(t)'
    BY <1>9, OpTypes
      DEF ControlInv, Domains, ControlOf, Kind, Body, BlockRaises, Step, migrateVars
  <2>3. \A u \in Threads \ {t} : SamePlace(u)
    BY <1>9 DEF ControlInv, Domains, BlockRaises, Step, migrateVars, SamePlace
  <2> QED  BY <2>1, <2>2, <2>3, OthersControl DEF ControlInv
<1>10. ASSUME NEW t \in Threads, CommitBlock(t) PROVE ControlInv'
  <2>1. Domains'
    BY <1>10 DEF ControlInv, Domains, CommitBlock, Return, Step, migrateVars
  <2>2. ControlOf(t)'
    BY <1>10, OpTypes
      DEF ControlInv, Domains, ControlOf, Kind, Body, CommitBlock, Return, Step,
          migrateVars
  <2>3. \A u \in Threads \ {t} : SamePlace(u)
    BY <1>10 DEF ControlInv, Domains, CommitBlock, Return, Step, migrateVars,
        SamePlace
  <2> QED  BY <2>1, <2>2, <2>3, OthersControl DEF ControlInv
<1>11. ASSUME NEW t \in Threads, CommitBlockReplyLost(t) PROVE ControlInv'
  <2>1. Domains'
    BY <1>11 DEF ControlInv, Domains, CommitBlockReplyLost, Step, migrateVars
  <2>2. ControlOf(t)'
    BY <1>11, OpTypes
      DEF ControlInv, Domains, ControlOf, Kind, Body, CommitBlockReplyLost, Step,
          migrateVars
  <2>3. \A u \in Threads \ {t} : SamePlace(u)
    BY <1>11 DEF ControlInv, Domains, CommitBlockReplyLost, Step, migrateVars,
        SamePlace
  <2> QED  BY <2>1, <2>2, <2>3, OthersControl DEF ControlInv
<1>12. ASSUME NEW t \in Threads, Rollback(t) PROVE ControlInv'
  <2>1. Domains'
    BY <1>12 DEF ControlInv, Domains, Rollback, Raise, Step, migrateVars
  <2>2. ControlOf(t)'
    BY <1>12, OpTypes
      DEF ControlInv, Domains, ControlOf, Kind, Body, Rollback, Raise, Step,
          migrateVars
  <2>3. \A u \in Threads \ {t} : SamePlace(u)
    BY <1>12 DEF ControlInv, Domains, Rollback, Raise, Step, migrateVars, SamePlace
  <2> QED  BY <2>1, <2>2, <2>3, OthersControl DEF ControlInv
<1>13. ASSUME NEW t \in Threads, GoStale(t) PROVE ControlInv'
  <2>1. Domains'
    BY <1>13 DEF ControlInv, Domains, GoStale, threadVars, migrateVars
  <2>2. ControlOf(t)'
    BY <1>13, OpTypes
      DEF ControlInv, Domains, ControlOf, Kind, Body, GoStale, threadVars, migrateVars
  <2>3. \A u \in Threads \ {t} : SamePlace(u)
    BY <1>13 DEF ControlInv, Domains, GoStale, threadVars, migrateVars, SamePlace
  <2> QED  BY <2>1, <2>2, <2>3, OthersControl DEF ControlInv
<1>14. ASSUME NEW t \in Threads, Timeout(t) PROVE ControlInv'
  <2>1. Domains'
    BY <1>14 DEF ControlInv, Domains, Timeout, Raise, Step, migrateVars
  <2>2. ControlOf(t)'
    BY <1>14, OpTypes
      DEF ControlInv, Domains, ControlOf, Kind, Body, Timeout, Raise, Step,
          migrateVars
  <2>3. \A u \in Threads \ {t} : SamePlace(u)
    BY <1>14 DEF ControlInv, Domains, Timeout, Raise, Step, migrateVars, SamePlace
  <2> QED  BY <2>1, <2>2, <2>3, OthersControl DEF ControlInv
<1>15. ASSUME NEW t \in Threads, Busy(t) PROVE ControlInv'
  <2>1. Domains'
    BY <1>15 DEF ControlInv, Domains, Busy, Raise, Step, migrateVars
  <2>2. ControlOf(t)'
    BY <1>15, OpTypes
      DEF ControlInv, Domains, ControlOf, Kind, Body, Busy, Raise, Step, migrateVars
  <2>3. \A u \in Threads \ {t} : SamePlace(u)
    BY <1>15 DEF ControlInv, Domains, Busy, Raise, Step, migrateVars, SamePlace
  <2> QED  BY <2>1, <2>2, <2>3, OthersControl DEF ControlInv
<1>16. ASSUME NEW p \in Processes, Restart(p) PROVE ControlInv'
  <2>1. Domains'
    BY <1>16 DEF ControlInv, Domains, Restart
  <2>2. ASSUME NEW t \in Threads PROVE ControlOf(t)'
    <3>1. kinds'[t] = kinds[t] /\ stmt'[t] = stmt[t] /\ at'[t] \in {at[t], "idle"}
      BY <1>16 DEF Restart
    <3> QED  BY <3>1 DEF ControlInv, ControlOf, Kind, Body
  <2> QED  BY <2>1, <2>2 DEF ControlInv
<1>17. CASE UNCHANGED dbVars
  BY <1>17 DEF dbVars, threadVars, migrateVars, ControlInv, Domains, ControlOf, Kind
<1> QED
  BY <1>1, <1>2, <1>3, <1>4, <1>5, <1>6, <1>7, <1>8, <1>9, <1>10, <1>11, <1>12,
     <1>13, <1>14, <1>15, <1>16, <1>17 DEF DbNext, DbStep

LEMMA ControlInvariant == DbSpec => []ControlInv
  BY ControlInit, ControlNext, PTL DEF DbSpec

\* The types, and with them: _run tries at most twice, and what is pending or
\* applied are writes of operations that were begun.
LEMMA DbTypesNext == ControlInv /\ ControlInv' /\ DbTypeOK /\ [DbNext]_dbVars => DbTypeOK'
<1> SUFFICES ASSUME ControlInv, ControlInv', DbTypeOK, [DbNext]_dbVars PROVE DbTypeOK'
  OBVIOUS
<1>1. kinds' \in [Threads -> Seq(Kinds)] /\ stmt' \in [Threads -> Nat \ {0}]
  BY DEF ControlInv, Domains
<1>2. \A t \in Threads : Op(t) \in Ops
  BY OpTypes
<1>3. \A t \in Threads : at[t] = "block" \/ at[t] = "run" => Write(t) \in Writes
  <2> SUFFICES ASSUME NEW t \in Threads, at[t] = "block" \/ at[t] = "run"
               PROVE  Write(t) \in Writes
    OBVIOUS
  <2>1. stmt[t] \in 1 .. BlockSize
    BY DEF ControlInv, ControlOf, BlockSize
  <2> QED  BY <2>1, OpTypes DEF Write, Body
<1>4. \A t \in Threads : DbFault(t, "reset") \/ DbFault(t, "timeout") \/ DbFault(t, "busy")
                              \/ DbFault(t, "crash")
          => disturbed' \in SUBSET Ops /\ dbFaults' \in 0 .. MaxDbFaults
  BY <1>2, DbBoundsAssumption DEF DbFault, DbTypeOK
<1>5. NoDbFault => disturbed' \in SUBSET Ops /\ dbFaults' \in 0 .. MaxDbFaults
  BY DEF NoDbFault, DbTypeOK
<1>6. \A t \in Threads : CommitPending(t) => applied' \in [Writes -> Nat]
  BY DEF CommitPending, DbTypeOK
<1>7. UNCHANGED endVars => returned' \in SUBSET Ops /\ raised' \in SUBSET Ops
                           /\ leaked' \in SUBSET Ops
  BY DEF endVars, DbTypeOK
<1>8. \A t \in Threads : Return(t) \/ Raise(t) =>
          /\ returned' \in SUBSET Ops /\ raised' \in SUBSET Ops /\ leaked' \in SUBSET Ops
          /\ at' \in [Threads -> {"idle", "migrate"} \cup Body]
  <2> SUFFICES ASSUME NEW t \in Threads, Return(t) \/ Raise(t)
               PROVE  /\ returned' \in SUBSET Ops /\ raised' \in SUBSET Ops
                      /\ leaked' \in SUBSET Ops
                      /\ at' \in [Threads -> {"idle", "migrate"} \cup Body]
    OBVIOUS
  <2>1. at' \in [Threads -> {"idle", "migrate"} \cup Body]
    BY DEF Return, Raise, Step, DbTypeOK
  <2>2. {Op(t)} \subseteq Ops /\ returned \subseteq Ops /\ raised \subseteq Ops /\ leaked \subseteq Ops
    BY <1>2 DEF DbTypeOK
  <2>3. CASE Return(t)
    <3>1. returned' = returned \cup {Op(t)} /\ raised' = raised /\ leaked' = leaked
      BY <2>3 DEF Return
    <3> QED  BY <2>1, <2>2, <3>1
  <2>4. CASE Raise(t)
    <3>1. raised' = raised \cup {Op(t)} /\ returned' = returned /\ leaked' = leaked
      BY <2>4 DEF Raise
    <3> QED  BY <2>1, <2>2, <3>1
  <2> QED  BY <2>3, <2>4
<1>9. \A t \in Threads : Stale(t) =>
          /\ returned' \in SUBSET Ops /\ raised' \in SUBSET Ops /\ leaked' \in SUBSET Ops
          /\ at' \in [Threads -> {"idle", "migrate"} \cup Body]
          /\ attempt' \in [Threads -> {1, 2}]
          /\ conn' \in [Threads -> {"none", "open", "stale"}]
          /\ pending' \in [Threads -> SUBSET Writes]
  BY <1>7, <1>8, ZenonT(40) DEF Stale, Step, DbTypeOK, Body
<1>9a. \A t \in Threads : at[t] = "block" \/ at[t] = "run" =>
           [pending EXCEPT ![t] = @ \cup {Write(t)}] \in [Threads -> SUBSET Writes]
  <2> SUFFICES ASSUME NEW t \in Threads, at[t] = "block" \/ at[t] = "run"
               PROVE  [pending EXCEPT ![t] = @ \cup {Write(t)}] \in [Threads -> SUBSET Writes]
    OBVIOUS
  <2>1. pending \in [Threads -> SUBSET Writes]
    BY DEF DbTypeOK
  <2>2. pending[t] \cup {Write(t)} \in SUBSET Writes
    BY <1>3, <2>1
  <2> QED  BY <2>1, <2>2
<1>10. ASSUME NEW t \in Threads, Begin(t) PROVE DbTypeOK'
  BY <1>1, <1>5, <1>7, <1>10 DEF DbTypeOK, Begin, Step, migrateVars, Body
<1>11. ASSUME NEW t \in Threads, StartProcess(t) \/ Migrate(t) \/ MigrateRaises(t)
       PROVE  DbTypeOK'
  <2>1. schema' \in SUBSET (1 .. SchemaSize) /\ migrated' \in [Processes -> BOOLEAN]
    <3>1. CASE Migrate(t)
      <4>1. stmt[t] <= SchemaSize => {stmt[t]} \subseteq 1 .. SchemaSize
        BY SchemaSizeAssumption DEF DbTypeOK
      <4>2. schema \subseteq 1 .. SchemaSize /\ migrated \in [Processes -> BOOLEAN]
        BY DEF DbTypeOK
      <4>3. \/ stmt[t] <= SchemaSize /\ schema' = schema \cup {stmt[t]} /\ migrated' = migrated
            \/ schema' = schema /\ migrated' = [migrated EXCEPT ![ProcessOf[t]] = TRUE]
        BY <3>1 DEF Migrate
      <4> QED  BY <4>1, <4>2, <4>3
    <3>2. CASE StartProcess(t) \/ MigrateRaises(t)
      BY <3>2 DEF StartProcess, MigrateRaises, migrateVars, DbTypeOK
    <3> QED  BY <1>11, <3>1, <3>2
  <2> QED  BY <1>1, <1>5, <1>7, <1>11, <2>1
           DEF DbTypeOK, StartProcess, Migrate, MigrateRaises, Step
<1>12. ASSUME NEW t \in Threads, Execute(t) PROVE DbTypeOK'
  <2>1. at[t] = "run" /\ applied' = applied /\ migrated' = migrated /\ schema' = schema
        /\ NoDbFault
    BY <1>12, ExecuteCases
  <2>2. /\ returned' \in SUBSET Ops /\ raised' \in SUBSET Ops /\ leaked' \in SUBSET Ops
        /\ at' \in [Threads -> {"idle", "migrate"} \cup Body]
        /\ attempt' \in [Threads -> {1, 2}]
        /\ conn' \in [Threads -> {"none", "open", "stale"}]
        /\ pending' \in [Threads -> SUBSET Writes]
    <3>1. CASE Stale(t)
      BY <1>9, <3>1
    <3>2. CASE conn[t] # "stale"
      <4>1. /\ conn' = [conn EXCEPT ![t] = "open"] /\ attempt' = attempt
            /\ \/ Return(t) /\ pending' = pending
               \/ /\ Step(t, "commit") /\ UNCHANGED endVars
                  /\ pending' = [pending EXCEPT ![t] = @ \cup {Write(t)}]
               \/ Step(t, "block") /\ UNCHANGED endVars /\ pending' = pending
        BY <1>12, <3>2, ExecuteCases
      <4>2. conn' \in [Threads -> {"none", "open", "stale"}] /\ attempt' \in [Threads -> {1, 2}]
        BY <4>1 DEF DbTypeOK
      <4>3. pending' \in [Threads -> SUBSET Writes]
        BY <1>9a, <2>1, <4>1 DEF DbTypeOK
      <4>4. Step(t, "commit") \/ Step(t, "block")
              => at' \in [Threads -> {"idle", "migrate"} \cup Body]
        BY DEF Step, Body, DbTypeOK
      <4> QED  BY <1>7, <1>8, <4>1, <4>2, <4>3, <4>4
    <3> QED  BY <1>12, <3>1, <3>2, ExecuteCases
  <2> QED  BY <1>1, <1>5, <2>1, <2>2 DEF DbTypeOK
<1>13. ASSUME NEW t \in Threads, Commit(t) \/ CommitReplyLost(t) PROVE DbTypeOK'
  <2>1. /\ returned' \in SUBSET Ops /\ raised' \in SUBSET Ops /\ leaked' \in SUBSET Ops
        /\ at' \in [Threads -> {"idle", "migrate"} \cup Body]
        /\ attempt' \in [Threads -> {1, 2}]
        /\ conn' \in [Threads -> {"none", "open", "stale"}]
        /\ pending' \in [Threads -> SUBSET Writes]
    BY <1>8, <1>9, <1>13 DEF Commit, CommitReplyLost, DbTypeOK
  <2>2. applied' \in [Writes -> Nat]
    BY <1>6, <1>13 DEF Commit, CommitReplyLost, DbTypeOK
  <2>3. disturbed' \in SUBSET Ops /\ dbFaults' \in 0 .. MaxDbFaults
    BY <1>4, <1>5, <1>13 DEF Commit, CommitReplyLost
  <2> QED  BY <1>1, <1>13, <2>1, <2>2, <2>3
           DEF DbTypeOK, Commit, CommitReplyLost, migrateVars
<1>14. ASSUME NEW t \in Threads, Block(t) \/ BlockRaises(t) PROVE DbTypeOK'
  <2>1. disturbed' \in SUBSET Ops /\ dbFaults' \in 0 .. MaxDbFaults
    BY <1>2, <1>5, <1>14 DEF Block, BlockRaises, DbTypeOK
  <2>2. pending' \in [Threads -> SUBSET Writes]
    <3>1. at[t] = "block"
      BY <1>14 DEF Block, BlockRaises
    <3>2. pending' = pending \/ pending' = [pending EXCEPT ![t] = @ \cup {Write(t)}]
      BY <1>14 DEF Block, BlockRaises
    <3> QED  BY <1>9a, <3>1, <3>2 DEF DbTypeOK
  <2>3. at' \in [Threads -> {"idle", "migrate"} \cup Body]
    BY <1>14 DEF Block, BlockRaises, Step, Body, DbTypeOK
  <2> QED  BY <1>1, <1>7, <1>14, <2>1, <2>2, <2>3 DEF DbTypeOK, Block, BlockRaises, migrateVars
<1>15. ASSUME NEW t \in Threads, CommitBlock(t) \/ CommitBlockReplyLost(t) PROVE DbTypeOK'
  <2>1. disturbed' \in SUBSET Ops /\ dbFaults' \in 0 .. MaxDbFaults
    BY <1>4, <1>5, <1>15 DEF CommitBlock, CommitBlockReplyLost
  <2>2. applied' \in [Writes -> Nat] /\ pending' \in [Threads -> SUBSET Writes]
    BY <1>6, <1>15 DEF CommitBlock, CommitBlockReplyLost, DbTypeOK
  <2>3. /\ returned' \in SUBSET Ops /\ raised' \in SUBSET Ops /\ leaked' \in SUBSET Ops
        /\ at' \in [Threads -> {"idle", "migrate"} \cup Body]
    BY <1>7, <1>8, <1>15 DEF CommitBlock, CommitBlockReplyLost, Step, Body, DbTypeOK
  <2> QED  BY <1>1, <1>15, <2>1, <2>2, <2>3
           DEF DbTypeOK, CommitBlock, CommitBlockReplyLost, migrateVars
<1>16. ASSUME NEW t \in Threads, Rollback(t) PROVE DbTypeOK'
  BY <1>1, <1>5, <1>8, <1>16 DEF DbTypeOK, Rollback, migrateVars
<1>17. ASSUME NEW t \in Threads, GoStale(t) PROVE DbTypeOK'
  <2>1. disturbed' \in SUBSET Ops /\ dbFaults' \in 0 .. MaxDbFaults
    BY <1>4, <1>5, <1>17 DEF GoStale
  <2> QED  BY <1>1, <1>7, <1>17, <2>1 DEF DbTypeOK, GoStale, threadVars, migrateVars
<1>18. ASSUME NEW t \in Threads, Timeout(t) \/ Busy(t) PROVE DbTypeOK'
  <2>1. disturbed' \in SUBSET Ops /\ dbFaults' \in 0 .. MaxDbFaults
    BY <1>4, <1>18 DEF Timeout, Busy
  <2>2. /\ returned' \in SUBSET Ops /\ raised' \in SUBSET Ops /\ leaked' \in SUBSET Ops
        /\ at' \in [Threads -> {"idle", "migrate"} \cup Body]
    <3>1. Step(t, "rollback") \/ Step(t, "idle")
            => at' \in [Threads -> {"idle", "migrate"} \cup Body]
      BY DEF Step, Body, DbTypeOK
    <3>2. CASE Busy(t)
      BY <1>7, <1>8, <3>1, <3>2 DEF Busy
    <3>3. CASE Timeout(t)
      <4>1. {Op(t)} \subseteq Ops /\ returned \subseteq Ops /\ raised \subseteq Ops
            /\ leaked \subseteq Ops
        BY <1>2 DEF DbTypeOK
      <4>2. \/ Step(t, "rollback") /\ UNCHANGED endVars
            \/ /\ Step(t, "idle") /\ raised' = raised \cup {Op(t)} /\ returned' = returned
               /\ leaked' = leaked \/ leaked' = leaked \cup {Op(t)}
        BY <3>3 DEF Timeout
      <4> QED  BY <1>7, <3>1, <4>1, <4>2
    <3> QED  BY <1>18, <3>2, <3>3
  <2> QED  BY <1>1, <1>18, <2>1, <2>2 DEF DbTypeOK, Timeout, Busy, migrateVars
<1>19. ASSUME NEW p \in Processes, Restart(p) PROVE DbTypeOK'
  <2>1. disturbed' \in SUBSET Ops /\ dbFaults' \in 0 .. MaxDbFaults
    BY <1>4, <1>19 DEF Restart
  <2> QED  BY <1>1, <1>7, <1>19, <2>1 DEF DbTypeOK, Restart
<1>20. CASE UNCHANGED dbVars
  BY <1>20 DEF DbTypeOK, dbVars, threadVars, migrateVars, endVars
<1> QED
  BY <1>10, <1>11, <1>12, <1>13, <1>14, <1>15, <1>16, <1>17, <1>18, <1>19, <1>20
     DEF DbNext, DbStep

\* Type correctness of the database layer, the bound on _run's tries included.
THEOREM DbTypesHold == DbSpec => []DbTypeOK
<1>1. DbInit => DbTypeOK
  <2>1. DbInit => kinds \in [Threads -> Seq(Kinds)]
    BY DEF DbInit
  <2> QED  BY <2>1, DbBoundsAssumption DEF DbInit, DbTypeOK
<1> QED  BY <1>1, ControlInvariant, DbTypesNext, PTL DEF DbSpec

-----------------------------------------------------------------------------
(***************************************************************************)
(* The schema.                                                             *)
(***************************************************************************)
SchemaInv ==
    /\ schema \subseteq 1 .. SchemaSize
    /\ \A t \in Threads : at[t] = "migrate" =>
           \A i \in 1 .. SchemaSize : i < stmt[t] => i \in schema
    /\ \A p \in Processes : migrated[p] => schema = 1 .. SchemaSize
    /\ RunsOnSchema

\* All other actions leave the schema, the flags and the migrations alone, and
\* go on only with an operation that has begun.
LEMMA SchemaUntouched ==
    ASSUME ControlInv, DbNext
    PROVE  \/ \E t \in Threads : Begin(t) \/ StartProcess(t) \/ Migrate(t)
           \/ /\ schema' = schema
              /\ \A p \in Processes : migrated'[p] => migrated[p]
              /\ \A u \in Threads :
                     /\ at'[u] = "migrate" => at[u] = "migrate" /\ stmt'[u] = stmt[u]
                     /\ at'[u] \in Body => at[u] \in Body
<1> DEFINE Quiet ==
               /\ schema' = schema
               /\ \A p \in Processes : migrated'[p] => migrated[p]
               /\ \A u \in Threads :
                      /\ at'[u] = "migrate" => at[u] = "migrate" /\ stmt'[u] = stmt[u]
                      /\ at'[u] \in Body => at[u] \in Body
<1>1. ASSUME NEW t \in Threads, MigrateRaises(t) PROVE Quiet
  BY <1>1 DEF ControlInv, Domains, Body, MigrateRaises, Step, migrateVars
<1>2. ASSUME NEW t \in Threads, Execute(t) PROVE Quiet
  <2>1. PICK label \in {"run", "idle", "commit", "block"} : at' = [at EXCEPT ![t] = label]
    BY <1>2, ExecuteCases DEF Stale, Return, Raise, Step
  <2> QED  BY <1>2, <2>1, ExecuteCases DEF ControlInv, Domains, Body
<1>3. ASSUME NEW t \in Threads, Commit(t) PROVE Quiet
  BY <1>3 DEF ControlInv, Domains, Body, Commit, Stale, Return, Raise, Step, migrateVars
<1>4. ASSUME NEW t \in Threads, CommitReplyLost(t) PROVE Quiet
  BY <1>4 DEF ControlInv, Domains, Body, CommitReplyLost, Stale, Raise, Step, migrateVars
<1>5. ASSUME NEW t \in Threads, Block(t) PROVE Quiet
  BY <1>5 DEF ControlInv, Domains, Body, Block, Step, migrateVars
<1>6. ASSUME NEW t \in Threads, BlockRaises(t) PROVE Quiet
  BY <1>6 DEF ControlInv, Domains, Body, BlockRaises, Step, migrateVars
<1>7. ASSUME NEW t \in Threads, CommitBlock(t) PROVE Quiet
  BY <1>7 DEF ControlInv, Domains, Body, CommitBlock, Return, Step, migrateVars
<1>8. ASSUME NEW t \in Threads, CommitBlockReplyLost(t) PROVE Quiet
  BY <1>8 DEF ControlInv, Domains, Body, CommitBlockReplyLost, Step, migrateVars
<1>9. ASSUME NEW t \in Threads, Rollback(t) PROVE Quiet
  BY <1>9 DEF ControlInv, Domains, Body, Rollback, Raise, Step, migrateVars
<1>10. ASSUME NEW t \in Threads, GoStale(t) PROVE Quiet
  BY <1>10 DEF GoStale, threadVars, migrateVars
<1>11. ASSUME NEW t \in Threads, Timeout(t) PROVE Quiet
  BY <1>11 DEF ControlInv, Domains, Body, Timeout, Raise, Step, migrateVars
<1>12. ASSUME NEW t \in Threads, Busy(t) PROVE Quiet
  BY <1>12 DEF ControlInv, Domains, Body, Busy, Raise, Step, migrateVars
<1>13. ASSUME NEW p \in Processes, Restart(p) PROVE Quiet
  BY <1>13 DEF ControlInv, Domains, Body, Restart
<1> HIDE DEF Quiet
<1>14. (\E t \in Threads : Begin(t) \/ StartProcess(t) \/ Migrate(t)) \/ Quiet
  BY <1>1, <1>2, <1>3, <1>4, <1>5, <1>6, <1>7, <1>8, <1>9, <1>10, <1>11, <1>12,
     <1>13 DEF DbNext, DbStep
<1> QED  BY <1>14 DEF Quiet

LEMMA SchemaNext == ControlInv /\ SchemaInv /\ [DbNext]_dbVars => SchemaInv'
<1> SUFFICES ASSUME ControlInv, SchemaInv, [DbNext]_dbVars PROVE SchemaInv'
  OBVIOUS
<1>1. ASSUME NEW t \in Threads, Begin(t) PROVE SchemaInv'
  <2>1. /\ schema' = schema /\ migrated' = migrated /\ migrated[ProcessOf[t]]
        /\ at' = [at EXCEPT ![t] = "run"] /\ stmt' = [stmt EXCEPT ![t] = 1]
    BY <1>1 DEF Begin, Step, migrateVars
  <2>2. schema = 1 .. SchemaSize
    BY <2>1, ProcessOfAssumption DEF SchemaInv
  <2> QED  BY <2>1, <2>2 DEF SchemaInv, RunsOnSchema
<1>2. ASSUME NEW t \in Threads, StartProcess(t) PROVE SchemaInv'
  <2>1. /\ schema' = schema /\ migrated' = migrated
        /\ at' = [at EXCEPT ![t] = "migrate"] /\ stmt' = [stmt EXCEPT ![t] = 1]
    BY <1>2 DEF StartProcess, Step, migrateVars
  <2> QED  BY <2>1 DEF SchemaInv, RunsOnSchema, ControlInv, Domains, Body
<1>3. ASSUME NEW t \in Threads, Migrate(t) PROVE SchemaInv'
  <2>1. at[t] = "migrate" /\ stmt[t] \in Nat \ {0} /\ SchemaSize \in Nat
    BY <1>3, SchemaSizeAssumption DEF Migrate, ControlInv, Domains
  <2>2. CASE stmt[t] <= SchemaSize
    <3>1. /\ schema' = schema \cup {stmt[t]} /\ at' = at /\ migrated' = migrated
          /\ stmt' = [stmt EXCEPT ![t] = stmt[t] + 1]
      BY <1>3, <2>2 DEF Migrate
    <3>2. schema' \subseteq 1 .. SchemaSize
      <4>1. stmt[t] \in 1 .. SchemaSize
        BY <2>1, <2>2
      <4> QED  BY <3>1, <4>1 DEF SchemaInv
    <3>3. ASSUME NEW u \in Threads, at'[u] = "migrate", NEW i \in 1 .. SchemaSize,
                 i < stmt'[u]
          PROVE  i \in schema'
      <4>1. CASE u # t
        BY <3>1, <3>3, <4>1 DEF SchemaInv, ControlInv, Domains
      <4>2. CASE u = t
        <5>1. stmt'[t] = stmt[t] + 1
          BY <3>1 DEF ControlInv, Domains
        <5>2. i < stmt[t] \/ i = stmt[t]
          BY <2>1, <3>3, <4>2, <5>1
        <5> QED  BY <2>1, <3>1, <5>2 DEF SchemaInv
      <4> QED  BY <4>1, <4>2
    <3>4. schema = 1 .. SchemaSize => schema' = 1 .. SchemaSize
      BY <2>1, <2>2, <3>1
    <3> QED  BY <3>1, <3>2, <3>3, <3>4 DEF SchemaInv, RunsOnSchema
  <2>3. CASE ~(stmt[t] <= SchemaSize)
    <3>1. schema' = schema /\ at' = [at EXCEPT ![t] = "idle"] /\ stmt' = stmt
      BY <1>3, <2>3 DEF Migrate, Step
    <3>2. \A i \in 1 .. SchemaSize : i < stmt[t]
      BY <2>1, <2>3
    <3>3. schema = 1 .. SchemaSize
      BY <2>1, <3>2 DEF SchemaInv
    <3> QED  BY <3>1, <3>3 DEF SchemaInv, RunsOnSchema, ControlInv, Domains
  <2> QED  BY <2>2, <2>3
<1>4. CASE /\ schema' = schema
           /\ \A p \in Processes : migrated'[p] => migrated[p]
           /\ \A u \in Threads :
                  /\ at'[u] = "migrate" => at[u] = "migrate" /\ stmt'[u] = stmt[u]
                  /\ at'[u] \in Body => at[u] \in Body
  BY <1>4 DEF SchemaInv, RunsOnSchema
<1>5. CASE UNCHANGED dbVars
  BY <1>5 DEF SchemaInv, RunsOnSchema, dbVars, threadVars, migrateVars
<1> QED  BY <1>1, <1>2, <1>3, <1>4, <1>5, SchemaUntouched

\* No operation runs before the schema is complete, for any number of
\* processes that start, die and start again.
THEOREM RunsOnSchemaHolds == DbSpec => []RunsOnSchema
<1>1. DbInit => SchemaInv
  BY DEF DbInit, SchemaInv, RunsOnSchema, Body
<1>2. SchemaInv => RunsOnSchema
  BY DEF SchemaInv
<1> QED  BY <1>1, <1>2, ControlInvariant, SchemaNext, PTL DEF DbSpec

-----------------------------------------------------------------------------
(***************************************************************************)
(* An operation that meets a connection gone stale before it began is      *)
(* still on its first attempt, and the second one opens a new connection.  *)
(***************************************************************************)
DisturbedOf(t) ==
    at[t] \in Body =>
        /\ conn[t] = "stale" => (at[t] = "run" /\ attempt[t] = 1) \/ Op(t) \in disturbed
        /\ at[t] = "rollback" => Op(t) \in disturbed

DisturbedInv == IdleExpiryInvisible /\ \A t \in Threads : DisturbedOf(t)

\* What a step of t does to the connections: t's own is as DisturbedOf asks,
\* the others are left alone, and whoever raises has been disturbed.
Tolerated(t) ==
    /\ \A u \in Threads \ {t} :
           SamePlace(u) /\ conn'[u] = conn[u] /\ attempt'[u] = attempt[u]
    /\ disturbed \subseteq disturbed'
    /\ raised' = raised \/ (raised' = raised \cup {Op(t)} /\ Op(t) \in disturbed')
    /\ DisturbedOf(t)'

LEMMA ToleratedKeeps ==
    ASSUME DisturbedInv, NEW t \in Threads, Tolerated(t)
    PROVE  DisturbedInv'
<1>1. \A u \in Threads \ {t} : DisturbedOf(u)'
  BY DEF DisturbedInv, DisturbedOf, Tolerated, SamePlace, Op
<1>2. IdleExpiryInvisible'
  BY DEF DisturbedInv, IdleExpiryInvisible, Tolerated
<1> QED  BY <1>1, <1>2 DEF DisturbedInv, Tolerated

LEMMA DisturbedNext == ControlInv /\ DisturbedInv /\ [DbNext]_dbVars => DisturbedInv'
<1> SUFFICES ASSUME ControlInv, DisturbedInv, [DbNext]_dbVars PROVE DisturbedInv'
  OBVIOUS
<1> USE DEF ControlInv, Domains, Tolerated, SamePlace
<1>1. ASSUME NEW t \in Threads, Begin(t) PROVE Tolerated(t)
  BY <1>1 DEF Begin, Step, endVars, NoDbFault, DisturbedOf
<1>2. ASSUME NEW t \in Threads, StartProcess(t) PROVE Tolerated(t)
  BY <1>2 DEF StartProcess, Step, endVars, NoDbFault, DisturbedOf, Body
<1>3. ASSUME NEW t \in Threads, Migrate(t) PROVE Tolerated(t)
  BY <1>3 DEF Migrate, Step, endVars, NoDbFault, DisturbedOf, Body
<1>4. ASSUME NEW t \in Threads, MigrateRaises(t) PROVE Tolerated(t)
  BY <1>4 DEF MigrateRaises, Step, endVars, NoDbFault, DisturbedOf, Body
<1>5. ASSUME NEW t \in Threads, Execute(t) PROVE Tolerated(t)
  <2>1. at[t] = "run" /\ kinds' = kinds /\ stmt' = stmt /\ disturbed' = disturbed
    BY <1>5, ExecuteCases DEF NoDbFault
  <2>2. CASE conn[t] = "stale" /\ Stale(t)
    BY <2>1, <2>2 DEF Stale, Step, Raise, endVars, DisturbedInv, DisturbedOf, Op, Body
  <2>3. CASE conn[t] # "stale"
    <3>1. conn' = [conn EXCEPT ![t] = "open"] /\ attempt' = attempt /\ raised' = raised
          /\ \E label \in {"idle", "commit", "block"} : at' = [at EXCEPT ![t] = label]
      BY <1>5, <2>3, ExecuteCases DEF Step, Return, endVars
    <3> QED  BY <2>1, <3>1 DEF DisturbedOf
  <2> QED  BY <1>5, <2>2, <2>3, ExecuteCases
<1>6. ASSUME NEW t \in Threads, Commit(t) PROVE Tolerated(t)
  <2>1. CASE conn[t] = "stale"
    BY <1>6, <2>1
    DEF Commit, Stale, Step, Raise, endVars, NoDbFault, DisturbedInv, DisturbedOf, Op,
        Body
  <2>2. CASE conn[t] # "stale"
    BY <1>6, <2>2 DEF Commit, Step, Return, NoDbFault, DisturbedOf, Body
  <2> QED  BY <2>1, <2>2
<1>7. ASSUME NEW t \in Threads, CommitReplyLost(t) PROVE Tolerated(t)
  BY <1>7 DEF CommitReplyLost, DbFault, Stale, Step, Raise, endVars, DisturbedOf, Op, Body
<1>8. ASSUME NEW t \in Threads, Block(t) PROVE Tolerated(t)
  <2>1. CASE conn[t] = "stale"
    BY <1>8, <2>1
    DEF Block, Step, endVars, NoDbFault, DisturbedInv, DisturbedOf, Op, Body
  <2>2. CASE conn[t] # "stale"
    <3>1. \E label \in {"block", "commit_block"} : at' = [at EXCEPT ![t] = label]
      BY <1>8, <2>2 DEF Block, Step
    <3>2. stmt' = [stmt EXCEPT ![t] = stmt[t] + 1]
      BY <1>8, <2>2 DEF Block
    <3> QED  BY <1>8, <2>2, <3>1, <3>2 DEF Block, endVars, NoDbFault, DisturbedOf
  <2> QED  BY <2>1, <2>2
<1>9. ASSUME NEW t \in Threads, BlockRaises(t) PROVE Tolerated(t)
  BY <1>9 DEF BlockRaises, Step, endVars, DisturbedOf, Op
<1>10. ASSUME NEW t \in Threads, CommitBlock(t) PROVE Tolerated(t)
  <2>1. CASE conn[t] = "stale"
    BY <1>10, <2>1
    DEF CommitBlock, Step, endVars, NoDbFault, DisturbedInv, DisturbedOf, Op, Body
  <2>2. CASE conn[t] # "stale"
    BY <1>10, <2>2 DEF CommitBlock, Step, Return, NoDbFault, DisturbedOf, Body
  <2> QED  BY <2>1, <2>2
<1>11. ASSUME NEW t \in Threads, CommitBlockReplyLost(t) PROVE Tolerated(t)
  BY <1>11 DEF CommitBlockReplyLost, DbFault, Step, endVars, DisturbedOf, Op
<1>12. ASSUME NEW t \in Threads, Rollback(t) PROVE Tolerated(t)
  BY <1>12 DEF Rollback, Raise, Step, NoDbFault, DisturbedInv, DisturbedOf, Op, Body
<1>13. ASSUME NEW t \in Threads, GoStale(t) PROVE Tolerated(t)
  BY <1>13 DEF GoStale, DbFault, NoDbFault, threadVars, endVars, DisturbedOf, Op, Body
<1>14. ASSUME NEW t \in Threads, Timeout(t) PROVE Tolerated(t)
  BY <1>14 DEF Timeout, DbFault, Raise, Step, endVars, DisturbedOf, Op, Body
<1>15. ASSUME NEW t \in Threads, Busy(t) PROVE Tolerated(t)
  BY <1>15 DEF Busy, DbFault, Raise, Step, endVars, DisturbedOf, Op, Body
<1>16. ASSUME NEW p \in Processes, Restart(p) PROVE DisturbedInv'
  <2>1. /\ disturbed \subseteq disturbed'
        /\ raised' = raised /\ kinds' = kinds /\ attempt' = attempt
    BY <1>16 DEF Restart, DbFault, endVars
  <2>2. \A t \in Threads : at'[t] = "idle" \/ (at'[t] = at[t] /\ conn'[t] = conn[t])
    BY <1>16 DEF Restart
  <2> QED
    BY <2>1, <2>2 DEF DisturbedInv, IdleExpiryInvisible, DisturbedOf, Op, Body
<1>17. CASE UNCHANGED dbVars
  BY <1>17
  DEF dbVars, threadVars, endVars, DisturbedInv, IdleExpiryInvisible, DisturbedOf, Op
<1> HIDE DEF ControlInv, Domains, Tolerated, SamePlace
<1> QED
  BY <1>1, <1>2, <1>3, <1>4, <1>5, <1>6, <1>7, <1>8, <1>9, <1>10, <1>11, <1>12,
     <1>13, <1>14, <1>15, <1>16, <1>17, ToleratedKeeps DEF DbNext, DbStep

\* A connection that expired while its thread was idle makes no operation
\* fail: the one retry of _run and the ping of transaction are enough.
THEOREM IdleExpiryInvisibleHolds == DbSpec => []IdleExpiryInvisible
<1>1. DbInit => DisturbedInv
  BY DEF DbInit, DisturbedInv, IdleExpiryInvisible, DisturbedOf, Body
<1>2. DisturbedInv => IdleExpiryInvisible
  BY DEF DisturbedInv
<1> QED  BY <1>1, <1>2, ControlInvariant, DisturbedNext, PTL DEF DbSpec
=============================================================================
