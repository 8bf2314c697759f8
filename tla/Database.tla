------------------------------ MODULE Database ------------------------------
(***************************************************************************)
(* db.py over a libSQL server: thread-local connections that go stale, the *)
(* one retry of _run, transaction with its ping, and the migrations every  *)
(* process runs when it starts.                                            *)
(*                                                                         *)
(* A thread runs one operation after the other.  A write is named by its   *)
(* thread, the number of its operation and its place in it; applied counts *)
(* how often it has been committed.  A connection with uncommitted writes  *)
(* holds the database's write lock.                                        *)
(***************************************************************************)
EXTENDS Integers, Sequences, FiniteSets

CONSTANTS
    Threads, Processes,
    ProcessOf,      \* the process each thread belongs to
    SchemaSize,     \* statements in migrations/
    DbFaultKinds,   \* which of DbFaults may happen
    MaxOps,         \* bound: operations of a thread
    MaxDbFaults     \* bound: faults in a behaviour

DbFaults == {"reset", "timeout", "busy", "crash"}

ASSUME ProcessOfAssumption == ProcessOf \in [Threads -> Processes]
ASSUME SchemaSizeAssumption == SchemaSize \in Nat \ {0}
ASSUME DbFaultKindsAssumption == DbFaultKinds \subseteq DbFaults
ASSUME DbBoundsAssumption == MaxOps \in Nat /\ MaxDbFaults \in Nat

Kinds == {"query", "execute", "transaction"}
BlockSize == 2      \* writes in the block of a transaction

VARIABLES
    at,             \* where each thread is in db.py
    kinds,          \* the operations each thread has begun
    attempt,        \* _run's loop variable
    stmt,           \* the statement of the block, or of migrations/, that is next
    conn,           \* _local.conn: "none", "open" or "stale"
    pending,        \* uncommitted writes on each connection
    applied,        \* how often each write has been committed
    migrated,       \* _migrated of each process
    schema,         \* statements of migrations/ that were executed
    returned,       \* history: operations that returned
    raised,         \* history: operations that raised
    leaked,         \* history: operations that raised and left their writes pending
    disturbed,      \* history: operations that met a fault while they ran
    dbFaults

threadVars == <<at, kinds, attempt, stmt>>
migrateVars == <<migrated, schema>>
endVars == <<returned, raised, leaked>>
dbVars == <<threadVars, conn, pending, applied, migrateVars, endVars, disturbed,
            dbFaults>>

Ops == Threads \X (0 .. MaxOps)
Writes == Threads \X (1 .. MaxOps) \X (1 .. BlockSize)
Body == {"run", "commit", "block", "commit_block", "rollback"}

DbTypeOK ==
    /\ at \in [Threads -> {"idle", "migrate"} \cup Body]
    /\ kinds \in [Threads -> Seq(Kinds)]
    /\ attempt \in [Threads -> {1, 2}]
    /\ stmt \in [Threads -> Nat \ {0}]
    /\ conn \in [Threads -> {"none", "open", "stale"}]
    /\ pending \in [Threads -> SUBSET Writes]
    /\ applied \in [Writes -> Nat]
    /\ migrated \in [Processes -> BOOLEAN]
    /\ schema \in SUBSET (1 .. SchemaSize)
    /\ returned \in SUBSET Ops /\ raised \in SUBSET Ops
    /\ leaked \in SUBSET Ops /\ disturbed \in SUBSET Ops
    /\ dbFaults \in 0 .. MaxDbFaults

DbInit ==
    /\ at = [t \in Threads |-> "idle"]
    /\ kinds = [t \in Threads |-> << >>]
    /\ attempt = [t \in Threads |-> 1]
    /\ stmt = [t \in Threads |-> 1]
    /\ conn = [t \in Threads |-> "none"]
    /\ pending = [t \in Threads |-> {}]
    /\ applied = [w \in Writes |-> 0]
    /\ migrated = [p \in Processes |-> FALSE]
    /\ schema = {}
    /\ returned = {} /\ raised = {} /\ leaked = {} /\ disturbed = {}
    /\ dbFaults = 0

-----------------------------------------------------------------------------
Op(t) == <<t, Len(kinds[t])>>
Kind(t) == kinds[t][Len(kinds[t])]
Write(t) == <<t, Len(kinds[t]), stmt[t]>>

Step(t, label) == at' = [at EXCEPT ![t] = label]

\* A fault of this kind hits the operation of t.
DbFault(t, kind) ==
    /\ kind \in DbFaultKinds
    /\ dbFaults < MaxDbFaults
    /\ dbFaults' = dbFaults + 1
    /\ disturbed' = disturbed \cup {Op(t)}

NoDbFault == UNCHANGED <<dbFaults, disturbed>>

Return(t) ==
    Step(t, "idle") /\ returned' = returned \cup {Op(t)} /\ UNCHANGED <<raised, leaked>>
Raise(t) ==
    Step(t, "idle") /\ raised' = raised \cup {Op(t)} /\ UNCHANGED <<returned, leaked>>

\* get_connection
Connected(t) == IF conn[t] = "none" THEN "open" ELSE conn[t]

\* execute of a writing statement waits for the write lock.
MayWrite(t) == \A u \in Threads \ {t} : pending[u] = {}

CommitPending(t) ==
    applied' = [w \in Writes |-> applied[w] + IF w \in pending[t] THEN 1 ELSE 0]

\* ensure_ready has nothing left to do once the process has started.
Begin(t) ==
    /\ at[t] = "idle" /\ migrated[ProcessOf[t]]
    /\ Len(kinds[t]) < MaxOps
    /\ \E k \in Kinds : kinds' = [kinds EXCEPT ![t] = Append(@, k)]
    /\ attempt' = [attempt EXCEPT ![t] = 1]
    /\ stmt' = [stmt EXCEPT ![t] = 1]
    /\ Step(t, "run")
    /\ UNCHANGED <<conn, pending, applied, migrateVars, endVars>> /\ NoDbFault

-----------------------------------------------------------------------------
(***************************************************************************)
(* migrate, which the worker's main and the API's lifespan call before     *)
(* anything else.  One thread runs it, on a new connection and without a   *)
(* retry; when it raises the process exits and is started again.           *)
(***************************************************************************)
Starting(t) ==
    /\ at[t] = "idle" /\ ~ migrated[ProcessOf[t]]
    /\ \A u \in Threads : ProcessOf[u] = ProcessOf[t] => at[u] # "migrate"

\* A faulty migrate: the flag is set before the work is done.
StartProcess_FlagFirst(t) ==
    /\ Starting(t)
    /\ stmt' = [stmt EXCEPT ![t] = 1]
    /\ conn' = [conn EXCEPT ![t] = "open"]
    /\ migrated' = [migrated EXCEPT ![ProcessOf[t]] = TRUE]
    /\ Step(t, "migrate")
    /\ UNCHANGED <<kinds, attempt, pending, applied, schema, endVars>> /\ NoDbFault

StartProcess(t) ==
    /\ Starting(t)
    /\ stmt' = [stmt EXCEPT ![t] = 1]
    /\ conn' = [conn EXCEPT ![t] = "open"]
    /\ Step(t, "migrate")
    /\ UNCHANGED <<kinds, attempt, pending, applied, migrateVars, endVars>> /\ NoDbFault

\* One statement of migrations/, or the commit after the last one.
Migrate(t) ==
    /\ at[t] = "migrate" /\ conn[t] = "open"
    /\ IF stmt[t] <= SchemaSize
       THEN /\ schema' = schema \cup {stmt[t]}
            /\ stmt' = [stmt EXCEPT ![t] = @ + 1]
            /\ UNCHANGED <<at, migrated>>
       ELSE /\ migrated' = [migrated EXCEPT ![ProcessOf[t]] = TRUE]
            /\ Step(t, "idle")
            /\ UNCHANGED <<schema, stmt>>
    /\ UNCHANGED <<kinds, attempt, conn, pending, applied, endVars>> /\ NoDbFault

MigrateRaises(t) ==
    /\ at[t] = "migrate" /\ conn[t] = "stale"
    /\ Step(t, "idle")
    /\ conn' = [conn EXCEPT ![t] = "none"]
    /\ UNCHANGED <<kinds, attempt, stmt, pending, applied, migrateVars, endVars>>
    /\ NoDbFault

-----------------------------------------------------------------------------
(***************************************************************************)
(* _run.  The ping of a transaction is a query.                            *)
(***************************************************************************)

\* A faulty _run: the stale connection is not closed before the retry.
Stale_KeepConnection(t) ==
    /\ IF attempt[t] = 1
       THEN Step(t, "run") /\ UNCHANGED endVars
       ELSE Raise(t)
    /\ attempt' = [attempt EXCEPT ![t] = 2]
    /\ conn' = [conn EXCEPT ![t] = "stale"]
    /\ pending' = [pending EXCEPT ![t] = {}]

\* A faulty _run: it retries on the stale connection, without counting.
Stale_LoopOnIt(t) ==
    /\ Step(t, "run") /\ UNCHANGED <<endVars, attempt>>
    /\ conn' = [conn EXCEPT ![t] = "stale"]
    /\ pending' = [pending EXCEPT ![t] = {}]

\* The except block for an error that _is_stale_connection: the server has
\* dropped the stream, and rolled back what was open on it.
Stale(t) ==
    /\ IF attempt[t] = 1
       THEN Step(t, "run") /\ UNCHANGED endVars
       ELSE Raise(t)
    /\ attempt' = [attempt EXCEPT ![t] = 2]
    /\ conn' = [conn EXCEPT ![t] = IF attempt[t] = 1 THEN "none" ELSE "stale"]
    /\ pending' = [pending EXCEPT ![t] = {}]

\* A faulty execute: it returns without having committed.
AfterExecute_NoCommit(t) ==
    IF Kind(t) = "transaction" THEN Step(t, "block") /\ UNCHANGED endVars
    ELSE Return(t)

AfterExecute(t) ==
    CASE Kind(t) = "query" -> Return(t)
      [] Kind(t) = "execute" -> Step(t, "commit") /\ UNCHANGED endVars
      [] Kind(t) = "transaction" -> Step(t, "block") /\ UNCHANGED endVars

Execute(t) ==
    /\ at[t] = "run"
    /\ IF Connected(t) = "stale"
       THEN Stale(t)
       ELSE /\ conn' = [conn EXCEPT ![t] = "open"]
            /\ IF Kind(t) = "execute"
               THEN MayWrite(t) /\ pending' = [pending EXCEPT ![t] = @ \cup {Write(t)}]
               ELSE UNCHANGED pending
            /\ AfterExecute(t)
            /\ UNCHANGED attempt
    /\ UNCHANGED <<kinds, stmt, applied, migrateVars>> /\ NoDbFault

\* execute's commit.
Commit(t) ==
    /\ at[t] = "commit"
    /\ IF conn[t] = "stale"
       THEN Stale(t) /\ UNCHANGED applied
       ELSE /\ CommitPending(t)
            /\ pending' = [pending EXCEPT ![t] = {}]
            /\ Return(t)
            /\ UNCHANGED <<conn, attempt>>
    /\ UNCHANGED <<kinds, stmt, migrateVars>> /\ NoDbFault

\* The server commits, and the connection is reset before it answers.
CommitReplyLost(t) ==
    /\ at[t] = "commit" /\ conn[t] = "open"
    /\ DbFault(t, "reset")
    /\ CommitPending(t)
    /\ Stale(t)
    /\ UNCHANGED <<kinds, stmt, migrateVars>>

-----------------------------------------------------------------------------
(***************************************************************************)
(* transaction.                                                            *)
(***************************************************************************)

\* One statement of the caller's block.
Block(t) ==
    /\ at[t] = "block"
    /\ IF conn[t] = "stale"
       THEN Step(t, "rollback") /\ UNCHANGED <<pending, stmt>>
       ELSE /\ MayWrite(t)
            /\ pending' = [pending EXCEPT ![t] = @ \cup {Write(t)}]
            /\ stmt' = [stmt EXCEPT ![t] = @ + 1]
            /\ Step(t, IF stmt[t] = BlockSize THEN "commit_block" ELSE "block")
    /\ UNCHANGED <<kinds, attempt, conn, applied, migrateVars, endVars>> /\ NoDbFault

\* The block raises of its own accord.
BlockRaises(t) ==
    /\ at[t] = "block"
    /\ Step(t, "rollback")
    /\ disturbed' = disturbed \cup {Op(t)}
    /\ UNCHANGED <<kinds, attempt, stmt, conn, pending, applied, migrateVars, endVars,
                   dbFaults>>

CommitBlock(t) ==
    /\ at[t] = "commit_block"
    /\ IF conn[t] = "stale"
       THEN Step(t, "rollback") /\ UNCHANGED <<applied, pending, endVars>>
       ELSE CommitPending(t) /\ pending' = [pending EXCEPT ![t] = {}] /\ Return(t)
    /\ UNCHANGED <<kinds, attempt, stmt, conn, migrateVars>> /\ NoDbFault

CommitBlockReplyLost(t) ==
    /\ at[t] = "commit_block" /\ conn[t] = "open"
    /\ DbFault(t, "reset")
    /\ CommitPending(t)
    /\ pending' = [pending EXCEPT ![t] = {}]
    /\ conn' = [conn EXCEPT ![t] = "stale"]
    /\ Step(t, "rollback")
    /\ UNCHANGED <<kinds, attempt, stmt, migrateVars, endVars>>

\* A faulty transaction: it does not roll back.
Rollback_Missing(t) ==
    /\ at[t] = "rollback"
    /\ Raise(t)
    /\ UNCHANGED <<kinds, attempt, stmt, conn, pending, applied, migrateVars>> /\ NoDbFault

\* On a stale connection the rollback fails, and nothing is left to roll back.
Rollback(t) ==
    /\ at[t] = "rollback"
    /\ pending' = [pending EXCEPT ![t] = {}]
    /\ Raise(t)
    /\ UNCHANGED <<kinds, attempt, stmt, conn, applied, migrateVars>> /\ NoDbFault

-----------------------------------------------------------------------------
(***************************************************************************)
(* Faults.                                                                 *)
(***************************************************************************)

\* The stream of an idle thread expires, which is no fault but a matter of
\* course; or the connection is lost in the middle of an operation.
GoStale(t) ==
    /\ conn[t] = "open"
    /\ IF at[t] = "idle" THEN NoDbFault ELSE DbFault(t, "reset")
    /\ conn' = [conn EXCEPT ![t] = "stale"]
    /\ pending' = [pending EXCEPT ![t] = {}]
    /\ UNCHANGED <<threadVars, applied, migrateVars, endVars>>

\* A request fails with an error that is none of the stale markers, and was
\* not executed: a timeout, an error of a proxy.  The connection survives, and
\* when it was the commit of execute or a rollback, so do its pending writes.
Timeout(t) ==
    /\ at[t] \in Body /\ conn[t] = "open"
    /\ DbFault(t, "timeout")
    /\ IF at[t] \in {"block", "commit_block"}
       THEN Step(t, "rollback") /\ UNCHANGED endVars
       ELSE /\ Step(t, "idle")
            /\ raised' = raised \cup {Op(t)}
            /\ leaked' = leaked \cup IF pending[t] = {} THEN {} ELSE {Op(t)}
            /\ UNCHANGED returned
    /\ UNCHANGED <<kinds, attempt, stmt, conn, pending, applied, migrateVars>>

\* "database is locked": the busy timeout has run out.
Busy(t) ==
    /\ at[t] = "block" \/ (at[t] = "run" /\ Kind(t) = "execute")
    /\ conn[t] # "stale" /\ ~ MayWrite(t)
    /\ DbFault(t, "busy")
    /\ IF at[t] = "block" THEN Step(t, "rollback") /\ UNCHANGED endVars ELSE Raise(t)
    /\ UNCHANGED <<kinds, attempt, stmt, conn, pending, applied, migrateVars>>

\* A process dies, at whatever point each of its threads is, and is restarted.
Restart(p) ==
    LET Here(t) == ProcessOf[t] = p
    IN  /\ \E t \in Threads : Here(t) /\ at[t] # "idle" /\ DbFault(t, "crash")
        /\ at' = [t \in Threads |-> IF Here(t) THEN "idle" ELSE at[t]]
        /\ conn' = [t \in Threads |-> IF Here(t) THEN "none" ELSE conn[t]]
        /\ pending' = [t \in Threads |-> IF Here(t) THEN {} ELSE pending[t]]
        /\ migrated' = [migrated EXCEPT ![p] = FALSE]
        /\ UNCHANGED <<kinds, attempt, stmt, applied, schema, endVars>>

DbStep(t) ==
    \/ StartProcess(t) \/ Migrate(t) \/ MigrateRaises(t)
    \/ Execute(t) \/ Commit(t) \/ Block(t) \/ CommitBlock(t) \/ Rollback(t)

DbNext ==
    \/ \E t \in Threads :
           \/ Begin(t) \/ DbStep(t) \/ BlockRaises(t)
           \/ CommitReplyLost(t) \/ CommitBlockReplyLost(t)
           \/ GoStale(t) \/ Timeout(t) \/ Busy(t)
    \/ \E p \in Processes : Restart(p)

DbSpec == DbInit /\ [][DbNext]_dbVars

\* Threads run on; the busy timeout is not relied on.
FairDbSpec == DbSpec /\ \A t \in Threads : WF_dbVars(DbStep(t))

-----------------------------------------------------------------------------
\* The writes of a transaction are committed all or none and never twice, in
\* whatever way it ends and whatever else its connection is used for; unless
\* its rollback failed on a connection that survived, which transaction logs
\* and leaves at that.
TransactionAtomic ==
    \A t \in Threads : \A n \in DOMAIN kinds[t] :
        kinds[t][n] = "transaction" /\ <<t, n>> \notin leaked =>
            \E k \in {0, 1} : \A i \in 1 .. BlockSize : applied[<<t, n, i>>] = k

\* An operation that returned has committed its writes: neither a retry nor a
\* connection that was reopened in between has lost one.
ReturnedIsDurable ==
    \A op \in returned :
        LET Committed(i) == applied[<<op[1], op[2], i>>] > 0
        IN  CASE kinds[op[1]][op[2]] = "query" -> TRUE
              [] kinds[op[1]][op[2]] = "execute" -> Committed(1)
              [] kinds[op[1]][op[2]] = "transaction" ->
                     \A i \in 1 .. BlockSize : Committed(i)

\* "A pooled thread-local connection goes stale on its own": an operation that
\* begins on such a connection still works, and raises only for what happens
\* while it runs.
IdleExpiryInvisible == raised \subseteq disturbed

\* No statement of an operation is run before the schema is there, however
\* many processes start at once and whichever of them die half-way.
RunsOnSchema == \A t \in Threads : at[t] \in Body => schema = 1 .. SchemaSize

\* Every operation ends without any busy timeout having to run out: whoever
\* raises leaves no lock behind, but for a commit or a rollback that failed on
\* a connection that survived.
OpsEnd == \A t \in Threads : at[t] # "idle" ~> at[t] = "idle" \/ leaked # {}

\* "So a write cannot be applied twice", says _run of its retry.
WriteAppliedOnce == \A w \in Writes : applied[w] <= 1
=============================================================================
