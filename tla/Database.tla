------------------------------ MODULE Database ------------------------------
(***************************************************************************)
(* The one SQLite connection that the event loop and the worker threads    *)
(* share (naruto/db/database.py), and the log records that are kept in it  *)
(* (naruto/logs.py, db/logs.py).                                           *)
(*                                                                         *)
(* A thread writes within blocks, `with transaction()`, which may be       *)
(* inside each other, or on its own; an exception ends every block it      *)
(* passes through.  A row is a name.  When a statement or a COMMIT fails   *)
(* for want of storage, SQLite undoes the transaction by itself.           *)
(***************************************************************************)
EXTENDS Integers, FiniteSets, Sequences, Functions

CONSTANTS Threads,        \* "loop" runs the coroutines, the others are workers
          Scripts,        \* the number of migrations
          ScriptLength,   \* and of statements in each
          MaxBuffer,      \* of DatabaseLogHandler
          MaxCalls,       \* bound: calls of transaction(), execute() and of loggers
          MaxDepth,       \* bound: blocks inside each other
          MaxKills        \* bound: how often the process dies

ASSUME DatabaseAssumption ==
    /\ "loop" \in Threads /\ "nobody" \notin Threads
    /\ Scripts \in Nat /\ MaxCalls \in Nat /\ MaxKills \in Nat
    /\ ScriptLength \in Nat \ {0} /\ MaxBuffer \in Nat \ {0} /\ MaxDepth \in Nat \ {0}

VARIABLES
    disk, version, \* what the database file has: rows, and its user_version
    seen,      \* what the connection sees
    open,      \* the connection is in a transaction
    lock,      \* who holds _lock
    depth,     \* _depth
    blocks,    \* per thread: how many blocks it is in
    wrote,     \* per thread: what its outermost block has written
    step,      \* per thread: where it is
    made,      \* the rows so far
    calls,     \* and the calls
    up, script, \* whether the process has started; the step of a migration
    handling,  \* who holds the log handler's lock
    records,   \* the log records so far
    buffer, draining, \* those in the buffer, and those being stored
    kills,
    committed, \* what was written together and said to be done
    missing,   \* records that were dropped: pushed out, not stored, or in memory
               \* when the process died
    copy       \* the latest backup

connection == <<disk, version, seen, open, lock, depth>>
log == <<handling, records, buffer, draining, missing>>
process == <<up, script, kills, copy>>
threads == <<blocks, wrote, step, made>>
databaseVars == <<connection, threads, calls, log, process, committed>>

Nobody == "nobody"
Row(n) == <<"row", n, 0>>
Record(r) == <<"log", r, 0>>
ScriptRow(v, n) == <<"script", v, n>>
ScriptRows(v) == {ScriptRow(v, n) : n \in 1 .. ScriptLength}

Steps == {"idle", "entering", "inside", "executing", "raising", "logging", "emitting"}

LogTypeOK ==
    /\ records \in Nat
    /\ buffer \in Seq(1 .. records) /\ draining \subseteq 1 .. records
    /\ missing \subseteq 1 .. records

DatabaseTypeOK ==
    /\ open \in BOOLEAN /\ up \in BOOLEAN
    /\ lock \in Threads \cup {Nobody} /\ handling \in Threads \cup {Nobody}
    /\ depth \in 0 .. MaxDepth /\ version \in 0 .. Scripts
    /\ blocks \in [Threads -> 0 .. MaxDepth] /\ DOMAIN wrote = Threads
    /\ step \in [Threads -> Steps]
    /\ made \in Nat /\ calls \in 0 .. MaxCalls
    /\ script \in 0 .. ScriptLength + 1
    /\ kills \in 0 .. MaxKills
    /\ LogTypeOK

DatabaseInit ==
    /\ disk = {} /\ version = 0 /\ seen = {} /\ open = FALSE /\ lock = Nobody /\ depth = 0
    /\ blocks = [t \in Threads |-> 0]
    /\ wrote = [t \in Threads |-> {}]
    /\ step = [t \in Threads |-> "idle"]
    /\ made = 0 /\ calls = 0
    /\ up = FALSE /\ script = 0 /\ kills = 0
    /\ handling = Nobody /\ records = 0 /\ buffer = << >> /\ draining = {}
    /\ committed = {} /\ missing = {} /\ copy = {}

InBlock(t) == blocks[t] > 0
Goes(t, to) == step' = [step EXCEPT ![t] = to]
Back(t) == Goes(t, IF InBlock(t) THEN "inside" ELSE "idle")

\* threading.RLock: its owner gets it again.
MayUse(t) == lock \in {Nobody, t}

\* Its flush is over, and what it had drained is in the table or lost.
FlushEnds(t, stored) ==
    IF t = "loop" /\ draining # {}
    THEN /\ draining' = {} /\ missing' = (IF stored THEN missing ELSE missing \cup draining)
         /\ UNCHANGED <<handling, records, buffer>>
    ELSE UNCHANGED log

-----------------------------------------------------------------------------
(* A thread calls transaction(), execute() or a logger. *)

Flushing(t) == t = "loop" /\ draining # {}

Calls(t, to) ==
    /\ up /\ step[t] \in {"idle", "inside"} /\ ~Flushing(t)
    /\ calls < MaxCalls
    /\ calls' = calls + 1
    /\ Goes(t, to)
    /\ UNCHANGED <<connection, blocks, wrote, made, log, process, committed>>

CallTransaction(t) == Calls(t, "entering") /\ blocks[t] < MaxDepth
CallExecute(t) == Calls(t, "executing")
CallLogger(t) == Calls(t, "logging")

\* In the block of flush_to(): insert_many(), one statement for all its rows.
InsertMany ==
    /\ step["loop"] = "inside" /\ Flushing("loop") /\ wrote["loop"] = {}
    /\ Goes("loop", "executing")
    /\ UNCHANGED <<connection, blocks, wrote, made, calls, log, process, committed>>

-----------------------------------------------------------------------------
(* transaction() *)

\* Up to the block: BEGIN IMMEDIATE, unless the thread is in a block already.
Enter(t) ==
    /\ step[t] = "entering" /\ MayUse(t)
    /\ lock' = t
    /\ depth' = depth + 1
    /\ open' = (open \/ depth = 0)
    /\ blocks' = [blocks EXCEPT ![t] = @ + 1]
    /\ wrote' = [wrote EXCEPT ![t] = IF depth = 0 THEN {} ELSE @]
    /\ Goes(t, "inside")
    /\ UNCHANGED <<disk, version, seen, made, calls, log, process, committed>>

BeginFails(t) ==
    /\ step[t] = "entering" /\ MayUse(t) /\ depth = 0
    /\ Goes(t, "idle")
    /\ FlushEnds(t, FALSE)
    /\ UNCHANGED <<connection, blocks, wrote, made, calls, process, committed>>

LeavesBlock(t) == blocks' = [blocks EXCEPT ![t] = @ - 1]

\* Mutant: every block commits, not the outermost only.
LeaveCommitting(t) ==
    /\ step[t] \in {"inside", "raising"} /\ blocks[t] > 1
    /\ depth' = depth - 1
    /\ disk' = seen /\ open' = FALSE
    /\ LeavesBlock(t)
    /\ UNCHANGED <<version, seen, lock, wrote, step, made, calls, log, process, committed>>

\* A nested block ends, by its end or by an exception.
LeaveNested(t) ==
    /\ step[t] \in {"inside", "raising"} /\ blocks[t] > 1
    /\ depth' = depth - 1
    /\ LeavesBlock(t)
    /\ UNCHANGED <<disk, version, seen, open, lock, wrote, step, made, calls, log, process, committed>>

\* The outermost block is over: depth, transaction and lock are given up.
LeaveOuter(t, content) ==
    /\ blocks[t] = 1
    /\ depth' = 0 /\ lock' = Nobody
    /\ open' = FALSE /\ disk' = content /\ seen' = content
    /\ LeavesBlock(t)
    /\ wrote' = [wrote EXCEPT ![t] = {}]
    /\ Goes(t, "idle")
    /\ UNCHANGED <<version, made, calls, process>>

Commit(t) ==
    /\ step[t] = "inside" /\ (Flushing(t) => wrote[t] # {})
    /\ committed' = committed \cup {wrote[t]}
    /\ LeaveOuter(t, seen)
    /\ FlushEnds(t, TRUE)

\* The COMMIT fails, or an exception has come this far: ROLLBACK.
Rollback(t) ==
    /\ \/ step[t] = "raising"
       \/ step[t] = "inside" /\ (Flushing(t) => wrote[t] # {})
    /\ LeaveOuter(t, disk)
    /\ FlushEnds(t, FALSE)
    /\ UNCHANGED committed

\* The code in the block raises.
Raise(t) ==
    /\ step[t] = "inside" /\ ~Flushing(t)
    /\ Goes(t, "raising")
    /\ UNCHANGED <<connection, blocks, wrote, made, calls, log, process, committed>>

-----------------------------------------------------------------------------
(* execute(), executemany() *)

Rows(t) == IF Flushing(t) THEN {Record(r) : r \in draining} ELSE {Row(made + 1)}

\* On its own a statement is its own transaction: if the connection has none.
Execute(t) ==
    /\ step[t] = "executing" /\ MayUse(t)
    /\ seen' = seen \cup Rows(t)
    /\ disk' = IF open THEN disk ELSE seen'
    /\ made' = IF Flushing(t) THEN made ELSE made + 1
    /\ IF InBlock(t)
       THEN wrote' = [wrote EXCEPT ![t] = @ \cup Rows(t)] /\ UNCHANGED committed
       ELSE committed' = committed \cup {Rows(t)} /\ UNCHANGED wrote
    /\ Back(t)
    /\ UNCHANGED <<version, open, lock, depth, blocks, calls, log, process>>

\* A statement fails, and for want of storage the transaction with it.
ExecuteFails(t) ==
    /\ step[t] = "executing" /\ MayUse(t)
    /\ open' \in {open, FALSE}
    /\ seen' = IF open' THEN seen ELSE disk
    /\ Goes(t, IF InBlock(t) THEN "raising" ELSE "idle")
    /\ UNCHANGED <<disk, version, lock, depth, blocks, wrote, made, calls, log, process, committed>>

-----------------------------------------------------------------------------
(* The log *)

\* logging.Handler.handle() takes the handler's lock around emit().
Handle(t) ==
    /\ step[t] = "logging" /\ handling = Nobody
    /\ handling' = t
    /\ Goes(t, "emitting")
    /\ UNCHANGED <<connection, blocks, wrote, made, calls, records, buffer, draining, missing,
                   process, committed>>

\* The oldest makes room, once the buffer is full.
Buffered(r) == IF Len(buffer) < MaxBuffer THEN Append(buffer, r)
               ELSE Append(Tail(buffer), r)

Emit(t) ==
    /\ step[t] = "emitting"
    /\ handling' = Nobody
    /\ records' = records + 1
    /\ buffer' = Buffered(records + 1)
    /\ missing' = IF Len(buffer) < MaxBuffer THEN missing ELSE missing \cup {buffer[1]}
    /\ Back(t)
    /\ UNCHANGED <<connection, blocks, wrote, made, calls, draining, process, committed>>

\* flush_to(): drain() first, then insert_many() in a block of its own
Flush ==
    /\ up /\ step["loop"] = "idle" /\ buffer # << >>
    /\ draining' = Range(buffer) /\ buffer' = << >>
    /\ Goes("loop", "entering")
    /\ UNCHANGED <<connection, blocks, wrote, made, calls, handling, records, missing, process, committed>>

-----------------------------------------------------------------------------
(* The process *)

\* migrate(): each script with its version in one transaction
MigrationBegins ==
    /\ ~up /\ script = 0 /\ version < Scripts
    /\ script' = 1 /\ open' = TRUE
    /\ UNCHANGED <<disk, version, seen, lock, depth, threads, calls, log, up, kills, copy, committed>>

MigrationGoesOn ==
    /\ ~up /\ script \in 1 .. ScriptLength
    /\ script' = script + 1
    /\ seen' = seen \cup {ScriptRow(version + 1, script)}
    /\ UNCHANGED <<disk, version, open, lock, depth, threads, calls, log, up, kills, copy, committed>>

MigrationEnds ==
    /\ ~up /\ script = ScriptLength + 1
    /\ script' = 0 /\ open' = FALSE
    /\ version' = version + 1 /\ disk' = seen
    /\ committed' = committed \cup {ScriptRows(version + 1)}
    /\ UNCHANGED <<seen, lock, depth, threads, calls, log, up, kills, copy>>

MigrationFails ==
    /\ ~up /\ script > 0
    /\ script' = 0 /\ open' = FALSE /\ seen' = disk
    /\ UNCHANGED <<disk, version, lock, depth, threads, calls, log, up, kills, copy, committed>>

Started ==
    /\ ~up /\ script = 0 /\ version = Scripts
    /\ up' = TRUE
    /\ UNCHANGED <<connection, threads, calls, log, script, kills, copy, committed>>

Killed ==
    /\ kills < MaxKills
    /\ kills' = kills + 1
    /\ up' = FALSE /\ script' = 0
    /\ seen' = disk /\ open' = FALSE /\ lock' = Nobody /\ depth' = 0
    /\ blocks' = [t \in Threads |-> 0]
    /\ wrote' = [t \in Threads |-> {}]
    /\ step' = [t \in Threads |-> "idle"]
    /\ handling' = Nobody /\ buffer' = << >> /\ draining' = {}
    /\ missing' = missing \cup Range(buffer) \cup draining
    /\ UNCHANGED <<disk, version, made, calls, records, copy, committed>>

\* backup_to()
Backup(t) ==
    /\ up /\ step[t] = "idle" /\ ~Flushing(t) /\ MayUse(t)
    /\ copy # seen
    /\ copy' = seen
    /\ UNCHANGED <<connection, threads, calls, log, up, script, kills, committed>>

-----------------------------------------------------------------------------

Begins(t) == CallTransaction(t) \/ CallExecute(t) \/ CallLogger(t) \/ Raise(t) \/ Backup(t)

\* What a thread that is at it goes on with.
GoesOn(t) ==
    \/ Enter(t) \/ BeginFails(t) \/ LeaveNested(t) \/ Commit(t) \/ Rollback(t)
    \/ Execute(t) \/ ExecuteFails(t) \/ Handle(t) \/ Emit(t)
    \/ t = "loop" /\ InsertMany

DatabaseNext ==
    \/ \E t \in Threads : Begins(t) \/ GoesOn(t)
    \/ Flush
    \/ MigrationBegins \/ MigrationGoesOn \/ MigrationEnds \/ MigrationFails
    \/ Started \/ Killed

DatabaseSpec == DatabaseInit /\ [][DatabaseNext]_databaseVars

-----------------------------------------------------------------------------
(* Correctness *)

\* What is on the disk is what was said to be done, and all of it: no statement
\* of a thread is in, or is undone with, the transaction of another; a block
\* that raised, failed to commit or died, with whatever blocks it had inside,
\* leaves nothing.  The version says which migrations the file has, whole.
WritesAreWhole ==
    /\ disk = UNION committed
    /\ ~open => seen = disk
    /\ \A v \in 1 .. Scripts : IF v <= version THEN ScriptRows(v) \in committed
                               ELSE ScriptRows(v) \cap disk = {}

\* A log record is stored, or it is on its way or counted as lost: none is lost
\* because it was emitted while the buffer was being stored, none stored twice.
NoRecordLost ==
    \A r \in 1 .. records :
        Record(r) \in disk <=> r \notin Range(buffer) \cup draining \cup missing

\* A backup has nothing of a transaction that was under way.
CopyIsWhole == \A u \in committed : u \cap copy = {} \/ u \subseteq copy

DatabaseIsSound == DatabaseTypeOK /\ WritesAreWhole /\ NoRecordLost /\ CopyIsWhole

\* No thread waits for ever, for the database or to write a log record, which a
\* thread that holds the database does too: once the calls are made, nobody waits.
Waits(t) == step[t] \in {"entering", "executing", "logging", "emitting"}
ThreadsGoOn == <>[](\A t \in Threads : ~Waits(t))
=============================================================================
