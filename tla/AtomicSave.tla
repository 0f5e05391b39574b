------------------------------ MODULE AtomicSave ------------------------------
(***************************************************************************)
(* The jobs of grid saves (run_grid_save) and the transaction each of them *)
(* runs (execute_in_transaction of connection/atomic.rs): BEGIN, the       *)
(* statements one by one with a check of the rows each of them changed,    *)
(* COMMIT.  Any call may fail or run into the timeout, the answer of a     *)
(* COMMIT may be lost, and the job may be cancelled in between.            *)
(*                                                                         *)
(* Outside src/ and assumed: transactions on the table run one after the   *)
(* other (row locks), a transaction dropped by sqlx is rolled back before  *)
(* its connection is used again, and a connection closed rolls back.  What *)
(* the SQL Server pool does with a connection dropped in a transaction,    *)
(* when a save is aborted, is not known; it may stay in it for a while and *)
(* is assumed to be rolled back before anybody else uses it.               *)
(***************************************************************************)
EXTENDS GridTable

CONSTANT Saves   \* numbers of the saves

ASSUME SaveAssumption == Saves \subseteq Nat

VARIABLES table,   \* the committed rows
          keyed,   \* the table has a primary key
          jobs     \* the save jobs

saveVars == <<table, keyed, jobs>>

(* phase: "none", "spawned", "open" (in its transaction), "ended" (the     *)
(* message is in the channel) or "done".  driver: "sqlx" (MySQL,           *)
(* PostgreSQL, SQLite) or "mssql".  stmts: what it runs; ran: the          *)
(* statements that did; work: the rows as its transaction sees them;       *)
(* committed: the server committed; saved: the answer is a success; conn:  *)
(* its connection is "none", "held", back in the "pool", "closed", or      *)
(* "dropped" by an abort; tx: that connection is in a transaction.         *)
NoJob == [phase |-> "none", driver |-> "none", stmts |-> <<>>, ran |-> 0,
          work |-> <<>>, committed |-> FALSE, saved |-> FALSE,
          conn |-> "none", tx |-> FALSE]

InFlight(j) == jobs[j].phase \in {"spawned", "open", "ended"}

SaveInit ==
    /\ keyed \in BOOLEAN
    /\ jobs = [j \in Saves |-> NoJob]

Set(j, job) ==
    /\ jobs' = [jobs EXCEPT ![j] = job]
    /\ UNCHANGED keyed

(* run_grid_save, with the pool of the connection at hand.                 *)
Spawn(j, stmts) ==
    /\ jobs[j].phase = "none"
    /\ \A i \in Saves : i < j => jobs[i].phase # "none"
    /\ \E driver \in {"sqlx", "mssql"} :
          Set(j, [NoJob EXCEPT !.phase = "spawned", !.stmts = stmts,
                               !.driver = driver])
    /\ UNCHANGED table

Begin(j) ==
    /\ jobs[j].phase = "spawned"
    /\ \A i \in Saves : ~jobs[i].tx
    /\ Set(j, [jobs[j] EXCEPT !.phase = "open", !.work = table,
                              !.conn = "held", !.tx = TRUE])
    /\ UNCHANGED table

(* The body of the job is over; its transaction left with the connection.  *)
Over(job) == [job EXCEPT !.phase = "ended", !.driver = "none", !.ran = 0,
                         !.work = <<>>]

(* The transaction is over, and its connection back in the pool.           *)
Returned(job) == [Over(job) EXCEPT !.conn = "pool", !.tx = FALSE]

(* detach: the connection is closed, and the server rolls back.            *)
Detached(job) == [Over(job) EXCEPT !.conn = "closed", !.tx = FALSE]

(* The task is aborted, and detach never reached.                          *)
Dropped(job) == [Over(job) EXCEPT !.phase = "done", !.conn = "dropped"]

(* What becomes of a connection in an unknown state.                       *)
LetGo(job) == IF job.driver = "mssql" THEN Detached(job) ELSE Returned(job)

(* The message was handled, or will be ignored.                            *)
Closed(job) == [job EXCEPT !.phase = "done", !.conn = "none"]

(* The pool cannot give a connection, or BEGIN fails.                      *)
BeginFails(j) ==
    /\ jobs[j].phase = "spawned"
    /\ Set(j, LetGo(jobs[j]))
    /\ UNCHANGED table

NextStatement(j) == jobs[j].stmts[jobs[j].ran + 1]
Running(j) == jobs[j].phase = "open" /\ jobs[j].ran < Len(jobs[j].stmts)

(* A statement runs, the table accepts it and the count is as expected.    *)
Run(j) ==
    /\ Running(j)
    /\ Expected(jobs[j].work, NextStatement(j), keyed)
    /\ LET rows == After(jobs[j].work, NextStatement(j), keyed)
       IN /\ keyed => KeysDiffer(rows)
          /\ Set(j, [jobs[j] EXCEPT !.work = rows, !.ran = @ + 1])
    /\ UNCHANGED table

(* Faulty: the statements run outside a transaction.                       *)
RefuseKeepingRows(j) ==
    /\ Running(j)
    /\ table' = jobs[j].work
    /\ Set(j, Returned(jobs[j]))

(* A statement fails, or check_expected refuses it: ROLLBACK.  When that   *)
(* fails too, MsSQL closes the connection and sqlx leaves it to the drop.  *)
Refuse(j) ==
    /\ Running(j)
    /\ \/ Set(j, Returned(jobs[j]))
       \/ jobs[j].driver = "mssql" /\ Set(j, Detached(jobs[j]))
    /\ UNCHANGED table

Committed(j) ==
    /\ table' = jobs[j].work
    /\ Set(j, [Returned(jobs[j]) EXCEPT !.committed = TRUE, !.saved = TRUE])
AtCommit(j) == jobs[j].phase = "open" /\ jobs[j].ran = Len(jobs[j].stmts)

Commit(j) == AtCommit(j) /\ Committed(j)

(* Faulty: a transaction that ran out of time keeps its connection.        *)
TimeOutPooled(j) ==
    /\ jobs[j].phase = "open"
    /\ Set(j, [Over(jobs[j]) EXCEPT !.conn = "pool"])
    /\ UNCHANGED table

(* COMMIT fails or its answer is lost: the rows are written or not.        *)
CommitFails(j) ==
    /\ AtCommit(j)
    /\ \E written \in BOOLEAN :
          LET job == [jobs[j] EXCEPT !.committed = written]
          IN /\ table' = IF written THEN job.work ELSE table
             /\ Set(j, LetGo(job))

(* query_timeout_secs run out: the future is dropped where it stands.      *)
TimeOut(j) ==
    /\ jobs[j].phase = "open"
    /\ Set(j, LetGo(jobs[j]))
    /\ UNCHANGED table

(* cancel_query_job aborts the task wherever it stands: sqlx rolls back,   *)
(* and the SQL Server pool may at once, or keeps the transaction.          *)
Cancel(j) ==
    /\ InFlight(j)
    /\ \/ jobs[j].phase = "ended" /\ Set(j, Closed(jobs[j]))
       \/ jobs[j].phase # "ended" /\ Set(j, Closed(Returned(jobs[j])))
       \/ /\ jobs[j].phase = "open" /\ jobs[j].driver = "mssql"
          /\ Set(j, Dropped(jobs[j]))
    /\ UNCHANGED table

(* Outside src/: that transaction is rolled back at last.                  *)
LeftoverEnds(j) ==
    /\ jobs[j].conn = "dropped"
    /\ Set(j, [jobs[j] EXCEPT !.conn = "none", !.tx = FALSE])
    /\ UNCHANGED table

Handled(j) == Set(j, Closed(jobs[j])) /\ UNCHANGED table

(* Steps of the job and the server, without the user.                      *)
SaveStep(j) ==
    Begin(j) \/ BeginFails(j) \/ Run(j) \/ Refuse(j) \/ Commit(j)
             \/ CommitFails(j) \/ TimeOut(j) \/ LeftoverEnds(j)
-----------------------------------------------------------------------------
(* Whatever fails or runs out of time, no connection goes back to the pool *)
(* inside a transaction, where its next user would run in it and commit    *)
(* it: the comment of run_mssql_transaction names a timeout and a ROLLBACK *)
(* that fails.  It does not name an abort, which never comes to detach:    *)
(* only an SQL Server save that is aborted leaves its connection so.       *)
PoolIsClean ==
    \A j \in Saves : jobs[j].tx => jobs[j].conn \in {"held", "dropped"}

(* A save writes all of its statements or none, whatever fails, runs out   *)
(* of time or is cancelled, and never says "saved" of one that wrote none: *)
(* execute_in_transaction implements AtomicWrite, if what an aborted save  *)
(* left open is rolled back (LeftoverEnds).                                *)
Write == INSTANCE AtomicWrite WITH
            batch    <- [j \in Saves |-> jobs[j].stmts],
            applied  <- {j \in Saves : jobs[j].committed},
            answered <- {j \in Saves : jobs[j].saved}
AllOrNothing == Write!Spec
=============================================================================
