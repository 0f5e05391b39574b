------------------------------ MODULE DbServer ------------------------------
(***************************************************************************)
(* The database server as one session connection sees it.  This is code    *)
(* outside the repository: what connection/session.rs sends it (BEGIN,     *)
(* one statement, COMMIT, ROLLBACK, closing the connection) and what each  *)
(* engine may do with it.  A statement is the job that carries it.         *)
(*                                                                         *)
(* Quirks names the behaviours that go beyond "a statement joins the open  *)
(* transaction, COMMIT keeps it, ROLLBACK drops it".  A run chooses which  *)
(* of them the server may show:                                            *)
(*   ImplicitCommit  MySQL: DDL commits the open transaction first         *)
(*   TxEndingError   MySQL, SQLite, MsSQL: an error (deadlock victim,      *)
(*                   disk full) that rolls the whole transaction back      *)
(*   CommitFails     a deferred constraint or a busy lock rejects COMMIT:  *)
(*                   PostgreSQL ends the transaction, SQLite keeps it      *)
(*   ConnLoss        the connection dies, with COMMIT left in doubt        *)
(***************************************************************************)
EXTENDS Naturals

CONSTANTS MaxJobs,  \* bound on the jobs one behaviour submits
          Engines,  \* the engines a behaviour may be about
          Quirks    \* the behaviours of the list above that may occur

AllEngines == {"mysql", "postgres", "sqlite", "mssql"}
AllQuirks  == {"ImplicitCommit", "TxEndingError", "CommitFails", "ConnLoss"}

ASSUME ServerAssumption ==
    /\ MaxJobs \in Nat \ {0}
    /\ Engines \subseteq AllEngines
    /\ Quirks \subseteq AllQuirks

Jobs == 1..MaxJobs

VARIABLES engine,   \* connection_type of the session
          srv,      \* the transaction on the server: none, open, aborted, gone
          work,     \* statements executed in the open transaction
          durable   \* statements that are committed

serverVars == <<engine, srv, work, durable>>

ServerTypeOK ==
    /\ engine \in Engines
    /\ srv \in {"none", "open", "aborted", "gone"}
    /\ work \subseteq Jobs
    /\ durable \subseteq Jobs

ServerInit ==
    /\ engine \in Engines
    /\ srv = "none"
    /\ work = {}
    /\ durable = {}

InTransaction == srv \in {"open", "aborted"}

Quirk(q, on) == q \in Quirks /\ engine \in on
-----------------------------------------------------------------------------
(* The transaction ends on the server, keeping or losing its statements.   *)
KeepWork == /\ durable' = durable \cup work
            /\ work' = {}
DropWork == /\ work' = {}
            /\ UNCHANGED durable

Ends(tx) == srv' = tx /\ UNCHANGED engine

Unmoved == UNCHANGED serverVars

(* BEGIN, answered r.  The session sends it only outside a transaction     *)
(* (TxSession!BeginOutsideTx), so there is no answer inside one.           *)
ServerBegin(r) ==
    \/ /\ r = "ok"
       /\ srv = "none"
       /\ srv' = "open"
       /\ UNCHANGED <<engine, work, durable>>
    \/ /\ r = "err"
       /\ srv \in {"none", "gone"}
       /\ Unmoved

(* A statement that MySQL commits around: what was open is kept, whether   *)
(* or not the statement itself succeeds.                                   *)
ImplicitCommit(j, r) ==
    /\ work' = {}
    /\ durable' = durable \cup work \cup (IF r = "ok" THEN {j} ELSE {})
    /\ Ends("none")

CommitsImplicitly(sql) == sql = "ddl" /\ engine = "mysql"

(* Statement sql of job j, answered r.                                     *)
ServerRun(j, sql, r) ==
    \/ /\ srv # "gone"
       /\ CommitsImplicitly(sql)
       /\ ImplicitCommit(j, r)
    \/ /\ r = "ok"
       /\ ~CommitsImplicitly(sql)
       /\ srv = "open"
       /\ work' = work \cup {j}
       /\ UNCHANGED <<engine, srv, durable>>
    \/ /\ r = "ok"                         \* no transaction: autocommit
       /\ ~CommitsImplicitly(sql)
       /\ srv = "none"
       /\ durable' = durable \cup {j}
       /\ UNCHANGED <<engine, srv, work>>
    \/ /\ r = "err"
       /\ ~CommitsImplicitly(sql)
       /\ srv' = IF srv = "open" /\ engine = "postgres" THEN "aborted" ELSE srv
       /\ UNCHANGED <<engine, work, durable>>
    \/ /\ r = "err"
       /\ srv = "open"
       /\ Quirk("TxEndingError", {"mysql", "sqlite", "mssql"})
       /\ DropWork
       /\ Ends("none")

(* COMMIT or ROLLBACK outside a transaction: a no-op for MySQL and         *)
(* PostgreSQL, an error for SQLite and SQL Server.                         *)
NothingToFinish(r) ==
    /\ srv = "none"
    /\ r = IF engine \in {"mysql", "postgres"} THEN "ok" ELSE "err"
    /\ Unmoved

ServerCommit(r) ==
    \/ r = "ok" /\ srv = "open" /\ KeepWork /\ Ends("none")
    \/ r = "ok" /\ srv = "aborted" /\ DropWork /\ Ends("none")
    \/ NothingToFinish(r)
    \/ r = "err" /\ srv = "gone" /\ Unmoved
    \/ /\ r = "err"
       /\ srv = "open"
       /\ Quirk("CommitFails", {"postgres"})
       /\ DropWork
       /\ Ends("none")
    \/ /\ r = "err"
       /\ srv = "open"
       /\ Quirk("CommitFails", {"sqlite"})
       /\ Unmoved
    \/ /\ r = "err"                        \* applied, the answer is lost
       /\ srv = "open"
       /\ Quirk("ConnLoss", {"mysql", "postgres", "mssql"})
       /\ KeepWork
       /\ Ends("gone")

ServerRollback(r) ==
    \/ r = "ok" /\ InTransaction /\ DropWork /\ Ends("none")
    \/ NothingToFinish(r)
    \/ r = "err" /\ srv = "gone" /\ Unmoved

(* The connection is closed under statement sql of job j, which may have   *)
(* taken effect on its own where it does not run in a transaction.         *)
ServerDiscard(j, sql) ==
    /\ work' = {}
    /\ \/ UNCHANGED durable
       \/ srv = "none" /\ durable' = durable \cup {j}
       \/ /\ srv # "gone"
          /\ CommitsImplicitly(sql)
          /\ durable' \in {durable \cup work, durable \cup work \cup {j}}
    /\ Ends("none")

(* The connection goes back to its pool.  sqlx pools roll back what is     *)
(* left open (pool.rs, the after_release hooks); the SQL Server pool has   *)
(* no such hook.                                                           *)
ServerRelease ==
    IF engine = "mssql"
    THEN Unmoved
    ELSE DropWork /\ Ends("none")

ServerLoses ==
    /\ Quirk("ConnLoss", {"mysql", "postgres", "mssql"})
    /\ srv # "gone"
    /\ DropWork
    /\ Ends("gone")
=============================================================================
