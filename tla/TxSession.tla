------------------------------ MODULE TxSession ------------------------------
(***************************************************************************)
(* The manual-commit session of one query tab: the tokio task run_session  *)
(* of connection/session.rs, the unbounded channel that feeds it, and the  *)
(* transaction on the server.  The task awaits at five places (the         *)
(* channel, the pool, BEGIN, the statement, COMMIT/ROLLBACK); a step runs  *)
(* from one await to the next, so the user, the server and the reader of   *)
(* the shared tx_open flag act in between.                                 *)
(***************************************************************************)
EXTENDS DbServer, Sequences

CONSTANT StatementTimeout  \* limits.timeout is set (query_timeout_secs > 0)

ASSUME SessionAssumption == StatementTimeout \in BOOLEAN

VARIABLES queue,       \* the channel of SessionCommand
          held,        \* the tab still holds the SessionHandle
          submitted,   \* jobs allocated so far
          pc,          \* where the task awaits
          cur,         \* the command it processes
          conn,        \* conn.is_some()
          tx_open, tx_aborted,
          tx_flag,     \* SessionHandle::tx_open, read by the UI
          answer,      \* the QueryResultMessage of each job
          promised     \* history: statements reported as executed in the
                       \* transaction that no answer has ended yet

taskVars == <<pc, cur, conn, tx_open, tx_aborted, tx_flag, answer, promised>>
vars == <<serverVars, queue, held, submitted, taskVars>>
-----------------------------------------------------------------------------
(* What a command asks for: the transaction_verb of an Execute's text, or  *)
(* a statement.  MySQL tells DDL apart from a statement that writes.       *)
Plain == {"write", "ddl"}
Verbs == Plain \cup {"begin", "commit", "rollback", "close"}

Command == [op : {"Execute", "Commit", "Rollback", "Close"},
            job : 0..MaxJobs, verb : Verbs]

Execute(j, verb) == [op |-> "Execute", job |-> j, verb |-> verb]
Commit(j)        == [op |-> "Commit", job |-> j, verb |-> "commit"]
Rollback(j)      == [op |-> "Rollback", job |-> j, verb |-> "rollback"]
Close            == [op |-> "Close", job |-> 0, verb |-> "close"]

IsStatement(c) == c.verb \in Plain
Finishes(c)    == c.verb \in {"commit", "rollback"}

TypeOK ==
    /\ ServerTypeOK
    /\ queue \in Seq(Command)
    /\ held \in BOOLEAN
    /\ submitted \in 0..MaxJobs
    /\ pc \in {"top", "recv", "acquire", "dispatch", "begin", "run",
               "finish", "closing", "leaving", "ended"}
    /\ cur \in Command
    /\ conn \in BOOLEAN
    /\ tx_open \in BOOLEAN
    /\ tx_aborted \in BOOLEAN
    /\ tx_flag \in BOOLEAN
    /\ answer \in [Jobs -> {"none", "ok", "err"}]
    /\ promised \subseteq Jobs

Init ==
    /\ ServerInit
    /\ queue = <<>>
    /\ held = TRUE
    /\ submitted = 0
    /\ pc = "top"
    /\ cur = Close
    /\ conn = FALSE
    /\ tx_open = FALSE
    /\ tx_aborted = FALSE
    /\ tx_flag = FALSE
    /\ answer = [j \in Jobs |-> "none"]
    /\ promised = {}
-----------------------------------------------------------------------------
(* The tab: it sends commands for new jobs while it holds the handle.  DDL *)
(* is told apart only where the server does.                               *)
Submit(command) ==
    /\ held
    /\ submitted < MaxJobs
    /\ submitted' = submitted + 1
    /\ queue' = Append(queue, command)
    /\ UNCHANGED <<serverVars, held, taskVars>>


SubmitNew ==
    LET j == submitted + 1 IN
    \/ \E verb \in Verbs \ {"close"} :
          /\ verb = "ddl" => Quirk("ImplicitCommit", {"mysql"})
          /\ Submit(Execute(j, verb))
    \/ Submit(Commit(j))
    \/ Submit(Rollback(j))

(* SessionHandle::close, after which the tab has given the handle up.      *)
CloseHandle ==
    /\ held
    /\ held' = FALSE
    /\ queue' = Append(queue, Close)
    /\ UNCHANGED <<serverVars, submitted, taskVars>>
-----------------------------------------------------------------------------
tabVars == <<held, submitted>>

(* The task sends the result of its command and returns to the loop's top. *)
Reply(r) ==
    /\ answer' = [answer EXCEPT ![cur.job] = r]
    /\ pc' = "top"
    /\ UNCHANGED <<queue, tabVars, cur, tx_flag>>

(* tx_flag.store at the top of the loop.                                   *)
StoreFlag ==
    /\ pc = "top"
    /\ tx_flag' = tx_open
    /\ pc' = "recv"
    /\ UNCHANGED <<serverVars, queue, tabVars, cur, conn, tx_open, tx_aborted,
                   answer, promised>>

Receive ==
    /\ pc = "recv"
    /\ queue # <<>>
    /\ cur' = Head(queue)
    /\ queue' = Tail(queue)
    /\ pc' = IF cur'.op = "Execute" /\ ~conn THEN "acquire" ELSE "dispatch"
    /\ UNCHANGED <<serverVars, tabVars, conn, tx_open, tx_aborted, tx_flag,
                   answer, promised>>

(* The lazy acquire: a connection from the pool, or an error for this job. *)
Acquire ==
    /\ pc = "acquire"
    /\ UNCHANGED <<serverVars, tx_open, tx_aborted, promised>>
    /\ \/ /\ conn' = TRUE
          /\ pc' = "dispatch"
          /\ UNCHANGED <<queue, tabVars, cur, tx_flag, answer>>
       \/ /\ UNCHANGED conn
          /\ Reply("err")

(* What the task does before the next await, once it knows its command.    *)
Await(place) ==
    /\ pc' = place
    /\ UNCHANGED <<serverVars, queue, tabVars, cur, conn, tx_open, tx_flag,
                   answer, promised>>

BeginNeeded(c) == ~tx_open /\ (c.verb = "begin" \/ (IsStatement(c) /\ ~tx_aborted))

DispatchBegin ==
    /\ pc = "dispatch"
    /\ BeginNeeded(cur)
    /\ Await("begin")
    /\ UNCHANGED tx_aborted

DispatchRun ==
    /\ pc = "dispatch"
    /\ IsStatement(cur)
    /\ tx_open
    /\ ~tx_aborted
    /\ Await("run")
    /\ UNCHANGED tx_aborted

DispatchFinish ==
    /\ pc = "dispatch"
    /\ Finishes(cur)
    /\ conn
    /\ tx_open
    /\ tx_aborted' = FALSE
    /\ Await("finish")

(* The commands answered without the server: BEGIN in an open transaction, *)
(* a statement of an aborted one, COMMIT or ROLLBACK without one.          *)
DispatchAnswer ==
    /\ pc = "dispatch"
    /\ UNCHANGED <<serverVars, conn, promised>>
    /\ \/ /\ cur.verb = "begin"
          /\ tx_open
          /\ Reply("ok")
          /\ UNCHANGED <<tx_open, tx_aborted>>
       \/ /\ IsStatement(cur)
          /\ tx_aborted
          /\ Reply("err")
          /\ UNCHANGED <<tx_open, tx_aborted>>
       \/ /\ Finishes(cur)
          /\ ~conn \/ ~tx_open
          /\ Reply("err")
          /\ tx_open' = FALSE
          /\ tx_aborted' = FALSE

(* BEGIN answered: on to the statement, or done if BEGIN was the command.  *)
Begin(r) ==
    /\ pc = "begin"
    /\ ServerBegin(r)
    /\ tx_open' = (r = "ok")
    /\ tx_aborted' = (tx_aborted /\ ~(r = "ok" /\ cur.verb = "begin"))
    /\ UNCHANGED <<conn, promised>>
    /\ IF r = "ok" /\ IsStatement(cur)
       THEN pc' = "run" /\ UNCHANGED <<queue, tabVars, cur, tx_flag, answer>>
       ELSE Reply(r)

(* run_statement answered.  Only PostgreSQL marks the transaction aborted. *)
Run(r) ==
    /\ pc = "run"
    /\ ServerRun(cur.job, cur.verb, r)
    /\ tx_aborted' = (tx_aborted \/ (r = "err" /\ engine = "postgres"))
    /\ promised' = IF r = "ok" THEN promised \cup {cur.job} ELSE promised
    /\ Reply(r)
    /\ UNCHANGED <<conn, tx_open>>

(* Faulty: the discarded connection's transaction is still taken as open.  *)
TimeoutKeepsOpen ==
    /\ StatementTimeout
    /\ pc = "run"
    /\ ServerDiscard(cur.job, cur.verb)
    /\ conn' = FALSE
    /\ promised' = {}
    /\ Reply("err")
    /\ UNCHANGED <<tx_open, tx_aborted>>

(* Faulty: no result is sent for the statement that timed out.             *)
TimeoutSilent ==
    /\ StatementTimeout
    /\ pc = "run"
    /\ ServerDiscard(cur.job, cur.verb)
    /\ conn' = FALSE
    /\ tx_open' = FALSE
    /\ tx_aborted' = FALSE
    /\ promised' = {}
    /\ pc' = "top"
    /\ UNCHANGED <<queue, tabVars, cur, tx_flag, answer>>

(* The statement's time is up: the connection is discarded.                *)
Timeout ==
    /\ StatementTimeout
    /\ pc = "run"
    /\ ServerDiscard(cur.job, cur.verb)
    /\ conn' = FALSE
    /\ tx_open' = FALSE
    /\ tx_aborted' = FALSE
    /\ promised' = {}
    /\ Reply("err")

(* Faulty: tx_open is cleared even when COMMIT or ROLLBACK was refused.    *)
FinishAlwaysClears(r) ==
    /\ pc = "finish"
    /\ IF cur.verb = "commit" THEN ServerCommit(r) ELSE ServerRollback(r)
    /\ tx_open' = FALSE
    /\ promised' = IF r = "ok" \/ srv' = "gone" THEN {} ELSE promised
    /\ Reply(r)
    /\ UNCHANGED <<conn, tx_aborted>>

(* finish_tx answered: an error leaves tx_open as it was.                  *)
Finish(r) ==
    /\ pc = "finish"
    /\ IF cur.verb = "commit" THEN ServerCommit(r) ELSE ServerRollback(r)
    /\ tx_open' = (r = "err")
    /\ promised' = IF r = "ok" \/ srv' = "gone" THEN {} ELSE promised
    /\ Reply(r)
    /\ UNCHANGED <<conn, tx_aborted>>

(* Close: ROLLBACK if a transaction is open, then leave the loop.          *)
DispatchClose ==
    /\ pc = "dispatch"
    /\ cur.verb = "close"
    /\ Await(IF tx_open /\ conn THEN "closing" ELSE "leaving")
    /\ UNCHANGED tx_aborted

Closing(r) ==
    /\ pc = "closing"
    /\ ServerRollback(r)
    /\ pc' = "leaving"
    /\ UNCHANGED <<queue, tabVars, cur, conn, tx_open, tx_aborted, tx_flag,
                   answer, promised>>

(* The task returns: the flag is lowered and the connection dropped.       *)
Leave ==
    /\ pc = "leaving"
    /\ ServerRelease
    /\ pc' = "ended"
    /\ conn' = FALSE
    /\ tx_flag' = FALSE
    /\ promised' = {}
    /\ UNCHANGED <<queue, tabVars, cur, tx_open, tx_aborted, answer>>

LoseConnection ==
    /\ conn
    /\ ServerLoses
    /\ UNCHANGED <<queue, tabVars, taskVars>>

Ended == pc = "ended" /\ UNCHANGED vars
-----------------------------------------------------------------------------
Replies == {"ok", "err"}

Dispatch == DispatchBegin \/ DispatchRun \/ DispatchFinish
                \/ DispatchAnswer \/ DispatchClose

LocalStep == StoreFlag \/ Receive \/ Acquire \/ Dispatch \/ Leave

ControlStep == \E r \in Replies : Begin(r) \/ Finish(r) \/ Closing(r)

StatementStep == Timeout \/ \E r \in Replies : Run(r)

Next == \/ SubmitNew \/ CloseHandle
        \/ LocalStep \/ ControlStep \/ StatementStep
        \/ LoseConnection \/ Ended

(* tokio runs a ready task and the pool's acquire is bounded by its        *)
(* acquire_timeout; a statement is bounded only by the configured timeout. *)
(* The code sets no bound on BEGIN, COMMIT and ROLLBACK: that the server   *)
(* answers them is an assumption.  The user owes nothing.                  *)
Fairness == /\ WF_vars(LocalStep)
            /\ WF_vars(ControlStep)
            /\ StatementTimeout => WF_vars(StatementStep)

Spec == Init /\ [][Next]_vars /\ Fairness
-----------------------------------------------------------------------------
(* The session never sends BEGIN, or leaves a transaction, behind its own  *)
(* back: a transaction open on the server of its connection is one it      *)
(* knows of (tx_open), so Close and the tab's indicator see it.            *)
OpenTxIsTracked == conn /\ InTransaction => tx_open

(* A BEGIN is on its way only while the server has no transaction.         *)
BeginOutsideTx == pc = "begin" => ~InTransaction

(* Statements queued behind a failed one are not run in the aborted        *)
(* transaction of PostgreSQL: they are answered "Skipped".                 *)
AbortedTxRunsNothing == pc = "run" => srv # "aborted"

(* Results come in the order of the commands: no job is answered while an  *)
(* earlier one of the tab is not.                                          *)
AnswersInOrder ==
    \A i, j \in Jobs : i < j /\ answer[j] # "none" => answer[i] # "none"

(* When the task has returned, its connection takes no transaction back to *)
(* the pool (with SQL Server nothing but the explicit ROLLBACK sees to it).*)
EndedHoldsNoTx == pc = "ended" => ~InTransaction /\ work = {}

(* SessionHandle::tx_open, "the real state of the transaction on the       *)
(* session connection": whenever the task waits for a command, the flag    *)
(* says whether the server holds a transaction.                            *)
FlagTellsTheTruth == pc = "recv" /\ srv # "gone" => (tx_flag <=> InTransaction)

(* "Nothing is committed until you press Commit": what is durable grows    *)
(* only while a COMMIT the user asked for is being answered.               *)
NothingCommittedUntilCommit ==
    [][durable' # durable => pc = "finish" /\ cur.verb = "commit"]_vars

(* The session implements the promise of manual-commit mode: the open      *)
(* transaction is tx_open until the task has returned, its statements the  *)
(* ones reported as executed.                                              *)
Promise == INSTANCE ManualCommit
             WITH Statements <- Jobs,
                  open <- tx_open /\ pc # "ended",
                  pending <- promised

KeepsThePromise == Promise!Spec

(* Every job the tab has sent is answered, whatever the server does.       *)
EveryJobAnswered ==
    \A j \in Jobs : (submitted >= j) ~> (answer[j] # "none")
=============================================================================
