--------------------------- MODULE TxSessionProofs ---------------------------
(***************************************************************************)
(* What holds of the session for every number of jobs, every engine and    *)
(* every behaviour of the server that DbServer allows.                     *)
(***************************************************************************)
EXTENDS TxSession, TLAPS

(* The moves of the server keep its variables in their types.              *)
LEMMA StatementTyped ==
    ASSUME ServerTypeOK, NEW j \in Jobs, NEW verb, NEW r \in Replies,
           ServerRun(j, verb, r) \/ ServerDiscard(j, verb)
    PROVE  ServerTypeOK'
BY DEF ServerTypeOK, ServerRun, ServerDiscard, ImplicitCommit, KeepWork,
       DropWork, Ends

LEMMA ControlTyped ==
    ASSUME ServerTypeOK, NEW r \in Replies,
           ServerBegin(r) \/ ServerCommit(r) \/ ServerRollback(r)
    PROVE  ServerTypeOK'
BY DEF ServerTypeOK, ServerBegin, ServerCommit, ServerRollback, serverVars,
       NothingToFinish, KeepWork, DropWork, Ends, Unmoved

LEMMA ConnectionTyped ==
    ASSUME ServerTypeOK, ServerRelease \/ ServerLoses
    PROVE  ServerTypeOK'
BY DEF ServerTypeOK, ServerRelease, ServerLoses, serverVars, DropWork, Ends,
       Unmoved

(* Every command in the channel, and the one in hand, is a SessionCommand  *)
(* that carries a job unless it is Close.                                  *)
WellFormed(c) ==
    /\ c.op # "Close" => c.job \in Jobs
    /\ c.op = "Close" <=> c.verb = "close"
    /\ IsStatement(c) \/ c.verb = "begin" => c.op = "Execute"

CommandInv ==
    /\ \A i \in 1..Len(queue) : WellFormed(queue[i])
    /\ WellFormed(cur)
    /\ pc \in {"acquire", "begin", "run", "finish"} => cur.op # "Close"
    /\ pc = "run" => IsStatement(cur)

TypeInv == TypeOK /\ CommandInv

LEMMA CloseIsCommand == Close \in Command
BY ServerAssumption DEF Close, Command, Verbs

LEMMA TypeInitially == Init => TypeInv
<1> SUFFICES ASSUME Init PROVE TypeOK /\ CommandInv
  BY DEF TypeInv
<1>1. TypeOK
  <2>1. ServerTypeOK
    BY DEF Init, ServerInit, ServerTypeOK
  <2>2. answer \in [Jobs -> {"none", "ok", "err"}]
    BY DEF Init
  <2>3. submitted \in 0..MaxJobs
    BY ServerAssumption DEF Init
  <2>4. queue \in Seq(Command) /\ cur \in Command
    BY CloseIsCommand DEF Init
  <2>5. QED
    BY <2>1, <2>2, <2>3, <2>4 DEF Init, TypeOK
<1>2. CommandInv
  BY DEF Init, CommandInv, WellFormed, Close, IsStatement, Plain
<1>3. QED
  BY <1>1, <1>2

(* The tab's steps append a well-formed command and move nothing else.     *)
LEMMA TabTyped ==
    ASSUME TypeInv, SubmitNew \/ CloseHandle
    PROVE  TypeInv'
<1> USE DEF TypeInv, TypeOK, ServerTypeOK
<1>1. /\ \E c \in Command : queue' = Append(queue, c) /\ WellFormed(c)
      /\ submitted' \in 0..MaxJobs
      /\ held' \in BOOLEAN
      /\ UNCHANGED <<serverVars, taskVars>>
  <2>1. CASE CloseHandle
    BY <2>1, CloseIsCommand DEF CloseHandle, Close, WellFormed, IsStatement, Plain
  <2>2. CASE SubmitNew
    <3> DEFINE j == submitted + 1
    <3>1. PICK c \in {Commit(j), Rollback(j)}
                       \cup {Execute(j, verb) : verb \in Verbs \ {"close"}} :
                 Submit(c)
      BY <2>2 DEF SubmitNew
    <3>2. j \in Jobs /\ j \in 0..MaxJobs
      BY <3>1, ServerAssumption DEF Submit, Jobs
    <3>3. c \in Command /\ WellFormed(c)
      BY <3>1, <3>2 DEF Execute, Commit, Rollback, Command, Verbs,
                        WellFormed, IsStatement, Plain
    <3>4. QED
      BY <3>1, <3>2, <3>3 DEF Submit
  <2>3. QED
    BY <2>1, <2>2
<1>2. TypeOK'
  BY <1>1 DEF serverVars, taskVars
<1>3. CommandInv'
  <2>1. PICK c \in Command : queue' = Append(queue, c) /\ WellFormed(c)
    BY <1>1
  <2>2. \A i \in 1..Len(queue') : queue'[i] = IF i <= Len(queue) THEN queue[i] ELSE c
    BY <2>1
  <2>3. Len(queue') = Len(queue) + 1
    BY <2>1
  <2>4. QED
    BY <1>1, <2>1, <2>2, <2>3 DEF CommandInv, taskVars
<1>4. QED
  BY <1>2, <1>3

(* A step of the task that only takes the next command.                    *)
LEMMA ReceiveTyped ==
    ASSUME TypeInv, Receive
    PROVE  TypeInv'
<1> USE DEF TypeInv, TypeOK, ServerTypeOK, Receive
<1>1. queue # <<>> /\ cur' = queue[1] /\ cur' \in Command
  BY DEF CommandInv
<1>2. queue' \in Seq(Command) /\ Len(queue') = Len(queue) - 1
  BY <1>1
<1>3. \A i \in 1..Len(queue') : queue'[i] = queue[i + 1] /\ i + 1 \in 1..Len(queue)
  BY <1>1, <1>2
<1>4. TypeOK'
  BY <1>1, <1>2 DEF serverVars, tabVars
<1>5. CommandInv'
  BY <1>1, <1>2, <1>3 DEF CommandInv, serverVars, tabVars
<1>6. QED
  BY <1>4, <1>5

(* The steps that leave the channel alone.                                 *)
LEMMA WorkTyped ==
    ASSUME TypeInv,
           \/ StoreFlag \/ Acquire \/ Dispatch \/ Leave
           \/ ControlStep \/ StatementStep \/ LoseConnection
           \/ UNCHANGED vars
    PROVE  TypeInv'
<1> USE DEF TypeInv, WellFormed
<1>1. CASE StoreFlag
  BY <1>1 DEF StoreFlag, TypeOK, ServerTypeOK, CommandInv, serverVars, tabVars
<1>2. CASE Acquire
  <2>1. TypeOK'
    BY <1>2 DEF Acquire, Reply, Replies, TypeOK, ServerTypeOK, CommandInv,
                serverVars, tabVars
  <2>2. CommandInv'
    BY <1>2 DEF Acquire, Reply, CommandInv
  <2>3. QED
    BY <2>1, <2>2
<1>3. CASE Dispatch
  <2> USE DEF TypeOK, ServerTypeOK, CommandInv, serverVars, tabVars, Await,
              IsStatement, Finishes, Plain
  <2>1. CASE DispatchBegin
    BY <2>1 DEF DispatchBegin, BeginNeeded
  <2>2. CASE DispatchRun
    BY <2>2 DEF DispatchRun
  <2>3. CASE DispatchFinish
    BY <2>3 DEF DispatchFinish
  <2>4. CASE DispatchAnswer
    <3>1. PICK r \in Replies : Reply(r)
      BY <2>4 DEF DispatchAnswer, Replies
    <3>2. /\ UNCHANGED <<serverVars, conn, promised>>
          /\ tx_open' \in BOOLEAN
          /\ tx_aborted' \in BOOLEAN
      BY <2>4 DEF DispatchAnswer
    <3>3. QED
      BY <3>1, <3>2 DEF Reply, Replies
  <2>5. CASE DispatchClose
    BY <2>5 DEF DispatchClose
  <2>6. QED
    BY <1>3, <2>1, <2>2, <2>3, <2>4, <2>5 DEF Dispatch
<1>4. CASE Leave
  <2>1. ServerTypeOK'
    BY <1>4, ConnectionTyped DEF Leave, TypeOK
  <2>2. QED
    BY <1>4, <2>1 DEF Leave, TypeOK, CommandInv, tabVars
<1>5. CASE ControlStep
  <2>1. PICK r \in Replies : Begin(r) \/ Finish(r) \/ Closing(r)
    BY <1>5 DEF ControlStep
  <2>2. ServerTypeOK'
    BY <2>1, ControlTyped DEF Begin, Finish, Closing, TypeOK
  <2>3. TypeOK'
    BY <2>1, <2>2 DEF Begin, Finish, Closing, Reply, Replies, tabVars, TypeOK
  <2>4. CommandInv'
    BY <2>1 DEF Begin, Finish, Closing, Reply, IsStatement, CommandInv
  <2>5. QED
    BY <2>3, <2>4
<1>6. CASE StatementStep
  <2>1. cur.job \in Jobs
    BY <1>6 DEF StatementStep, Timeout, Run, CommandInv
  <2>2. ServerTypeOK'
    BY <1>6, <2>1, StatementTyped
       DEF StatementStep, Timeout, Run, Replies, TypeOK
  <2>3. PICK r \in Replies : Reply(r)
    BY <1>6 DEF StatementStep, Timeout, Run, Replies
  <2>4. /\ conn' \in BOOLEAN /\ tx_open' \in BOOLEAN
        /\ tx_aborted' \in BOOLEAN /\ promised' \subseteq Jobs
    BY <1>6, <2>1 DEF StatementStep, Timeout, Run, TypeOK
  <2>5. TypeOK'
    BY <2>2, <2>3, <2>4 DEF Reply, Replies, tabVars, TypeOK
  <2>6. UNCHANGED <<queue, cur>> /\ pc' = "top"
    BY <2>3 DEF Reply
  <2>7. CommandInv'
    BY <2>6 DEF CommandInv
  <2>8. QED
    BY <2>5, <2>7
<1>7. CASE LoseConnection
  <2>1. ServerTypeOK'
    BY <1>7, ConnectionTyped DEF LoseConnection, TypeOK
  <2>2. QED
    BY <1>7, <2>1 DEF LoseConnection, taskVars, tabVars, TypeOK, CommandInv
<1>8. CASE UNCHANGED vars
  BY <1>8 DEF vars, serverVars, taskVars, TypeOK, ServerTypeOK, CommandInv
<1>9. QED
  BY <1>1, <1>2, <1>3, <1>4, <1>5, <1>6, <1>7, <1>8

LEMMA TypeAlways == Spec => []TypeInv
<1>1. TypeInv /\ [Next]_vars => TypeInv'
  BY TabTyped, ReceiveTyped, WorkTyped DEF Next, LocalStep, Ended
<1>2. QED
  BY TypeInitially, <1>1, PTL DEF Spec

(* The session's variables keep their types; the answers, what is durable  *)
(* and what is promised are about jobs the tab has allocated.              *)
THEOREM TypeCorrect == Spec => []TypeOK
<1>1. TypeInv => TypeOK
  BY DEF TypeInv
<1>2. QED
  BY <1>1, TypeAlways, PTL
-----------------------------------------------------------------------------
(* The inductive invariant behind the safety properties.  A transaction on *)
(* the server is one the task has a connection for and knows of; where     *)
(* tx_open is lowered, or the task is leaving, there is none.  An aborted  *)
(* one is marked, unless its end is already under way, and what is about   *)
(* to begin or run is not behind that mark.                                *)
SessionInv ==
    /\ InTransaction => conn /\ tx_open
    /\ ~InTransaction => work = {}
    /\ pc = "dispatch" /\ cur.op = "Execute" => conn
    /\ pc \in {"begin", "run"} => conn
    /\ pc = "begin" => ~tx_open
    /\ pc \in {"leaving", "ended"} => ~InTransaction
    /\ srv = "aborted" => tx_aborted \/ pc \in {"finish", "closing"}
    /\ pc \in {"begin", "run"} /\ IsStatement(cur) => ~tx_aborted

LEMMA SessionInitially == Init => SessionInv
BY DEF Init, ServerInit, SessionInv, InTransaction

(* Steps that do not reach the server.                                     *)
LEMMA LocalKeeps ==
    ASSUME TypeInv, SessionInv,
           \/ SubmitNew \/ CloseHandle \/ UNCHANGED vars
           \/ StoreFlag \/ Receive \/ Acquire \/ Dispatch
    PROVE  SessionInv'
<1> USE DEF SessionInv, InTransaction, serverVars, taskVars
<1>1. CASE SubmitNew
  BY <1>1 DEF SubmitNew, Submit
<1>2. CASE CloseHandle \/ UNCHANGED vars
  BY <1>2 DEF CloseHandle, vars
<1>3. CASE StoreFlag \/ Receive
  BY <1>3 DEF StoreFlag, Receive
<1>4. CASE Acquire
  BY <1>4 DEF Acquire, Reply
<1>5. CASE Dispatch
  <2>1. CASE DispatchBegin \/ DispatchRun \/ DispatchFinish
    BY <2>1 DEF DispatchBegin, BeginNeeded, DispatchRun, DispatchFinish,
                Await, IsStatement, Finishes, Plain, TypeInv, CommandInv,
                WellFormed
  <2>2. CASE DispatchAnswer
    BY <2>2 DEF DispatchAnswer, Reply
  <2>3. CASE DispatchClose
    BY <2>3 DEF DispatchClose, Await
  <2>4. QED
    BY <1>5, <2>1, <2>2, <2>3 DEF Dispatch
<1>6. QED
  BY <1>1, <1>2, <1>3, <1>4, <1>5

(* Steps of the server.                                                    *)
LEMMA ServerKeeps ==
    ASSUME TypeInv, SessionInv,
           \/ ControlStep \/ StatementStep \/ Leave \/ LoseConnection
    PROVE  SessionInv'
<1> USE DEF SessionInv, InTransaction, KeepWork, DropWork, Ends, Unmoved,
            serverVars
<1>1. ASSUME NEW r \in Replies, Begin(r)
      PROVE  SessionInv'
  <2>1. CASE r = "ok" /\ IsStatement(cur)
    BY <1>1, <2>1 DEF Begin, ServerBegin, IsStatement, TypeInv, TypeOK
  <2>2. CASE ~(r = "ok" /\ IsStatement(cur))
    BY <1>1, <2>2 DEF Begin, ServerBegin, Reply, Replies, TypeInv, TypeOK
  <2>3. QED
    BY <2>1, <2>2
<1>2. ASSUME NEW r \in Replies, Finish(r)
      PROVE  SessionInv'
  BY <1>2 DEF Finish, ServerCommit, ServerRollback, NothingToFinish, Reply,
              Replies
<1>3. ASSUME NEW r \in Replies, Closing(r)
      PROVE  SessionInv'
  BY <1>3 DEF Closing, ServerRollback, NothingToFinish
<1>4. ASSUME NEW r \in Replies, Run(r)
      PROVE  SessionInv'
  BY <1>4 DEF Run, ServerRun, ImplicitCommit, Reply, TypeInv, CommandInv,
              TypeOK
<1>5. CASE Timeout
  BY <1>5 DEF Timeout, ServerDiscard, Reply
<1>6. CASE Leave
  BY <1>6 DEF Leave, ServerRelease
<1>7. CASE LoseConnection
  BY <1>7 DEF LoseConnection, ServerLoses, taskVars
<1>8. QED
  BY <1>1, <1>2, <1>3, <1>4, <1>5, <1>6, <1>7 DEF ControlStep, StatementStep

LEMMA SessionAlways == Spec => [](TypeInv /\ SessionInv)
<1>1. TypeInv /\ SessionInv /\ [Next]_vars => SessionInv'
  BY LocalKeeps, ServerKeeps DEF Next, LocalStep, Ended
<1>2. QED
  BY TypeAlways, SessionInitially, <1>1, PTL DEF Spec

(* No transaction is ever open on the server behind the session's back.    *)
THEOREM NoHiddenTransaction == Spec => [](OpenTxIsTracked /\ BeginOutsideTx)
<1>1. SessionInv => OpenTxIsTracked /\ BeginOutsideTx
  BY DEF SessionInv, OpenTxIsTracked, BeginOutsideTx
<1>2. QED
  BY <1>1, SessionAlways, PTL

(* What is queued behind a failed statement never runs in the transaction  *)
(* PostgreSQL has aborted.                                                 *)
THEOREM NothingRunsAborted == Spec => []AbortedTxRunsNothing
<1>1. TypeInv /\ SessionInv => AbortedTxRunsNothing
  BY DEF TypeInv, CommandInv, SessionInv, AbortedTxRunsNothing
<1>2. QED
  BY <1>1, SessionAlways, PTL

(* A session that has ended leaves no transaction to the connection's next *)
(* user, with SQL Server's pool too.                                       *)
THEOREM EndedIsClean == Spec => []EndedHoldsNoTx
<1>1. SessionInv => EndedHoldsNoTx
  BY DEF SessionInv, EndedHoldsNoTx
<1>2. QED
  BY <1>1, SessionAlways, PTL
-----------------------------------------------------------------------------
(* The order in which a session answers, and what it keeps of the promise  *)
(* of manual-commit mode: with a server that does only what it is told     *)
(* (Quirks = {}) the session implements ManualCommit.                      *)

(* Jobs 1..n are answered (a), in hand (c, if working) or in the channel   *)
(* q, in this order.                                                       *)
Answered(a, j) == a[j] # "none"
IsJob(command) == command.op # "Close"

Ordered(q, n, a, working, c) ==
    /\ \A i, k \in 1..Len(q) :
          IsJob(q[i]) /\ IsJob(q[k]) /\ i < k => q[i].job < q[k].job
    /\ \A i \in 1..Len(q) : IsJob(q[i]) => q[i].job \in 1..n
    /\ working => /\ c \in 1..n
                  /\ \A i \in 1..Len(q) : IsJob(q[i]) => c < q[i].job
    /\ \A j \in Jobs : Answered(a, j) =>
          /\ j <= n
          /\ \A i \in 1..Len(q) : IsJob(q[i]) => j < q[i].job
          /\ working => j < c
    /\ \A j \in 1..n :
          \/ Answered(a, j)
          \/ working /\ c = j
          \/ \E i \in 1..Len(q) : IsJob(q[i]) /\ q[i].job = j

(* A new job goes behind all others.                                       *)
LEMMA JobAppended ==
    ASSUME NEW q \in Seq(Command), NEW n \in Nat, n < MaxJobs, NEW a,
           NEW working \in BOOLEAN, NEW c \in Nat,
           Ordered(q, n, a, working, c),
           NEW d \in Command, IsJob(d), d.job = n + 1
    PROVE  Ordered(Append(q, d), n + 1, a, working, c)
<1> DEFINE p == Append(q, d)
<1>1. /\ Len(p) = Len(q) + 1
      /\ \A i \in 1..Len(q) : p[i] = q[i]
      /\ p[Len(q) + 1] = d
      /\ Len(q) \in Nat
  OBVIOUS
<1>2. \A i \in 1..Len(p) : i \in 1..Len(q) \/ i = Len(q) + 1
  BY <1>1
<1> HIDE DEF p
<1>3. \A i \in 1..Len(p) : IsJob(p[i]) => p[i].job \in 1..(n + 1)
  BY <1>1, <1>2 DEF Ordered
<1>4. \A i, k \in 1..Len(p) :
          IsJob(p[i]) /\ IsJob(p[k]) /\ i < k => p[i].job < p[k].job
  BY <1>1, <1>2 DEF Ordered
<1>5. working => /\ c \in 1..(n + 1)
                 /\ \A i \in 1..Len(p) : IsJob(p[i]) => c < p[i].job
  BY <1>1, <1>2 DEF Ordered
<1>6. \A j \in Jobs : Answered(a, j) =>
          /\ j <= n + 1
          /\ \A i \in 1..Len(p) : IsJob(p[i]) => j < p[i].job
          /\ working => j < c
  BY <1>1, <1>2 DEF Ordered, Jobs
<1>7. ASSUME NEW j \in 1..(n + 1)
      PROVE  \/ Answered(a, j)
             \/ working /\ c = j
             \/ \E i \in 1..Len(p) : IsJob(p[i]) /\ p[i].job = j
  <2>1. CASE j \in 1..n
    BY <2>1, <1>1 DEF Ordered
  <2>2. CASE j = n + 1
    BY <2>2, <1>1
  <2>3. QED
    BY <2>1, <2>2
<1>8. QED
  BY <1>3, <1>4, <1>5, <1>6, <1>7 DEF Ordered, p

(* Close carries no job.                                                   *)
LEMMA CloseAppended ==
    ASSUME NEW q \in Seq(Command), NEW n \in Nat, NEW a,
           NEW working \in BOOLEAN, NEW c \in Nat,
           Ordered(q, n, a, working, c)
    PROVE  Ordered(Append(q, Close), n, a, working, c)
<1> DEFINE p == Append(q, Close)
<1>1. /\ Len(p) = Len(q) + 1
      /\ \A i \in 1..Len(q) : p[i] = q[i]
      /\ p[Len(q) + 1] = Close
      /\ Len(q) \in Nat
  BY CloseIsCommand
<1>2. \A i \in 1..Len(p) : i \in 1..Len(q) \/ i = Len(q) + 1
  BY <1>1
<1>3. ~IsJob(Close)
  BY DEF IsJob, Close
<1> HIDE DEF p
<1>4. \A i \in 1..Len(p) : IsJob(p[i]) => i \in 1..Len(q) /\ p[i] = q[i]
  BY <1>1, <1>2, <1>3
<1>5. \A i \in 1..Len(q) : i \in 1..Len(p) /\ p[i] = q[i]
  BY <1>1
<1>6. \A j \in 1..n :
          \/ Answered(a, j)
          \/ working /\ c = j
          \/ \E i \in 1..Len(p) : IsJob(p[i]) /\ p[i].job = j
  BY <1>5 DEF Ordered
<1>7. \A i, k \in 1..Len(p) :
          IsJob(p[i]) /\ IsJob(p[k]) /\ i < k => p[i].job < p[k].job
  BY <1>4 DEF Ordered
<1>8. QED
  BY <1>4, <1>6, <1>7 DEF Ordered, p

(* The first command is taken.                                             *)
LEMMA JobTaken ==
    ASSUME NEW q \in Seq(Command), q # <<>>, NEW n \in Nat, NEW a, NEW c,
           Ordered(q, n, a, FALSE, c)
    PROVE  Ordered(Tail(q), n, a, IsJob(Head(q)), Head(q).job)
<1> DEFINE p == Tail(q)
<1>1. /\ Len(q) \in Nat /\ Len(q) >= 1
      /\ Len(p) = Len(q) - 1
      /\ Head(q) = q[1]
      /\ \A i \in 1..Len(p) : p[i] = q[i + 1] /\ i + 1 \in 1..Len(q)
  OBVIOUS
<1>2. \A i \in 1..Len(q) : i = 1 \/ (i - 1 \in 1..Len(p) /\ p[i - 1] = q[i])
  BY <1>1
<1> HIDE DEF p
<1>3. 1 \in 1..Len(q)
  BY <1>1
<1>4. \A i, k \in 1..Len(p) :
          IsJob(p[i]) /\ IsJob(p[k]) /\ i < k => p[i].job < p[k].job
  <2> SUFFICES ASSUME NEW i \in 1..Len(p), NEW k \in 1..Len(p),
                      IsJob(p[i]), IsJob(p[k]), i < k
               PROVE  p[i].job < p[k].job
    OBVIOUS
  <2>1. /\ p[i] = q[i + 1] /\ p[k] = q[k + 1]
        /\ i + 1 \in 1..Len(q) /\ k + 1 \in 1..Len(q) /\ i + 1 < k + 1
    BY <1>1
  <2>2. QED
    BY <2>1, Zenon DEF Ordered
<1>5. \A i \in 1..Len(p) : IsJob(p[i]) => p[i].job \in 1..n
  BY <1>1 DEF Ordered
<1>6. IsJob(q[1]) => /\ q[1].job \in 1..n
                     /\ \A i \in 1..Len(p) : IsJob(p[i]) => q[1].job < p[i].job
  BY <1>1, <1>3 DEF Ordered
<1>7. \A j \in Jobs : Answered(a, j) =>
          /\ j <= n
          /\ \A i \in 1..Len(p) : IsJob(p[i]) => j < p[i].job
          /\ IsJob(q[1]) => j < q[1].job
  BY <1>1, <1>3 DEF Ordered
<1>8. ASSUME NEW j \in 1..n
      PROVE  \/ Answered(a, j)
             \/ IsJob(q[1]) /\ q[1].job = j
             \/ \E i \in 1..Len(p) : IsJob(p[i]) /\ p[i].job = j
  BY <1>2 DEF Ordered
<1>9. QED
  BY <1>1, <1>4, <1>5, <1>6, <1>7, <1>8 DEF Ordered, p

(* The job in hand is answered.                                            *)
LEMMA JobAnswered ==
    ASSUME NEW q \in Seq(Command), NEW n \in 0..MaxJobs,
           NEW a \in [Jobs -> {"none", "ok", "err"}],
           NEW c \in Jobs, NEW r \in Replies,
           Ordered(q, n, a, TRUE, c)
    PROVE  Ordered(q, n, [a EXCEPT ![c] = r], FALSE, c)
<1> DEFINE b == [a EXCEPT ![c] = r]
<1>1. \A j \in Jobs : Answered(b, j) <=> Answered(a, j) \/ j = c
  BY DEF Answered, Replies
<1>2. \A j \in 1..n : j \in Jobs
  BY ServerAssumption DEF Jobs
<1> HIDE DEF b
<1>3. \A j \in Jobs : Answered(b, j) =>
          /\ j <= n
          /\ \A i \in 1..Len(q) : IsJob(q[i]) => j < q[i].job
  BY <1>1 DEF Ordered
<1>4. \A j \in 1..n :
          \/ Answered(b, j)
          \/ \E i \in 1..Len(q) : IsJob(q[i]) /\ q[i].job = j
  BY <1>1, <1>2 DEF Ordered
<1>5. QED
  BY <1>3, <1>4 DEF Ordered, b

(* What is in hand makes no difference while the task does not work on it. *)
LEMMA IdleHand ==
    ASSUME NEW q, NEW n, NEW a, NEW c, NEW d, Ordered(q, n, a, FALSE, c)
    PROVE  Ordered(q, n, a, FALSE, d)
BY DEF Ordered
-----------------------------------------------------------------------------
Working == pc \notin {"top", "recv"} /\ IsJob(cur)

OrderInv == Ordered(queue, submitted, answer, Working, cur.job)

LEMMA OrderInitially == Init => OrderInv
BY DEF Init, OrderInv, Ordered, Working, Answered

LEMMA TabOrdered ==
    ASSUME TypeInv, OrderInv, SubmitNew \/ CloseHandle
    PROVE  OrderInv'
<1> USE DEF TypeInv, TypeOK
<1>1. UNCHANGED <<answer, Working, cur>> /\ Working \in BOOLEAN
  BY DEF SubmitNew, Submit, CloseHandle, taskVars, Working
<1>2. CASE SubmitNew
  <2> DEFINE j == submitted + 1
  <2>1. PICK c \in {Commit(j), Rollback(j)}
                     \cup {Execute(j, verb) : verb \in Verbs \ {"close"}} :
               Submit(c)
    BY <1>2 DEF SubmitNew
  <2>2. submitted \in Nat /\ submitted < MaxJobs /\ j \in 0..MaxJobs
    BY <2>1, ServerAssumption DEF Submit
  <2>3. c \in Command /\ IsJob(c) /\ c.job = j
    BY <2>1, <2>2 DEF Execute, Commit, Rollback, Command, Verbs, IsJob
  <2>4. queue' = Append(queue, c) /\ submitted' = submitted + 1
    BY <2>1 DEF Submit
  <2>5. cur.job \in Nat
    BY ServerAssumption DEF Command
  <2>6. Ordered(Append(queue, c), submitted + 1, answer, Working, cur.job)
    BY <1>1, <2>2, <2>3, <2>5, JobAppended DEF OrderInv
  <2>7. QED
    BY <1>1, <2>4, <2>6 DEF OrderInv
<1>3. CASE CloseHandle
  <2>1. submitted \in Nat /\ cur.job \in Nat
    BY ServerAssumption DEF Command
  <2>2. Ordered(Append(queue, Close), submitted, answer, Working, cur.job)
    BY <1>1, <2>1, CloseAppended DEF OrderInv
  <2>3. QED
    BY <1>1, <1>3, <2>2 DEF OrderInv, CloseHandle
<1>4. QED
  BY <1>2, <1>3

LEMMA ReceiveOrdered ==
    ASSUME TypeInv, OrderInv, Receive
    PROVE  OrderInv'
<1>1. /\ queue \in Seq(Command) /\ queue # <<>> /\ submitted \in Nat
      /\ Working = FALSE
  BY ServerAssumption DEF TypeInv, TypeOK, Receive, Working
<1>2. Ordered(Tail(queue), submitted, answer, IsJob(Head(queue)),
              Head(queue).job)
  <2>1. Ordered(queue, submitted, answer, FALSE, cur.job)
    BY <1>1, Zenon DEF OrderInv
  <2>2. QED
    BY <1>1, <2>1, JobTaken
<1>3. /\ cur' = Head(queue) /\ queue' = Tail(queue)
      /\ UNCHANGED <<submitted, answer>>
      /\ pc' \notin {"top", "recv"}
  BY DEF Receive, tabVars
<1>4. Working' = IsJob(Head(queue))
  BY <1>3 DEF Working, IsJob
<1>5. QED
  BY <1>2, <1>3, <1>4 DEF OrderInv

LEMMA ReplyOrdered ==
    ASSUME TypeInv, OrderInv, NEW r \in Replies, Reply(r),
           pc \notin {"top", "recv"}, IsJob(cur)
    PROVE  OrderInv'
<1>1. /\ queue \in Seq(Command) /\ submitted \in 0..MaxJobs
      /\ answer \in [Jobs -> {"none", "ok", "err"}] /\ cur.job \in Jobs
      /\ Working = TRUE
  BY DEF TypeInv, TypeOK, CommandInv, WellFormed, IsJob, Working
<1>2. Ordered(queue, submitted, [answer EXCEPT ![cur.job] = r], FALSE, cur.job)
  <2>1. Ordered(queue, submitted, answer, TRUE, cur.job)
    BY <1>1, Zenon DEF OrderInv
  <2>2. QED
    BY <1>1, <2>1, JobAnswered
<1>3. Working' = FALSE /\ UNCHANGED <<queue, submitted, cur>>
      /\ answer' = [answer EXCEPT ![cur.job] = r]
  BY DEF Reply, tabVars, Working
<1>4. QED
  BY <1>2, <1>3, Zenon DEF OrderInv

(* The other steps neither answer nor touch the channel.                   *)
LEMMA IdleOrdered ==
    ASSUME OrderInv, UNCHANGED <<queue, submitted, answer, cur>>,
           pc \in {"top", "recv"} <=> pc' \in {"top", "recv"}
    PROVE  OrderInv'
BY DEF OrderInv, Working, IsJob, Ordered, Answered

LEMMA WorkOrdered ==
    ASSUME TypeInv, OrderInv,
           \/ StoreFlag \/ Acquire \/ Dispatch \/ Leave
           \/ ControlStep \/ StatementStep \/ LoseConnection
           \/ UNCHANGED vars
    PROVE  OrderInv'
<1> USE DEF TypeInv, CommandInv, WellFormed, IsJob, tabVars, Replies
<1>1. CASE StoreFlag \/ Leave \/ LoseConnection \/ UNCHANGED vars
  BY <1>1, IdleOrdered DEF StoreFlag, Leave, LoseConnection, taskVars, vars
<1>2. CASE Acquire
  BY <1>2, ReplyOrdered, IdleOrdered DEF Acquire
<1>3. CASE Dispatch
  <2>1. CASE DispatchBegin \/ DispatchRun \/ DispatchFinish \/ DispatchClose
    BY <2>1, IdleOrdered
       DEF DispatchBegin, DispatchRun, DispatchFinish, DispatchClose, Await
  <2>2. CASE DispatchAnswer
    BY <2>2, ReplyOrdered DEF DispatchAnswer, IsStatement, Plain, Finishes
  <2>3. QED
    BY <1>3, <2>1, <2>2 DEF Dispatch
<1>4. ASSUME NEW r \in Replies, Begin(r)
      PROVE  OrderInv'
  BY <1>4, ReplyOrdered, IdleOrdered DEF Begin
<1>5. ASSUME NEW r \in Replies, Finish(r)
      PROVE  OrderInv'
  BY <1>5, ReplyOrdered DEF Finish
<1>6. ASSUME NEW r \in Replies, Closing(r)
      PROVE  OrderInv'
  BY <1>6, IdleOrdered DEF Closing
<1>7. CASE StatementStep
  BY <1>7, ReplyOrdered DEF StatementStep, Timeout, Run
<1>8. QED
  BY <1>1, <1>2, <1>3, <1>4, <1>5, <1>6, <1>7 DEF ControlStep

LEMMA OrderAlways == Spec => []OrderInv
<1>1. TypeInv /\ OrderInv /\ [Next]_vars => OrderInv'
  BY TabOrdered, ReceiveOrdered, WorkOrdered DEF Next, LocalStep, Ended
<1>2. QED
  BY SessionAlways, OrderInitially, <1>1, PTL DEF Spec

(* Whatever fails, the results of a tab come in the order it asked.        *)
THEOREM AnswersAreOrdered == Spec => []AnswersInOrder
<1>1. TypeInv /\ OrderInv => AnswersInOrder
  <2> SUFFICES ASSUME TypeInv, OrderInv, NEW i \in Jobs, NEW j \in Jobs,
                      i < j, Answered(answer, j)
               PROVE  Answered(answer, i)
    BY DEF AnswersInOrder, Answered
  <2>1. /\ j <= submitted
        /\ \A k \in 1..Len(queue) : IsJob(queue[k]) => j < queue[k].job
        /\ Working => j < cur.job
    BY DEF OrderInv, Ordered
  <2>2. i \in 1..submitted /\ i \in Nat /\ j \in Nat /\ cur.job \in Nat
    BY <2>1, ServerAssumption DEF TypeInv, TypeOK, Jobs, Command
  <2>3. \/ Answered(answer, i)
        \/ Working /\ cur.job = i
        \/ \E k \in 1..Len(queue) : IsJob(queue[k]) /\ queue[k].job = i
    BY <2>2 DEF OrderInv, Ordered
  <2>4. QED
    BY <2>1, <2>2, <2>3
<1>2. QED
  BY <1>1, OrderAlways, SessionAlways, PTL
-----------------------------------------------------------------------------
(* What holds while the server does only what it is told.  tx_open is the  *)
(* transaction on the server until Close ends it, and the statements       *)
(* reported in it are the ones the server holds.                           *)
NoDdl == /\ \A i \in 1..Len(queue) : queue[i].verb # "ddl"
         /\ cur.verb # "ddl"

PlainInv ==
    /\ srv # "gone"
    /\ pc \notin {"leaving", "ended"} => (tx_open <=> InTransaction)
    /\ pc \in {"run", "finish", "closing"} => tx_open
    /\ pc # "leaving" => promised = work
    /\ ~tx_open => promised = {}
    /\ pc = "recv" => (tx_flag <=> tx_open)
    /\ \A j \in durable \cup promised : Answered(answer, j)

LEMMA PlainInitially == Init => NoDdl /\ PlainInv
BY DEF Init, ServerInit, NoDdl, PlainInv, InTransaction, Close

LEMMA DdlNeverSent ==
    ASSUME Quirks = {}, TypeInv, NoDdl, [Next]_vars
    PROVE  NoDdl'
<1> USE DEF NoDdl
<1>1. CASE SubmitNew \/ CloseHandle
  <2>1. PICK c : /\ queue' = Append(queue, c)
                 /\ c.verb # "ddl"
                 /\ UNCHANGED cur
    BY <1>1 DEF SubmitNew, Submit, CloseHandle, Execute, Commit, Rollback,
                Close, Quirk, taskVars
  <2>2. /\ Len(queue') = Len(queue) + 1
        /\ \A i \in 1..Len(queue') :
              queue'[i] = IF i <= Len(queue) THEN queue[i] ELSE c
    BY <2>1 DEF TypeInv, TypeOK
  <2>3. Len(queue) \in Nat
    BY DEF TypeInv, TypeOK
  <2>4. QED
    BY <2>1, <2>2, <2>3
<1>2. CASE Receive
  <2>1. /\ queue \in Seq(Command) /\ queue # <<>>
        /\ cur' = queue[1] /\ queue' = Tail(queue)
    BY <1>2 DEF TypeInv, TypeOK, Receive
  <2>2. \A i \in 1..Len(queue') :
           queue'[i] = queue[i + 1] /\ i + 1 \in 1..Len(queue)
    BY <2>1
  <2>3. 1 \in 1..Len(queue)
    BY <2>1
  <2>4. QED
    BY <2>1, <2>2, <2>3
<1>3. CASE ~(SubmitNew \/ CloseHandle \/ Receive)
  <2>1. UNCHANGED <<queue, cur>>
    BY <1>3 DEF Next, vars, LocalStep, StoreFlag, Acquire, Dispatch,
                DispatchBegin, DispatchRun, DispatchFinish, DispatchAnswer,
                DispatchClose, Await, Leave, ControlStep, Begin, Finish,
                Closing, StatementStep, Timeout, Run, LoseConnection, Ended,
                Reply, taskVars
  <2>2. QED
    BY <2>1
<1>4. QED
  BY <1>1, <1>2, <1>3

(* Everything the steps are proved from.                                   *)
AllInv == TypeInv /\ SessionInv /\ OrderInv /\ NoDdl /\ PlainInv

(* A job in hand has not been answered, so nothing it did is kept.         *)
LEMMA InHandIsNew ==
    ASSUME AllInv, pc = "run"
    PROVE  cur.job \in Jobs /\ cur.job \notin durable \cup promised
<1>1. Working /\ cur.job \in Jobs
  BY DEF AllInv, TypeInv, CommandInv, WellFormed, Working, IsJob
<1>2. \A j \in Jobs : Answered(answer, j) => j < cur.job
  BY <1>1 DEF AllInv, OrderInv, Ordered
<1>3. ~Answered(answer, cur.job)
  BY <1>1, <1>2, ServerAssumption DEF Jobs
<1>4. QED
  BY <1>1, <1>3 DEF AllInv, PlainInv
(* A step of the session is a step of ManualCommit, or changes nothing     *)
(* the user was promised.                                                  *)
Keeps == PlainInv' /\ [Promise!Next]_(Promise!vars)

LEMMA LocalPromise ==
    ASSUME AllInv,
           \/ SubmitNew \/ CloseHandle \/ UNCHANGED vars
           \/ StoreFlag \/ Receive \/ Acquire \/ Dispatch
    PROVE  Keeps
<1> USE DEF AllInv, PlainInv, InTransaction, serverVars, taskVars, tabVars,
            Keeps, Promise!vars
<1>1. CASE SubmitNew \/ CloseHandle \/ UNCHANGED vars
  BY <1>1 DEF SubmitNew, Submit, CloseHandle, vars, Answered
<1>2. CASE StoreFlag \/ Receive
  BY <1>2 DEF StoreFlag, Receive, Answered
<1>3. CASE Acquire
  <2>1. \A j \in Jobs : Answered(answer, j) => Answered(answer, j)'
    BY <1>3 DEF Acquire, Reply, Answered, TypeInv, TypeOK
  <2>2. /\ UNCHANGED <<serverVars, tx_open, promised>>
        /\ pc = "acquire" /\ pc' \in {"dispatch", "top"}
    BY <1>3 DEF Acquire, Reply
  <2>3. QED
    BY <2>1, <2>2 DEF TypeInv, TypeOK, ServerTypeOK
<1>4. CASE Dispatch
  <2>1. CASE DispatchBegin \/ DispatchRun \/ DispatchFinish
    BY <2>1 DEF DispatchBegin, BeginNeeded, DispatchRun, DispatchFinish,
                Await, Answered
  <2>2. CASE DispatchAnswer
    <3>1. PICK r \in Replies : Reply(r)
      BY <2>2 DEF DispatchAnswer, Replies
    <3>2. /\ UNCHANGED <<serverVars, conn, promised>>
          /\ pc = "dispatch"
          /\ (tx_open' <=> tx_open)
      BY <2>2 DEF DispatchAnswer, SessionInv
    <3>3. \A j \in Jobs : Answered(answer, j) => Answered(answer, j)'
      BY <3>1 DEF Reply, Answered, Replies, TypeInv, TypeOK
    <3>4. QED
      BY <3>1, <3>2, <3>3 DEF Reply, TypeInv, TypeOK, ServerTypeOK
  <2>3. CASE DispatchClose
    BY <2>3 DEF DispatchClose, Await, Answered, SessionInv
  <2>4. QED
    BY <1>4, <2>1, <2>2, <2>3 DEF Dispatch
<1>5. QED
  BY <1>1, <1>2, <1>3, <1>4

LEMMA BeginPromise ==
    ASSUME AllInv, NEW r \in Replies, Begin(r)
    PROVE  Keeps
<1> USE DEF AllInv, InTransaction, SessionInv, Begin
<1>1. /\ ServerBegin(r)
      /\ ~tx_open /\ srv = "none" /\ promised = {} /\ work = {}
      /\ UNCHANGED promised
      /\ tx_open' = (r = "ok")
      /\ pc' \in {"run", "top"}
  BY DEF PlainInv, Reply, TypeInv, TypeOK, ServerTypeOK
<1>2. UNCHANGED <<work, durable>> /\ srv' = IF r = "ok" THEN "open" ELSE "none"
  BY <1>1 DEF ServerBegin, serverVars, Unmoved, Replies
<1>3. \A j \in Jobs : Answered(answer, j) => Answered(answer, j)'
  BY DEF Reply, Answered, Replies, TypeInv, TypeOK
<1>4. PlainInv'
  <2>1. pc' = "run" => r = "ok"
    BY DEF Reply
  <2>2. QED
    BY <1>1, <1>2, <1>3, <2>1
       DEF PlainInv, TypeInv, TypeOK, ServerTypeOK, Replies
<1>5. [Promise!Next]_(Promise!vars)
  BY <1>1, <1>2 DEF Promise!Next, Promise!Begin, Promise!vars, Replies
<1>6. QED
  BY <1>4, <1>5 DEF Keeps

LEMMA RunPromise ==
    ASSUME Quirks = {}, AllInv, NEW r \in Replies, Run(r)
    PROVE  Keeps
<1> USE DEF AllInv, InTransaction, SessionInv, Run
<1>1. /\ cur.job \in Jobs /\ cur.job \notin durable
      /\ tx_open /\ srv = "open" /\ promised = work
      /\ cur.verb # "ddl"
      /\ \A j \in durable \cup promised : j \in Jobs /\ Answered(answer, j)
  BY InHandIsNew
     DEF PlainInv, NoDdl, TypeInv, CommandInv, TypeOK, ServerTypeOK
<1>2. /\ UNCHANGED durable
      /\ work' = IF r = "ok" THEN work \cup {cur.job} ELSE work
      /\ srv' \in {"open", "aborted"}
  BY <1>1 DEF ServerRun, CommitsImplicitly, Quirk, Replies
<1>3. /\ UNCHANGED tx_open
      /\ promised' = IF r = "ok" THEN promised \cup {cur.job} ELSE promised
      /\ pc = "run" /\ pc' = "top"
      /\ answer' = [answer EXCEPT ![cur.job] = r]
  BY DEF Reply
<1>4. \A j \in Jobs : Answered(answer, j) \/ j = cur.job => Answered(answer, j)'
  BY <1>1, <1>3 DEF Answered, Replies, TypeInv, TypeOK
<1>5. PlainInv'
  <2>1. \A j \in durable' \cup promised' : Answered(answer, j)'
    BY <1>1, <1>2, <1>3, <1>4
  <2>2. promised' = work' /\ tx_open'
    BY <1>1, <1>2, <1>3
  <2>3. QED
    BY <1>2, <1>3, <2>1, <2>2 DEF PlainInv
<1>6. [Promise!Next]_(Promise!vars)
  <2>1. CASE r = "ok"
    <3>1. Promise!Run(cur.job)
      BY <2>1, <1>1, <1>2, <1>3 DEF Promise!Run
    <3>2. QED
      BY <3>1, <1>1 DEF Promise!Next
  <2>2. CASE r # "ok"
    BY <2>2, <1>2, <1>3 DEF Promise!vars
  <2>3. QED
    BY <2>1, <2>2
<1>7. QED
  BY <1>5, <1>6 DEF Keeps

(* A statement timed out: the transaction is rolled back with its          *)
(* connection.                                                             *)
LEMMA TimeoutPromise ==
    ASSUME AllInv, Timeout
    PROVE  Keeps
<1> USE DEF AllInv, InTransaction, SessionInv, Timeout
<1>1. /\ cur.job \in Jobs
      /\ tx_open /\ srv = "open" /\ cur.verb # "ddl"
      /\ \A j \in durable : j \in Jobs /\ Answered(answer, j)
  BY InHandIsNew
     DEF PlainInv, NoDdl, TypeInv, CommandInv, TypeOK, ServerTypeOK
<1>2. UNCHANGED durable /\ work' = {} /\ srv' = "none"
  BY <1>1 DEF ServerDiscard, CommitsImplicitly, Ends
<1>3. /\ tx_open' = FALSE /\ promised' = {}
      /\ pc = "run" /\ pc' = "top"
      /\ answer' = [answer EXCEPT ![cur.job] = "err"]
  BY DEF Reply
<1>4. \A j \in Jobs : Answered(answer, j) => Answered(answer, j)'
  BY <1>1, <1>3 DEF Answered, TypeInv, TypeOK
<1>5. PlainInv'
  BY <1>1, <1>2, <1>3, <1>4 DEF PlainInv
<1>6. Promise!Rollback
  BY <1>1, <1>2, <1>3 DEF Promise!Rollback, Promise!Finish
<1>7. QED
  BY <1>5, <1>6 DEF Keeps, Promise!Next

LEMMA FinishPromise ==
    ASSUME Quirks = {}, AllInv, NEW r \in Replies, Finish(r)
    PROVE  Keeps
<1> USE DEF AllInv, InTransaction, SessionInv, Finish, KeepWork, DropWork, Ends
<1>1. /\ tx_open /\ srv \in {"open", "aborted"} /\ promised = work
      /\ cur.job \in Jobs
      /\ \A j \in durable \cup promised : j \in Jobs /\ Answered(answer, j)
  BY DEF PlainInv, TypeInv, CommandInv, WellFormed, TypeOK, ServerTypeOK
<1>2. /\ r = "ok" /\ srv' = "none" /\ work' = {}
      /\ durable' \in {durable, durable \cup work}
  BY <1>1 DEF ServerCommit, ServerRollback, NothingToFinish, Quirk
<1>3. /\ tx_open' = FALSE /\ promised' = {}
      /\ pc = "finish" /\ pc' = "top"
      /\ answer' = [answer EXCEPT ![cur.job] = r]
  BY <1>2 DEF Reply
<1>4. \A j \in Jobs : Answered(answer, j) => Answered(answer, j)'
  BY <1>1, <1>2, <1>3 DEF Answered, TypeInv, TypeOK
<1>5. PlainInv'
  BY <1>1, <1>2, <1>3, <1>4 DEF PlainInv
<1>6. Promise!Commit \/ Promise!Rollback
  BY <1>1, <1>2, <1>3 DEF Promise!Commit, Promise!Rollback, Promise!Finish
<1>7. QED
  BY <1>5, <1>6 DEF Keeps, Promise!Next

(* Close rolls back; the user sees it when the task has returned.          *)
LEMMA EndPromise ==
    ASSUME AllInv,
           \/ Leave \/ \E r \in Replies : Closing(r)
    PROVE  Keeps
<1> USE DEF AllInv, InTransaction, SessionInv, Keeps, Promise!vars
<1>1. CASE Leave
  <2>1. ~InTransaction /\ srv = "none" /\ work = {} /\ pc = "leaving"
    BY <1>1 DEF Leave, PlainInv, TypeInv, TypeOK, ServerTypeOK
  <2>2. /\ UNCHANGED <<durable, tx_open, answer>>
        /\ work' = {} /\ srv' = "none"
        /\ promised' = {} /\ pc' = "ended"
    BY <1>1, <2>1
       DEF Leave, ServerRelease, Unmoved, serverVars, DropWork, Ends
  <2>3. PlainInv'
    BY <2>1, <2>2 DEF PlainInv, Answered
  <2>4. CASE tx_open
    <3>1. Promise!Rollback
      BY <2>1, <2>2, <2>4 DEF Promise!Rollback, Promise!Finish
    <3>2. QED
      BY <2>3, <3>1 DEF Promise!Next
  <2>5. CASE ~tx_open
    BY <2>1, <2>2, <2>3, <2>5 DEF PlainInv
  <2>6. QED
    BY <2>4, <2>5
<1>2. ASSUME NEW r \in Replies, Closing(r)
      PROVE  Keeps
  BY <1>2 DEF Closing, ServerRollback, NothingToFinish, DropWork, Ends,
              PlainInv, Answered, Unmoved, serverVars
<1>3. QED
  BY <1>1, <1>2

LEMMA NextPromise ==
    ASSUME Quirks = {}, AllInv, [Next]_vars
    PROVE  Keeps
<1>1. ~LoseConnection
  BY DEF LoseConnection, ServerLoses, Quirk
<1>2. QED
  BY <1>1, LocalPromise, BeginPromise, RunPromise, TimeoutPromise,
     FinishPromise, EndPromise
     DEF Next, LocalStep, ControlStep, StatementStep, Ended

LEMMA PlainAlways ==
    ASSUME Quirks = {}
    PROVE  Spec => []AllInv /\ [][Keeps]_vars
<1>1. AllInv /\ [Next]_vars => (NoDdl /\ PlainInv)'
  BY DdlNeverSent, NextPromise DEF AllInv, Keeps
<1>2. AllInv /\ [Next]_vars => [Keeps]_vars
  BY NextPromise
<1>3. QED
  BY SessionAlways, OrderAlways, PlainInitially, <1>1, <1>2, PTL
     DEF Spec, AllInv

(* With a server that does only what it is told, the indicator tells the   *)
(* truth whenever the task waits for a command.                            *)
THEOREM FlagIsTrue ==
    ASSUME Quirks = {}
    PROVE  Spec => []FlagTellsTheTruth
<1>1. AllInv => FlagTellsTheTruth
  BY DEF AllInv, PlainInv, FlagTellsTheTruth
<1>2. QED
  BY <1>1, PlainAlways, PTL

(* With such a server the session implements manual-commit mode: what was  *)
(* reported as executed becomes durable all together, by COMMIT alone.     *)
THEOREM PromiseIsKept ==
    ASSUME Quirks = {}
    PROVE  Spec => KeepsThePromise
<1>1. Init => Promise!Init
  BY DEF Init, ServerInit, Promise!Init
<1>2. AllInv /\ [Next]_vars => [Promise!Next]_(Promise!vars)
  BY NextPromise DEF Keeps
<1>3. QED
  BY <1>1, <1>2, PlainAlways, PTL DEF Spec, KeepsThePromise, Promise!Spec
=============================================================================
