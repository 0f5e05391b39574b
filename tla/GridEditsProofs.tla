--------------------------- MODULE GridEditsProofs ---------------------------
(***************************************************************************)
(* What holds of the grid and of the transactions of its saves for every   *)
(* table, every number of saves and every edit.  Six theorems, each on     *)
(* the invariants before it:                                               *)
(*  - PoolStaysClean: no connection goes back to the pool inside a         *)
(*    transaction, but that of an SQL Server save that is aborted;         *)
(*  - SavesAreAtomic: the table changes by whole transactions only, the    *)
(*    refinement of AtomicWrite;                                           *)
(*  - UndoLeadsBack: the history of the grid is one chain of states        *)
(*    (Chain, Known), each one step from the next;                         *)
(*  - PositionsHold: every state of the chain has its operations at the    *)
(*    rows they were made on (Homely);                                     *)
(*  - QueueExplains: every state of the chain explains the rows loaded     *)
(*    (Explains);                                                          *)
(*  - SavesAreShown: the queue of every state of the chain tells the truth *)
(*    of its rows (Honest), so that the table agrees with the grid after   *)
(*    every statement of a save (Agrees, SaveGood).                        *)
(* The last three follow one pattern: a set of states that no edit leads   *)
(* out of (Stable) holds every state that undo and redo can lead back to.  *)
(***************************************************************************)
EXTENDS GridEdits, TLAPS, WellFoundedInduction, SequenceTheorems, FiniteSetTheorems

Fields == {"phase", "driver", "stmts", "ran", "work", "committed", "saved",
           "conn", "tx"}

(* A connection is held just while the job is in its transaction, which    *)
(* outlives the job only when that is aborted; the server commits at its   *)
(* end, and only then "saved" is answered.                                 *)
Clean(job) ==
    /\ DOMAIN job = Fields
    /\ job.committed \in BOOLEAN /\ job.saved \in BOOLEAN
    /\ job.conn = "held" <=> job.phase = "open"
    /\ job.tx = (job.phase = "open" \/ job.conn = "dropped")
    /\ job.conn = "dropped" => job.phase = "done"
    /\ job.committed => job.phase \in {"ended", "done"}
    /\ job.saved => job.committed

JobsClean == /\ DOMAIN jobs = Saves
             /\ jobs = [j \in Saves |-> jobs[j]]
             /\ \A j \in Saves : Clean(jobs[j])

(* The rows an open transaction sees are those of its first statements on  *)
(* the table, which nobody else changes meanwhile: one is open at a time.  *)
WorkInv ==
    /\ \A i, j \in Saves : jobs[i].phase = "open" /\ jobs[j].phase = "open" => i = j
    /\ \A j \in Saves :
          /\ jobs[j].ran \in Nat
          /\ jobs[j].phase = "none" <=> jobs[j].stmts = <<>>
          /\ jobs[j].phase \in {"none", "spawned"} => jobs[j].ran = 0
          /\ jobs[j].phase = "open" /\ Len(jobs[j].stmts) \in Nat =>
                /\ jobs[j].ran <= Len(jobs[j].stmts)
                /\ jobs[j].work = AfterFirst(table, jobs[j].stmts, keyed, jobs[j].ran)
-----------------------------------------------------------------------------
(* A step that gives one save a clean job leaves all of them clean.        *)
LEMMA SetClean ==
    ASSUME JobsClean, NEW j \in Saves, NEW job, Clean(job), Set(j, job)
    PROVE  JobsClean'
<1>1. jobs' = [jobs EXCEPT ![j] = job]
  BY DEF Set
<1>2. jobs' = [i \in Saves |-> IF i = j THEN job ELSE jobs[i]]
  BY <1>1 DEF JobsClean
<1>3. \A i \in Saves : Clean(jobs'[i])
  BY <1>2 DEF JobsClean
<1>4. QED
  BY <1>2, <1>3 DEF JobsClean, Clean

(* The ways a job leaves its transaction.                                  *)
LEMMA LeavingIsClean ==
    ASSUME NEW job, DOMAIN job = Fields, job.committed = FALSE, job.saved = FALSE
    PROVE  /\ Clean(Returned(job))
           /\ Clean(Detached(job))
           /\ Clean(LetGo(job))
           /\ Clean(Closed(Returned(job)))
           /\ job.tx = TRUE => Clean(Dropped(job))
<1>1. Clean(Returned(job))
  BY DEF Clean, Returned, Over, Fields
<1>2. Clean(Detached(job))
  BY DEF Clean, Detached, Over, Fields
<1>3. Clean(LetGo(job))
  BY <1>1, <1>2 DEF LetGo
<1>4. Clean(Closed(Returned(job)))
  BY <1>1 DEF Clean, Closed, Returned, Over, Fields
<1>5. ASSUME job.tx = TRUE PROVE Clean(Dropped(job))
  BY <1>5 DEF Clean, Dropped, Over, Fields
<1>6. QED
  BY <1>1, <1>2, <1>3, <1>4, <1>5

(* A job in its transaction, or before it, has committed nothing.          *)
LEMMA UncommittedBefore ==
    ASSUME NEW job, Clean(job), job.phase \in {"none", "spawned", "open"}
    PROVE  job.committed = FALSE /\ job.saved = FALSE /\ DOMAIN job = Fields
BY DEF Clean

(* The job is spawned.                                                     *)
LEMMA SpawnClean ==
    ASSUME JobsClean, NEW j \in Saves, NEW stmts, Spawn(j, stmts)
    PROVE  JobsClean'
<1>1. PICK driver \in {"sqlx", "mssql"} :
          Set(j, [NoJob EXCEPT !.phase = "spawned", !.stmts = stmts,
                               !.driver = driver])
  BY DEF Spawn
<1>2. Clean([NoJob EXCEPT !.phase = "spawned", !.stmts = stmts,
                          !.driver = driver])
  BY DEF Clean, NoJob, Fields
<1>3. QED
  BY <1>1, <1>2, SetClean

(* What an aborted save left open comes to its end.                        *)
Lasts(job, left) ==
    /\ left.phase = "done" /\ left.ran = job.ran
    /\ left.stmts = job.stmts /\ left.work = job.work
    /\ left.committed = job.committed /\ left.saved = job.saved

LEMMA LeftoverFacts ==
    ASSUME JobsClean, NEW j \in Saves, LeftoverEnds(j)
    PROVE  /\ jobs[j].phase = "done" /\ table' = table
           /\ \E left : Set(j, left) /\ Clean(left) /\ Lasts(jobs[j], left)
<1>1. Clean(jobs[j]) /\ jobs[j].conn = "dropped" /\ table' = table
  BY DEF JobsClean, LeftoverEnds
<1> DEFINE left == [jobs[j] EXCEPT !.conn = "none", !.tx = FALSE]
<1>2. Set(j, left)
  BY DEF LeftoverEnds
<1>3. jobs[j].phase = "done" /\ DOMAIN jobs[j] = Fields
  BY <1>1 DEF Clean
<1>4. /\ left.conn = "none" /\ left.tx = FALSE /\ DOMAIN left = Fields
      /\ Lasts(jobs[j], left)
  BY <1>3 DEF Lasts, Fields
<1>5. Clean(left)
  <2>1. /\ jobs[j].committed \in BOOLEAN /\ jobs[j].saved \in BOOLEAN
        /\ jobs[j].saved => jobs[j].committed
    BY <1>1 DEF Clean
  <2> HIDE DEF left
  <2>2. QED
    BY <1>4, <2>1 DEF Clean, Lasts
<1> HIDE DEF left
<1>6. QED
  BY <1>1, <1>2, <1>3, <1>4, <1>5

(* The steps of the transaction.                                           *)
LEMMA StepClean ==
    ASSUME JobsClean, NEW j \in Saves, SaveStep(j)
    PROVE  JobsClean'
<1>1. Clean(jobs[j])
  BY DEF JobsClean
<1>2. CASE Begin(j)
  <2>1. /\ jobs[j].committed = FALSE /\ jobs[j].saved = FALSE
        /\ DOMAIN jobs[j] = Fields
        /\ Set(j, [jobs[j] EXCEPT !.phase = "open", !.work = table,
                                  !.conn = "held", !.tx = TRUE])
    BY <1>1, <1>2, UncommittedBefore DEF Begin
  <2>2. Clean([jobs[j] EXCEPT !.phase = "open", !.work = table,
                              !.conn = "held", !.tx = TRUE])
    BY <2>1 DEF Clean, Fields
  <2>3. QED
    BY <2>1, <2>2, SetClean
<1>3. CASE Run(j)
  <2>1. PICK rows : /\ jobs[j].phase = "open"
                    /\ Set(j, [jobs[j] EXCEPT !.work = rows, !.ran = @ + 1])
    BY <1>3 DEF Run, Running
  <2>2. Clean([jobs[j] EXCEPT !.work = rows, !.ran = @ + 1])
    BY <1>1, <2>1 DEF Clean, Fields
  <2>3. QED
    BY <2>1, <2>2, SetClean
<1>4. CASE BeginFails(j) \/ Refuse(j) \/ TimeOut(j)
  <2>1. /\ jobs[j].committed = FALSE /\ jobs[j].saved = FALSE
        /\ DOMAIN jobs[j] = Fields
    BY <1>1, <1>4, UncommittedBefore DEF BeginFails, Refuse, Running, TimeOut
  <2>2. \/ Set(j, Returned(jobs[j]))
        \/ Set(j, Detached(jobs[j]))
        \/ Set(j, LetGo(jobs[j]))
    BY <1>4 DEF BeginFails, Refuse, TimeOut
  <2>3. QED
    BY <2>1, <2>2, LeavingIsClean, SetClean
<1>5. CASE Commit(j)
  <2>1. /\ DOMAIN jobs[j] = Fields
        /\ Set(j, [Returned(jobs[j]) EXCEPT !.committed = TRUE, !.saved = TRUE])
    BY <1>1, <1>5 DEF Commit, Committed, Clean
  <2>2. Clean([Returned(jobs[j]) EXCEPT !.committed = TRUE, !.saved = TRUE])
    BY <2>1 DEF Clean, Returned, Over, Fields
  <2>3. QED
    BY <2>1, <2>2, SetClean
<1>6. CASE CommitFails(j)
  <2>1. PICK written \in BOOLEAN :
            Set(j, LetGo([jobs[j] EXCEPT !.committed = written]))
    BY <1>6 DEF CommitFails
  <2> DEFINE job == [jobs[j] EXCEPT !.committed = written]
  <2>2. /\ DOMAIN job = Fields /\ job.saved = FALSE
        /\ job.committed \in BOOLEAN
    BY <1>1, <1>6, UncommittedBefore DEF CommitFails, AtCommit, Fields
  <2> HIDE DEF job
  <2>3. Clean(Returned(job)) /\ Clean(Detached(job))
    BY <2>2 DEF Clean, Returned, Detached, Over, Fields
  <2>4. Clean(LetGo(job))
    BY <2>3 DEF LetGo
  <2>5. QED
    BY <2>1, <2>4, SetClean DEF job
<1>7. CASE LeftoverEnds(j)
  BY <1>7, LeftoverFacts, SetClean
<1>8. QED
  BY <1>2, <1>3, <1>4, <1>5, <1>6, <1>7 DEF SaveStep

(* The end of a job: its message is handled, or the user cancels it.       *)
LEMMA EndClean ==
    ASSUME JobsClean, NEW j \in Saves,
           Cancel(j) \/ (jobs[j].phase = "ended" /\ Handled(j))
    PROVE  JobsClean'
<1>1. Clean(jobs[j])
  BY DEF JobsClean
<1>2. ASSUME jobs[j].phase = "ended"
      PROVE  Clean(Closed(jobs[j]))
  BY <1>1, <1>2 DEF Clean, Closed, Fields
<1>3. CASE Cancel(j) /\ jobs[j].phase # "ended"
  <2>1. \/ Set(j, Closed(Returned(jobs[j])))
        \/ jobs[j].phase = "open" /\ Set(j, Dropped(jobs[j]))
    BY <1>3 DEF Cancel
  <2>2. jobs[j].phase \in {"spawned", "open"}
    BY <1>3 DEF Cancel, InFlight
  <2>3. /\ jobs[j].committed = FALSE /\ jobs[j].saved = FALSE
        /\ DOMAIN jobs[j] = Fields
    BY <1>1, <2>2, UncommittedBefore
  <2>4. jobs[j].phase = "open" => jobs[j].tx = TRUE
    BY <1>1 DEF Clean
  <2>5. QED
    BY <2>1, <2>3, <2>4, LeavingIsClean, SetClean
<1>4. CASE jobs[j].phase = "ended"
  <2>1. Set(j, Closed(jobs[j]))
    BY <1>4 DEF Cancel, Handled
  <2>2. QED
    BY <1>2, <1>4, <2>1, SetClean
<1>5. QED
  BY <1>3, <1>4

(* What the user does to the grid, and a reload, leave the jobs alone.     *)
LEMMA SheetLeavesJobs ==
    ASSUME \/ StartEdit \/ FinishEdit \/ AddRow \/ DuplicateRow \/ ToggleDelete
           \/ Undo \/ Redo \/ Discard \/ Reload
    PROVE  UNCHANGED saveVars
BY DEF StartEdit, FinishEdit, AddRow, DuplicateRow, ToggleDelete, Undo, Redo,
       Discard, Reload, Edits
-----------------------------------------------------------------------------
LEMMA InitClean == Init => JobsClean
<1> SUFFICES ASSUME Init PROVE JobsClean
  OBVIOUS
<1>1. jobs = [j \in Saves |-> NoJob]
  BY DEF Init, SaveInit
<1>2. Clean(NoJob)
  BY DEF Clean, NoJob, Fields
<1>3. QED
  BY <1>1, <1>2 DEF JobsClean

LEMMA NextClean == JobsClean /\ [Next]_vars => JobsClean'
<1> SUFFICES ASSUME JobsClean, [Next]_vars PROVE JobsClean'
  OBVIOUS
<1>1. ASSUME UNCHANGED saveVars PROVE JobsClean'
  BY <1>1 DEF saveVars, JobsClean
<1>2. CASE \/ StartEdit \/ FinishEdit \/ AddRow \/ DuplicateRow \/ ToggleDelete
           \/ Undo \/ Redo \/ Discard \/ Reload
  BY <1>1, <1>2, SheetLeavesJobs
<1>3. ASSUME NEW j \in Saves, Save(j) PROVE JobsClean'
  <2>1. PICK s \in FinishedSheets : Spawn(j, Statements(s))
    BY <1>3 DEF Save
  <2>2. QED
    BY <2>1, SpawnClean
<1>4. ASSUME NEW j \in Saves, SaveSteps(j) PROVE JobsClean'
  BY <1>4, StepClean DEF SaveSteps
<1>5. ASSUME NEW j \in Saves, CancelSave(j) \/ SaveSucceeded(j) \/ SaveFailed(j)
      PROVE  JobsClean'
  BY <1>5, EndClean DEF CancelSave, SaveSucceeded, SaveFailed
<1>6. CASE UNCHANGED vars
  BY <1>1, <1>6 DEF vars
<1>7. QED
  BY <1>2, <1>3, <1>4, <1>5, <1>6 DEF Next

LEMMA AlwaysClean == Spec => []JobsClean
BY InitClean, NextClean, PTL DEF Spec

(* No connection goes back to the pool inside a transaction, however many  *)
(* saves run at once and whatever fails or runs out of time                *)
(* (run_mssql_transaction and run_sqlx_transaction of connection/atomic.rs)*)
(* but that of an SQL Server save that is aborted in its transaction.      *)
THEOREM PoolStaysClean == Spec => []PoolIsClean
<1>1. JobsClean => PoolIsClean
  BY DEF JobsClean, Clean, PoolIsClean
<1>2. QED
  BY <1>1, AlwaysClean, PTL

-----------------------------------------------------------------------------
(* Induction on n, by the least number for which the claim fails.          *)
LEMMA AllNumbers ==
    ASSUME NEW S \in SUBSET Nat, 0 \in S, \A n \in S : n + 1 \in S
    PROVE  \A n \in Nat : n \in S
<1> DEFINE Fails == Nat \ S
<1>1. SUFFICES ASSUME Fails # {} PROVE FALSE
  OBVIOUS
<1>2. PICK n \in Fails : \A k \in Fails : ~(<<k, n>> \in OpToRel(<, Nat))
  BY <1>1, WFMin, NatLessThanWellFounded
<1>3. \A k \in Fails : ~(<<k, n>> \in OpToRel(<, Nat)) => ~(k < n)
  BY DEF OpToRel
<1>4. \A k \in Fails : ~(k < n)
  BY <1>2, <1>3
<1>5. n \in Nat /\ n # 0
  OBVIOUS
<1>6. n - 1 \in Nat /\ n - 1 < n
  BY <1>5
<1>7. n - 1 \in S
  BY <1>4, <1>6
<1>8. n \in S
  BY <1>5, <1>7
<1>9. QED
  BY <1>8

(* The states a batch goes through, up to its n-th statement.              *)
Through(f, rows, stmts, key, n) ==
    f = [k \in 0..n |-> IF k = 0 THEN rows ELSE After(f[k - 1], stmts[k], key)]

LEMMA BatchRuns ==
    ASSUME NEW rows, NEW stmts, NEW key
    PROVE  \A n \in Nat : \E f : Through(f, rows, stmts, key, n)
<1> DEFINE S == {n \in Nat : \E f : Through(f, rows, stmts, key, n)}
<1>1. 0 \in S
  <2>1. Through([k \in 0..0 |-> rows], rows, stmts, key, 0)
    BY DEF Through
  <2>2. QED
    BY <2>1
<1>2. ASSUME NEW n \in S PROVE n + 1 \in S
  <2>1. n \in Nat
    OBVIOUS
  <2>2. PICK f : Through(f, rows, stmts, key, n)
    OBVIOUS
  <2> DEFINE g == [k \in 0..(n + 1) |->
                      IF k = n + 1 THEN After(f[n], stmts[n + 1], key) ELSE f[k]]
  <2>3. \A k \in 0..n : f[k] = IF k = 0 THEN rows
                               ELSE After(f[k - 1], stmts[k], key)
    BY <2>2 DEF Through
  <2>4. \A k \in 0..n : g[k] = f[k]
    BY <2>1
  <2>5. g[n + 1] = After(g[n], stmts[n + 1], key)
    BY <2>1, <2>4
  <2>6. \A k \in 0..(n + 1) : g[k] = IF k = 0 THEN rows
                                     ELSE After(g[k - 1], stmts[k], key)
    <3> SUFFICES ASSUME NEW k \in 0..(n + 1)
                 PROVE  g[k] = IF k = 0 THEN rows ELSE After(g[k - 1], stmts[k], key)
      OBVIOUS
    <3> HIDE DEF g
    <3>1. CASE k = n + 1
      BY <2>1, <2>5, <3>1
    <3>2. CASE k \in 1..n
      <4>1. k - 1 \in 0..n /\ k \in 0..n
        BY <2>1, <3>2
      <4>2. g[k] = f[k] /\ g[k - 1] = f[k - 1]
        BY <2>4, <4>1
      <4>3. QED
        BY <2>3, <3>2, <4>1, <4>2
    <3>3. CASE k = 0
      BY <2>1, <2>3, <2>4, <3>3
    <3>4. QED
      BY <2>1, <3>1, <3>2, <3>3
  <2>7. Through(g, rows, stmts, key, n + 1)
    <3>1. DOMAIN g = 0..(n + 1) /\ g = [k \in 0..(n + 1) |-> g[k]]
      OBVIOUS
    <3> HIDE DEF g
    <3>2. QED
      BY <2>6, <3>1 DEF Through
  <2>8. QED
    BY <2>1, <2>7
<1>3. QED
  <2> HIDE DEF S
  <2>1. S \in SUBSET Nat
    BY DEF S
  <2>2. \A n \in Nat : n \in S
    BY <1>1, <1>2, <2>1, AllNumbers
  <2>3. QED
    BY <2>2 DEF S

(* AfterFirst runs the statements one by one.                              *)
LEMMA BatchFunction ==
    ASSUME NEW rows, NEW stmts, NEW key, Len(stmts) \in Nat
    PROVE  \E f : /\ Through(f, rows, stmts, key, Len(stmts))
                  /\ \A n : AfterFirst(rows, stmts, key, n) = f[n]
<1> DEFINE N == Len(stmts)
           f == CHOOSE g : g = [k \in 0..N |-> IF k = 0 THEN rows
                                              ELSE After(g[k - 1], stmts[k], key)]
<1>1. \A n : AfterFirst(rows, stmts, key, n) = f[n]
  BY DEF AfterFirst
<1>2. \E g : g = [k \in 0..N |-> IF k = 0 THEN rows
                                 ELSE After(g[k - 1], stmts[k], key)]
  <2>1. N \in Nat
    OBVIOUS
  <2> HIDE DEF N, f
  <2>2. PICK g : Through(g, rows, stmts, key, N)
    BY <2>1, BatchRuns
  <2>3. g = [k \in 0..N |-> IF k = 0 THEN rows
                            ELSE After(g[k - 1], stmts[k], key)]
    BY <2>2 DEF Through
  <2>4. QED
    BY <2>3
<1>3. f = [k \in 0..N |-> IF k = 0 THEN rows ELSE After(f[k - 1], stmts[k], key)]
  <2> HIDE DEF N
  <2>1. QED
    BY <1>2
<1> HIDE DEF f
<1>4. Through(f, rows, stmts, key, Len(stmts))
  BY <1>3 DEF Through
<1>5. QED
  BY <1>1, <1>4

LEMMA BatchStart ==
    ASSUME NEW rows, NEW stmts, NEW key, Len(stmts) \in Nat
    PROVE  AfterFirst(rows, stmts, key, 0) = rows
<1>1. PICK f : /\ Through(f, rows, stmts, key, Len(stmts))
               /\ \A n : AfterFirst(rows, stmts, key, n) = f[n]
  BY BatchFunction
<1>2. f[0] = rows
  BY <1>1 DEF Through
<1>3. QED
  BY <1>1, <1>2

LEMMA BatchNext ==
    ASSUME NEW rows, NEW stmts, NEW key, Len(stmts) \in Nat,
           NEW m \in 0..(Len(stmts) - 1)
    PROVE  AfterFirst(rows, stmts, key, m + 1)
              = After(AfterFirst(rows, stmts, key, m), stmts[m + 1], key)
<1>1. PICK f : /\ Through(f, rows, stmts, key, Len(stmts))
               /\ \A n : AfterFirst(rows, stmts, key, n) = f[n]
  BY BatchFunction
<1>2. m + 1 \in 0..Len(stmts) /\ m + 1 # 0 /\ (m + 1) - 1 = m
  OBVIOUS
<1>3. f[m + 1] = After(f[m], stmts[m + 1], key)
  BY <1>1, <1>2 DEF Through
<1>4. AfterFirst(rows, stmts, key, m + 1) = f[m + 1]
  BY <1>1
<1>5. AfterFirst(rows, stmts, key, m) = f[m]
  BY <1>1
<1>6. QED
  BY <1>3, <1>4, <1>5
-----------------------------------------------------------------------------
(* What saves promise, as the save jobs show it.                           *)
LEMMA InitWork == Init => WorkInv
<1> SUFFICES ASSUME Init PROVE WorkInv
  OBVIOUS
<1>1. jobs = [j \in Saves |-> NoJob]
  BY DEF Init, SaveInit
<1>2. \A j \in Saves : /\ jobs[j].phase = "none"
                       /\ jobs[j].stmts = <<>>
                       /\ jobs[j].ran = 0
  BY <1>1 DEF NoJob
<1>3. QED
  BY <1>2 DEF WorkInv

(* A job that is not in its transaction says nothing of its rows.          *)
LEMMA OutsideWork ==
    ASSUME JobsClean, WorkInv, NEW j \in Saves, NEW job, Set(j, job),
           job.phase # "open", job.phase # "none",
           job.ran \in Nat, job.phase = "spawned" => job.ran = 0,
           job.stmts # <<>>,
           \/ table' = table
           \/ jobs[j].phase = "open"
    PROVE  WorkInv'
<1>1. jobs' = [i \in Saves |-> IF i = j THEN job ELSE jobs[i]] /\ keyed' = keyed
  BY DEF Set, JobsClean
<1>2. \A i \in Saves : jobs'[i].phase = "open" => i # j /\ jobs'[i] = jobs[i]
  BY <1>1
<1>3. \A i \in Saves : jobs'[i].phase = "open" => table' = table
  BY <1>2 DEF WorkInv
<1>4. ASSUME NEW i \in Saves
      PROVE  /\ jobs'[i].ran \in Nat
             /\ jobs'[i].phase = "none" <=> jobs'[i].stmts = <<>>
             /\ jobs'[i].phase \in {"none", "spawned"} => jobs'[i].ran = 0
  BY <1>1 DEF WorkInv
<1>5. ASSUME NEW i \in Saves, jobs'[i].phase = "open", Len(jobs'[i].stmts) \in Nat
      PROVE  /\ jobs'[i].ran <= Len(jobs'[i].stmts)
             /\ jobs'[i].work
                   = AfterFirst(table', jobs'[i].stmts, keyed', jobs'[i].ran)
  BY <1>1, <1>2, <1>3, <1>5 DEF WorkInv
<1>6. \A i, k \in Saves : jobs'[i].phase = "open" /\ jobs'[k].phase = "open" => i = k
  BY <1>2 DEF WorkInv
<1>7. QED
  BY <1>4, <1>5, <1>6 DEF WorkInv

(* What is left of a job that leaves its transaction.                      *)
Left(left, job) ==
    /\ DOMAIN left = Fields
    /\ left.phase = "ended" /\ left.ran = 0
    /\ left.stmts = job.stmts
    /\ left.committed = job.committed /\ left.saved = job.saved

LEMMA LeavingLeaves ==
    ASSUME NEW job, DOMAIN job = Fields
    PROVE  Left(Returned(job), job) /\ Left(Detached(job), job) /\ Left(LetGo(job), job)
<1>1. Left(Returned(job), job)
  BY DEF Left, Returned, Over, Fields
<1>2. Left(Detached(job), job)
  BY DEF Left, Detached, Over, Fields
<1>3. QED
  BY <1>1, <1>2 DEF LetGo

LEMMA ClosingLeaves ==
    ASSUME NEW job, DOMAIN job = Fields
    PROVE  LET end == Closed(job) IN
           /\ end.phase = "done" /\ end.ran = job.ran /\ end.stmts = job.stmts
           /\ end.committed = job.committed /\ end.saved = job.saved
BY DEF Closed, Fields

LEMMA DroppingLeaves ==
    ASSUME NEW job, DOMAIN job = Fields
    PROVE  LET end == Dropped(job) IN
           /\ end.phase = "done" /\ end.ran = 0 /\ end.stmts = job.stmts
           /\ end.committed = job.committed /\ end.saved = job.saved
           /\ end.work = <<>>
BY DEF Dropped, Over, Fields

(* The rows of an open transaction, step by step.                          *)
LEMMA BeginWork == ASSUME JobsClean, WorkInv, NEW j \in Saves, Begin(j) PROVE WorkInv'
<1> DEFINE job == [jobs[j] EXCEPT !.phase = "open", !.work = table,
                                  !.conn = "held", !.tx = TRUE]
<1>1. /\ jobs' = [i \in Saves |-> IF i = j THEN job ELSE jobs[i]]
      /\ keyed' = keyed /\ table' = table
  BY DEF Begin, Set, JobsClean
<1>2. /\ job.phase = "open" /\ job.work = table
      /\ job.stmts = jobs[j].stmts /\ job.ran = jobs[j].ran
  BY DEF JobsClean, Clean, Fields
<1>3. \A i \in Saves : jobs[i].phase # "open"
  BY DEF Begin, JobsClean, Clean
<1>4. job.ran = 0 /\ job.stmts # <<>>
  BY <1>2 DEF Begin, WorkInv
<1>5. Len(job.stmts) \in Nat => AfterFirst(table, job.stmts, keyed, 0) = table
  BY BatchStart
<1> HIDE DEF job
<1>6. ASSUME NEW i \in Saves
      PROVE  /\ jobs'[i].ran \in Nat
             /\ jobs'[i].phase = "none" <=> jobs'[i].stmts = <<>>
             /\ jobs'[i].phase \in {"none", "spawned"} => jobs'[i].ran = 0
  BY <1>1, <1>2, <1>4 DEF WorkInv
<1>7. ASSUME NEW i \in Saves, jobs'[i].phase = "open", Len(jobs'[i].stmts) \in Nat
      PROVE  /\ jobs'[i].ran <= Len(jobs'[i].stmts)
             /\ jobs'[i].work
                   = AfterFirst(table', jobs'[i].stmts, keyed', jobs'[i].ran)
  <2>1. jobs'[i] = job
    BY <1>1, <1>3, <1>7
  <2>2. QED
    BY <1>1, <1>2, <1>4, <1>5, <1>7, <2>1
<1>8. \A i, k \in Saves : jobs'[i].phase = "open" /\ jobs'[k].phase = "open" => i = k
  BY <1>1, <1>3
<1>9. QED
  BY <1>6, <1>7, <1>8 DEF WorkInv

LEMMA RunWork == ASSUME JobsClean, WorkInv, NEW j \in Saves, Run(j) PROVE WorkInv'
<1> DEFINE rows == After(jobs[j].work, NextStatement(j), keyed)
           job == [jobs[j] EXCEPT !.work = rows, !.ran = @ + 1]
<1>1. /\ jobs' = [i \in Saves |-> IF i = j THEN job ELSE jobs[i]]
      /\ keyed' = keyed /\ table' = table
  BY DEF Run, Set, JobsClean
<1>2. /\ job.phase = "open" /\ job.work = rows
      /\ job.stmts = jobs[j].stmts /\ job.ran = jobs[j].ran + 1
  BY DEF Run, Running, JobsClean, Clean, Fields
<1>3. /\ jobs[j].phase = "open" /\ jobs[j].ran < Len(jobs[j].stmts)
      /\ jobs[j].ran \in Nat
      /\ jobs[j].stmts # <<>>
  BY DEF Run, Running, WorkInv
<1>4. ASSUME Len(job.stmts) \in Nat
      PROVE  /\ job.ran <= Len(job.stmts)
             /\ job.work = AfterFirst(table, job.stmts, keyed, job.ran)
  <2> DEFINE n == jobs[j].ran
             stmts == jobs[j].stmts
  <2>1. n \in 0..(Len(stmts) - 1) /\ Len(stmts) \in Nat
    BY <1>2, <1>3, <1>4
  <2>2. jobs[j].work = AfterFirst(table, stmts, keyed, n)
    BY <1>3, <2>1 DEF WorkInv
  <2>3. AfterFirst(table, stmts, keyed, n + 1)
           = After(AfterFirst(table, stmts, keyed, n), stmts[n + 1], keyed)
    <3> HIDE DEF job, rows, n, stmts
    <3>1. QED
      BY ONLY <2>1, BatchNext, Zenon
  <2>4. rows = After(jobs[j].work, stmts[n + 1], keyed)
    BY DEF NextStatement
  <2>5. job.ran = n + 1 /\ job.work = rows /\ job.stmts = stmts
    BY <1>2
  <2> HIDE DEF job, rows, n, stmts
  <2>6. QED
    BY <2>1, <2>2, <2>3, <2>4, <2>5
<1> HIDE DEF job
<1>5. ASSUME NEW i \in Saves
      PROVE  /\ jobs'[i].ran \in Nat
             /\ jobs'[i].phase = "none" <=> jobs'[i].stmts = <<>>
             /\ jobs'[i].phase \in {"none", "spawned"} => jobs'[i].ran = 0
  BY <1>1, <1>2, <1>3 DEF WorkInv
<1>6. ASSUME NEW i \in Saves, jobs'[i].phase = "open", Len(jobs'[i].stmts) \in Nat
      PROVE  /\ jobs'[i].ran <= Len(jobs'[i].stmts)
             /\ jobs'[i].work
                   = AfterFirst(table', jobs'[i].stmts, keyed', jobs'[i].ran)
  <2>1. i = j /\ jobs'[i] = job
    BY <1>1, <1>3, <1>6 DEF WorkInv
  <2>2. QED
    BY <1>1, <1>4, <1>6, <2>1
<1>7. \A i, k \in Saves : jobs'[i].phase = "open" /\ jobs'[k].phase = "open" => i = k
  BY <1>1, <1>3 DEF WorkInv
<1>8. QED
  BY <1>5, <1>6, <1>7 DEF WorkInv

LEMMA LeaveWork ==
    ASSUME JobsClean, WorkInv, NEW j \in Saves,
           \/ BeginFails(j) \/ Refuse(j) \/ TimeOut(j) \/ Commit(j) \/ CommitFails(j)
           \/ LeftoverEnds(j) \/ Cancel(j) \/ (jobs[j].phase = "ended" /\ Handled(j))
    PROVE  WorkInv'
<1>1. DOMAIN jobs[j] = Fields /\ jobs[j].ran \in Nat
  BY DEF JobsClean, Clean, WorkInv
<1>2. jobs[j].phase # "none" /\ jobs[j].stmts # <<>>
  BY LeftoverFacts DEF BeginFails, Refuse, Running, TimeOut, Commit, CommitFails,
                       AtCommit, Cancel, InFlight, WorkInv
<1>3. \E job : /\ Set(j, job)
               /\ job.phase \in {"ended", "done"}
               /\ job.ran \in Nat
               /\ job.stmts = jobs[j].stmts
               /\ table' = table \/ jobs[j].phase = "open"
  <2>1. CASE BeginFails(j) \/ Refuse(j) \/ TimeOut(j)
    BY <1>1, <2>1, LeavingLeaves DEF BeginFails, Refuse, TimeOut, Left
  <2>2. CASE Commit(j)
    <3> DEFINE job == [Returned(jobs[j]) EXCEPT !.committed = TRUE, !.saved = TRUE]
    <3>1. Left(Returned(jobs[j]), jobs[j])
      BY <1>1, LeavingLeaves
    <3>2. job.phase = "ended" /\ job.ran = 0 /\ job.stmts = jobs[j].stmts
      BY <3>1 DEF Left, Fields
    <3>3. Set(j, job) /\ jobs[j].phase = "open"
      BY <2>2 DEF Commit, Committed, AtCommit
    <3> HIDE DEF job
    <3>4. QED
      BY <3>2, <3>3
  <2>3. CASE CommitFails(j)
    <3>1. PICK written \in BOOLEAN :
              Set(j, LetGo([jobs[j] EXCEPT !.committed = written]))
      BY <2>3 DEF CommitFails
    <3> DEFINE job == [jobs[j] EXCEPT !.committed = written]
    <3>2. DOMAIN job = Fields /\ job.stmts = jobs[j].stmts
      BY <1>1 DEF Fields
    <3> HIDE DEF job
    <3>3. Left(LetGo(job), job)
      BY <3>2, LeavingLeaves
    <3>4. Set(j, LetGo(job))
      BY <3>1 DEF job
    <3>5. jobs[j].phase = "open"
      BY <2>3 DEF CommitFails, AtCommit
    <3>6. QED
      BY <3>2, <3>3, <3>4, <3>5 DEF Left
  <2>4. CASE Cancel(j) \/ Handled(j)
    <3>1. /\ \/ Set(j, Closed(jobs[j])) \/ Set(j, Closed(Returned(jobs[j])))
             \/ Set(j, Dropped(jobs[j]))
          /\ table' = table
      BY <2>4 DEF Cancel, Handled
    <3>2. Left(Returned(jobs[j]), jobs[j])
      BY <1>1, LeavingLeaves
    <3>3. /\ Closed(jobs[j]).phase = "done"
          /\ Closed(jobs[j]).ran = jobs[j].ran
          /\ Closed(jobs[j]).stmts = jobs[j].stmts
      BY <1>1, ClosingLeaves
    <3>4. /\ Closed(Returned(jobs[j])).phase = "done"
          /\ Closed(Returned(jobs[j])).ran = 0
          /\ Closed(Returned(jobs[j])).stmts = jobs[j].stmts
      BY <3>2, ClosingLeaves DEF Left
    <3>5. /\ Dropped(jobs[j]).phase = "done"
          /\ Dropped(jobs[j]).ran = 0
          /\ Dropped(jobs[j]).stmts = jobs[j].stmts
      BY <1>1, DroppingLeaves
    <3>6. QED
      BY <1>1, <3>1, <3>3, <3>4, <3>5
  <2>5. CASE LeftoverEnds(j)
    BY <1>1, <2>5, LeftoverFacts DEF Lasts
  <2>6. QED
    BY <2>1, <2>2, <2>3, <2>4, <2>5
<1>4. QED
  BY <1>2, <1>3, OutsideWork

LEMMA NextWork == JobsClean /\ WorkInv /\ [Next]_vars => WorkInv'
<1> SUFFICES ASSUME JobsClean, WorkInv, [Next]_vars PROVE WorkInv'
  OBVIOUS
<1>1. ASSUME UNCHANGED saveVars PROVE WorkInv'
  BY <1>1 DEF saveVars, WorkInv
<1>2. CASE \/ StartEdit \/ FinishEdit \/ AddRow \/ DuplicateRow \/ ToggleDelete
           \/ Undo \/ Redo \/ Discard \/ Reload
  BY <1>1, <1>2, SheetLeavesJobs
<1>3. ASSUME NEW j \in Saves, Save(j) PROVE WorkInv'
  <2>1. PICK s \in FinishedSheets : Spawn(j, Statements(s)) /\ Statements(s) # <<>>
    BY <1>3 DEF Save
  <2> DEFINE stmts == Statements(s)
  <2> HIDE DEF stmts
  <2>2. PICK driver \in {"sqlx", "mssql"} :
            Set(j, [NoJob EXCEPT !.phase = "spawned", !.stmts = stmts,
                                 !.driver = driver])
    BY <2>1 DEF Spawn, stmts
  <2> DEFINE job == [NoJob EXCEPT !.phase = "spawned", !.stmts = stmts,
                                  !.driver = driver]
  <2>3. job.phase = "spawned" /\ job.stmts = stmts /\ job.ran = 0
    BY DEF NoJob
  <2>4. stmts # <<>> /\ table' = table
    BY <2>1 DEF Spawn, stmts
  <2> HIDE DEF job
  <2>5. Set(j, job)
    BY <2>2 DEF job
  <2>6. QED
    BY <2>3, <2>4, <2>5, OutsideWork
<1>4. ASSUME NEW j \in Saves, SaveSteps(j) PROVE WorkInv'
  BY <1>4, BeginWork, RunWork, LeaveWork DEF SaveSteps, SaveStep
<1>5. ASSUME NEW j \in Saves, CancelSave(j) \/ SaveSucceeded(j) \/ SaveFailed(j)
      PROVE  WorkInv'
  <2>1. Cancel(j) \/ (jobs[j].phase = "ended" /\ Handled(j))
    BY <1>5 DEF CancelSave, SaveSucceeded, SaveFailed
  <2>2. QED
    BY ONLY JobsClean, WorkInv, <2>1, LeaveWork, Zenon
<1>6. CASE UNCHANGED vars
  BY <1>1, <1>6 DEF vars
<1>7. QED
  BY <1>2, <1>3, <1>4, <1>5, <1>6 DEF Next
-----------------------------------------------------------------------------
(* The variables of AtomicWrite.                                           *)
Batch    == [j \in Saves |-> jobs[j].stmts]
Done     == {j \in Saves : jobs[j].committed}
Answered == {j \in Saves : jobs[j].saved}
writeVars == <<table, keyed, Batch, Done, Answered>>

(* A step of a job that neither submits nor writes is none of AtomicWrite. *)
LEMMA Unseen ==
    ASSUME JobsClean, NEW j \in Saves, NEW job, Set(j, job), table' = table,
           job.stmts = jobs[j].stmts, job.committed = jobs[j].committed,
           job.saved = jobs[j].saved
    PROVE  UNCHANGED writeVars
<1>1. jobs' = [i \in Saves |-> IF i = j THEN job ELSE jobs[i]] /\ keyed' = keyed
  BY DEF Set, JobsClean
<1>2. \A i \in Saves : /\ jobs'[i].stmts = jobs[i].stmts
                       /\ jobs'[i].committed = jobs[i].committed
                       /\ jobs'[i].saved = jobs[i].saved
  BY <1>1
<1>3. Batch' = Batch
  BY <1>2 DEF Batch
<1>4. Done' = Done /\ Answered' = Answered
  BY <1>2 DEF Done, Answered
<1>5. QED
  BY <1>1, <1>3, <1>4 DEF writeVars

(* A save submitted.                                                       *)
LEMMA SpawnSubmits ==
    ASSUME JobsClean, WorkInv, NEW j \in Saves, NEW stmts, Spawn(j, stmts)
    PROVE  Write!Submit(j)
<1>1. PICK driver \in {"sqlx", "mssql"} :
          Set(j, [NoJob EXCEPT !.phase = "spawned", !.stmts = stmts,
                               !.driver = driver])
  BY DEF Spawn
<1> DEFINE job == [NoJob EXCEPT !.phase = "spawned", !.stmts = stmts,
                                !.driver = driver]
<1>2. job.stmts = stmts /\ ~job.committed /\ ~job.saved
  BY DEF NoJob
<1>3. jobs' = [i \in Saves |-> IF i = j THEN job ELSE jobs[i]] /\ keyed' = keyed
  BY <1>1 DEF Set, JobsClean
<1> HIDE DEF job
<1>4. jobs[j].stmts = <<>> /\ ~jobs[j].committed /\ ~jobs[j].saved
  BY DEF Spawn, JobsClean, Clean, WorkInv
<1>5. Batch[j] = <<>> /\ Batch' = [Batch EXCEPT ![j] = Batch'[j]]
  BY <1>3, <1>4 DEF Batch
<1>6. Done' = Done /\ Answered' = Answered
  BY <1>2, <1>3, <1>4 DEF Done, Answered
<1>7. table' = table
  BY DEF Spawn
<1>8. QED
  BY <1>3, <1>5, <1>6, <1>7 DEF Write!Submit, Batch, Done, Answered

(* A transaction that commits writes all of its statements.                *)
LEMMA CommitApplies ==
    ASSUME JobsClean, WorkInv, NEW j \in Saves, NEW job, Set(j, job), AtCommit(j),
           table' = jobs[j].work, job.stmts = jobs[j].stmts, job.committed,
           job.saved \in BOOLEAN
    PROVE  Write!Apply(j)
<1>1. jobs' = [i \in Saves |-> IF i = j THEN job ELSE jobs[i]] /\ keyed' = keyed
  BY DEF Set, JobsClean
<1>2. /\ jobs[j].phase = "open" /\ jobs[j].ran = Len(jobs[j].stmts)
      /\ jobs[j].ran \in Nat
      /\ jobs[j].stmts # <<>>
      /\ ~jobs[j].committed /\ ~jobs[j].saved
  BY DEF AtCommit, JobsClean, Clean, WorkInv
<1>3. jobs[j].work = AfterAll(table, jobs[j].stmts, keyed)
  BY <1>2 DEF WorkInv, AfterAll
<1>4. Batch' = Batch /\ Batch[j] = jobs[j].stmts
  BY <1>1 DEF Batch
<1>5. j \notin Done /\ Done' = Done \cup {j}
  BY <1>1, <1>2 DEF Done
<1>6. Answered' \in {Answered, Answered \cup {j}}
  <2>1. CASE job.saved
    BY <1>1, <2>1 DEF Answered
  <2>2. CASE ~job.saved
    BY <1>1, <1>2, <2>2 DEF Answered
  <2>3. QED
    BY <2>1, <2>2
<1>7. QED
  BY <1>1, <1>2, <1>3, <1>4, <1>5, <1>6 DEF Write!Apply, Batch, Done, Answered

LEMMA TaskWrites ==
    ASSUME JobsClean, WorkInv, NEW j \in Saves, SaveStep(j)
    PROVE  Write!Apply(j) \/ UNCHANGED writeVars
<1>1. DOMAIN jobs[j] = Fields
  BY DEF JobsClean, Clean
<1>2. CASE Begin(j)
  <2> DEFINE job == [jobs[j] EXCEPT !.phase = "open", !.work = table,
                                    !.conn = "held", !.tx = TRUE]
  <2>1. Set(j, job) /\ table' = table
    BY <1>2 DEF Begin
  <2>2. /\ job.stmts = jobs[j].stmts /\ job.committed = jobs[j].committed
        /\ job.saved = jobs[j].saved
    BY <1>1 DEF Fields
  <2> HIDE DEF job
  <2>3. QED
    BY <2>1, <2>2, Unseen
<1>3. CASE Run(j)
  <2>1. PICK rows : /\ Set(j, [jobs[j] EXCEPT !.work = rows, !.ran = @ + 1])
                    /\ table' = table
    BY <1>3 DEF Run
  <2> DEFINE job == [jobs[j] EXCEPT !.work = rows, !.ran = @ + 1]
  <2>2. /\ job.stmts = jobs[j].stmts /\ job.committed = jobs[j].committed
        /\ job.saved = jobs[j].saved
    BY <1>1 DEF Fields
  <2>3. Set(j, job)
    BY <2>1
  <2> HIDE DEF job
  <2>4. QED
    BY <2>1, <2>2, <2>3, Unseen
<1>4. CASE BeginFails(j) \/ Refuse(j) \/ TimeOut(j)
  <2>1. PICK job : Set(j, job) /\ Left(job, jobs[j]) /\ table' = table
    BY <1>1, <1>4, LeavingLeaves DEF BeginFails, Refuse, TimeOut
  <2>2. QED
    BY <2>1, Unseen DEF Left
<1>5. CASE Commit(j)
  <2> DEFINE job == [Returned(jobs[j]) EXCEPT !.committed = TRUE, !.saved = TRUE]
  <2>1. Set(j, job) /\ AtCommit(j) /\ table' = jobs[j].work
    BY <1>5 DEF Commit, Committed
  <2>2. job.stmts = jobs[j].stmts /\ job.committed = TRUE /\ job.saved = TRUE
    BY <1>1, LeavingLeaves DEF Left, Fields
  <2> HIDE DEF job
  <2>3. QED
    BY <2>1, <2>2, CommitApplies
<1>6. CASE CommitFails(j)
  <2>1. PICK written \in BOOLEAN :
          LET job == [jobs[j] EXCEPT !.committed = written]
          IN /\ table' = IF written THEN job.work ELSE table
             /\ Set(j, LetGo(job))
    BY <1>6 DEF CommitFails
  <2> DEFINE job == [jobs[j] EXCEPT !.committed = written]
  <2>2. /\ DOMAIN job = Fields
        /\ job.committed = written
        /\ job.saved = jobs[j].saved
        /\ job.stmts = jobs[j].stmts
        /\ job.work = jobs[j].work
    BY <1>1 DEF Fields
  <2>3. Set(j, LetGo(job)) /\ table' = IF written THEN job.work ELSE table
    BY <2>1
  <2> HIDE DEF job
  <2>4. /\ LetGo(job).stmts = jobs[j].stmts
        /\ LetGo(job).committed = written
        /\ LetGo(job).saved = jobs[j].saved
    BY <2>2, LeavingLeaves DEF Left
  <2>5. jobs[j].committed = FALSE /\ jobs[j].saved = FALSE /\ AtCommit(j)
    BY <1>6, UncommittedBefore DEF CommitFails, AtCommit, JobsClean
  <2>6. CASE written
    BY <2>2, <2>3, <2>4, <2>5, <2>6, CommitApplies
  <2>7. CASE ~written
    BY <2>3, <2>4, <2>5, <2>7, Unseen
  <2>8. QED
    BY <2>6, <2>7
<1>7. CASE LeftoverEnds(j)
  <2>1. PICK left : Set(j, left) /\ Lasts(jobs[j], left)
    BY <1>7, LeftoverFacts
  <2>2. table' = table
    BY <1>7, LeftoverFacts
  <2>3. QED
    BY <2>1, <2>2, Unseen DEF Lasts
<1>8. QED
  BY <1>2, <1>3, <1>4, <1>5, <1>6, <1>7 DEF SaveStep

LEMMA EndWritesNothing ==
    ASSUME JobsClean, NEW j \in Saves, Cancel(j) \/ Handled(j)
    PROVE  UNCHANGED writeVars
<1>1. DOMAIN jobs[j] = Fields
  BY DEF JobsClean, Clean
<1>2. /\ \/ Set(j, Closed(jobs[j])) \/ Set(j, Closed(Returned(jobs[j])))
         \/ Set(j, Dropped(jobs[j]))
      /\ table' = table
  BY DEF Cancel, Handled
<1>3. Left(Returned(jobs[j]), jobs[j])
  BY <1>1, LeavingLeaves
<1>4. CASE Set(j, Closed(jobs[j]))
  BY <1>1, <1>2, <1>4, ClosingLeaves, Unseen
<1>5. CASE Set(j, Closed(Returned(jobs[j])))
  <2>1. /\ Closed(Returned(jobs[j])).stmts = jobs[j].stmts
        /\ Closed(Returned(jobs[j])).committed = jobs[j].committed
        /\ Closed(Returned(jobs[j])).saved = jobs[j].saved
    BY <1>3, ClosingLeaves DEF Left
  <2>2. QED
    BY <1>2, <1>5, <2>1, Unseen
<1>6. CASE Set(j, Dropped(jobs[j]))
  BY <1>1, <1>2, <1>6, DroppingLeaves, Unseen
<1>7. QED
  BY <1>2, <1>4, <1>5, <1>6

LEMMA NextWrites ==
    JobsClean /\ WorkInv /\ [Next]_vars => Write!Next \/ UNCHANGED writeVars
<1> SUFFICES ASSUME JobsClean, WorkInv, [Next]_vars
             PROVE  Write!Next \/ UNCHANGED writeVars
  OBVIOUS
<1>1. ASSUME UNCHANGED saveVars PROVE UNCHANGED writeVars
  BY <1>1 DEF saveVars, writeVars, Batch, Done, Answered
<1>2. CASE \/ StartEdit \/ FinishEdit \/ AddRow \/ DuplicateRow \/ ToggleDelete
           \/ Undo \/ Redo \/ Discard \/ Reload
  BY <1>1, <1>2, SheetLeavesJobs
<1>3. ASSUME NEW j \in Saves, Save(j) PROVE Write!Next
  <2>1. PICK s \in FinishedSheets : Spawn(j, Statements(s))
    BY <1>3 DEF Save
  <2>2. Write!Submit(j)
    BY <2>1, SpawnSubmits
  <2>3. QED
    BY <2>2 DEF Write!Next
<1>4. ASSUME NEW j \in Saves, SaveSteps(j) PROVE Write!Next \/ UNCHANGED writeVars
  BY <1>4, TaskWrites DEF SaveSteps, Write!Next
<1>5. ASSUME NEW j \in Saves, CancelSave(j) \/ SaveSucceeded(j) \/ SaveFailed(j)
      PROVE  UNCHANGED writeVars
  BY <1>5, EndWritesNothing DEF CancelSave, SaveSucceeded, SaveFailed
<1>6. CASE UNCHANGED vars
  BY <1>1, <1>6 DEF vars
<1>7. QED
  BY <1>2, <1>3, <1>4, <1>5, <1>6 DEF Next

(* execute_in_transaction and run_grid_save implement AtomicWrite: however *)
(* many saves run, and whatever fails, runs out of time, is cancelled or   *)
(* loses its answer, the rows change by whole saves, each at most once,    *)
(* and "saved" is answered only of those.                                  *)
THEOREM SavesAreAtomic == Spec => AllOrNothing
<1>1. Init => Write!Init
  <2> SUFFICES ASSUME Init PROVE Write!Init
    OBVIOUS
  <2>1. jobs = [j \in Saves |-> NoJob]
    BY DEF Init, SaveInit
  <2>2. QED
    BY <2>1 DEF Write!Init, NoJob
<1>2. JobsClean /\ WorkInv /\ [Next]_vars => [Write!Next]_(Write!writeVars)
  BY NextWrites DEF writeVars, Batch, Done, Answered, Write!writeVars
<1>3. QED
  BY <1>1, <1>2, InitClean, InitWork, NextClean, NextWork, PTL
     DEF Spec, AllOrNothing, Write!Spec
-----------------------------------------------------------------------------
Rows    == [id : Nat, key : Nat, val : Nat]
Grids   == Seq(Rows)
Ops     == [kind : {"update", "insert", "delete"}, row : Nat \ {0}, col : Columns,
            old : Nat, new : Nat, snap : Rows]
Queues  == Seq(Ops)
Changes == [kind : {"cell", "insert", "remove"}, row : Nat \ {0}, col : Columns,
            was : Nat, now : Nat, values : Rows]

(* A row more, a row less.                                                 *)
LEMMA RowPutIn ==
    ASSUME NEW rows \in Grids, NEW i \in Nat \ {0}, NEW v \in Rows
    PROVE  /\ WithRow(rows, i, v) \in Grids
           /\ i <= Len(rows) + 1 =>
                 /\ Len(WithRow(rows, i, v)) = Len(rows) + 1
                 /\ \A k \in 1..(Len(rows) + 1) :
                       WithRow(rows, i, v)[k] = IF k < i THEN rows[k]
                                                ELSE IF k = i THEN v ELSE rows[k - 1]
<1> DEFINE p == IF i > Len(rows) THEN Len(rows) + 1 ELSE i
           a == SubSeq(rows, 1, p - 1)
           b == SubSeq(rows, p, Len(rows))
<1>1. rows \in Seq(Rows) /\ Len(rows) \in Nat /\ \A k \in 1..Len(rows) : rows[k] \in Rows
  BY DEF Grids
<1>2. p \in 1..(Len(rows) + 1) /\ (i <= Len(rows) + 1 => p = i)
  BY <1>1
<1> HIDE DEF p
<1>3. a \in Seq(Rows) /\ Len(a) = p - 1 /\ \A k \in 1..(p - 1) : a[k] = rows[k]
  BY <1>1, <1>2
<1>4. b \in Seq(Rows) /\ Len(b) = Len(rows) - p + 1
      /\ \A k \in 1..(Len(rows) - p + 1) : b[k] = rows[p + k - 1]
  BY <1>1, <1>2
<1> DEFINE av == a \o <<v>>
           w == av \o b
<1>5. WithRow(rows, i, v) = w
  BY DEF WithRow, InsertAt, a, b, p
<1> HIDE DEF a, b
<1>6. <<v>> \in Seq(Rows) /\ Len(<<v>>) = 1 /\ <<v>>[1] = v
  OBVIOUS
<1>7. /\ av \in Seq(Rows) /\ Len(av) = Len(a) + 1
      /\ \A k \in 1..(Len(a) + 1) : av[k] = IF k <= Len(a) THEN a[k] ELSE <<v>>[k - Len(a)]
  BY <1>3, <1>6, ConcatProperties
<1> HIDE DEF av
<1>8. /\ w \in Seq(Rows) /\ Len(w) = Len(av) + Len(b)
      /\ \A k \in 1..(Len(av) + Len(b)) : w[k] = IF k <= Len(av) THEN av[k] ELSE b[k - Len(av)]
  BY <1>4, <1>7, ConcatProperties
<1> HIDE DEF w
<1>9. Len(w) = Len(rows) + 1
  BY <1>1, <1>2, <1>3, <1>4, <1>7, <1>8
<1>10. ASSUME NEW k \in 1..(Len(rows) + 1)
       PROVE  w[k] = IF k < p THEN rows[k] ELSE IF k = p THEN v ELSE rows[k - 1]
  <2>0. k \in Int /\ p \in Int /\ Len(rows) \in Nat /\ k \in 1..(Len(av) + Len(b))
    BY <1>1, <1>2, <1>3, <1>4, <1>7
  <2>1. CASE k < p
    <3>1. k \in 1..(p - 1) /\ k <= Len(a) /\ k <= Len(av) /\ k \in 1..(Len(a) + 1)
      BY <2>0, <2>1, <1>3, <1>7
    <3>2. w[k] = av[k] /\ av[k] = a[k] /\ a[k] = rows[k]
      BY <1>3, <1>7, <1>8, <2>0, <3>1
    <3>3. QED
      BY <2>1, <3>2
  <2>2. CASE k = p
    <3>1. k = Len(a) + 1 /\ k <= Len(av) /\ ~(k <= Len(a)) /\ k - Len(a) = 1
          /\ k \in 1..(Len(a) + 1)
      BY <1>2, <1>3, <1>7, <2>0, <2>2
    <3>2. w[k] = av[k] /\ av[k] = v
      BY <1>6, <1>7, <1>8, <2>0, <3>1
    <3>3. QED
      BY <2>2, <2>0, <3>2
  <2>3. CASE k > p
    <3>1. ~(k <= Len(av)) /\ k - Len(av) \in 1..(Len(rows) - p + 1)
          /\ p + (k - Len(av)) - 1 = k - 1
      BY <1>2, <1>3, <1>7, <2>0, <2>3
    <3>2. w[k] = b[k - Len(av)] /\ b[k - Len(av)] = rows[k - 1]
      BY <1>4, <1>8, <2>0, <3>1
    <3>3. QED
      BY <2>3, <2>0, <3>2
  <2>4. QED
    BY <2>0, <2>1, <2>2, <2>3
<1>11. QED
  BY <1>2, <1>5, <1>8, <1>9, <1>10 DEF Grids

LEMMA RowTaken ==
    ASSUME NEW rows \in Grids, NEW i \in Nat \ {0}
    PROVE  /\ WithoutRow(rows, i) \in Grids
           /\ i <= Len(rows) =>
                 /\ Len(WithoutRow(rows, i)) = Len(rows) - 1
                 /\ \A k \in 1..(Len(rows) - 1) :
                       WithoutRow(rows, i)[k] = IF k < i THEN rows[k] ELSE rows[k + 1]
<1>1. rows \in Seq(Rows) /\ Len(rows) \in Nat /\ DOMAIN rows = 1..Len(rows)
      /\ \A k \in 1..Len(rows) : rows[k] \in Rows
  BY DEF Grids
<1>2. CASE i > Len(rows)
  <2>1. i \notin DOMAIN rows /\ ~(i <= Len(rows))
    BY <1>1, <1>2
  <2>2. WithoutRow(rows, i) = rows
    BY <2>1 DEF WithoutRow
  <2>3. QED
    BY <2>1, <2>2
<1>3. CASE i <= Len(rows)
  <2> DEFINE a == SubSeq(rows, 1, i - 1)
             b == SubSeq(rows, i + 1, Len(rows))
  <2>1. i \in 1..Len(rows)
    BY <1>1, <1>3
  <2>2. a \in Seq(Rows) /\ Len(a) = i - 1 /\ \A k \in 1..(i - 1) : a[k] = rows[k]
    <3>1. i - 1 \in Int /\ \A k \in 1..(i - 1) : rows[k] \in Rows
      BY <1>1, <2>1
    <3>2. /\ a \in Seq(Rows) /\ Len(a) = IF 1 <= i - 1 THEN (i - 1) - 1 + 1 ELSE 0
          /\ \A k \in 1..((i - 1) - 1 + 1) : a[k] = rows[1 + k - 1]
      BY <3>1, SubSeqProperties
    <3> HIDE DEF a
    <3>3. QED
      BY <2>1, <3>2
  <2>3. b \in Seq(Rows) /\ Len(b) = Len(rows) - i
        /\ \A k \in 1..(Len(rows) - i) : b[k] = rows[i + k]
    <3>1. i + 1 \in Int /\ Len(rows) \in Int /\ \A k \in (i + 1)..Len(rows) : rows[k] \in Rows
      BY <1>1, <2>1
    <3>2. /\ b \in Seq(Rows)
          /\ Len(b) = IF i + 1 <= Len(rows) THEN Len(rows) - (i + 1) + 1 ELSE 0
          /\ \A k \in 1..(Len(rows) - (i + 1) + 1) : b[k] = rows[(i + 1) + k - 1]
      BY <3>1, SubSeqProperties
    <3> HIDE DEF b
    <3>3. i \in Int /\ Len(rows) \in Int /\ i <= Len(rows)
      BY <1>1, <2>1
    <3>4. Len(b) = Len(rows) - i
      BY ONLY <3>2, <3>3
    <3>5. ASSUME NEW k \in 1..(Len(rows) - i) PROVE b[k] = rows[i + k]
      <4>1. k \in 1..(Len(rows) - (i + 1) + 1) /\ (i + 1) + k - 1 = i + k
        BY ONLY <3>3, k \in 1..(Len(rows) - i)
      <4>2. QED
        BY <3>2, <4>1
    <3>6. QED
      BY <3>2, <3>4, <3>5
  <2> DEFINE w == a \o b
  <2>4. WithoutRow(rows, i) = w
    BY <1>1, <2>1 DEF WithoutRow, RemoveAt
  <2> HIDE DEF a, b
  <2>5. /\ w \in Seq(Rows) /\ Len(w) = Len(a) + Len(b)
        /\ \A k \in 1..(Len(a) + Len(b)) : w[k] = IF k <= Len(a) THEN a[k] ELSE b[k - Len(a)]
    BY <2>2, <2>3, ConcatProperties
  <2> HIDE DEF w
  <2>6. Len(w) = Len(rows) - 1
    BY <1>1, <2>1, <2>2, <2>3, <2>5
  <2>7. ASSUME NEW k \in 1..(Len(rows) - 1)
        PROVE  w[k] = IF k < i THEN rows[k] ELSE rows[k + 1]
    <3>1. k \in 1..(Len(a) + Len(b))
      BY <1>1, <2>1, <2>2, <2>3
    <3>2. CASE k < i
      <4>1. k <= Len(a) /\ k \in 1..(i - 1)
        BY <2>1, <2>2, <3>2
      <4>2. QED
        BY <2>2, <2>5, <3>1, <3>2, <4>1
    <3>3. CASE ~(k < i)
      <4>1. ~(k <= Len(a)) /\ k - Len(a) \in 1..(Len(rows) - i) /\ i + (k - Len(a)) = k + 1
        BY <1>1, <2>1, <2>2, <3>3
      <4>2. QED
        BY <2>3, <2>5, <3>1, <3>3, <4>1
    <3>4. QED
      BY <3>2, <3>3
  <2>8. QED
    BY <2>4, <2>5, <2>6, <2>7 DEF Grids
<1>4. i > Len(rows) \/ i <= Len(rows)
  BY <1>1
<1>5. QED
  BY <1>2, <1>3, <1>4

(* Two grids with the same rows.                                           *)
LEMMA SameGrid ==
    ASSUME NEW a \in Grids, NEW b \in Grids, Len(a) = Len(b),
           \A k \in 1..Len(a) : a[k] = b[k]
    PROVE  a = b
BY SeqEqual DEF Grids

(* Each change can be taken back.                                          *)
Takes(r, c, s) == Applied(r, c, TRUE) = s /\ Applied(s, c, FALSE) = r

LEMMA CellTakes ==
    ASSUME NEW rows \in Grids, NEW i \in 1..Len(rows), NEW col \in Columns,
           NEW v \in Nat
    PROVE  /\ WithCell(rows, i, col, v) \in Grids
           /\ Len(WithCell(rows, i, col, v)) = Len(rows)
           /\ \A k \in 1..Len(rows) : k # i => WithCell(rows, i, col, v)[k] = rows[k]
           /\ WithCell(rows, i, col, v)[i] = [rows[i] EXCEPT ![col] = v]
           /\ CellChange(i, col, rows[i][col], v) \in Changes
           /\ Takes(rows, CellChange(i, col, rows[i][col], v), WithCell(rows, i, col, v))
<1> DEFINE new == [rows[i] EXCEPT ![col] = v]
           w == [rows EXCEPT ![i] = new]
           c == CellChange(i, col, rows[i][col], v)
<1>1. DOMAIN rows = 1..Len(rows) /\ rows[i] \in Rows /\ rows \in Seq(Rows)
  BY DEF Grids
<1>2. new \in Rows /\ [new EXCEPT ![col] = rows[i][col]] = rows[i]
  BY <1>1 DEF Rows, Columns
<1>3. rows[i][col] \in Nat
  BY <1>1 DEF Rows, Columns
<1>4. WithCell(rows, i, col, v) = w
  BY <1>1 DEF WithCell
<1>5. c \in Changes
  <2>1. NoRow \in Rows
    BY DEF NoRow, Rows
  <2>2. QED
    BY <1>3, <2>1 DEF CellChange, Changes
<1>6. c.kind = "cell" /\ c.row = i /\ c.col = col /\ c.was = rows[i][col] /\ c.now = v
  BY DEF CellChange
<1> HIDE DEF c, new
<1>7. w \in Seq(Rows) /\ DOMAIN w = 1..Len(rows) /\ Len(w) = Len(rows) /\ w[i] = new
      /\ \A k \in 1..Len(rows) : k # i => w[k] = rows[k]
  BY <1>1, <1>2
<1> HIDE DEF w
<1>8. Applied(rows, c, TRUE) = w
  BY <1>4, <1>6 DEF Applied
<1>9. Applied(w, c, FALSE) = rows
  <2>1. Applied(w, c, FALSE) = [w EXCEPT ![i] = [w[i] EXCEPT ![col] = rows[i][col]]]
    <3>1. Applied(w, c, FALSE) = WithCell(w, i, col, rows[i][col])
      BY <1>6 DEF Applied
    <3>2. i \in DOMAIN w
      BY <1>7
    <3>3. WithCell(w, i, col, rows[i][col]) = [w EXCEPT ![i][col] = rows[i][col]]
      BY <3>2 DEF WithCell
    <3>4. QED
      BY <3>1, <3>3
  <2>2. [w EXCEPT ![i] = [w[i] EXCEPT ![col] = rows[i][col]]] = [w EXCEPT ![i] = rows[i]]
    BY <1>2, <1>7
  <2>3. [w EXCEPT ![i] = rows[i]] = rows
    <3>1. w \in Grids /\ rows[i] \in Rows
      BY <1>1, <1>7 DEF Grids
    <3> DEFINE u == [w EXCEPT ![i] = rows[i]]
    <3>2. u \in Grids /\ Len(u) = Len(w)
          /\ \A k \in 1..Len(w) : u[k] = IF k = i THEN rows[i] ELSE w[k]
      BY <1>7, <3>1, ExceptSeq DEF Grids
    <3> HIDE DEF u
    <3>3. u = rows
      BY <1>7, <3>2, SameGrid
    <3>4. QED
      BY <3>3 DEF u
  <2>4. QED
    BY <2>1, <2>2, <2>3
<1>10. WithCell(rows, i, col, v)[i] = [rows[i] EXCEPT ![col] = v]
  BY <1>4, <1>7 DEF new
<1>11. QED
  BY <1>4, <1>5, <1>7, <1>8, <1>9, <1>10 DEF Takes, Grids, c

LEMMA InsertTakes ==
    ASSUME NEW rows \in Grids, NEW i \in 1..(Len(rows) + 1), NEW v \in Rows
    PROVE  /\ RowInserted(i, v) \in Changes
           /\ Takes(rows, RowInserted(i, v), WithRow(rows, i, v))
<1>1. RowInserted(i, v) \in Changes
  BY DEF RowInserted, Changes, Columns
<1>2. Len(rows) \in Nat /\ i \in Nat \ {0}
  BY DEF Grids
<1>3. /\ WithRow(rows, i, v) \in Grids /\ Len(WithRow(rows, i, v)) = Len(rows) + 1
      /\ \A k \in 1..(Len(rows) + 1) :
            WithRow(rows, i, v)[k] = IF k < i THEN rows[k]
                                     ELSE IF k = i THEN v ELSE rows[k - 1]
  BY <1>2, RowPutIn
<1>4. WithoutRow(WithRow(rows, i, v), i) = rows
  <2> DEFINE w == WithRow(rows, i, v)
  <2>1. w \in Grids /\ Len(w) = Len(rows) + 1 /\ i <= Len(w)
        /\ \A k \in 1..(Len(rows) + 1) :
              w[k] = IF k < i THEN rows[k] ELSE IF k = i THEN v ELSE rows[k - 1]
    BY <1>2, <1>3
  <2> HIDE DEF w
  <2>2. /\ WithoutRow(w, i) \in Grids /\ Len(WithoutRow(w, i)) = Len(w) - 1
        /\ \A k \in 1..(Len(w) - 1) :
              WithoutRow(w, i)[k] = IF k < i THEN w[k] ELSE w[k + 1]
    BY <1>2, <2>1, RowTaken
  <2>3. ASSUME NEW k \in 1..Len(rows) PROVE WithoutRow(w, i)[k] = rows[k]
    <3>1. k \in 1..(Len(w) - 1) /\ k \in 1..(Len(rows) + 1) /\ k + 1 \in 1..(Len(rows) + 1)
          /\ (k + 1) - 1 = k
      BY <1>2, <2>1
    <3>2. WithoutRow(w, i)[k] = IF k < i THEN w[k] ELSE w[k + 1]
      BY <2>2, <3>1
    <3>3. CASE k < i
      BY <2>1, <3>1, <3>2, <3>3
    <3>4. CASE ~(k < i)
      <4>1. ~(k + 1 < i) /\ k + 1 # i
        BY <1>2, <3>4
      <4>2. QED
        BY <2>1, <3>1, <3>2, <3>4, <4>1
    <3>5. QED
      BY <3>3, <3>4
  <2>4. Len(WithoutRow(w, i)) = Len(rows)
    BY <1>2, <2>1, <2>2
  <2>5. QED
    BY <2>2, <2>3, <2>4, SameGrid DEF w
<1>5. QED
  BY <1>1, <1>4 DEF Takes, Applied, RowInserted

LEMMA RemoveTakes ==
    ASSUME NEW rows \in Grids, NEW i \in 1..Len(rows)
    PROVE  /\ RowRemoved(i, rows[i]) \in Changes
           /\ Takes(rows, RowRemoved(i, rows[i]), WithoutRow(rows, i))
<1>1. RowRemoved(i, rows[i]) \in Changes
  BY DEF RowInserted, RowRemoved, Changes, Columns, Grids
<1>2. Len(rows) \in Nat /\ i \in Nat \ {0} /\ rows[i] \in Rows
  BY DEF Grids
<1> DEFINE w == WithoutRow(rows, i)
<1>3. /\ w \in Grids /\ Len(w) = Len(rows) - 1
      /\ \A k \in 1..(Len(rows) - 1) : w[k] = IF k < i THEN rows[k] ELSE rows[k + 1]
  BY <1>2, RowTaken
<1> HIDE DEF w
<1>4. WithRow(w, i, rows[i]) = rows
  <2>1. i <= Len(w) + 1 /\ Len(w) \in Nat
    BY <1>2, <1>3
  <2>2. /\ WithRow(w, i, rows[i]) \in Grids /\ Len(WithRow(w, i, rows[i])) = Len(w) + 1
        /\ \A k \in 1..(Len(w) + 1) :
              WithRow(w, i, rows[i])[k] = IF k < i THEN w[k]
                                          ELSE IF k = i THEN rows[i] ELSE w[k - 1]
    BY <1>2, <1>3, <2>1, RowPutIn
  <2>3. \A k \in 1..Len(rows) : WithRow(w, i, rows[i])[k] = rows[k]
    BY <1>2, <1>3, <2>2
  <2>4. Len(WithRow(w, i, rows[i])) = Len(rows)
    BY <1>2, <1>3, <2>2
  <2>5. QED
    BY <2>2, <2>3, <2>4, SameGrid
<1>5. QED
  BY <1>1, <1>4 DEF Takes, Applied, RowInserted, RowRemoved, w
-----------------------------------------------------------------------------
(* Replayed is the end of any sequence of grids that follows the changes.  *)
LEMMA ReplayedEnds ==
    ASSUME NEW rows, NEW changes, NEW forward, NEW p, Len(changes) \in Nat,
           p[0] = rows, DOMAIN p = 0..Len(changes),
           \A k \in 1..Len(changes) : p[k] = Applied(p[k - 1], changes[k], forward)
    PROVE  Replayed(rows, changes, forward) = p[Len(changes)]
<1> DEFINE N == Len(changes)
           Follows(g) == g = [k \in 0..N |-> IF k = 0 THEN rows
                                  ELSE Applied(g[k - 1], changes[k], forward)]
           f == CHOOSE g : Follows(g)
<1>1. Replayed(rows, changes, forward) = f[N]
  BY DEF Replayed
<1>2. N \in Nat /\ p[0] = rows /\ DOMAIN p = 0..N
      /\ \A k \in 1..N : p[k] = Applied(p[k - 1], changes[k], forward)
  OBVIOUS
<1> HIDE DEF N
<1>3. Follows(f)
  <2> DEFINE q == [k \in 0..N |-> p[k]]
  <2>1. \A k \in 0..N : q[k] = IF k = 0 THEN rows
                               ELSE Applied(q[k - 1], changes[k], forward)
    <3> SUFFICES ASSUME NEW k \in 0..N
                 PROVE  q[k] = IF k = 0 THEN rows
                               ELSE Applied(q[k - 1], changes[k], forward)
      OBVIOUS
    <3>1. CASE k = 0
      BY <1>2, <3>1
    <3>2. CASE k # 0
      <4>1. k \in 1..N /\ k - 1 \in 0..N
        BY <1>2, <3>2
      <4>2. q[k] = p[k] /\ q[k - 1] = p[k - 1]
        BY <4>1
      <4>3. QED
        BY <1>2, <3>2, <4>1, <4>2
    <3>3. QED
      BY <3>1, <3>2
  <2>2. q = [k \in 0..N |-> q[k]]
    OBVIOUS
  <2> HIDE DEF q
  <2>3. Follows(q)
    BY <2>1, <2>2
  <2> HIDE DEF Follows
  <2>4. QED
    BY <2>3
<1>4. /\ f[0] = rows
      /\ \A k \in 1..N : f[k] = Applied(f[k - 1], changes[k], forward)
  <2> HIDE DEF f
  <2>1. \A k \in 0..N : f[k] = IF k = 0 THEN rows
                               ELSE Applied(f[k - 1], changes[k], forward)
    BY <1>3
  <2>2. 0 \in 0..N /\ \A k \in 1..N : k \in 0..N /\ k # 0
    BY <1>2
  <2>3. QED
    BY <2>1, <2>2
<1> HIDE DEF f, Follows
<1> DEFINE S == {k \in Nat : k \in 0..N => f[k] = p[k]}
<1>5. 0 \in S
  BY <1>2, <1>4
<1>6. ASSUME NEW k \in S PROVE k + 1 \in S
  <2> SUFFICES ASSUME k + 1 \in 0..N PROVE f[k + 1] = p[k + 1]
    OBVIOUS
  <2>1. k \in 0..N /\ k + 1 \in 1..N /\ (k + 1) - 1 = k
    BY <1>2
  <2>2. f[k] = p[k]
    BY <2>1
  <2>3. QED
    BY <1>2, <1>4, <2>1, <2>2
<1>7. \A k \in Nat : k \in S
  <2> HIDE DEF S
  <2>1. S \in SUBSET Nat
    BY DEF S
  <2>2. QED
    BY <1>5, <1>6, <2>1, AllNumbers
<1>8. f[N] = p[N]
  BY <1>2, <1>7
<1>9. QED
  BY <1>1, <1>8 DEF N

(* The changes lead from one grid to another, and back.                    *)
Leads(p, r, changes, r2) ==
    /\ p \in [0..Len(changes) -> Grids]
    /\ p[0] = r /\ p[Len(changes)] = r2
    /\ \A k \in 1..Len(changes) : Takes(p[k - 1], changes[k], p[k])
Path(r, changes, r2) == \E p : Leads(p, r, changes, r2)

LEMMA PathForward ==
    ASSUME NEW r, NEW r2, NEW changes \in Seq(Changes), Path(r, changes, r2)
    PROVE  Forward(r, changes) = r2
<1>1. PICK p : Leads(p, r, changes, r2)
  BY DEF Path
<1>2. /\ Len(changes) \in Nat /\ DOMAIN p = 0..Len(changes)
      /\ p[0] = r /\ p[Len(changes)] = r2
  BY <1>1 DEF Leads
<1>3. \A k \in 1..Len(changes) : p[k] = Applied(p[k - 1], changes[k], TRUE)
  BY <1>1 DEF Leads, Takes
<1>4. QED
  BY <1>2, <1>3, ReplayedEnds DEF Forward

LEMMA PathBackward ==
    ASSUME NEW r, NEW r2, NEW changes \in Seq(Changes), Path(r, changes, r2)
    PROVE  Backward(r2, changes) = r
<1>1. PICK p : Leads(p, r, changes, r2)
  BY DEF Path
<1> DEFINE n == Len(changes)
           back == Reverse(changes)
           q == [k \in 0..n |-> p[n - k]]
<1>2. n \in Nat /\ p[0] = r /\ p[n] = r2
      /\ \A k \in 1..n : Takes(p[k - 1], changes[k], p[k])
  BY <1>1 DEF Leads
<1>3. back = [k \in 1..n |-> changes[(n - k) + 1]]
  BY DEF Reverse
<1> HIDE DEF n, back
<1>4. Len(back) = n /\ \A k \in 1..n : back[k] = changes[(n - k) + 1]
  BY <1>2, <1>3
<1>5. DOMAIN q = 0..n /\ q[0] = r2 /\ q[n] = r
  BY <1>2
<1>6. ASSUME NEW k \in 1..n PROVE q[k] = Applied(q[k - 1], back[k], FALSE)
  <2> DEFINE m == n - k + 1
  <2>1. m \in 1..n /\ (n - k) + 1 = m /\ m - 1 = n - k /\ n - (k - 1) = m
        /\ k \in 0..n /\ k - 1 \in 0..n
    BY <1>2
  <2> HIDE DEF m
  <2>2. q[k] = p[m - 1] /\ q[k - 1] = p[m] /\ back[k] = changes[m]
    BY <1>4, <2>1
  <2>3. Takes(p[m - 1], changes[m], p[m])
    BY <1>2, <2>1
  <2>4. QED
    BY <2>2, <2>3 DEF Takes
<1> HIDE DEF q
<1>7. /\ Len(back) \in Nat /\ q[0] = r2 /\ DOMAIN q = 0..Len(back)
      /\ \A k \in 1..Len(back) : q[k] = Applied(q[k - 1], back[k], FALSE)
  BY <1>2, <1>4, <1>5, <1>6
<1>8. Replayed(r2, back, FALSE) = q[Len(back)]
  <2>1. ASSUME NEW cs, NEW f, Len(cs) \in Nat, f[0] = r2, DOMAIN f = 0..Len(cs),
               \A k \in 1..Len(cs) : f[k] = Applied(f[k - 1], cs[k], FALSE)
        PROVE  Replayed(r2, cs, FALSE) = f[Len(cs)]
    BY ONLY <2>1, ReplayedEnds
  <2>2. QED
    BY <1>7, <2>1
<1>9. QED
  BY <1>4, <1>5, <1>8 DEF Backward, back

LEMMA NoPath ==
    ASSUME NEW r \in Grids
    PROVE  /\ Path(r, <<>>, r)
           /\ \A r2 : Path(r, <<>>, r2) => r2 = r
<1>1. Len(<<>>) = 0
  OBVIOUS
<1>2. Leads([k \in 0..0 |-> r], r, <<>>, r)
  BY <1>1 DEF Leads
<1>3. \A r2 : Path(r, <<>>, r2) => r2 = r
  BY <1>1 DEF Path, Leads
<1>4. QED
  BY <1>2, <1>3 DEF Path

LEMMA PathMore ==
    ASSUME NEW r, NEW r2 \in Grids, NEW r3 \in Grids, NEW changes \in Seq(Changes),
           NEW c \in Changes, Path(r, changes, r2), Takes(r2, c, r3)
    PROVE  /\ Append(changes, c) \in Seq(Changes)
           /\ Path(r, Append(changes, c), r3)
<1>1. PICK p : Leads(p, r, changes, r2)
  BY DEF Path
<1> DEFINE n == Len(changes)
           more == Append(changes, c)
           q == [k \in 0..(n + 1) |-> IF k = n + 1 THEN r3 ELSE p[k]]
<1>2. /\ n \in Nat /\ p[0] = r /\ p[n] = r2 /\ p \in [0..n -> Grids]
      /\ \A k \in 1..n : Takes(p[k - 1], changes[k], p[k])
  BY <1>1 DEF Leads
<1>3. /\ more \in Seq(Changes) /\ Len(more) = n + 1
      /\ \A k \in 1..n : more[k] = changes[k]
      /\ more[n + 1] = c
  BY AppendProperties
<1> HIDE DEF n, more
<1>4. q \in [0..(n + 1) -> Grids]
  BY <1>2
<1>5. q[0] = r /\ q[n + 1] = r3 /\ \A k \in 0..n : q[k] = p[k]
  BY <1>2
<1> HIDE DEF q
<1>6. ASSUME NEW k \in 1..(n + 1) PROVE Takes(q[k - 1], more[k], q[k])
  <2>1. CASE k = n + 1
    <3>1. k - 1 = n /\ n \in 0..n
      BY <1>2, <2>1
    <3>2. q[k - 1] = r2
      BY <1>2, <1>5, <3>1
    <3>3. QED
      BY <1>3, <1>5, <2>1, <3>2
  <2>2. CASE k # n + 1
    <3>1. k \in 1..n /\ k \in 0..n /\ k - 1 \in 0..n
      BY <1>2, <2>2
    <3>2. QED
      BY <1>2, <1>3, <1>5, <3>1
  <2>3. QED
    BY <2>1, <2>2
<1>7. Leads(q, r, more, r3)
  BY <1>3, <1>4, <1>5, <1>6 DEF Leads
<1>8. QED
  BY <1>3, <1>7 DEF Path, more
-----------------------------------------------------------------------------
(* The rows and the queue of a sheet, and the history as a chain of them:  *)
(* base is the first, the sheet is where undo and redo meet.               *)
States  == [rows : Grids, queue : Queues]
Entries == [before : Queues, after : Queues, changes : Seq(Changes)]
State(s) == [rows |-> s.rows, queue |-> s.queue]

Linked(a, e, b) == /\ e.before = a.queue /\ e.after = b.queue
                   /\ Path(a.rows, e.changes, b.rows)

Chain(s, h) ==
    /\ s.undo \in Seq(Entries) /\ s.redo \in Seq(Entries) /\ h \in Seq(States)
    /\ Len(h) = Len(s.undo) + Len(s.redo) + 1
    /\ h[1].rows = s.base
    /\ h[Len(s.undo) + 1] = State(s)
    /\ \A k \in 1..Len(s.undo) : Linked(h[k], s.undo[k], h[k + 1])
    /\ \A k \in 1..Len(s.redo) : Linked(h[Len(s.undo) + Len(s.redo) + 1 - k],
                                        s.redo[k],
                                        h[Len(s.undo) + Len(s.redo) + 2 - k])

(* Every state that undo and redo lead to is in G.                         *)
Known(s, G) == \E h : Chain(s, h) /\ \A k \in 1..Len(h) : h[k] \in G

LEMMA ChainParts ==
    ASSUME NEW s, NEW h, Chain(s, h)
    PROVE  /\ Len(s.undo) \in Nat /\ Len(s.redo) \in Nat /\ h \in Seq(States)
           /\ Len(h) = Len(s.undo) + Len(s.redo) + 1 /\ h[1].rows = s.base
           /\ h[Len(s.undo) + 1] = State(s)
           /\ s.undo \in Seq(Entries) /\ s.redo \in Seq(Entries)
           /\ \A k \in 1..Len(s.undo) : Linked(h[k], s.undo[k], h[k + 1])
           /\ \A k \in 1..Len(s.redo) : Linked(h[Len(s.undo) + Len(s.redo) + 1 - k],
                                               s.redo[k],
                                               h[Len(s.undo) + Len(s.redo) + 2 - k])
           /\ \A k \in 1..(Len(s.undo) + Len(s.redo) + 1) : h[k] \in States
<1> DEFINE m == Len(s.undo)
           r == Len(s.redo)
<1>1. /\ s.undo \in Seq(Entries) /\ s.redo \in Seq(Entries) /\ h \in Seq(States)
      /\ Len(h) = m + r + 1
  BY Zenon DEF Chain
<1>2. m \in Nat /\ r \in Nat
  BY <1>1, LenProperties
<1>3. h[1].rows = s.base /\ h[m + 1] = State(s)
  BY Zenon DEF Chain
<1>4. \A k \in 1..m : Linked(h[k], s.undo[k], h[k + 1])
  BY Zenon DEF Chain
<1>5. \A k \in 1..r : Linked(h[m + r + 1 - k], s.redo[k], h[m + r + 2 - k])
  BY Zenon DEF Chain
<1>6. \A k \in 1..(m + r + 1) : h[k] \in States
  BY <1>1, ElementOfSeq
<1>7. QED
  BY <1>1, <1>2, <1>3, <1>4, <1>5, <1>6

LEMMA KnownFields ==
    ASSUME NEW s, NEW s2, NEW G, Known(s, G), s2.rows = s.rows, s2.queue = s.queue,
           s2.undo = s.undo, s2.redo = s.redo, s2.base = s.base
    PROVE  Known(s2, G)
<1>1. PICK h : Chain(s, h) /\ \A k \in 1..Len(h) : h[k] \in G
  BY DEF Known
<1>a. Chain(s, h)
  BY <1>1
<1>2. State(s2) = State(s)
  BY DEF State
<1>3. Chain(s2, h)
  BY <1>1, <1>2 DEF Chain
<1>4. QED
  BY <1>1, <1>3 DEF Known

(* Where the sheet is.                                                     *)
LEMMA KnownHere ==
    ASSUME NEW s, NEW G, Known(s, G)
    PROVE  /\ State(s) \in G /\ s.rows \in Grids /\ s.queue \in Queues
           /\ s.base \in Grids
           /\ s.undo \in Seq(Entries) /\ s.redo \in Seq(Entries)
<1>1. PICK h : Chain(s, h) /\ \A k \in 1..Len(h) : h[k] \in G
  BY DEF Known
<1>a. Chain(s, h)
  BY <1>1
<1> DEFINE m == Len(s.undo)
           r == Len(s.redo)
<1>2. /\ m \in Nat /\ r \in Nat /\ h \in Seq(States)
      /\ Len(h) = m + r + 1 /\ h[1].rows = s.base /\ h[m + 1] = State(s)
      /\ s.undo \in Seq(Entries) /\ s.redo \in Seq(Entries)
      /\ \A k \in 1..(m + r + 1) : h[k] \in States
  BY ONLY <1>a, ChainParts
<1> HIDE DEF m, r
<1>3. 1 \in 1..(m + r + 1) /\ m + 1 \in 1..(m + r + 1)
  BY <1>2
<1>4. State(s) \in G /\ State(s) \in States /\ h[1] \in States
  BY <1>1, <1>2, <1>3
<1>5. State(s).rows \in Grids /\ State(s).queue \in Queues /\ h[1].rows \in Grids
  BY <1>4 DEF States
<1>6. QED
  BY <1>2, <1>4, <1>5 DEF State

(* Nothing to undo or redo.                                                *)
LEMMA KnownAlone ==
    ASSUME NEW s, NEW G, s.undo = <<>>, s.redo = <<>>, s.base = s.rows,
           State(s) \in G, s.rows \in Grids, s.queue \in Queues
    PROVE  Known(s, G)
<1> DEFINE h == <<State(s)>>
<1>1. State(s) \in States /\ State(s).rows = s.rows
  BY DEF States, State
<1>2. h \in Seq(States) /\ Len(h) = 1 /\ h[1] = State(s)
  BY <1>1
<1>3. Len(s.undo) = 0 /\ Len(s.redo) = 0
      /\ s.undo \in Seq(Entries) /\ s.redo \in Seq(Entries)
  OBVIOUS
<1> HIDE DEF h
<1>4. Chain(s, h)
  BY <1>1, <1>2, <1>3 DEF Chain
<1>5. \A k \in 1..Len(h) : h[k] \in G
  BY <1>2
<1>6. QED
  BY <1>4, <1>5 DEF Known

(* One step more, and what could be redone is forgotten.                   *)
LEMMA KnownStep ==
    ASSUME NEW s, NEW G, Known(s, G), NEW st \in States, st \in G, NEW e \in Entries,
           Linked(State(s), e, st), NEW s2, State(s2) = st, s2.base = s.base,
           s2.undo = Append(s.undo, e), s2.redo = <<>>
    PROVE  Known(s2, G)
<1>1. PICK h : Chain(s, h) /\ \A k \in 1..Len(h) : h[k] \in G
  BY DEF Known
<1>a. Chain(s, h)
  BY <1>1
<1> DEFINE m == Len(s.undo)
           a == SubSeq(h, 1, m + 1)
           h2 == Append(a, st)
<1>2. /\ m \in Nat /\ Len(s.redo) \in Nat /\ h \in Seq(States)
      /\ Len(h) = m + Len(s.redo) + 1 /\ h[1].rows = s.base
      /\ h[m + 1] = State(s) /\ s.undo \in Seq(Entries)
      /\ \A k \in 1..m : Linked(h[k], s.undo[k], h[k + 1])
  BY ONLY <1>a, ChainParts
<1>3. /\ s2.undo \in Seq(Entries) /\ Len(s2.undo) = m + 1
      /\ \A k \in 1..m : s2.undo[k] = s.undo[k]
      /\ s2.undo[m + 1] = e
  BY <1>2, AppendProperties
<1> HIDE DEF m
<1>4. /\ a \in Seq(States) /\ Len(a) = m + 1 /\ \A k \in 1..(m + 1) : a[k] = h[k]
  <2>1. m + 1 \in Int /\ 1 \in Int /\ \A k \in 1..(m + 1) : h[k] \in States
    BY <1>2
  <2>2. /\ a \in Seq(States) /\ Len(a) = IF 1 <= m + 1 THEN (m + 1) - 1 + 1 ELSE 0
        /\ \A k \in 1..((m + 1) - 1 + 1) : a[k] = h[1 + k - 1]
    BY <2>1, SubSeqProperties
  <2> HIDE DEF a
  <2>3. QED
    BY <1>2, <2>2
<1> HIDE DEF a
<1>5. /\ h2 \in Seq(States) /\ Len(h2) = m + 2 /\ h2[m + 2] = st
      /\ \A k \in 1..(m + 1) : h2[k] = h[k]
  <2>1. /\ h2 \in Seq(States) /\ Len(h2) = Len(a) + 1 /\ h2[Len(a) + 1] = st
        /\ \A k \in 1..Len(a) : h2[k] = a[k]
    BY <1>4, AppendProperties
  <2> HIDE DEF h2
  <2>2. Len(a) + 1 = m + 2
    BY <1>2, <1>4
  <2>3. QED
    BY <1>4, <2>1, <2>2
<1> HIDE DEF h2
<1>6. ASSUME NEW k \in 1..(m + 1) PROVE Linked(h2[k], s2.undo[k], h2[k + 1])
  <2>1. CASE k = m + 1
    <3>1. k + 1 = m + 2
      BY <1>2, <2>1
    <3>2. h2[k] = State(s) /\ h2[k + 1] = st /\ s2.undo[k] = e
      BY <1>2, <1>3, <1>5, <2>1, <3>1
    <3>3. QED
      BY <3>2
  <2>2. CASE k # m + 1
    <3>1. k \in 1..m /\ k + 1 \in 1..(m + 1)
      BY <1>2, <2>2
    <3>2. QED
      BY <1>2, <1>3, <1>5, <3>1
  <2>3. QED
    BY <2>1, <2>2
<1>7. Len(s2.redo) = 0 /\ s2.redo \in Seq(Entries)
  OBVIOUS
<1>8. Len(h2) = (m + 1) + 0 + 1 /\ (m + 1) + 1 = m + 2 /\ 1 \in 1..(m + 1)
  BY <1>2, <1>5
<1>9. h2[1].rows = s2.base
  BY <1>2, <1>5, <1>8
<1>10. Chain(s2, h2)
  BY <1>3, <1>5, <1>6, <1>7, <1>8, <1>9 DEF Chain
<1>11. \A k \in 1..Len(h2) : h2[k] \in G
  <2>1. SUFFICES ASSUME NEW k \in 1..(m + 2) PROVE h2[k] \in G
    BY <1>5
  <2>2. CASE k = m + 2
    BY <1>5, <2>2
  <2>3. CASE k # m + 2
    <3>1. k \in 1..(m + 1) /\ k \in 1..Len(h)
      BY <1>2, <2>3
    <3>2. QED
      BY <1>1, <1>5, <3>1
  <2>4. QED
    BY <2>2, <2>3
<1>12. QED
  BY <1>10, <1>11 DEF Known

(* The oldest step falls off.                                              *)
LEMMA KnownDropped ==
    ASSUME NEW s, NEW G, Known(s, G), s.undo # <<>>,
           NEW s2, State(s2) = State(s), s2.undo = Tail(s.undo), s2.redo = s.redo,
           s2.base = Forward(s.base, Head(s.undo).changes)
    PROVE  Known(s2, G)
<1>1. PICK h : Chain(s, h) /\ \A k \in 1..Len(h) : h[k] \in G
  BY DEF Known
<1>a. Chain(s, h)
  BY <1>1
<1> DEFINE m == Len(s.undo)
           r == Len(s.redo)
           h2 == Tail(h)
<1>2. /\ m \in Nat /\ r \in Nat /\ h \in Seq(States)
      /\ Len(h) = m + r + 1 /\ h[1].rows = s.base
      /\ h[m + 1] = State(s) /\ s.undo \in Seq(Entries) /\ s.redo \in Seq(Entries)
      /\ \A k \in 1..m : Linked(h[k], s.undo[k], h[k + 1])
      /\ \A k \in 1..r : Linked(h[m + r + 1 - k], s.redo[k], h[m + r + 2 - k])
  BY ONLY <1>a, ChainParts
<1>3. m # 0
  BY <1>2
<1>4. /\ Head(s.undo) = s.undo[1]
      /\ s2.undo \in Seq(Entries) /\ Len(s2.undo) = m - 1
      /\ \A k \in 1..(m - 1) : s2.undo[k] = s.undo[k + 1]
  BY <1>2, HeadTailProperties
<1> HIDE DEF m, r
<1>5. h # <<>>
  BY <1>2
<1>6. h2 \in Seq(States) /\ Len(h2) = m + r /\ \A k \in 1..(m + r) : h2[k] = h[k + 1]
  <2>1. h2 \in Seq(States) /\ Len(h2) = Len(h) - 1 /\ \A k \in 1..Len(h2) : h2[k] = h[k + 1]
    BY <1>2, <1>5, HeadTailProperties
  <2> HIDE DEF h2
  <2>2. QED
    BY <1>2, <2>1
<1> HIDE DEF h2
<1>7. Len(s2.redo) = r /\ s2.redo \in Seq(Entries)
  BY <1>2 DEF r
<1>8. h2[1].rows = s2.base
  <2>1. 1 \in 1..m /\ 1 \in 1..(m + r) /\ 1 + 1 = 2
    BY <1>2, <1>3
  <2>2. Linked(h[1], s.undo[1], h[2]) /\ h2[1] = h[2]
    BY <1>2, <1>6, <2>1
  <2>3. s.undo[1].changes \in Seq(Changes)
    <3>1. s.undo[1] \in Entries
      BY <1>2, <2>1 DEF m
    <3>2. QED
      BY <3>1 DEF Entries
  <2>4. Forward(h[1].rows, s.undo[1].changes) = h[2].rows
    BY <2>2, <2>3, PathForward DEF Linked
  <2>5. QED
    BY <1>2, <1>4, <2>2, <2>4
<1>9. ASSUME NEW k \in 1..(m - 1) PROVE Linked(h2[k], s2.undo[k], h2[k + 1])
  <2>1. k + 1 \in 1..m /\ k \in 1..(m + r) /\ k + 1 \in 1..(m + r)
    BY <1>2
  <2>2. QED
    BY <1>2, <1>4, <1>6, <2>1
<1>10. ASSUME NEW k \in 1..r
       PROVE  Linked(h2[(m - 1) + r + 1 - k], s2.redo[k], h2[(m - 1) + r + 2 - k])
  <2> DEFINE i == m + r - k
  <2>0. m \in Nat /\ r \in Nat /\ m # 0
    BY <1>2, <1>3
  <2>1. i \in 1..(m + r) /\ i + 1 \in 1..(m + r)
        /\ (m - 1) + r + 1 - k = i /\ (m - 1) + r + 2 - k = i + 1
        /\ m + r + 1 - k = i + 1 /\ m + r + 2 - k = i + 1 + 1
    BY ONLY <2>0, k \in 1..r
  <2> HIDE DEF i
  <2>2. QED
    BY <1>2, <1>6, <2>1
<1>11. Len(h2) = (m - 1) + r + 1 /\ (m - 1) + 1 = m /\ m \in 1..(m + r)
  BY <1>2, <1>3, <1>6
<1>12. h2[m] = State(s2)
  BY <1>2, <1>6, <1>11
<1>13. Chain(s2, h2)
  BY <1>4, <1>6, <1>7, <1>8, <1>9, <1>10, <1>11, <1>12 DEF Chain
<1>14. \A k \in 1..Len(h2) : h2[k] \in G
  BY <1>1, <1>2, <1>6
<1>15. QED
  BY <1>13, <1>14 DEF Known

(* The step before the last is the last to be undone.                      *)
LEMMA KnownUndone ==
    ASSUME NEW s, NEW G, Known(s, G), s.undo # <<>>,
           NEW s2, s2.rows = Backward(s.rows, Last(s.undo).changes),
           s2.queue = Last(s.undo).before, s2.undo = Front(s.undo),
           s2.redo = Append(s.redo, Last(s.undo)), s2.base = s.base
    PROVE  Known(s2, G)
<1>1. PICK h : Chain(s, h) /\ \A k \in 1..Len(h) : h[k] \in G
  BY DEF Known
<1>a. Chain(s, h)
  BY <1>1
<1> DEFINE m == Len(s.undo)
           r == Len(s.redo)
<1>2. /\ m \in Nat /\ r \in Nat /\ h \in Seq(States)
      /\ Len(h) = m + r + 1 /\ h[1].rows = s.base
      /\ h[m + 1] = State(s) /\ s.undo \in Seq(Entries) /\ s.redo \in Seq(Entries)
      /\ \A k \in 1..m : Linked(h[k], s.undo[k], h[k + 1])
      /\ \A k \in 1..r : Linked(h[m + r + 1 - k], s.redo[k], h[m + r + 2 - k])
  BY ONLY <1>a, ChainParts
<1>3. m # 0 /\ m \in 1..m /\ s.undo[m] \in Entries /\ Last(s.undo) = s.undo[m]
  BY <1>2 DEF Last
<1>4. /\ s2.undo \in Seq(Entries) /\ Len(s2.undo) = m - 1
      /\ \A k \in 1..(m - 1) : s2.undo[k] = s.undo[k]
  <2>1. s2.undo = SubSeq(s.undo, 1, m - 1)
    BY DEF Front
  <2>2. 1 \in Int /\ m - 1 \in Int /\ \A k \in 1..(m - 1) : s.undo[k] \in Entries
    BY <1>2
  <2> HIDE DEF m
  <2>3. /\ s2.undo \in Seq(Entries)
        /\ Len(s2.undo) = IF 1 <= m - 1 THEN (m - 1) - 1 + 1 ELSE 0
        /\ \A k \in 1..((m - 1) - 1 + 1) : s2.undo[k] = s.undo[1 + k - 1]
    BY <2>1, <2>2, SubSeqProperties
  <2>4. QED
    BY <1>2, <1>3, <2>3
<1>5. /\ s2.redo \in Seq(Entries) /\ Len(s2.redo) = r + 1
      /\ \A k \in 1..r : s2.redo[k] = s.redo[k]
      /\ s2.redo[r + 1] = s.undo[m]
  BY <1>2, <1>3, AppendProperties
<1>6. Linked(h[m], s.undo[m], State(s))
  BY <1>2, <1>3
<1> HIDE DEF m, r
<1>7. State(s2) = h[m]
  <2>1. h[m] \in States /\ s.undo[m].changes \in Seq(Changes)
    BY <1>2, <1>3 DEF Entries
  <2>2. Path(h[m].rows, s.undo[m].changes, s.rows) /\ s.undo[m].before = h[m].queue
    BY <1>6 DEF Linked, State
  <2>3. s2.rows = h[m].rows
    BY <1>3, <2>1, <2>2, PathBackward
  <2>4. s2.queue = h[m].queue
    BY <1>3, <2>2
  <2>5. QED
    BY <2>1, <2>3, <2>4 DEF State, States
<1>8. ASSUME NEW k \in 1..(r + 1)
      PROVE  Linked(h[(m - 1) + (r + 1) + 1 - k], s2.redo[k],
                    h[(m - 1) + (r + 1) + 2 - k])
  <2>1. (m - 1) + (r + 1) + 1 - k = m + r + 1 - k
        /\ (m - 1) + (r + 1) + 2 - k = m + r + 2 - k
    BY <1>2
  <2>2. CASE k = r + 1
    <3>1. m + r + 1 - k = m /\ m + r + 2 - k = m + 1
      BY <1>2, <2>2
    <3>2. QED
      BY <1>2, <1>3, <1>5, <2>1, <2>2, <3>1
  <2>3. CASE k # r + 1
    <3>1. k \in 1..r
      BY <1>2, <2>3
    <3>2. QED
      BY <1>2, <1>5, <2>1, <3>1
  <2>4. QED
    BY <2>2, <2>3
<1>9. \A k \in 1..(m - 1) : Linked(h[k], s2.undo[k], h[k + 1])
  BY <1>2, <1>4
<1>10. Len(h) = (m - 1) + (r + 1) + 1 /\ (m - 1) + 1 = m
  BY <1>2
<1>11. Chain(s2, h)
  BY <1>2, <1>4, <1>5, <1>7, <1>8, <1>9, <1>10 DEF Chain
<1>12. QED
  BY <1>1, <1>11 DEF Known

LEMMA KnownRedone ==
    ASSUME NEW s, NEW G, Known(s, G), s.redo # <<>>,
           NEW s2, s2.rows = Forward(s.rows, Last(s.redo).changes),
           s2.queue = Last(s.redo).after, s2.redo = Front(s.redo),
           s2.undo = Append(s.undo, Last(s.redo)), s2.base = s.base
    PROVE  Known(s2, G)
<1>1. PICK h : Chain(s, h) /\ \A k \in 1..Len(h) : h[k] \in G
  BY DEF Known
<1>a. Chain(s, h)
  BY <1>1
<1> DEFINE m == Len(s.undo)
           r == Len(s.redo)
<1>2. /\ m \in Nat /\ r \in Nat /\ h \in Seq(States)
      /\ Len(h) = m + r + 1 /\ h[1].rows = s.base
      /\ h[m + 1] = State(s) /\ s.undo \in Seq(Entries) /\ s.redo \in Seq(Entries)
      /\ \A k \in 1..m : Linked(h[k], s.undo[k], h[k + 1])
      /\ \A k \in 1..r : Linked(h[m + r + 1 - k], s.redo[k], h[m + r + 2 - k])
  BY ONLY <1>a, ChainParts
<1>3. r # 0 /\ r \in 1..r /\ s.redo[r] \in Entries /\ Last(s.redo) = s.redo[r]
  BY <1>2 DEF Last
<1>4. /\ s2.redo \in Seq(Entries) /\ Len(s2.redo) = r - 1
      /\ \A k \in 1..(r - 1) : s2.redo[k] = s.redo[k]
  <2>1. s2.redo = SubSeq(s.redo, 1, r - 1)
    BY DEF Front
  <2>2. 1 \in Int /\ r - 1 \in Int /\ \A k \in 1..(r - 1) : s.redo[k] \in Entries
    BY <1>2
  <2> HIDE DEF r
  <2>3. /\ s2.redo \in Seq(Entries)
        /\ Len(s2.redo) = IF 1 <= r - 1 THEN (r - 1) - 1 + 1 ELSE 0
        /\ \A k \in 1..((r - 1) - 1 + 1) : s2.redo[k] = s.redo[1 + k - 1]
    BY <2>1, <2>2, SubSeqProperties
  <2>4. QED
    BY <1>2, <1>3, <2>3
<1>5. /\ s2.undo \in Seq(Entries) /\ Len(s2.undo) = m + 1
      /\ \A k \in 1..m : s2.undo[k] = s.undo[k]
      /\ s2.undo[m + 1] = s.redo[r]
  BY <1>2, <1>3, AppendProperties
<1>6. Linked(State(s), s.redo[r], h[m + 2])
  <2>0. m \in Nat /\ r \in Nat
    BY <1>2
  <2> HIDE DEF m, r
  <2>1. m + r + 1 - r = m + 1 /\ m + r + 2 - r = m + 2
    BY <2>0
  <2>2. QED
    BY <1>2, <1>3, <2>1
<1> HIDE DEF m, r
<1>7. State(s2) = h[m + 2]
  <2>1. h[m + 2] \in States /\ s.redo[r].changes \in Seq(Changes)
    BY <1>2, <1>3 DEF Entries
  <2>2. Path(s.rows, s.redo[r].changes, h[m + 2].rows)
        /\ s.redo[r].after = h[m + 2].queue
    BY <1>6 DEF Linked, State
  <2>3. s2.rows = h[m + 2].rows
    BY <1>3, <2>1, <2>2, PathForward
  <2>4. s2.queue = h[m + 2].queue
    BY <1>3, <2>2
  <2>5. QED
    BY <2>1, <2>3, <2>4 DEF State, States
<1>8. ASSUME NEW k \in 1..(m + 1) PROVE Linked(h[k], s2.undo[k], h[k + 1])
  <2>1. CASE k = m + 1
    <3>1. k + 1 = m + 2
      BY <1>2, <2>1
    <3>2. QED
      BY <1>2, <1>5, <1>6, <2>1, <3>1
  <2>2. CASE k # m + 1
    <3>1. k \in 1..m
      BY <1>2, <2>2
    <3>2. QED
      BY <1>2, <1>5, <3>1
  <2>3. QED
    BY <2>1, <2>2
<1>9. ASSUME NEW k \in 1..(r - 1)
      PROVE  Linked(h[(m + 1) + (r - 1) + 1 - k], s2.redo[k],
                    h[(m + 1) + (r - 1) + 2 - k])
  <2>1. (m + 1) + (r - 1) + 1 - k = m + r + 1 - k /\ k \in 1..r
        /\ (m + 1) + (r - 1) + 2 - k = m + r + 2 - k
    BY <1>2
  <2>2. QED
    BY <1>2, <1>4, <2>1
<1>10. Len(h) = (m + 1) + (r - 1) + 1 /\ (m + 1) + 1 = m + 2
  BY <1>2
<1>11. Chain(s2, h)
  BY <1>2, <1>4, <1>5, <1>7, <1>8, <1>9, <1>10 DEF Chain
<1>12. QED
  BY <1>1, <1>11 DEF Known
-----------------------------------------------------------------------------
(* Least and greatest numbers.                                             *)
LEMMA LeastOf ==
    ASSUME NEW S \in SUBSET Nat, S # {}
    PROVE  Min(S) \in S /\ \A k \in S : Min(S) <= k
<1>1. PICK n \in S : \A k \in S : ~(<<k, n>> \in OpToRel(<, Nat))
  BY WFMin, NatLessThanWellFounded
<1>2. \A k \in S : ~(<<k, n>> \in OpToRel(<, Nat)) => ~(k < n)
  BY DEF OpToRel
<1>3. \A k \in S : n <= k
  <2> SUFFICES ASSUME NEW k \in S PROVE n <= k
    OBVIOUS
  <2>1. ~(k < n)
    BY <1>1, <1>2
  <2>2. k \in Nat /\ n \in Nat
    OBVIOUS
  <2>3. QED
    BY <2>1, <2>2
<1>4. QED
  BY <1>3 DEF Min

LEMMA GreatestOf ==
    ASSUME NEW S \in SUBSET Nat, NEW b \in Nat, S # {}, \A k \in S : k <= b
    PROVE  Max(S) \in S /\ \A k \in S : k <= Max(S)
<1> DEFINE T == {n \in Nat : \A k \in S : k <= n}
<1>1. T \in SUBSET Nat /\ T # {}
  OBVIOUS
<1>2. Min(T) \in T /\ \A n \in T : Min(T) <= n
  <2> HIDE DEF T
  <2>1. QED
    BY <1>1, LeastOf
<1> DEFINE m == Min(T)
<1>3. m \in Nat /\ (\A k \in S : k <= m) /\ \A n \in T : m <= n
  BY <1>2
<1> HIDE DEF m
<1>4. m \in S
  <2> SUFFICES ASSUME m \notin S PROVE FALSE
    OBVIOUS
  <2>1. \A k \in S : k < m
    BY <1>3
  <2>2. m # 0
    <3>1. PICK k \in S : TRUE
      OBVIOUS
    <3>2. k \in Nat /\ k < m
      BY <2>1
    <3>3. QED
      BY <3>2
  <2>3. m - 1 \in T
    BY <1>3, <2>1, <2>2
  <2>4. m <= m - 1
    BY <1>3, <2>3
  <2>5. QED
    BY <1>3, <2>4
<1>5. QED
  BY <1>3, <1>4 DEF Max

-----------------------------------------------------------------------------
(* The rank of a position among those picked: one less than its place.     *)
Rank(S, k) == Cardinality({j \in S : j < k})

LEMMA RankType ==
    ASSUME NEW n \in Nat, NEW S \in SUBSET (1..n), NEW k
    PROVE  /\ IsFiniteSet(S) /\ IsFiniteSet({j \in S : j < k})
           /\ Rank(S, k) \in Nat /\ Cardinality(S) \in Nat
<1>1. IsFiniteSet(1..n)
  BY FS_Interval
<1>2. IsFiniteSet(S)
  BY <1>1, FS_Subset
<1>3. IsFiniteSet({j \in S : j < k})
  BY <1>2, FS_Subset
<1>4. QED
  BY <1>2, <1>3, FS_CardinalityType DEF Rank

LEMMA RankRises ==
    ASSUME NEW n \in Nat, NEW S \in SUBSET (1..n), NEW k \in S, NEW l \in 1..(n + 1),
           k < l
    PROVE  Rank(S, k) < Rank(S, l)
<1> DEFINE a == {j \in S : j < k}
           b == {j \in S : j < l}
<1>1. IsFiniteSet(a) /\ IsFiniteSet(b) /\ Rank(S, k) \in Nat /\ Rank(S, l) \in Nat
  BY RankType
<1>2. a \in SUBSET b /\ k \in b /\ k \notin a
  <2>1. k \in Int /\ l \in Int
    OBVIOUS
  <2>2. ASSUME NEW j \in a PROVE j \in b
    <3>1. j \in S /\ j \in Int /\ j < k
      OBVIOUS
    <3>2. j < l
      BY <2>1, <3>1
    <3>3. QED
      BY <3>1, <3>2
  <2>3. k \in b /\ k \notin a
    BY <2>1
  <2>4. QED
    BY <2>2, <2>3
<1>3. Rank(S, k) = Cardinality(a) /\ Rank(S, l) = Cardinality(b)
  BY DEF Rank
<1> HIDE DEF a, b
<1>4. /\ Cardinality(a) <= Cardinality(b)
      /\ Cardinality(b) = Cardinality(a) => b = a
  BY <1>1, <1>2, FS_Subset
<1>5. QED
  BY <1>1, <1>2, <1>3, <1>4

LEMMA RankBelow ==
    ASSUME NEW n \in Nat, NEW S \in SUBSET (1..n), NEW k \in S
    PROVE  Rank(S, k) + 1 \in 1..Cardinality(S)
<1> DEFINE a == {j \in S : j < k}
<1>1. /\ IsFiniteSet(S) /\ IsFiniteSet(a) /\ Rank(S, k) \in Nat
      /\ Cardinality(S) \in Nat
  BY RankType
<1>2. a \in SUBSET S /\ k \notin a /\ Rank(S, k) = Cardinality(a)
  BY DEF Rank
<1> HIDE DEF a
<1>3. /\ Cardinality(a) <= Cardinality(S)
      /\ Cardinality(S) = Cardinality(a) => S = a
  BY <1>1, <1>2, FS_Subset
<1>4. QED
  BY <1>1, <1>2, <1>3

(* Every rank is taken.                                                    *)
LEMMA RankTaken ==
    ASSUME NEW n \in Nat, NEW S \in SUBSET (1..n), NEW m \in 1..Cardinality(S)
    PROVE  \E k \in S : Rank(S, k) = m - 1
<1> DEFINE r == [k \in S |-> Rank(S, k) + 1]
           T == 1..Cardinality(S)
<1>1. IsFiniteSet(S) /\ Cardinality(S) \in Nat
  BY RankType
<1>2. r \in [S -> T]
  BY RankBelow
<1>3. \A k, l \in S : r[k] = r[l] => k = l
  <2> SUFFICES ASSUME NEW k \in S, NEW l \in S, r[k] = r[l], k # l PROVE FALSE
    OBVIOUS
  <2>1. Rank(S, k) \in Nat /\ Rank(S, l) \in Nat /\ Rank(S, k) + 1 = Rank(S, l) + 1
    BY RankType
  <2>2. k < l \/ l < k
    OBVIOUS
  <2>3. k < l => Rank(S, k) < Rank(S, l)
    BY RankRises
  <2>4. l < k => Rank(S, l) < Rank(S, k)
    BY RankRises
  <2>5. QED
    BY <2>1, <2>2, <2>3, <2>4
<1>4. IsFiniteSet(T) /\ Cardinality(T) = Cardinality(S)
  BY <1>1, FS_Interval
<1> HIDE DEF T
<1>5. r \in Injection(S, T)
  BY <1>2, <1>3 DEF Injection, IsInjective
<1>6. r \in Surjection(S, T)
  <2> HIDE DEF r
  <2>1. QED
    BY <1>1, <1>4, <1>5, FS_Injection
<1>7. PICK k \in S : r[k] = m
  BY <1>6 DEF Surjection, T
<1>8. Rank(S, k) \in Nat
  BY RankType
<1>9. QED
  BY <1>7, <1>8

(* What Picked picks.                                                      *)
LEMMA PickedPlaces ==
    ASSUME NEW n \in Nat, NEW S \in SUBSET (1..n), NEW s
    PROVE  /\ DOMAIN Picked(s, S) = 1..Cardinality(S)
           /\ Cardinality(S) \in Nat
           /\ \A k \in S : /\ Rank(S, k) + 1 \in 1..Cardinality(S)
                           /\ Picked(s, S)[Rank(S, k) + 1] = s[k]
<1>1. /\ DOMAIN Picked(s, S) = 1..Cardinality(S)
      /\ \A m \in 1..Cardinality(S) :
            Picked(s, S)[m] = s[CHOOSE k \in S : Rank(S, k) = m - 1]
  BY DEF Picked, Rank
<1>2. Cardinality(S) \in Nat /\ \A k \in S : Rank(S, k) \in Nat
  BY RankType
<1>3. ASSUME NEW m \in 1..Cardinality(S), NEW k \in S, Rank(S, k) = m - 1
      PROVE  Picked(s, S)[m] = s[k]
  <2> DEFINE c == CHOOSE l \in S : Rank(S, l) = m - 1
  <2>1. c \in S /\ Rank(S, c) = m - 1
    BY <1>3
  <2> HIDE DEF c
  <2>2. c = k
    <3> SUFFICES ASSUME c # k PROVE FALSE
      OBVIOUS
    <3>1. c < k \/ k < c
      BY <2>1
    <3>2. c < k => Rank(S, c) < Rank(S, k)
      BY <2>1, RankRises
    <3>3. k < c => Rank(S, k) < Rank(S, c)
      BY <2>1, RankRises
    <3>4. Rank(S, k) \in Nat /\ Rank(S, c) = Rank(S, k)
      BY <1>2, <1>3, <2>1
    <3>5. QED
      BY <3>1, <3>2, <3>3, <3>4
  <2>3. Picked(s, S)[m] = s[c]
    BY <1>1 DEF c
  <2>4. QED
    BY <2>2, <2>3
<1>4. ASSUME NEW k \in S
      PROVE  /\ Rank(S, k) + 1 \in 1..Cardinality(S)
             /\ Picked(s, S)[Rank(S, k) + 1] = s[k]
  <2>1. Rank(S, k) + 1 \in 1..Cardinality(S)
    BY RankBelow
  <2>2. Rank(S, k) = (Rank(S, k) + 1) - 1
    BY <1>2
  <2>3. QED
    BY <1>3, <2>1, <2>2
<1>5. QED
  BY <1>1, <1>2, <1>4

LEMMA PickedType ==
    ASSUME NEW T, NEW s \in Seq(T), NEW S \in SUBSET DOMAIN s
    PROVE  /\ Picked(s, S) \in Seq(T)
           /\ Len(Picked(s, S)) = Cardinality(S)
<1>1. Len(s) \in Nat /\ DOMAIN s = 1..Len(s) /\ \A k \in S : s[k] \in T
  BY LenProperties, ElementOfSeq
<1>2. /\ DOMAIN Picked(s, S) = 1..Cardinality(S) /\ Cardinality(S) \in Nat
      /\ \A m \in 1..Cardinality(S) : \E k \in S : Picked(s, S)[m] = s[k]
  <2>1. PICK n \in Nat : S \in SUBSET (1..n)
    BY <1>1
  <2>2. ASSUME NEW m \in 1..Cardinality(S)
        PROVE  \E k \in S : Picked(s, S)[m] = s[k]
    <3>1. PICK k \in S : Rank(S, k) = m - 1
      BY <2>1, RankTaken
    <3>2. Rank(S, k) \in Nat /\ Picked(s, S)[Rank(S, k) + 1] = s[k]
      BY <2>1, RankType, PickedPlaces
    <3>3. Rank(S, k) + 1 = m
      BY <3>1, <3>2
    <3>4. QED
      BY <3>2, <3>3
  <2>3. DOMAIN Picked(s, S) = 1..Cardinality(S) /\ Cardinality(S) \in Nat
    BY <2>1, PickedPlaces
  <2>4. QED
    BY <2>2, <2>3
<1>3. \A m \in 1..Cardinality(S) : Picked(s, S)[m] \in T
  BY <1>1, <1>2
<1>4. Picked(s, S) = [m \in 1..Cardinality(S) |-> Picked(s, S)[m]]
  BY DEF Picked
<1> DEFINE p == Picked(s, S)
<1> HIDE DEF p
<1>5. p = [m \in 1..Cardinality(S) |-> p[m]] /\ \A m \in 1..Cardinality(S) : p[m] \in T
  BY <1>3, <1>4 DEF p
<1>6. p \in Seq(T) /\ Len(p) = Cardinality(S)
  BY <1>2, <1>5
<1>7. QED
  BY <1>6 DEF p
-----------------------------------------------------------------------------
Cells  == [row : Nat, col : Columns, id : Nat]
Sheets == [rows : Grids, queue : Queues, undo : Seq(Entries), redo : Seq(Entries),
           cell : Cells, base : Grids, lost : Nat]
Small(s) == s \in Sheets /\ Len(s.undo) + Len(s.redo) <= UndoLimit

LEMMA SheetFields ==
    ASSUME NEW s, Small(s)
    PROVE  /\ s.rows \in Grids /\ s.queue \in Queues /\ s.base \in Grids
           /\ s.undo \in Seq(Entries) /\ s.redo \in Seq(Entries)
           /\ s.cell \in Cells /\ s.lost \in Nat
           /\ Len(s.undo) \in Nat /\ Len(s.redo) \in Nat
           /\ Len(s.undo) + Len(s.redo) <= UndoLimit
           /\ State(s) \in States
<1>1. s \in Sheets
  BY DEF Small
<1>2. /\ s.rows \in Grids /\ s.queue \in Queues /\ s.base \in Grids
      /\ s.undo \in Seq(Entries) /\ s.redo \in Seq(Entries)
      /\ s.cell \in Cells /\ s.lost \in Nat
  BY <1>1 DEF Sheets
<1>3. State(s) \in States
  BY <1>2 DEF State, States
<1>4. Len(s.undo) \in Nat /\ Len(s.redo) \in Nat
  BY <1>2, LenProperties
<1>5. QED
  BY <1>2, <1>3, <1>4 DEF Small

(* Recording a step.                                                       *)
LEMMA RecordedKnown ==
    ASSUME NEW s, NEW G, Small(s), Known(s, G), NEW rows \in Grids,
           NEW queue \in Queues, [rows |-> rows, queue |-> queue] \in G,
           NEW changes \in Seq(Changes), Path(s.rows, changes, rows)
    PROVE  /\ Small(Recorded(s, rows, queue, changes))
           /\ Known(Recorded(s, rows, queue, changes), G)
           /\ Recorded(s, rows, queue, changes).rows = rows
           /\ Recorded(s, rows, queue, changes).queue = queue
           /\ Recorded(s, rows, queue, changes).cell = s.cell
           /\ Recorded(s, rows, queue, changes).lost = 0 =>
                 s.lost = 0 /\ Recorded(s, rows, queue, changes).base = s.base
<1> DEFINE entry == [before |-> s.queue, after |-> queue, changes |-> changes]
           undo  == Append(s.undo, entry)
           next  == [s EXCEPT !.rows = rows, !.queue = queue, !.redo = <<>>,
                              !.undo = undo]
           w     == Recorded(s, rows, queue, changes)
<1>1. /\ s.rows \in Grids /\ s.queue \in Queues /\ s.base \in Grids
      /\ s.undo \in Seq(Entries) /\ s.redo \in Seq(Entries)
      /\ s.cell \in Cells /\ s.lost \in Nat
      /\ Len(s.undo) \in Nat /\ Len(s.redo) \in Nat
      /\ Len(s.undo) + Len(s.redo) <= UndoLimit
  BY SheetFields
<1>2. s \in Sheets
  BY DEF Small
<1>3. entry \in Entries /\ entry.before = s.queue /\ entry.after = queue
      /\ entry.changes = changes
  BY <1>1 DEF Entries
<1>4. w = IF changes = <<>> /\ queue = s.queue THEN [s EXCEPT !.rows = rows]
          ELSE IF Len(undo) <= UndoLimit THEN next
          ELSE [next EXCEPT !.undo = Tail(undo), !.lost = @ + 1,
                            !.base = Forward(@, Head(undo).changes)]
  BY DEF Recorded
<1> HIDE DEF w, entry
<1>5. CASE changes = <<>> /\ queue = s.queue
  <2>1. w = [s EXCEPT !.rows = rows]
    BY <1>4, <1>5
  <2>2. rows = s.rows
    BY <1>1, <1>5, NoPath
  <2>3. /\ w.rows = rows /\ w.queue = s.queue /\ w.undo = s.undo /\ w.redo = s.redo
        /\ w.base = s.base /\ w.cell = s.cell /\ w.lost = s.lost
    BY <1>2, <2>1 DEF Sheets
  <2>4. w \in Sheets
    BY <1>2, <2>1 DEF Sheets
  <2>5. Small(w)
    BY <1>1, <2>3, <2>4 DEF Small
  <2>6. Known(w, G)
    BY <2>2, <2>3, KnownFields
  <2>7. QED
    BY <1>5, <2>3, <2>5, <2>6 DEF w
<1>6. CASE ~(changes = <<>> /\ queue = s.queue)
  <2>1. undo \in Seq(Entries) /\ Len(undo) = Len(s.undo) + 1
    BY <1>1, <1>3, AppendProperties
  <2>2. undo = Append(s.undo, entry)
    OBVIOUS
  <2> HIDE DEF undo
  <2>3. <<>> \in Seq(Entries) /\ Len(<<>>) = 0
    OBVIOUS
  <2>4. next \in Sheets
    BY <1>2, <2>1, <2>3 DEF Sheets
  <2>5. /\ next.rows = rows /\ next.queue = queue /\ next.undo = undo /\ next.redo = <<>>
        /\ next.base = s.base /\ next.cell = s.cell /\ next.lost = s.lost
    BY <1>2 DEF Sheets
  <2> DEFINE st == [rows |-> rows, queue |-> queue]
  <2>6. st \in States /\ st \in G /\ st.rows = rows /\ st.queue = queue
    BY DEF States
  <2>7. State(next) = st
    BY <2>5 DEF State
  <2>8. Linked(State(s), entry, st)
    BY <1>3, <2>6 DEF Linked, State
  <2> HIDE DEF next, st
  <2>9. Known(next, G)
    BY <1>3, <2>2, <2>5, <2>6, <2>7, <2>8, KnownStep
  <2>10. CASE Len(undo) <= UndoLimit
    <3>1. w = next
      BY <1>4, <1>6, <2>10
    <3>2. Small(w)
      <4>1. Len(w.undo) = Len(undo) /\ Len(w.redo) = 0
        BY <2>3, <2>5, <3>1
      <4>2. Len(undo) + 0 = Len(undo)
        BY <1>1, <2>1
      <4>3. QED
        BY <2>4, <2>10, <3>1, <4>1, <4>2 DEF Small
    <3>3. QED
      BY <2>5, <2>9, <3>1, <3>2 DEF w
  <2>11. CASE ~(Len(undo) <= UndoLimit)
    <3>1. w = [next EXCEPT !.undo = Tail(undo), !.lost = @ + 1,
                           !.base = Forward(@, Head(undo).changes)]
      BY <1>4, <1>6, <2>11
    <3>2. undo # <<>>
      BY <1>1, <2>1
    <3>3. Tail(undo) \in Seq(Entries) /\ Len(Tail(undo)) = Len(s.undo)
      BY <1>1, <2>1, <3>2, HeadTailProperties
    <3>4. /\ w.rows = rows /\ w.queue = queue /\ w.undo = Tail(undo) /\ w.redo = <<>>
          /\ w.base = Forward(s.base, Head(undo).changes)
          /\ w.cell = s.cell /\ w.lost = s.lost + 1
      BY <2>4, <2>5, <3>1 DEF Sheets
    <3>5. State(w) = State(next)
      BY <2>5, <3>4 DEF State
    <3>6. Known(w, G)
      BY <2>5, <2>9, <3>2, <3>4, <3>5, KnownDropped
    <3>7. w.base \in Grids
      BY <3>6, KnownHere
    <3>8. w = [next EXCEPT !.undo = w.undo, !.lost = w.lost, !.base = w.base]
      BY <2>4, <2>5, <3>1, <3>4 DEF Sheets
    <3>9. w.lost \in Nat /\ w.undo \in Seq(Entries)
      BY <1>1, <3>3, <3>4
    <3>10. w \in Sheets
      BY <2>4, <3>7, <3>8, <3>9 DEF Sheets
    <3>11. Small(w)
      <4>1. Len(w.undo) = Len(s.undo) /\ Len(w.redo) = 0
        BY <2>3, <3>3, <3>4
      <4>2. Len(s.undo) + 0 <= UndoLimit
        <5>1. /\ Len(s.undo) \in Nat /\ Len(s.redo) \in Nat /\ UndoLimit \in Nat
              /\ Len(s.undo) + Len(s.redo) <= UndoLimit
          BY <1>1, SheetAssumption
        <5>2. \A a, b, c \in Nat : a + b <= c => a + 0 <= c
          OBVIOUS
        <5>3. QED
          BY ONLY <5>1, <5>2
      <4>3. QED
        BY <3>10, <4>1, <4>2 DEF Small
    <3>12. w.lost # 0
      BY <1>1, <3>4
    <3>13. QED
      BY <3>4, <3>6, <3>11, <3>12 DEF w
  <2>12. QED
    BY <2>10, <2>11
<1>7. QED
  BY <1>5, <1>6

-----------------------------------------------------------------------------
(* What an edit of a cell does to the queue.                               *)
Retyped(queue, k, col, v) == [queue EXCEPT ![k].snap[col] = v]

LEMMA EditOfQueue ==
    ASSUME NEW s, NEW i, NEW col, NEW v, s.queue \in Queues
    PROVE  \/ \E k \in DOMAIN s.queue :
                 /\ s.queue[k].kind = "insert" /\ s.queue[k].row = i
                 /\ QueueAfterEdit(s, i, col, v) = Retyped(s.queue, k, col, v)
           \/ /\ \A k \in DOMAIN s.queue :
                    ~(s.queue[k].kind = "insert" /\ s.queue[k].row = i)
              /\ QueueAfterEdit(s, i, col, v)
                    = Append(s.queue, Update(i, col, s.rows[i][col], v, s.rows[i]))
<1> DEFINE I == {k \in 1..Len(s.queue) : s.queue[k].kind = "insert" /\ s.queue[k].row = i}
<1>1. Len(s.queue) \in Nat /\ DOMAIN s.queue = 1..Len(s.queue)
  BY LenProperties DEF Queues
<1>2. SelectInSeq(s.queue, LAMBDA op : op.kind = "insert" /\ op.row = i)
         = IF I # {} THEN Min(I) ELSE 0
  BY DEF SelectInSeq
<1>3. CASE I # {}
  <2>1. I \in SUBSET Nat
    OBVIOUS
  <2>2. Min(I) \in I
    <3> HIDE DEF I
    <3>1. QED
      BY <1>3, <2>1, LeastOf
  <2> DEFINE k == Min(I)
  <2>3. k \in I /\ k # 0
    BY <2>2
  <2>4. QueueAfterEdit(s, i, col, v) = Retyped(s.queue, k, col, v)
    BY <1>2, <1>3, <2>3 DEF QueueAfterEdit, Retyped
  <2> HIDE DEF k
  <2>5. k \in DOMAIN s.queue /\ s.queue[k].kind = "insert" /\ s.queue[k].row = i
    BY <1>1, <2>3
  <2>6. QED
    BY <2>4, <2>5
<1>4. CASE I = {}
  <2>1. QueueAfterEdit(s, i, col, v)
           = Append(s.queue, Update(i, col, s.rows[i][col], v, s.rows[i]))
    BY <1>2, <1>4 DEF QueueAfterEdit
  <2>2. \A k \in DOMAIN s.queue : ~(s.queue[k].kind = "insert" /\ s.queue[k].row = i)
    BY <1>1, <1>4
  <2>3. QED
    BY <2>1, <2>2
<1>5. QED
  BY <1>3, <1>4
-----------------------------------------------------------------------------
(* The edits as operations on rows and queue.                              *)
Edited(st, i, col, v) == [rows  |-> WithCell(st.rows, i, col, v),
                          queue |-> QueueAfterEdit(st, i, col, v)]
Added(st, new) ==
    [rows  |-> WithRow(st.rows, Len(st.rows) + 1, new),
     queue |-> Append(st.queue, InsertRow(Len(st.rows) + 1, new))]
Copied(st, i, new) ==
    [rows  |-> WithRow(st.rows, i + 1, new),
     queue |-> Append(Shifted(st.queue, i + 1, 1), InsertRow(i + 1, new))]
Flipped(st, i) ==
    IF i \in PendingRows(st.queue, "insert")
    THEN [rows  |-> WithoutRow(st.rows, i),
          queue |-> Shifted(OpsOffRow(st.queue, i), i + 1, -1)]
    ELSE IF i \in PendingRows(st.queue, "delete")
    THEN [rows |-> st.rows, queue |-> Restored(st.queue, i)]
    ELSE [rows |-> st.rows, queue |-> Append(st.queue, DeleteRow(i, st.rows[i]))]

(* No edit leads out of G; if strict, none of a row marked for deletion.   *)
(* What is typed is never DEFAULT.                                         *)
Stable(G, strict) ==
    /\ G \subseteq States
    /\ \A st \in G : \A i \in 1..Len(st.rows), col \in Columns, v \in Nat \ {Default} :
          (strict => i \notin PendingRows(st.queue, "delete"))
             => Edited(st, i, col, v) \in G
    /\ \A st \in G : \A new \in Rows : Added(st, new) \in G
    /\ \A st \in G : \A i \in 1..Len(st.rows), new \in Rows : Copied(st, i, new) \in G
    /\ \A st \in G : \A i \in 1..Len(st.rows) : Flipped(st, i) \in G

LEMMA QueueTypes ==
    ASSUME NEW queue \in Queues
    PROVE  /\ Len(queue) \in Nat /\ DOMAIN queue = 1..Len(queue)
           /\ queue \in Seq(Ops)
           /\ \A k \in DOMAIN queue : queue[k] \in Ops
BY LenProperties, ElementOfSeq DEF Queues

LEMMA OpTypes ==
    ASSUME NEW i \in Nat \ {0}, NEW col \in Columns, NEW old \in Nat, NEW new \in Nat,
           NEW r \in Rows
    PROVE  /\ Update(i, col, old, new, r) \in Ops
           /\ InsertRow(i, r) \in Ops
           /\ DeleteRow(i, r) \in Ops
           /\ DeleteRow(i, r) = [kind |-> "delete", row |-> i, col |-> "val",
                                 old |-> 0, new |-> 0, snap |-> r]
<1>1. Update(i, col, old, new, r) \in Ops
  BY DEF Update, Ops
<1>2. InsertRow(i, r) \in Ops
  BY DEF InsertRow, Ops, Columns
<1>3. DeleteRow(i, r) = [kind |-> "delete", row |-> i, col |-> "val",
                         old |-> 0, new |-> 0, snap |-> r]
  BY DEF DeleteRow, InsertRow
<1>4. DeleteRow(i, r) \in Ops
  BY <1>3 DEF Ops, Columns
<1>5. QED
  BY <1>1, <1>2, <1>3, <1>4

(* Shifted up, nothing below row 1; shifted down, what is at 2 or more.    *)
LEMMA ShiftedType ==
    ASSUME NEW queue \in Queues, NEW from \in Nat, NEW by \in {1, -1}, from >= 2
    PROVE  /\ Shifted(queue, from, by) \in Queues
           /\ Len(Shifted(queue, from, by)) = Len(queue)
           /\ DOMAIN Shifted(queue, from, by) = DOMAIN queue
           /\ \A k \in DOMAIN queue :
                 /\ Shifted(queue, from, by)[k].row
                       = IF queue[k].row >= from THEN queue[k].row + by ELSE queue[k].row
                 /\ Shifted(queue, from, by)[k].kind = queue[k].kind
                 /\ Shifted(queue, from, by)[k].col = queue[k].col
                 /\ Shifted(queue, from, by)[k].old = queue[k].old
                 /\ Shifted(queue, from, by)[k].new = queue[k].new
                 /\ Shifted(queue, from, by)[k].snap = queue[k].snap
<1> DEFINE w == Shifted(queue, from, by)
<1>1. /\ Len(queue) \in Nat /\ DOMAIN queue = 1..Len(queue)
      /\ \A k \in DOMAIN queue : queue[k] \in Ops
  BY QueueTypes
<1>2. w = [k \in DOMAIN queue |->
              IF queue[k].row >= from THEN [queue[k] EXCEPT !.row = @ + by] ELSE queue[k]]
  BY DEF Shifted
<1> HIDE DEF w
<1>3. ASSUME NEW k \in DOMAIN queue
      PROVE  /\ w[k] \in Ops
             /\ w[k].row = IF queue[k].row >= from THEN queue[k].row + by ELSE queue[k].row
             /\ w[k].kind = queue[k].kind
             /\ w[k].col = queue[k].col
             /\ w[k].old = queue[k].old
             /\ w[k].new = queue[k].new
             /\ w[k].snap = queue[k].snap
  <2> DEFINE op == queue[k]
             n == IF op.row >= from THEN op.row + by ELSE op.row
  <2>1. op \in Ops /\ op.row \in Nat \ {0}
    BY <1>1 DEF Ops
  <2>2. n \in Nat \ {0}
    BY <2>1
  <2>3. w[k] = IF op.row >= from THEN [op EXCEPT !.row = op.row + by] ELSE op
    BY <1>2
  <2>4. op = [op EXCEPT !.row = op.row]
    BY <2>1 DEF Ops
  <2>5. w[k] = [op EXCEPT !.row = n]
    BY <2>3, <2>4
  <2> HIDE DEF op
  <2> HIDE DEF n
  <2>6. /\ w[k] \in Ops /\ w[k].row = n /\ w[k].kind = op.kind /\ w[k].col = op.col
        /\ w[k].old = op.old /\ w[k].new = op.new /\ w[k].snap = op.snap
    BY <2>1, <2>2, <2>5 DEF Ops
  <2>7. QED
    BY <2>6 DEF n, op
<1>4. w \in Seq(Ops) /\ Len(w) = Len(queue) /\ DOMAIN w = DOMAIN queue
  <2>1. w = [k \in 1..Len(queue) |-> w[k]]
    BY <1>1, <1>2
  <2>2. \A k \in 1..Len(queue) : w[k] \in Ops
    BY <1>1, <1>3
  <2>3. QED
    BY <1>1, <2>1, <2>2
<1>5. QED
  BY <1>3, <1>4 DEF Queues, w

LEMMA EditType ==
    ASSUME NEW st \in States, NEW i \in 1..Len(st.rows), NEW col \in Columns, NEW v \in Nat
    PROVE  Edited(st, i, col, v) \in States
<1>1. st.rows \in Grids /\ st.queue \in Queues
  BY DEF States
<1>2. i \in Nat \ {0} /\ st.rows[i] \in Rows /\ st.rows[i][col] \in Nat
  <2>1. st.rows[i] \in Rows
    BY <1>1, ElementOfSeq DEF Grids
  <2>2. st.rows[i][col] \in Nat
    BY <2>1 DEF Rows, Columns
  <2>3. i \in Nat \ {0}
    BY <1>1 DEF Grids
  <2>4. QED
    BY <2>1, <2>2, <2>3
<1>3. WithCell(st.rows, i, col, v) \in Grids
  BY <1>1, CellTakes
<1>4. QueueAfterEdit(st, i, col, v) \in Queues
  <2>1. /\ st.queue \in Seq(Ops) /\ DOMAIN st.queue = 1..Len(st.queue)
        /\ \A k \in DOMAIN st.queue : st.queue[k] \in Ops
    BY <1>1, QueueTypes
  <2>2. ASSUME NEW k \in DOMAIN st.queue
        PROVE  Retyped(st.queue, k, col, v) \in Queues
    <3>1. st.queue[k] \in Ops
      BY <2>1
    <3> DEFINE op == [st.queue[k] EXCEPT !.snap[col] = v]
    <3>2. op \in Ops
      BY <3>1 DEF Ops, Rows, Columns
    <3>3. Retyped(st.queue, k, col, v) = [st.queue EXCEPT ![k] = op]
      BY DEF Retyped
    <3> HIDE DEF op
    <3>4. k \in 1..Len(st.queue) /\ st.queue \in Seq(Ops)
      BY <2>1
    <3>5. [st.queue EXCEPT ![k] = op] \in Seq(Ops)
      BY <3>2, <3>4, ExceptSeq
    <3>6. QED
      BY <3>3, <3>5 DEF Queues
  <2>3. Append(st.queue, Update(i, col, st.rows[i][col], v, st.rows[i])) \in Queues
    <3>1. Update(i, col, st.rows[i][col], v, st.rows[i]) \in Ops
      BY <1>2, OpTypes
    <3>2. QED
      BY <2>1, <3>1, AppendProperties DEF Queues
  <2> DEFINE w == QueueAfterEdit(st, i, col, v)
  <2>4. \/ \E k \in DOMAIN st.queue : w = Retyped(st.queue, k, col, v)
        \/ w = Append(st.queue, Update(i, col, st.rows[i][col], v, st.rows[i]))
    BY <1>1, EditOfQueue
  <2> HIDE DEF w
  <2>5. w \in Queues
    BY <2>2, <2>3, <2>4
  <2>6. QED
    BY <2>5 DEF w
<1>5. QED
  BY <1>3, <1>4 DEF Edited, States

LEMMA AddType ==
    ASSUME NEW st \in States, NEW new \in Rows
    PROVE  Added(st, new) \in States
<1>1. st.rows \in Grids /\ st.queue \in Queues /\ Len(st.rows) \in Nat
  BY LenProperties DEF States, Grids
<1> DEFINE i == Len(st.rows) + 1
<1>2. i \in Nat \ {0}
  BY <1>1
<1> HIDE DEF i
<1>3. WithRow(st.rows, i, new) \in Grids
  BY <1>1, <1>2, RowPutIn
<1>4. InsertRow(i, new) \in Ops
  BY <1>2, OpTypes DEF Columns
<1>5. Append(st.queue, InsertRow(i, new)) \in Queues
  BY <1>1, <1>4, AppendProperties DEF Queues
<1>6. QED
  BY <1>3, <1>5 DEF Added, States, i

LEMMA CopyType ==
    ASSUME NEW st \in States, NEW i \in 1..Len(st.rows), NEW new \in Rows
    PROVE  Copied(st, i, new) \in States
<1>1. st.rows \in Grids /\ st.queue \in Queues /\ Len(st.rows) \in Nat
  BY LenProperties DEF States, Grids
<1>2. i + 1 \in Nat \ {0} /\ i + 1 \in Nat /\ i + 1 >= 2
  BY <1>1
<1>3. WithRow(st.rows, i + 1, new) \in Grids
  BY <1>1, <1>2, RowPutIn
<1>4. InsertRow(i + 1, new) \in Ops
  BY <1>2, OpTypes DEF Columns
<1>5. Shifted(st.queue, i + 1, 1) \in Queues
  BY <1>1, <1>2, ShiftedType
<1>6. Append(Shifted(st.queue, i + 1, 1), InsertRow(i + 1, new)) \in Queues
  BY <1>4, <1>5, AppendProperties DEF Queues
<1>7. QED
  BY <1>3, <1>6 DEF Copied, States

LEMMA FlipType ==
    ASSUME NEW st \in States, NEW i \in 1..Len(st.rows)
    PROVE  Flipped(st, i) \in States
<1>1. st.rows \in Grids /\ st.queue \in Queues /\ Len(st.rows) \in Nat
  BY LenProperties DEF States, Grids
<1>2. i \in Nat \ {0} /\ i + 1 \in Nat /\ i + 1 >= 2
  BY <1>1
<1>3. [rows |-> WithoutRow(st.rows, i),
       queue |-> Shifted(OpsOffRow(st.queue, i), i + 1, -1)] \in States
  <2>1. WithoutRow(st.rows, i) \in Grids
    BY <1>1, <1>2, RowTaken
  <2>2. OpsOffRow(st.queue, i) \in Queues
    BY <1>1, PickedType DEF OpsOffRow, Queues
  <2>3. Shifted(OpsOffRow(st.queue, i), i + 1, -1) \in Queues
    BY <1>2, <2>2, ShiftedType
  <2>4. QED
    BY <2>1, <2>3 DEF States
<1>4. [rows |-> st.rows, queue |-> Restored(st.queue, i)] \in States
  <2>1. Restored(st.queue, i) \in Queues
    BY <1>1, PickedType DEF Restored, Queues
  <2>2. QED
    BY <1>1, <2>1 DEF States
<1>5. [rows |-> st.rows, queue |-> Append(st.queue, DeleteRow(i, st.rows[i]))] \in States
  <2>1. st.rows[i] \in Rows
    BY <1>1, ElementOfSeq DEF Grids
  <2>2. DeleteRow(i, st.rows[i]) \in Ops
    BY <1>2, <2>1, OpTypes DEF Columns
  <2>3. Append(st.queue, DeleteRow(i, st.rows[i])) \in Queues
    BY <1>1, <2>2, AppendProperties DEF Queues
  <2>4. QED
    BY <1>1, <2>3 DEF States
<1>6. QED
  BY <1>3, <1>4, <1>5 DEF Flipped

LEMMA StatesStable == Stable(States, FALSE)
<1>1. \A st \in States :
         \A i \in 1..Len(st.rows), col \in Columns, v \in Nat \ {Default} :
            Edited(st, i, col, v) \in States
  BY EditType
<1>2. \A st \in States : \A new \in Rows : Added(st, new) \in States
  BY AddType
<1>3. \A st \in States : \A i \in 1..Len(st.rows), new \in Rows : Copied(st, i, new) \in States
  BY CopyType
<1>4. \A st \in States : \A i \in 1..Len(st.rows) : Flipped(st, i) \in States
  BY FlipType
<1>5. QED
  BY <1>1, <1>2, <1>3, <1>4 DEF Stable
-----------------------------------------------------------------------------
(* From s to s2 the history stays within G, and base is what it was unless *)
(* steps are lost.                                                         *)
Kept(s, s2, G) ==
    /\ Small(s2) /\ Known(s2, G)
    /\ s2.lost = 0 => s.lost = 0 /\ s2.base = s.base

(* The open cell names its row, which is not marked for deletion.          *)
CellHome(s) ==
    s.cell # NoCell =>
       /\ s.cell.row \in DOMAIN s.rows
       /\ s.rows[s.cell.row].id = s.cell.id
       /\ s.cell.row \notin PendingRows(s.queue, "delete")

LEMMA RecordedKept ==
    ASSUME NEW s, NEW G, Small(s), Known(s, G), NEW st \in States, st \in G,
           NEW changes \in Seq(Changes), Path(s.rows, changes, st.rows)
    PROVE  /\ Kept(s, Recorded(s, st.rows, st.queue, changes), G)
           /\ Recorded(s, st.rows, st.queue, changes).cell = s.cell
           /\ Recorded(s, st.rows, st.queue, changes).rows = st.rows
           /\ Recorded(s, st.rows, st.queue, changes).queue = st.queue
<1>1. st.rows \in Grids /\ st.queue \in Queues /\ [rows |-> st.rows, queue |-> st.queue] = st
  BY DEF States
<1>2. [rows |-> st.rows, queue |-> st.queue] \in G
  BY <1>1
<1> DEFINE w == Recorded(s, st.rows, st.queue, changes)
<1>3. /\ Small(w) /\ Known(w, G) /\ w.cell = s.cell /\ w.rows = st.rows
      /\ w.queue = st.queue /\ w.lost = 0 => s.lost = 0 /\ w.base = s.base
  BY <1>1, <1>2, RecordedKnown
<1>4. w.lost = 0 => s.lost = 0 /\ w.base = s.base
  BY <1>1, <1>2, RecordedKnown
<1>5. Small(w) /\ Known(w, G) /\ w.cell = s.cell /\ w.rows = st.rows /\ w.queue = st.queue
  BY <1>1, <1>2, RecordedKnown
<1> HIDE DEF w
<1>6. Kept(s, w, G)
  BY <1>4, <1>5 DEF Kept
<1>7. QED
  BY <1>5, <1>6 DEF w

LEMMA OnePath ==
    ASSUME NEW r \in Grids, NEW r2 \in Grids, NEW c \in Changes, Takes(r, c, r2)
    PROVE  <<c>> \in Seq(Changes) /\ Path(r, <<c>>, r2)
<1>1. <<>> \in Seq(Changes) /\ Path(r, <<>>, r)
  BY NoPath
<1>2. Append(<<>>, c) \in Seq(Changes) /\ Path(r, Append(<<>>, c), r2)
  BY <1>1, PathMore
<1>3. Append(<<>>, c) = <<c>>
  OBVIOUS
<1>4. QED
  BY <1>2, <1>3

LEMMA CancelledKept ==
    ASSUME NEW s, NEW G, Small(s), Known(s, G)
    PROVE  /\ Kept(s, Cancelled(s), G) /\ Cancelled(s).cell = NoCell
           /\ Cancelled(s).rows = s.rows /\ Cancelled(s).queue = s.queue
           /\ Cancelled(s).undo = s.undo /\ Cancelled(s).redo = s.redo
<1> DEFINE c == Cancelled(s)
<1>1. s \in Sheets
  BY DEF Small
<1>2. NoCell \in Cells
  BY DEF NoCell, Cells, Columns
<1>3. /\ c \in Sheets /\ c.cell = NoCell /\ c.rows = s.rows /\ c.queue = s.queue
      /\ c.undo = s.undo /\ c.redo = s.redo /\ c.base = s.base /\ c.lost = s.lost
  BY <1>1, <1>2 DEF Cancelled, Sheets
<1> HIDE DEF c
<1>4. Known(c, G)
  BY <1>3, KnownFields
<1>5. Small(c)
  BY <1>3 DEF Small
<1>6. QED
  BY <1>3, <1>4, <1>5 DEF Kept, c

LEMMA KeptTwice ==
    ASSUME NEW s, NEW s2, NEW s3, NEW G, Kept(s, s2, G), Kept(s2, s3, G)
    PROVE  Kept(s, s3, G)
BY DEF Kept

LEMMA KeptSelf ==
    ASSUME NEW s, NEW G, Small(s), Known(s, G)
    PROVE  Kept(s, s, G)
BY DEF Kept

LEMMA FinishedKept ==
    ASSUME NEW s, NEW G, NEW strict, Stable(G, strict), Small(s), Known(s, G),
           NEW v \in Nat, strict => s.cell.row \notin PendingRows(s.queue, "delete"),
           v = Default /\ s.cell.row \in DOMAIN s.rows
              => s.rows[s.cell.row][s.cell.col] = v
    PROVE  Kept(s, Finished(s, v), G) /\ Finished(s, v).cell = NoCell
<1> DEFINE i   == s.cell.row
           col == s.cell.col
           c   == Cancelled(s)
           st  == Edited(State(s), i, col, v)
           ch  == CellChange(i, col, s.rows[i][col], v)
<1>1. s.rows \in Grids /\ s.queue \in Queues /\ s.cell \in Cells /\ State(s) \in States
  BY SheetFields
<1>2. col \in Columns /\ i \in Nat
  BY <1>1 DEF Cells
<1>3. /\ Kept(s, c, G) /\ c.cell = NoCell /\ c.rows = s.rows /\ c.queue = s.queue
  BY CancelledKept
<1>4. CASE i \notin DOMAIN s.rows \/ s.rows[i][col] = v
  BY <1>3, <1>4 DEF Finished
<1>5. CASE ~(i \notin DOMAIN s.rows \/ s.rows[i][col] = v)
  <2>1. i \in 1..Len(s.rows) /\ State(s).rows = s.rows /\ State(s).queue = s.queue
    BY <1>1, <1>5, LenProperties DEF Grids, State
  <2>2. State(s) \in G
    BY KnownHere
  <2>3. st \in G /\ st \in States
    <3>1. strict => i \notin PendingRows(State(s).queue, "delete")
      BY <2>1
    <3>a. v \in Nat \ {Default}
      BY <1>5
    <3> HIDE DEF i, col
    <3>2. st \in G
      BY <1>2, <2>1, <2>2, <3>1, <3>a DEF Stable
    <3>3. st \in States
      BY <1>1, <1>2, <2>1, EditType
    <3>4. QED
      BY <3>2, <3>3
  <2>4. /\ st.rows = WithCell(s.rows, i, col, v)
        /\ st.queue = QueueAfterEdit(s, i, col, v)
    BY DEF Edited, QueueAfterEdit, State
  <2>5. /\ ch \in Changes /\ Takes(s.rows, ch, WithCell(s.rows, i, col, v))
        /\ WithCell(s.rows, i, col, v) \in Grids
    BY <1>1, <1>2, <2>1, CellTakes
  <2> HIDE DEF ch, st, c
  <2>6. <<ch>> \in Seq(Changes) /\ Path(c.rows, <<ch>>, st.rows)
    BY <1>1, <1>3, <2>4, <2>5, OnePath
  <2>7. Finished(s, v) = Recorded(c, st.rows, st.queue, <<ch>>)
    BY <1>5, <2>4 DEF Finished, ch, c
  <2>8. Small(c) /\ Known(c, G)
    BY <1>3 DEF Kept
  <2>9. /\ Kept(c, Recorded(c, st.rows, st.queue, <<ch>>), G)
        /\ Recorded(c, st.rows, st.queue, <<ch>>).cell = c.cell
    BY <2>3, <2>6, <2>8, RecordedKept
  <2>10. QED
    BY <1>3, <2>7, <2>9, KeptTwice
<1>6. QED
  BY <1>4, <1>5

LEMMA StartedKept ==
    ASSUME NEW s, NEW G, Small(s), Known(s, G), s.cell = NoCell,
           NEW i \in DOMAIN s.rows, NEW col \in Columns
    PROVE  /\ Kept(s, Started(s, i, col), G) /\ CellHome(Started(s, i, col))
           /\ State(Started(s, i, col)) = State(s)
<1>1. CASE i \in PendingRows(s.queue, "delete")
  <2>1. Started(s, i, col) = s
    BY <1>1 DEF Started
  <2>2. QED
    BY <2>1, KeptSelf DEF CellHome
<1>2. CASE i \notin PendingRows(s.queue, "delete")
  <2> DEFINE cell == [row |-> i, col |-> col, id |-> s.rows[i].id]
             w == [s EXCEPT !.cell = cell]
  <2>1. s \in Sheets /\ s.rows \in Grids
    BY SheetFields DEF Small
  <2>2. i \in 1..Len(s.rows) /\ Len(s.rows) \in Nat
    BY <2>1, LenProperties DEF Grids
  <2>3. s.rows[i] \in Rows /\ i \in Nat
    BY <2>1, <2>2, ElementOfSeq DEF Grids
  <2>4. cell \in Cells
    BY <2>3 DEF Cells, Rows
  <2>5. cell.row = i /\ cell.id = s.rows[i].id
    OBVIOUS
  <2>6. Started(s, i, col) = w
    BY <1>2 DEF Started
  <2> HIDE DEF cell
  <2>7. /\ w \in Sheets /\ w.cell = cell /\ w.rows = s.rows /\ w.queue = s.queue
        /\ w.undo = s.undo /\ w.redo = s.redo /\ w.base = s.base /\ w.lost = s.lost
    BY <2>1, <2>4 DEF Sheets
  <2> HIDE DEF w
  <2>8. Known(w, G)
    BY <2>7, KnownFields
  <2>9. Small(w)
    BY <2>7 DEF Small
  <2>10. CellHome(w)
    BY <1>2, <2>5, <2>7 DEF CellHome
  <2>11. QED
    BY <2>6, <2>7, <2>8, <2>9, <2>10 DEF Kept, State
<1>3. QED
  BY <1>1, <1>2

LEMMA RowAddedKept ==
    ASSUME NEW s, NEW G, NEW strict, Stable(G, strict), Small(s), Known(s, G),
           s.cell = NoCell, NEW id \in Nat
    PROVE  Kept(s, RowAdded(s, id), G) /\ CellHome(RowAdded(s, id))
<1> DEFINE i   == Len(s.rows) + 1
           new == [NoRow EXCEPT !.id = id]
           st  == Added(State(s), new)
           ch  == RowInserted(i, new)
<1>1. s.rows \in Grids /\ s.queue \in Queues /\ State(s) \in States
  BY SheetFields
<1>2. i \in 1..(Len(s.rows) + 1) /\ i \in Nat \ {0} /\ Len(s.rows) \in Nat
  BY <1>1, LenProperties DEF Grids
<1>3. new \in Rows
  BY DEF NoRow, Rows
<1>4. State(s) \in G
  BY KnownHere
<1> HIDE DEF new
<1>5. st \in G /\ st \in States
  BY <1>1, <1>3, <1>4, AddType DEF Stable
<1>6. /\ st.rows = WithRow(s.rows, i, new)
      /\ st.queue = Append(s.queue, InsertRow(i, new))
  BY DEF Added, State
<1>7. ch \in Changes /\ Takes(s.rows, ch, WithRow(s.rows, i, new))
  BY <1>1, <1>2, <1>3, InsertTakes
<1>8. WithRow(s.rows, i, new) \in Grids /\ Len(WithRow(s.rows, i, new)) = Len(s.rows) + 1
  <2>1. i <= Len(s.rows) + 1
    BY <1>2
  <2> HIDE DEF i
  <2>2. QED
    BY <1>1, <1>2, <1>3, <2>1, RowPutIn
<1> HIDE DEF ch, st, i
<1>9. <<ch>> \in Seq(Changes) /\ Path(s.rows, <<ch>>, st.rows)
  BY <1>1, <1>6, <1>7, <1>8, OnePath
<1> DEFINE w == Recorded(s, st.rows, st.queue, <<ch>>)
<1>10. Kept(s, w, G) /\ w.cell = s.cell /\ w.rows = st.rows
  BY <1>5, <1>9, RecordedKept
<1>11. RowAdded(s, id) = Started(w, i, "key")
  BY <1>6 DEF RowAdded, i, new, ch
<1> HIDE DEF w
<1>12. i \in DOMAIN w.rows
  <2>1. w.rows \in Grids /\ Len(w.rows) = Len(s.rows) + 1
    BY <1>6, <1>8, <1>10
  <2>2. DOMAIN w.rows = 1..Len(w.rows)
    BY <2>1, LenProperties DEF Grids
  <2>3. QED
    BY <1>2, <2>1, <2>2
<1>13. Small(w) /\ Known(w, G) /\ w.cell = NoCell /\ "key" \in Columns
  BY <1>10 DEF Kept, Columns
<1>14. Kept(w, Started(w, i, "key"), G) /\ CellHome(Started(w, i, "key"))
  BY <1>12, <1>13, StartedKept
<1>15. QED
  BY <1>10, <1>11, <1>14, KeptTwice

LEMMA DuplicatedKept ==
    ASSUME NEW s, NEW G, NEW strict, Stable(G, strict), Small(s), Known(s, G),
           NEW i \in DOMAIN s.rows, NEW id \in Nat, NEW key
    PROVE  /\ Kept(s, Duplicated(s, i, id, key), G)
           /\ Duplicated(s, i, id, key).cell = s.cell
<1> DEFINE new == [s.rows[i] EXCEPT !.id = id, !.key = IF key THEN Default ELSE @]
           st  == Copied(State(s), i, new)
           ch  == RowInserted(i + 1, new)
<1>1. s.rows \in Grids /\ s.queue \in Queues /\ State(s) \in States
  BY SheetFields
<1>2. /\ i \in 1..Len(s.rows) /\ Len(s.rows) \in Nat
      /\ i + 1 \in 1..(Len(s.rows) + 1) /\ i + 1 \in Nat \ {0}
  BY <1>1, LenProperties DEF Grids
<1>3. new \in Rows
  <2>1. s.rows[i] \in Rows
    BY <1>1, <1>2, ElementOfSeq DEF Grids
  <2>2. QED
    BY <2>1 DEF Rows, Default
<1>4. State(s) \in G /\ State(s).rows = s.rows
  BY KnownHere DEF State
<1> HIDE DEF new
<1>5. st \in G /\ st \in States
  BY <1>1, <1>2, <1>3, <1>4, CopyType DEF Stable
<1>6. /\ st.rows = WithRow(s.rows, i + 1, new)
      /\ st.queue = Append(Shifted(s.queue, i + 1, 1), InsertRow(i + 1, new))
  BY DEF Copied, State
<1>7. ch \in Changes /\ Takes(s.rows, ch, WithRow(s.rows, i + 1, new))
  BY <1>1, <1>2, <1>3, InsertTakes
<1>8. WithRow(s.rows, i + 1, new) \in Grids
  BY <1>1, <1>2, <1>3, RowPutIn
<1> HIDE DEF ch, st
<1>9. <<ch>> \in Seq(Changes) /\ Path(s.rows, <<ch>>, st.rows)
  BY <1>1, <1>6, <1>7, <1>8, OnePath
<1>10. Duplicated(s, i, id, key) = Recorded(s, st.rows, st.queue, <<ch>>)
  BY <1>6 DEF Duplicated, new, ch
<1> DEFINE w == Recorded(s, st.rows, st.queue, <<ch>>)
<1>11. Kept(s, w, G) /\ w.cell = s.cell
  BY <1>5, <1>9, RecordedKept
<1> HIDE DEF w
<1>12. Duplicated(s, i, id, key) = w
  BY <1>10 DEF w
<1>13. QED
  BY <1>11, <1>12
-----------------------------------------------------------------------------
(* The rows to delete, from the last to the first.                         *)
Ways == [rows : Grids, queue : Queues, changes : Seq(Changes)]

(* What is left of the way starts at row m.                                *)
OnWay(t, s, G, m) ==
    /\ t \in Ways /\ State(t) \in G
    /\ Path(s.rows, t.changes, t.rows)
    /\ Len(t.rows) >= m

LEMMA ToggleWay ==
    ASSUME NEW s, NEW G, NEW strict, Stable(G, strict), NEW t, NEW i \in Nat \ {0},
           OnWay(t, s, G, i)
    PROVE  OnWay(Toggled(t, i), s, G, i - 1)
<1>1. /\ t \in Ways /\ t.rows \in Grids /\ t.queue \in Queues
      /\ t.changes \in Seq(Changes) /\ State(t) \in G /\ Path(s.rows, t.changes, t.rows)
      /\ State(t).rows = t.rows /\ State(t).queue = t.queue
  BY DEF OnWay, Ways, State
<1>2. Len(t.rows) \in Nat /\ i \in 1..Len(t.rows) /\ State(t) \in States
  <2>1. Len(t.rows) \in Nat /\ Len(t.rows) >= i
    BY <1>1, LenProperties DEF Grids, OnWay
  <2>2. State(t) \in States
    BY <1>1 DEF Stable
  <2>3. QED
    BY <2>1, <2>2
<1>3. Flipped(State(t), i) \in G
  BY <1>1, <1>2 DEF Stable
<1>4. CASE i \in PendingRows(t.queue, "insert")
  <2> DEFINE ch == RowRemoved(i, t.rows[i])
             rows == WithoutRow(t.rows, i)
             queue == Shifted(OpsOffRow(t.queue, i), i + 1, -1)
             changes == Append(t.changes, ch)
             w == Toggled(t, i)
  <2>1. Flipped(State(t), i) = [rows |-> rows, queue |-> queue]
    BY <1>1, <1>4 DEF Flipped
  <2>2. [rows |-> rows, queue |-> queue] \in States
    BY <1>1, <1>2, <2>1, FlipType
  <2>3. rows \in Grids /\ queue \in Queues
    BY <2>2 DEF States
  <2>4. Len(rows) = Len(t.rows) - 1
    BY <1>1, <1>2, RowTaken
  <2>5. ch \in Changes /\ Takes(t.rows, ch, rows)
    BY <1>1, <1>2, RemoveTakes
  <2>6. w = [t EXCEPT !.rows = rows, !.queue = queue, !.changes = changes]
    BY <1>4 DEF Toggled
  <2> HIDE DEF ch, rows, queue
  <2>7. changes \in Seq(Changes) /\ Path(s.rows, changes, rows)
    BY <1>1, <2>3, <2>5, PathMore
  <2> HIDE DEF changes, w
  <2>8. w \in Ways /\ w.rows = rows /\ w.queue = queue /\ w.changes = changes
    BY <1>1, <2>3, <2>6, <2>7 DEF Ways
  <2>9. State(w) \in G
    BY <1>3, <2>1, <2>8 DEF State
  <2>10. Len(w.rows) >= i - 1
    BY <1>2, <2>4, <2>8
  <2>11. QED
    BY <2>7, <2>8, <2>9, <2>10 DEF OnWay, w
<1>5. CASE i \notin PendingRows(t.queue, "insert")
  <2> DEFINE w == Toggled(t, i)
  <2>1. PICK queue : /\ w = [t EXCEPT !.queue = queue]
                     /\ Flipped(State(t), i) = [rows |-> t.rows, queue |-> queue]
    <3>1. CASE i \in PendingRows(t.queue, "delete")
      BY <1>1, <1>5, <3>1 DEF Flipped, Toggled
    <3>2. CASE i \notin PendingRows(t.queue, "delete")
      BY <1>1, <1>5, <3>2 DEF Flipped, Toggled
    <3>3. QED
      BY <3>1, <3>2
  <2>2. [rows |-> t.rows, queue |-> queue] \in States
    BY <1>1, <1>2, <2>1, FlipType
  <2>3. queue \in Queues
    BY <2>2 DEF States
  <2> HIDE DEF w
  <2>4. w \in Ways /\ w.rows = t.rows /\ w.queue = queue /\ w.changes = t.changes
    BY <1>1, <2>1, <2>3 DEF Ways
  <2>5. State(w) \in G
    BY <1>3, <2>1, <2>4 DEF State
  <2>6. Len(w.rows) >= i - 1
    BY <1>2, <2>4
  <2>7. QED
    BY <1>1, <2>4, <2>5, <2>6 DEF OnWay, w
<1>6. QED
  BY <1>4, <1>5

(* The rows are toggled one by one.                                        *)
ToggledIn(t, P, i) == IF i \in P THEN Toggled(t, i) ELSE t
Toggles(g, first, P, n, m) ==
    g = [k \in 0..m |-> IF k = 0 THEN first
                        ELSE IF n + 1 - k \in P THEN Toggled(g[k - 1], n + 1 - k)
                        ELSE g[k - 1]]

LEMMA ToggleRuns ==
    ASSUME NEW first, NEW P, NEW n \in Nat
    PROVE  \A m \in Nat : \E g : Toggles(g, first, P, n, m)
<1> DEFINE S == {m \in Nat : \E g : Toggles(g, first, P, n, m)}
<1>1. 0 \in S
  <2>1. Toggles([k \in 0..0 |-> first], first, P, n, 0)
    BY DEF Toggles
  <2>2. QED
    BY <2>1
<1>2. ASSUME NEW m \in S PROVE m + 1 \in S
  <2>1. m \in Nat
    OBVIOUS
  <2>2. PICK f : Toggles(f, first, P, n, m)
    OBVIOUS
  <2> DEFINE last == ToggledIn(f[m], P, n - m)
             g == [k \in 0..(m + 1) |-> IF k = m + 1 THEN last ELSE f[k]]
  <2>3. \A k \in 0..m : f[k] = IF k = 0 THEN first
                               ELSE IF n + 1 - k \in P THEN Toggled(f[k - 1], n + 1 - k)
                               ELSE f[k - 1]
    BY <2>2 DEF Toggles
  <2>4. \A k \in 0..m : g[k] = f[k]
    BY <2>1
  <2>5. g[m + 1] = ToggledIn(g[m], P, n - m)
    BY <2>1, <2>4
  <2>6. DOMAIN g = 0..(m + 1) /\ g = [k \in 0..(m + 1) |-> g[k]]
    OBVIOUS
  <2> HIDE DEF g
  <2>7. ASSUME NEW k \in 0..(m + 1)
        PROVE  g[k] = IF k = 0 THEN first
                      ELSE IF n + 1 - k \in P THEN Toggled(g[k - 1], n + 1 - k)
                      ELSE g[k - 1]
    <3>1. CASE k = m + 1
      <4>1. k - 1 = m /\ n + 1 - k = n - m /\ k # 0
        BY <2>1, <3>1
      <4>2. QED
        BY <2>5, <3>1, <4>1 DEF ToggledIn
    <3>2. CASE k \in 1..m
      <4>1. k - 1 \in 0..m /\ k \in 0..m /\ k # 0
        BY <2>1, <3>2
      <4>2. g[k] = f[k] /\ g[k - 1] = f[k - 1]
        BY <2>4, <4>1
      <4>3. f[k] = IF n + 1 - k \in P THEN Toggled(f[k - 1], n + 1 - k) ELSE f[k - 1]
        BY <2>3, <4>1
      <4>4. QED
        BY <4>1, <4>2, <4>3
    <3>3. CASE k = 0
      BY <2>1, <2>3, <2>4, <3>3
    <3>4. QED
      BY <2>1, <3>1, <3>2, <3>3
  <2>8. Toggles(g, first, P, n, m + 1)
    BY <2>6, <2>7 DEF Toggles
  <2>9. QED
    BY <2>1, <2>8
<1>3. QED
  <2> HIDE DEF S
  <2>1. S \in SUBSET Nat
    BY DEF S
  <2>2. \A m \in Nat : m \in S
    BY <1>1, <1>2, <2>1, AllNumbers
  <2>3. QED
    BY <2>2 DEF S

LEMMA ToggledKept ==
    ASSUME NEW s, NEW G, NEW strict, Stable(G, strict), Small(s), Known(s, G), NEW P
    PROVE  /\ Kept(s, DeleteToggled(s, P), G)
           /\ DeleteToggled(s, P).cell = s.cell
<1> DEFINE n == Len(s.rows)
           first == [rows |-> s.rows, queue |-> s.queue, changes |-> <<>>]
           f == CHOOSE g : Toggles(g, first, P, n, n)
           w == DeleteToggled(s, P)
<1>1. s.rows \in Grids /\ s.queue \in Queues /\ n \in Nat /\ State(s) \in G
  BY SheetFields, KnownHere, LenProperties DEF Grids
<1>2. w = Recorded(s, f[n].rows, f[n].queue, f[n].changes)
  BY DEF DeleteToggled, Toggles
<1>3. OnWay(first, s, G, n)
  <2>1. <<>> \in Seq(Changes) /\ Path(s.rows, <<>>, s.rows)
    BY <1>1, NoPath
  <2>2. first \in Ways
    BY <1>1, <2>1 DEF Ways
  <2>3. State(first) = State(s)
    BY DEF State
  <2>4. QED
    BY <1>1, <2>1, <2>2, <2>3 DEF OnWay
<1> HIDE DEF n, first, w
<1>4. Toggles(f, first, P, n, n)
  BY <1>1, ToggleRuns
<1> HIDE DEF f
<1>5. \A k \in 0..n : f[k] = IF k = 0 THEN first
                             ELSE IF n + 1 - k \in P THEN Toggled(f[k - 1], n + 1 - k)
                             ELSE f[k - 1]
  BY <1>4 DEF Toggles
<1> DEFINE S == {k \in Nat : k \in 0..n => OnWay(f[k], s, G, n - k)}
<1>6. 0 \in S
  BY <1>1, <1>3, <1>5
<1>7. ASSUME NEW k \in S PROVE k + 1 \in S
  <2> SUFFICES ASSUME k + 1 \in 0..n PROVE OnWay(f[k + 1], s, G, n - (k + 1))
    OBVIOUS
  <2> DEFINE i == n - k
  <2>1. k \in 0..n /\ k + 1 # 0 /\ (k + 1) - 1 = k /\ n + 1 - (k + 1) = i
        /\ n - (k + 1) = i - 1 /\ i \in Nat \ {0}
    BY <1>1
  <2>2. f[k + 1] = IF i \in P THEN Toggled(f[k], i) ELSE f[k]
    BY <1>5, <2>1
  <2>3. OnWay(f[k], s, G, i)
    BY <2>1
  <2> HIDE DEF i
  <2>4. OnWay(Toggled(f[k], i), s, G, i - 1)
    BY <2>1, <2>3, ToggleWay
  <2>5. OnWay(f[k], s, G, i - 1)
    <3>1. Len(f[k].rows) \in Nat /\ Len(f[k].rows) >= i
      BY <2>3, LenProperties DEF OnWay, Ways, Grids
    <3>2. Len(f[k].rows) >= i - 1
      BY <2>1, <3>1
    <3>3. QED
      BY <2>3, <3>2 DEF OnWay
  <2>6. QED
    BY <2>1, <2>2, <2>4, <2>5
<1>8. OnWay(f[n], s, G, n - n)
  <2> HIDE DEF S
  <2>1. S \in SUBSET Nat
    BY DEF S
  <2>2. \A k \in Nat : k \in S
    BY <1>6, <1>7, <2>1, AllNumbers
  <2>3. n \in S /\ n \in 0..n
    BY <1>1, <2>2
  <2>4. QED
    BY <2>3 DEF S
<1> DEFINE t == f[n]
           st == [rows |-> t.rows, queue |-> t.queue]
<1>9. /\ t.rows \in Grids /\ t.queue \in Queues /\ t.changes \in Seq(Changes)
      /\ State(t) \in G /\ Path(s.rows, t.changes, t.rows)
  BY <1>8 DEF OnWay, Ways
<1> HIDE DEF t
<1>10. st \in States /\ st \in G /\ st.rows = t.rows /\ st.queue = t.queue
  BY <1>9 DEF States, State
<1> HIDE DEF st
<1> DEFINE v == Recorded(s, st.rows, st.queue, t.changes)
<1>11. Path(s.rows, t.changes, st.rows) /\ t.changes \in Seq(Changes)
  BY <1>9, <1>10
<1>12. Kept(s, v, G) /\ v.cell = s.cell
  BY <1>10, <1>11, RecordedKept
<1>13. w = v
  BY <1>2, <1>10 DEF t
<1> HIDE DEF v
<1>14. QED
  BY <1>12, <1>13 DEF w
-----------------------------------------------------------------------------
(* Undo and redo walk along the history.                                   *)
LEMMA LastOf ==
    ASSUME NEW T, NEW q \in Seq(T), q # <<>>
    PROVE  /\ Front(q) \in Seq(T) /\ Len(Front(q)) = Len(q) - 1
           /\ Last(q) \in T /\ Len(q) \in Nat \ {0}
<1>1. Len(q) \in Nat \ {0}
  BY EmptySeq, LenProperties
<1>2. Last(q) \in T
  BY <1>1, ElementOfSeq DEF Last
<1>3. /\ Len(q) - 1 \in Int
      /\ \A k \in 1..(Len(q) - 1) : q[k] \in T
  BY <1>1, ElementOfSeq
<1> DEFINE f == SubSeq(q, 1, Len(q) - 1)
<1>4. f \in Seq(T) /\ Len(f) = IF 1 <= Len(q) - 1 THEN (Len(q) - 1) - 1 + 1 ELSE 0
  BY <1>3, SubSeqProperties
<1>5. f = Front(q)
  BY DEF Front
<1> HIDE DEF f
<1>6. Len(f) = Len(q) - 1
  <2>1. \A a \in Nat \ {0} : (IF 1 <= a - 1 THEN (a - 1) - 1 + 1 ELSE 0) = a - 1
    OBVIOUS
  <2>2. QED
    BY <1>1, <1>4, <2>1
<1>7. QED
  BY <1>1, <1>2, <1>4, <1>5, <1>6

LEMMA UndoneKept ==
    ASSUME NEW s, NEW G, Small(s), Known(s, G)
    PROVE  Kept(s, Undone(s), G) /\ Undone(s).cell = s.cell
<1>1. CASE s.undo = <<>>
  BY <1>1, KeptSelf DEF Undone
<1>2. CASE s.undo # <<>>
  <2> DEFINE e == Last(s.undo)
             w == Undone(s)
             rows == Backward(s.rows, e.changes)
             redo == Append(s.redo, e)
  <2>1. /\ s \in Sheets /\ s.undo \in Seq(Entries) /\ s.redo \in Seq(Entries)
        /\ Len(s.undo) \in Nat /\ Len(s.redo) \in Nat
        /\ Len(s.undo) + Len(s.redo) <= UndoLimit
    BY SheetFields DEF Small
  <2>2. /\ Front(s.undo) \in Seq(Entries) /\ Len(Front(s.undo)) = Len(s.undo) - 1
        /\ e \in Entries
    BY <1>2, <2>1, LastOf
  <2>3. w = [s EXCEPT !.rows = rows, !.queue = e.before, !.undo = Front(s.undo),
                      !.redo = redo]
    BY <1>2 DEF Undone
  <2>4. e.before \in Queues
    BY <2>2 DEF Entries
  <2>5. redo \in Seq(Entries) /\ Len(redo) = Len(s.redo) + 1
    BY <2>1, <2>2, AppendProperties
  <2> HIDE DEF w
  <2>6. /\ w.rows = rows /\ w.queue = e.before /\ w.undo = Front(s.undo)
        /\ w.redo = redo /\ w.cell = s.cell /\ w.base = s.base /\ w.lost = s.lost
    BY <2>1, <2>3 DEF Sheets
  <2>7. Known(w, G)
    BY <1>2, <2>6, KnownUndone
  <2>8. rows \in Grids
    BY <2>6, <2>7, KnownHere
  <2> HIDE DEF rows, redo, e
  <2>9. w \in Sheets
    BY <2>1, <2>2, <2>3, <2>4, <2>5, <2>8 DEF Sheets
  <2>10. Len(w.undo) + Len(w.redo) = Len(s.undo) + Len(s.redo)
    <3>1. Len(w.undo) = Len(s.undo) - 1 /\ Len(w.redo) = Len(s.redo) + 1
      BY <2>2, <2>5, <2>6
    <3>2. \A m, r \in Nat : (m - 1) + (r + 1) = m + r /\ (m + 1) + (r - 1) = m + r
      OBVIOUS
    <3>3. QED
      BY <2>1, <3>1, <3>2
  <2>11. Small(w)
    BY <2>1, <2>9, <2>10 DEF Small
  <2>12. QED
    BY <2>6, <2>7, <2>11 DEF Kept, w
<1>3. QED
  BY <1>1, <1>2

LEMMA RedoneKept ==
    ASSUME NEW s, NEW G, Small(s), Known(s, G)
    PROVE  Kept(s, Redone(s), G) /\ Redone(s).cell = s.cell
<1>1. CASE s.redo = <<>>
  BY <1>1, KeptSelf DEF Redone
<1>2. CASE s.redo # <<>>
  <2> DEFINE e == Last(s.redo)
             w == Redone(s)
             rows == Forward(s.rows, e.changes)
             undo == Append(s.undo, e)
  <2>1. /\ s \in Sheets /\ s.undo \in Seq(Entries) /\ s.redo \in Seq(Entries)
        /\ Len(s.undo) \in Nat /\ Len(s.redo) \in Nat
        /\ Len(s.undo) + Len(s.redo) <= UndoLimit
    BY SheetFields DEF Small
  <2>2. /\ Front(s.redo) \in Seq(Entries) /\ Len(Front(s.redo)) = Len(s.redo) - 1
        /\ e \in Entries
    BY <1>2, <2>1, LastOf
  <2>3. w = [s EXCEPT !.rows = rows, !.queue = e.after, !.redo = Front(s.redo),
                      !.undo = undo]
    BY <1>2 DEF Redone
  <2>4. e.after \in Queues
    BY <2>2 DEF Entries
  <2>5. undo \in Seq(Entries) /\ Len(undo) = Len(s.undo) + 1
    BY <2>1, <2>2, AppendProperties
  <2> HIDE DEF w
  <2>6. /\ w.rows = rows /\ w.queue = e.after /\ w.redo = Front(s.redo)
        /\ w.undo = undo /\ w.cell = s.cell /\ w.base = s.base /\ w.lost = s.lost
    BY <2>1, <2>3 DEF Sheets
  <2>7. Known(w, G)
    BY <1>2, <2>6, KnownRedone
  <2>8. rows \in Grids
    BY <2>6, <2>7, KnownHere
  <2> HIDE DEF rows, undo, e
  <2>9. w \in Sheets
    BY <2>1, <2>2, <2>3, <2>4, <2>5, <2>8 DEF Sheets
  <2>10. Len(w.undo) + Len(w.redo) = Len(s.undo) + Len(s.redo)
    <3>1. Len(w.redo) = Len(s.redo) - 1 /\ Len(w.undo) = Len(s.undo) + 1
      BY <2>2, <2>5, <2>6
    <3>2. \A m, r \in Nat : (m - 1) + (r + 1) = m + r /\ (m + 1) + (r - 1) = m + r
      OBVIOUS
    <3>3. QED
      BY <2>1, <3>1, <3>2
  <2>11. Small(w)
    BY <2>1, <2>9, <2>10 DEF Small
  <2>12. QED
    BY <2>6, <2>7, <2>11 DEF Kept, w
<1>3. QED
  BY <1>1, <1>2

(* All steps undone, the rows are those of base.                           *)
LEMMA UnwoundIsBase ==
    ASSUME NEW s, NEW G, Known(s, G)
    PROVE  Unwound(s) = s.base
<1>1. PICK h : Chain(s, h) /\ \A k \in 1..Len(h) : h[k] \in G
  BY DEF Known
<1>a. Chain(s, h)
  BY <1>1
<1> DEFINE n == Len(s.undo)
           Winds(g) == g = [k \in 0..n |-> IF k = 0 THEN s.rows
                               ELSE Backward(g[k - 1], s.undo[n + 1 - k].changes)]
           f == CHOOSE g : Winds(g)
           p == [k \in 0..n |-> h[n + 1 - k].rows]
<1>2. /\ n \in Nat /\ h[1].rows = s.base /\ h[n + 1] = State(s)
      /\ s.undo \in Seq(Entries)
      /\ \A k \in 1..n : Linked(h[k], s.undo[k], h[k + 1])
  BY ONLY <1>a, ChainParts
<1>3. Unwound(s) = f[n]
  BY DEF Unwound
<1> HIDE DEF n
<1>4. p[0] = s.rows /\ p[n] = s.base
  <2>1. 0 \in 0..n /\ n \in 0..n /\ n + 1 - 0 = n + 1 /\ n + 1 - n = 1
    BY <1>2
  <2>2. State(s).rows = s.rows
    BY DEF State
  <2>3. QED
    BY <1>2, <2>1, <2>2
<1>5. ASSUME NEW k \in 1..n
      PROVE  p[k] = Backward(p[k - 1], s.undo[n + 1 - k].changes)
  <2> DEFINE m == n + 1 - k
  <2>1. m \in 1..n /\ k \in 0..n /\ k - 1 \in 0..n /\ n + 1 - (k - 1) = m + 1
    BY <1>2
  <2>2. p[k] = h[m].rows /\ p[k - 1] = h[m + 1].rows
    BY <2>1
  <2> HIDE DEF m, p
  <2>3. Linked(h[m], s.undo[m], h[m + 1])
    BY <1>2, <2>1
  <2>4. s.undo[m].changes \in Seq(Changes)
    <3>1. m \in 1..Len(s.undo)
      BY <2>1 DEF n
    <3>2. s.undo[m] \in Entries
      BY <1>2, <3>1, ElementOfSeq
    <3>3. QED
      BY <3>2 DEF Entries
  <2>5. Backward(h[m + 1].rows, s.undo[m].changes) = h[m].rows
    BY <2>3, <2>4, PathBackward DEF Linked
  <2>6. QED
    BY <2>2, <2>5 DEF m
<1>6. Winds(p)
  <2>1. ASSUME NEW k \in 0..n
        PROVE  p[k] = IF k = 0 THEN s.rows
                      ELSE Backward(p[k - 1], s.undo[n + 1 - k].changes)
    <3>1. k = 0 \/ k \in 1..n
      BY <1>2
    <3> HIDE DEF p
    <3>2. QED
      BY <1>4, <1>5, <3>1
  <2>2. p = [k \in 0..n |-> p[k]]
    OBVIOUS
  <2> HIDE DEF p
  <2>3. QED
    BY <2>1, <2>2
<1> HIDE DEF p
<1>7. /\ f[0] = s.rows
      /\ \A k \in 1..n : f[k] = Backward(f[k - 1], s.undo[n + 1 - k].changes)
  <2>1. Winds(f)
    <3> HIDE DEF Winds
    <3>1. QED
      BY <1>6
  <2> HIDE DEF f
  <2>2. \A k \in 0..n : f[k] = IF k = 0 THEN s.rows
                               ELSE Backward(f[k - 1], s.undo[n + 1 - k].changes)
    BY <2>1
  <2>3. 0 \in 0..n /\ \A k \in 1..n : k \in 0..n /\ k # 0
    BY <1>2
  <2>4. QED
    BY <2>2, <2>3
<1> HIDE DEF f, Winds
<1> DEFINE S == {k \in Nat : k \in 0..n => f[k] = p[k]}
<1>8. 0 \in S
  BY <1>4, <1>7
<1>9. ASSUME NEW k \in S PROVE k + 1 \in S
  <2> SUFFICES ASSUME k + 1 \in 0..n PROVE f[k + 1] = p[k + 1]
    OBVIOUS
  <2>1. k \in 0..n /\ k + 1 \in 1..n /\ (k + 1) - 1 = k
    BY <1>2
  <2>2. f[k] = p[k]
    BY <2>1
  <2>3. QED
    BY <1>5, <1>7, <2>1, <2>2
<1>10. f[n] = p[n]
  <2> HIDE DEF S
  <2>1. S \in SUBSET Nat
    BY DEF S
  <2>2. \A k \in Nat : k \in S
    BY <1>8, <1>9, <2>1, AllNumbers
  <2>3. n \in S /\ n \in 0..n
    BY <1>2, <2>2
  <2>4. QED
    BY <2>3 DEF S
<1>11. QED
  BY <1>3, <1>4, <1>10

(* The queues of the steps fit together.                                   *)
LEMMA QueuesFit ==
    ASSUME NEW s, NEW G, Known(s, G)
    PROVE  /\ s.undo # <<>> => Last(s.undo).after = s.queue
           /\ \A k \in 2..Len(s.undo) : s.undo[k].before = s.undo[k - 1].after
<1>1. PICK h : Chain(s, h) /\ \A k \in 1..Len(h) : h[k] \in G
  BY DEF Known
<1>a. Chain(s, h)
  BY <1>1
<1> DEFINE n == Len(s.undo)
<1>2. /\ n \in Nat /\ h[n + 1] = State(s) /\ s.undo \in Seq(Entries)
      /\ \A k \in 1..n : Linked(h[k], s.undo[k], h[k + 1])
  BY ONLY <1>a, ChainParts
<1>3. ASSUME s.undo # <<>> PROVE Last(s.undo).after = s.queue
  <2>1. n \in 1..n
    BY <1>2, <1>3, LastOf
  <2>2. Last(s.undo) = s.undo[n]
    BY DEF Last
  <2>3. State(s).queue = s.queue
    BY DEF State
  <2> HIDE DEF n
  <2>4. Linked(h[n], s.undo[n], h[n + 1])
    BY <1>2, <2>1
  <2>5. QED
    BY <1>2, <2>2, <2>3, <2>4 DEF Linked
<1>4. ASSUME NEW k \in 2..n PROVE s.undo[k].before = s.undo[k - 1].after
  <2>1. k \in 1..n /\ k - 1 \in 1..n /\ (k - 1) + 1 = k
    BY <1>2
  <2>2. Linked(h[k - 1], s.undo[k - 1], h[(k - 1) + 1]) /\ Linked(h[k], s.undo[k], h[k + 1])
    BY <1>2, <2>1
  <2>3. QED
    BY <2>1, <2>2 DEF Linked
<1>5. QED
  BY <1>3, <1>4
-----------------------------------------------------------------------------
(* What a save deleted leaves the grid row by row.                         *)
DroppedIn(t, P, i) == IF i \in P THEN DroppedRow(t, i) ELSE t
Drops(g, s, P, n, m) ==
    g = [k \in 0..m |-> IF k = 0 THEN s
                        ELSE IF n + 1 - k \in P THEN DroppedRow(g[k - 1], n + 1 - k)
                        ELSE g[k - 1]]

LEMMA DropRuns ==
    ASSUME NEW s, NEW P, NEW n \in Nat
    PROVE  \A m \in Nat : \E g : Drops(g, s, P, n, m)
<1> DEFINE S == {m \in Nat : \E g : Drops(g, s, P, n, m)}
<1>1. 0 \in S
  <2>1. Drops([k \in 0..0 |-> s], s, P, n, 0)
    BY DEF Drops
  <2>2. QED
    BY <2>1
<1>2. ASSUME NEW m \in S PROVE m + 1 \in S
  <2>1. m \in Nat
    OBVIOUS
  <2>2. PICK f : Drops(f, s, P, n, m)
    OBVIOUS
  <2> DEFINE last == DroppedIn(f[m], P, n - m)
             g == [k \in 0..(m + 1) |-> IF k = m + 1 THEN last ELSE f[k]]
  <2>3. \A k \in 0..m : f[k] = IF k = 0 THEN s
                               ELSE IF n + 1 - k \in P THEN DroppedRow(f[k - 1], n + 1 - k)
                               ELSE f[k - 1]
    BY <2>2 DEF Drops
  <2>4. \A k \in 0..m : g[k] = f[k]
    BY <2>1
  <2>5. g[m + 1] = DroppedIn(g[m], P, n - m)
    BY <2>1, <2>4
  <2>6. DOMAIN g = 0..(m + 1) /\ g = [k \in 0..(m + 1) |-> g[k]]
    OBVIOUS
  <2> HIDE DEF g
  <2>7. ASSUME NEW k \in 0..(m + 1)
        PROVE  g[k] = IF k = 0 THEN s
                      ELSE IF n + 1 - k \in P THEN DroppedRow(g[k - 1], n + 1 - k)
                      ELSE g[k - 1]
    <3>1. CASE k = m + 1
      <4>1. k - 1 = m /\ n + 1 - k = n - m /\ k # 0
        BY <2>1, <3>1
      <4>2. QED
        BY <2>5, <3>1, <4>1 DEF DroppedIn
    <3>2. CASE k \in 1..m
      <4>1. k - 1 \in 0..m /\ k \in 0..m /\ k # 0
        BY <2>1, <3>2
      <4>2. g[k] = f[k] /\ g[k - 1] = f[k - 1]
        BY <2>4, <4>1
      <4>3. f[k] = IF n + 1 - k \in P THEN DroppedRow(f[k - 1], n + 1 - k) ELSE f[k - 1]
        BY <2>3, <4>1
      <4>4. QED
        BY <4>1, <4>2, <4>3
    <3>3. CASE k = 0
      BY <2>1, <2>3, <2>4, <3>3
    <3>4. QED
      BY <2>1, <3>1, <3>2, <3>3
  <2>8. Drops(g, s, P, n, m + 1)
    BY <2>6, <2>7 DEF Drops
  <2>9. QED
    BY <2>1, <2>8
<1>3. QED
  <2> HIDE DEF S
  <2>1. S \in SUBSET Nat
    BY DEF S
  <2>2. \A m \in Nat : m \in S
    BY <1>1, <1>2, <2>1, AllNumbers
  <2>3. QED
    BY <2>2 DEF S

(* What every row dropped keeps, all of them keep: W[k] is what may be     *)
(* after the k last rows.                                                  *)
LEMMA DroppedWithin ==
    ASSUME NEW s, NEW saved, NEW W, Len(s.rows) \in Nat, s \in W[0],
           \A k \in 1..Len(s.rows) : \A t \in W[k - 1] :
               DroppedIn(t, PendingRows(saved, "delete"), Len(s.rows) + 1 - k) \in W[k]
    PROVE  DeletedDropped(s, saved) \in W[Len(s.rows)]
<1> DEFINE n == Len(s.rows)
           P == PendingRows(saved, "delete")
           f == CHOOSE g : Drops(g, s, P, n, n)
<1>1. DeletedDropped(s, saved) = f[n]
  BY DEF DeletedDropped, Drops
<1>2. /\ n \in Nat
      /\ \A k \in 1..n : \A t \in W[k - 1] : DroppedIn(t, P, n + 1 - k) \in W[k]
  OBVIOUS
<1> HIDE DEF n, P
<1>3. Drops(f, s, P, n, n)
  BY <1>2, DropRuns
<1> HIDE DEF f
<1>4. \A k \in 0..n : f[k] = IF k = 0 THEN s
                             ELSE IF n + 1 - k \in P THEN DroppedRow(f[k - 1], n + 1 - k)
                             ELSE f[k - 1]
  BY <1>3 DEF Drops
<1> DEFINE S == {k \in Nat : k \in 0..n => f[k] \in W[k]}
<1>5. 0 \in S
  BY <1>2, <1>4
<1>6. ASSUME NEW k \in S PROVE k + 1 \in S
  <2> SUFFICES ASSUME k + 1 \in 0..n PROVE f[k + 1] \in W[k + 1]
    OBVIOUS
  <2>1. k \in 0..n /\ k + 1 # 0 /\ k + 1 \in 1..n /\ (k + 1) - 1 = k
    BY <1>2
  <2>2. f[k] \in W[(k + 1) - 1]
    BY <2>1
  <2> DEFINE l == k + 1
  <2>3. l \in 1..n /\ l \in 0..n /\ l # 0 /\ l - 1 = k /\ f[k] \in W[l - 1]
    BY <2>1, <2>2
  <2> HIDE DEF l
  <2>4. DroppedIn(f[k], P, n + 1 - l) \in W[l]
    BY <1>2, <2>3
  <2>5. f[l] = DroppedIn(f[k], P, n + 1 - l)
    BY <1>4, <2>3 DEF DroppedIn
  <2>6. QED
    BY <2>4, <2>5 DEF l
<1>7. f[n] \in W[n]
  <2> HIDE DEF S
  <2>1. S \in SUBSET Nat
    BY DEF S
  <2>2. \A k \in Nat : k \in S
    BY <1>5, <1>6, <2>1, AllNumbers
  <2>3. n \in S /\ n \in 0..n
    BY <1>2, <2>2
  <2>4. QED
    BY <2>3 DEF S
<1>8. QED
  BY <1>1, <1>7 DEF n

(* The fields a save that deleted rows leaves alone.                       *)
AsBefore(s, t) == /\ t \in Sheets /\ t.cell = s.cell
                  /\ s.queue = <<>> => t.queue = <<>>

LEMMA DroppedRowType ==
    ASSUME NEW s, NEW t, AsBefore(s, t), NEW i \in Nat \ {0}
    PROVE  /\ AsBefore(s, DroppedRow(t, i))
           /\ DroppedRow(t, i).rows = WithoutRow(t.rows, i)
           /\ DroppedRow(t, i).queue = Shifted(t.queue, i + 1, -1)
<1> DEFINE rows == WithoutRow(t.rows, i)
           queue == Shifted(t.queue, i + 1, -1)
           w == DroppedRow(t, i)
<1>1. t \in Sheets /\ t.rows \in Grids /\ t.queue \in Queues /\ t.cell = s.cell
  BY DEF AsBefore, Sheets
<1>2. rows \in Grids
  BY <1>1, RowTaken
<1>3. i + 1 \in Nat /\ i + 1 >= 2
  OBVIOUS
<1>4. queue \in Queues
  BY <1>1, <1>3, ShiftedType
<1>5. t.queue = <<>> => queue = <<>>
  BY DEF Shifted
<1>6. w = [t EXCEPT !.rows = rows, !.queue = queue]
  BY DEF DroppedRow
<1> HIDE DEF rows, queue, w
<1>7. w \in Sheets /\ w.rows = rows /\ w.queue = queue /\ w.cell = t.cell
  BY <1>1, <1>2, <1>4, <1>6 DEF Sheets
<1>8. AsBefore(s, w)
  BY <1>1, <1>5, <1>7 DEF AsBefore
<1>9. QED
  BY <1>7, <1>8 DEF rows, queue, w

LEMMA DroppedType ==
    ASSUME NEW s \in Sheets, NEW saved
    PROVE  AsBefore(s, DeletedDropped(s, saved))
<1> DEFINE T == {t \in Sheets : AsBefore(s, t)}
           W == [k \in Nat |-> T]
           n == Len(s.rows)
<1>1. n \in Nat
  BY LenProperties DEF Sheets, Grids
<1>2. s \in T
  BY DEF AsBefore
<1>3. ASSUME NEW k \in 1..n, NEW t \in T, NEW P PROVE DroppedIn(t, P, n + 1 - k) \in T
  <2> DEFINE i == n + 1 - k
  <2>1. i \in Nat \ {0}
    BY <1>1
  <2> HIDE DEF i
  <2>2. AsBefore(s, DroppedRow(t, i))
    BY <2>1, DroppedRowType
  <2>3. DroppedRow(t, i) \in T
    BY <2>2 DEF AsBefore
  <2>4. DroppedIn(t, P, i) \in T
    BY <2>3 DEF DroppedIn
  <2>5. QED
    BY <2>4 DEF i
<1> HIDE DEF T
<1>4. \A k \in 1..n : W[k - 1] = T /\ W[k] = T
  BY <1>1
<1>5. W[0] = T /\ W[n] = T
  BY <1>1
<1> HIDE DEF W
<1>6. DeletedDropped(s, saved) \in W[n]
  <2>1. s \in W[0]
    BY <1>2, <1>5
  <2>2. \A k \in 1..n : \A t \in W[k - 1] :
           DroppedIn(t, PendingRows(saved, "delete"), n + 1 - k) \in W[k]
    BY <1>3, <1>4
  <2>3. QED
    BY <1>1, <2>1, <2>2, DroppedWithin
<1>7. QED
  BY <1>5, <1>6 DEF T

(* A history that starts anew.                                             *)
LEMMA ClearedKnown ==
    ASSUME NEW s \in Sheets, NEW G, State(s) \in G
    PROVE  /\ Small(HistoryCleared(s)) /\ Known(HistoryCleared(s), G)
           /\ HistoryCleared(s).cell = s.cell /\ HistoryCleared(s).rows = s.rows
           /\ HistoryCleared(s).queue = s.queue
           /\ HistoryCleared(s).undo = <<>> /\ HistoryCleared(s).redo = <<>>
           /\ HistoryCleared(s).base = s.rows
<1> DEFINE w == HistoryCleared(s)
<1>1. w = [s EXCEPT !.undo = <<>>, !.redo = <<>>, !.base = s.rows, !.lost = 0]
  BY DEF HistoryCleared
<1>2. s.rows \in Grids /\ s.queue \in Queues /\ <<>> \in Seq(Entries)
  BY DEF Sheets
<1> HIDE DEF w
<1>3. /\ w \in Sheets /\ w.cell = s.cell /\ w.rows = s.rows /\ w.queue = s.queue
      /\ w.undo = <<>> /\ w.redo = <<>> /\ w.base = s.rows
  BY <1>1, <1>2 DEF Sheets
<1>4. State(w) \in G
  BY <1>3 DEF State
<1>5. Known(w, G)
  BY <1>2, <1>3, <1>4, KnownAlone
<1>6. Len(w.undo) + Len(w.redo) <= UndoLimit
  BY <1>3, SheetAssumption
<1>7. QED
  BY <1>3, <1>5, <1>6 DEF Small, w

LEMMA LoadedKnown ==
    ASSUME NEW rows \in Grids, NEW G, [rows |-> rows, queue |-> <<>>] \in G
    PROVE  /\ Small(Loaded(rows)) /\ Known(Loaded(rows), G)
           /\ Loaded(rows).cell = NoCell /\ Loaded(rows).rows = rows
           /\ Loaded(rows).queue = <<>> /\ Loaded(rows).undo = <<>>
           /\ Loaded(rows).redo = <<>> /\ Loaded(rows).base = rows
<1> DEFINE w == Loaded(rows)
<1>1. w = [rows |-> rows, queue |-> <<>>, undo |-> <<>>, redo |-> <<>>,
           cell |-> NoCell, base |-> rows, lost |-> 0]
  BY DEF Loaded
<1>2. <<>> \in Seq(Entries) /\ <<>> \in Queues /\ NoCell \in Cells
  BY DEF Queues, NoCell, Cells, Columns
<1> HIDE DEF w
<1>3. w \in Sheets
  BY <1>1, <1>2 DEF Sheets
<1>4. /\ w.cell = NoCell /\ w.rows = rows /\ w.queue = <<>>
      /\ w.undo = <<>> /\ w.redo = <<>> /\ w.base = rows
  BY <1>1
<1>5. State(w) \in G
  BY <1>4 DEF State
<1>6. Known(w, G)
  BY <1>2, <1>4, <1>5, KnownAlone
<1>7. Len(w.undo) + Len(w.redo) <= UndoLimit
  BY <1>4, SheetAssumption
<1>8. QED
  BY <1>3, <1>4, <1>6, <1>7 DEF Small, w
-----------------------------------------------------------------------------
(* Statements and the table: all they hold are rows.                       *)
Stmts == [kind : {"update", "insert", "delete"}, where : Rows, to : Rows,
          set : SUBSET Columns]

(* The keys of the first m rows have a bound.                              *)
KeysBelow(rows, m, b) == \A k \in 1..m : k \in DOMAIN rows => rows[k].key <= b

LEMMA KeysBounded ==
    ASSUME NEW rows \in Grids
    PROVE  \E b \in Nat : \A k \in DOMAIN rows : rows[k].key <= b
<1> DEFINE S == {m \in Nat : \E b \in Nat : KeysBelow(rows, m, b)}
<1>1. /\ Len(rows) \in Nat /\ DOMAIN rows = 1..Len(rows)
      /\ \A k \in DOMAIN rows : rows[k].key \in Nat
  <2>1. Len(rows) \in Nat /\ DOMAIN rows = 1..Len(rows)
    BY LenProperties DEF Grids
  <2>2. \A k \in 1..Len(rows) : rows[k] \in Rows
    BY ElementOfSeq DEF Grids
  <2>3. QED
    BY <2>1, <2>2 DEF Rows
<1>2. 0 \in S
  <2>1. KeysBelow(rows, 0, 0)
    BY DEF KeysBelow
  <2>2. QED
    BY <2>1
<1>3. ASSUME NEW m \in S PROVE m + 1 \in S
  <2>1. PICK b \in Nat : KeysBelow(rows, m, b)
    OBVIOUS
  <2>2. m \in Nat
    OBVIOUS
  <2> SUFFICES \E c \in Nat : KeysBelow(rows, m + 1, c)
    BY <2>2
  <2>3. CASE m + 1 \in DOMAIN rows
    <3> DEFINE x == rows[m + 1].key
    <3>1. x \in Nat
      BY <1>1, <2>3
    <3> HIDE DEF x
    <3>2. b + x \in Nat /\ x <= b + x
      BY <3>1
    <3>3. \A k \in 1..(m + 1) : k \in DOMAIN rows => rows[k].key <= b + x
      <4> SUFFICES ASSUME NEW k \in 1..(m + 1), k \in DOMAIN rows
                   PROVE  rows[k].key <= b + x
        OBVIOUS
      <4>1. CASE k = m + 1
        BY <3>2, <4>1 DEF x
      <4>2. CASE k # m + 1
        <5>1. k \in 1..m
          BY <2>2, <4>2
        <5>2. rows[k].key <= b /\ rows[k].key \in Nat
          BY <1>1, <2>1, <5>1 DEF KeysBelow
        <5>3. QED
          BY <3>1, <5>2
      <4>3. QED
        BY <4>1, <4>2
    <3>4. KeysBelow(rows, m + 1, b + x)
      BY <3>3 DEF KeysBelow
    <3>5. QED
      BY <3>2, <3>4
  <2>4. CASE m + 1 \notin DOMAIN rows
    <3>1. \A k \in 1..(m + 1) : k \in DOMAIN rows => k \in 1..m
      <4> SUFFICES ASSUME NEW k \in 1..(m + 1), k \in DOMAIN rows PROVE k \in 1..m
        OBVIOUS
      <4>1. k # m + 1
        BY <2>4
      <4>2. QED
        BY <2>2, <4>1
    <3>2. KeysBelow(rows, m + 1, b)
      BY <2>1, <3>1 DEF KeysBelow
    <3>3. QED
      BY <3>2
  <2>5. QED
    BY <2>3, <2>4
<1>4. Len(rows) \in S
  <2> HIDE DEF S
  <2>1. S \in SUBSET Nat
    BY DEF S
  <2>2. \A m \in Nat : m \in S
    BY <1>2, <1>3, <2>1, AllNumbers
  <2>3. QED
    BY <1>1, <2>2
<1>5. PICK b \in Nat : KeysBelow(rows, Len(rows), b)
  BY <1>4
<1>6. QED
  BY <1>1, <1>5 DEF KeysBelow

LEMMA NextKeyType == ASSUME NEW rows \in Grids PROVE NextKey(rows) \in Nat \ {0}
<1> DEFINE K == {0} \cup {rows[k].key : k \in DOMAIN rows}
<1>1. DOMAIN rows = 1..Len(rows) /\ \A k \in DOMAIN rows : rows[k].key \in Nat
  <2>1. DOMAIN rows = 1..Len(rows)
    BY LenProperties DEF Grids
  <2>2. \A k \in 1..Len(rows) : rows[k] \in Rows
    BY ElementOfSeq DEF Grids
  <2>3. QED
    BY <2>1, <2>2 DEF Rows
<1>2. K \in SUBSET Nat /\ K # {}
  BY <1>1
<1>3. PICK b \in Nat : \A k \in K : k <= b
  <2>1. PICK b \in Nat : \A k \in DOMAIN rows : rows[k].key <= b
    BY KeysBounded
  <2>2. \A k \in K : k <= b
    BY <1>1, <2>1
  <2>3. QED
    BY <2>2
<1>4. NextKey(rows) = 1 + Max(K)
  BY DEF NextKey
<1> HIDE DEF K
<1>5. Max(K) \in K
  BY <1>2, <1>3, GreatestOf
<1>6. Max(K) \in Nat
  BY <1>2, <1>5
<1>7. QED
  BY <1>4, <1>6

LEMMA AfterType ==
    ASSUME NEW rows \in Grids, NEW st \in Stmts, NEW key
    PROVE  After(rows, st, key) \in Grids
<1> DEFINE hit == Matching(rows, st.where, key)
<1>1. /\ rows \in Seq(Rows) /\ Len(rows) \in Nat /\ DOMAIN rows = 1..Len(rows)
      /\ \A k \in DOMAIN rows : rows[k] \in Rows
  BY LenProperties, ElementOfSeq DEF Grids
<1>2. st.to \in Rows /\ st.kind \in {"update", "insert", "delete"}
  BY DEF Stmts
<1> HIDE DEF hit
<1>3. CASE st.kind = "update"
  <2> DEFINE new(k) == IF k \in hit THEN Assigned(rows[k], st.to, st.set) ELSE rows[k]
  <2>1. After(rows, st, key) = [k \in DOMAIN rows |-> new(k)]
    BY <1>3 DEF After, hit
  <2>2. ASSUME NEW r \in Rows PROVE Assigned(r, st.to, st.set) \in Rows
    BY <1>2 DEF Assigned, Rows
  <2>3. \A k \in DOMAIN rows : new(k) \in Rows
    BY <1>1, <2>2
  <2> HIDE DEF new
  <2>4. [k \in 1..Len(rows) |-> new(k)] \in Seq(Rows)
    BY <1>1, <2>3
  <2>5. QED
    BY <1>1, <2>1, <2>4 DEF Grids
<1>4. CASE st.kind = "insert"
  <2>1. After(rows, st, key) = Append(rows, Filled(rows, st.to))
    BY <1>4 DEF After
  <2>2. NextKey(rows) \in Nat
    BY NextKeyType
  <2>3. Filled(rows, st.to) \in Rows
    BY <1>2, <2>2 DEF Filled, Rows
  <2>4. QED
    BY <1>1, <2>1, <2>3, AppendProperties DEF Grids
<1>5. CASE st.kind = "delete"
  <2>1. After(rows, st, key) = Picked(rows, DOMAIN rows \ hit)
    BY <1>5 DEF After, hit
  <2>2. Picked(rows, DOMAIN rows \ hit) \in Seq(Rows)
    BY <1>1, PickedType
  <2>3. QED
    BY <2>1, <2>2 DEF Grids
<1>6. QED
  BY <1>2, <1>3, <1>4, <1>5

LEMMA EditedValues ==
    ASSUME NEW ops \in Queues, NEW i, NEW col, NEW default \in Nat
    PROVE  /\ OldValue(ops, i, col, default) \in Nat
           /\ NewValue(ops, i, col, default) \in Nat
<1> DEFINE E == FirstEdits(ops, i, col)
<1>1. /\ Len(ops) \in Nat /\ DOMAIN ops = 1..Len(ops)
      /\ \A k \in DOMAIN ops : ops[k] \in Ops
  BY QueueTypes
<1>2. E \in SUBSET Nat /\ (\A k \in E : k <= Len(ops)) /\ E \subseteq DOMAIN ops
  BY <1>1 DEF FirstEdits
<1> HIDE DEF E
<1>3. E # {} => Min(E) \in E /\ Max(E) \in E
  BY <1>1, <1>2, LeastOf, GreatestOf
<1>4. \A k \in E : ops[k].old \in Nat /\ ops[k].new \in Nat
  BY <1>1, <1>2 DEF Ops
<1>5. QED
  BY <1>3, <1>4 DEF OldValue, NewValue, E

LEMMA OriginalType ==
    ASSUME NEW ops \in Queues, NEW i, NEW row \in Rows
    PROVE  Original(ops, i, row) \in Rows
<1>1. row.key \in Nat /\ row.val \in Nat
  BY DEF Rows
<1>2. /\ OldValue(ops, i, "key", row.key) \in Nat
      /\ OldValue(ops, i, "val", row.val) \in Nat
  BY <1>1, EditedValues
<1>3. Original(ops, i, row) = [row EXCEPT !.key = OldValue(ops, i, "key", row.key),
                                          !.val = OldValue(ops, i, "val", row.val)]
  BY DEF Original, Rows
<1>4. QED
  BY <1>2, <1>3 DEF Rows

LEMMA StatementType ==
    ASSUME NEW s, s.rows \in Grids, s.queue \in Queues, NEW op \in Ops
    PROVE  Statement(s, op) \in Stmts
<1> DEFINE where == Original(s.queue, op.row, op.snap)
<1>1. op.snap \in Rows /\ op.row \in Nat /\ op.kind \in {"update", "insert", "delete"}
  BY DEF Ops
<1>2. where \in Rows
  BY <1>1, OriginalType
<1> HIDE DEF where
<1>3. NoRow \in Rows
  BY DEF NoRow, Rows
<1>4. CASE op.kind = "update"
  <2> DEFINE to == [id |-> where.id,
                    key |-> NewValue(s.queue, op.row, "key", where.key),
                    val |-> NewValue(s.queue, op.row, "val", where.val)]
             set == {c \in Columns : FirstEdits(s.queue, op.row, c) # {}}
  <2>1. where.id \in Nat /\ where.key \in Nat /\ where.val \in Nat
    BY <1>2 DEF Rows
  <2>2. /\ NewValue(s.queue, op.row, "key", where.key) \in Nat
        /\ NewValue(s.queue, op.row, "val", where.val) \in Nat
    BY <2>1, EditedValues
  <2>3. to \in Rows
    BY <2>1, <2>2 DEF Rows
  <2>4. set \in SUBSET Columns
    OBVIOUS
  <2>5. Statement(s, op) = [kind |-> "update", where |-> where, to |-> to, set |-> set]
    BY <1>4 DEF Statement, where
  <2> HIDE DEF to, set
  <2>6. QED
    BY <1>2, <2>3, <2>4, <2>5 DEF Stmts
<1>5. CASE op.kind = "insert"
  <2> DEFINE to == IF op.row \in DOMAIN s.rows THEN s.rows[op.row] ELSE op.snap
  <2>1. to \in Rows
    BY <1>1, ElementOfSeq, LenProperties DEF Grids
  <2>2. Statement(s, op) = [kind |-> "insert", where |-> NoRow, set |-> {}, to |-> to]
    BY <1>5 DEF Statement
  <2> HIDE DEF to
  <2>3. QED
    BY <1>3, <2>1, <2>2 DEF Stmts
<1>6. CASE op.kind = "delete"
  <2>1. Statement(s, op) = [kind |-> "delete", where |-> where, to |-> NoRow, set |-> {}]
    BY <1>6 DEF Statement, where
  <2>2. QED
    BY <1>2, <1>3, <2>1 DEF Stmts
<1>7. QED
  BY <1>1, <1>4, <1>5, <1>6

LEMMA StatementsType ==
    ASSUME NEW s, s.rows \in Grids, s.queue \in Queues
    PROVE  Statements(s) \in Seq(Stmts)
<1> DEFINE repeated(k) == /\ s.queue[k].kind = "update"
                          /\ \E j \in 1..(k - 1) : /\ s.queue[j].kind = "update"
                                                   /\ s.queue[j].row = s.queue[k].row
           keep == {k \in DOMAIN s.queue : ~repeated(k)}
           first == Picked(s.queue, keep)
<1>1. Statements(s) = [k \in DOMAIN first |-> Statement(s, first[k])]
  BY DEF Statements
<1>2. keep \in SUBSET DOMAIN s.queue
  OBVIOUS
<1> HIDE DEF keep
<1>3. first \in Seq(Ops)
  BY <1>2, PickedType DEF Queues
<1> HIDE DEF first
<1>4. Len(first) \in Nat /\ DOMAIN first = 1..Len(first)
      /\ \A k \in DOMAIN first : Statement(s, first[k]) \in Stmts
  BY <1>3, LenProperties, ElementOfSeq, StatementType
<1> DEFINE new(k) == Statement(s, first[k])
<1>5. \A k \in 1..Len(first) : new(k) \in Stmts
  BY <1>4
<1> HIDE DEF new
<1>6. [k \in 1..Len(first) |-> new(k)] \in Seq(Stmts)
  BY <1>4, <1>5
<1>7. QED
  BY <1>1, <1>4, <1>6 DEF new
-----------------------------------------------------------------------------
(* All of a sequence picked is the sequence.                               *)
LEMMA RankOfAll ==
    ASSUME NEW n \in Nat, NEW k \in 1..n
    PROVE  Rank(1..n, k) = k - 1
<1>1. {j \in 1..n : j < k} = 1..(k - 1)
  OBVIOUS
<1>2. Cardinality(1..(k - 1)) = k - 1
  <2>1. k - 1 \in Int /\ 1 <= (k - 1) + 1
    OBVIOUS
  <2>2. Cardinality(1..(k - 1)) = IF 1 > k - 1 THEN 0 ELSE (k - 1) - 1 + 1
    BY <2>1, FS_Interval
  <2>3. QED
    BY <2>2
<1>3. QED
  BY <1>1, <1>2 DEF Rank

LEMMA PickedAll ==
    ASSUME NEW T, NEW q \in Seq(T)
    PROVE  Picked(q, DOMAIN q) = q
<1> DEFINE n == Len(q)
           p == Picked(q, 1..n)
<1>1. n \in Nat /\ DOMAIN q = 1..n
  BY LenProperties
<1>2. p \in Seq(T)
  BY <1>1, PickedType
<1> HIDE DEF n
<1>3. Cardinality(1..n) = n
  BY <1>1, FS_Interval
<1>4. Len(p) = n
  <2>1. Len(Picked(q, DOMAIN q)) = Cardinality(DOMAIN q)
    BY PickedType
  <2>2. QED
    BY <1>1, <1>3, <2>1
<1>5. ASSUME NEW k \in 1..n PROVE p[k] = q[k]
  <2>1. Rank(1..n, k) = k - 1
    BY <1>1, RankOfAll
  <2>2. p[Rank(1..n, k) + 1] = q[k]
    <3>1. (1..n) \in SUBSET (1..n)
      OBVIOUS
    <3> DEFINE D == 1..n
    <3>2. D \in SUBSET (1..n) /\ k \in D
      OBVIOUS
    <3> HIDE DEF D
    <3>3. Picked(q, D)[Rank(D, k) + 1] = q[k]
      BY <1>1, <3>2, PickedPlaces
    <3>4. QED
      BY <3>3 DEF D
  <2>3. (k - 1) + 1 = k
    BY <1>1
  <2>4. QED
    BY <2>1, <2>2, <2>3
<1> HIDE DEF p
<1>6. p = q
  BY <1>1, <1>2, <1>4, <1>5, SeqEqual DEF n
<1>7. QED
  BY <1>1, <1>6 DEF p

(* With nothing pending, what is shown is what is stored.                  *)
LEMMA RewoundEmpty ==
    ASSUME NEW s, s.rows \in Grids, s.queue = <<>>
    PROVE  Rewound(s) = s.rows
<1> DEFINE original == [i \in DOMAIN s.rows |-> Original(s.queue, i, s.rows[i])]
<1>1. \A i, col : FirstEdits(s.queue, i, col) = {}
  BY DEF FirstEdits
<1>2. \A i, col, default : OldValue(s.queue, i, col, default) = default
  BY <1>1 DEF OldValue
<1>3. \A r \in Rows : [r EXCEPT !.key = r.key, !.val = r.val] = r
  BY DEF Rows
<1>4. ASSUME NEW i \in DOMAIN s.rows PROVE Original(s.queue, i, s.rows[i]) = s.rows[i]
  <2>1. s.rows[i] \in Rows
    BY ElementOfSeq, LenProperties DEF Grids
  <2> DEFINE r == s.rows[i]
  <2>2. Original(s.queue, i, r) = [r EXCEPT !.key = r.key, !.val = r.val]
    <3>1. /\ OldValue(s.queue, i, "key", r.key) = r.key
          /\ OldValue(s.queue, i, "val", r.val) = r.val
      BY <1>2
    <3>2. Original(s.queue, i, r)
             = [r EXCEPT !.key = OldValue(s.queue, i, "key", r.key),
                         !.val = OldValue(s.queue, i, "val", r.val)]
      BY <2>1 DEF Original, Rows
    <3>3. QED
      BY <3>1, <3>2
  <2>3. QED
    BY <1>3, <2>1, <2>2
<1>5. original = s.rows
  <2>1. s.rows = [i \in DOMAIN s.rows |-> s.rows[i]]
    BY DEF Grids
  <2>2. QED
    BY <1>4, <2>1
<1>6. PendingRows(s.queue, "insert") = {}
  BY DEF PendingRows
<1>7. Rewound(s) = Picked(original, DOMAIN s.rows \ PendingRows(s.queue, "insert"))
  BY DEF Rewound
<1> HIDE DEF original
<1>8. Rewound(s) = Picked(s.rows, DOMAIN s.rows)
  BY <1>5, <1>6, <1>7
<1>9. QED
  BY <1>8, PickedAll DEF Grids
-----------------------------------------------------------------------------
(* What jobs hold is typed, and a job is in flight from its Save to its    *)
(* answer.                                                                 *)
JobTyped(job) == job.stmts \in Seq(Stmts) /\ job.work \in Grids
JobsTyped == table \in Grids /\ \A j \in Saves : JobTyped(jobs[j])
Flying == {j \in Saves : InFlight(j)}

LEMMA SetTyped ==
    ASSUME JobsClean, JobsTyped, NEW j \in Saves, NEW job, Set(j, job), JobTyped(job),
           table' \in Grids
    PROVE  /\ JobsTyped'
           /\ Flying' \subseteq Flying \cup {j}
           /\ job.phase \in {"spawned", "open", "ended"} => j \in Flying'
           /\ job.phase = "done" => j \notin Flying'
<1>1. jobs' = [i \in Saves |-> IF i = j THEN job ELSE jobs[i]]
  BY DEF Set, JobsClean
<1>2. jobs'[j] = job /\ \A i \in Saves : i # j => jobs'[i] = jobs[i]
  BY <1>1
<1>3. \A i \in Saves : JobTyped(jobs'[i])
  BY <1>2 DEF JobsTyped
<1>4. Flying' = {i \in Saves : jobs'[i].phase \in {"spawned", "open", "ended"}}
  BY DEF Flying, InFlight
<1>5. Flying' \subseteq Flying \cup {j}
  BY <1>2, <1>4 DEF Flying, InFlight
<1>6. /\ job.phase \in {"spawned", "open", "ended"} => j \in Flying'
      /\ job.phase = "done" => j \notin Flying'
  BY <1>2, <1>4
<1>7. QED
  BY <1>3, <1>5, <1>6 DEF JobsTyped

LEMMA LeavingTyped ==
    ASSUME NEW job, DOMAIN job = Fields, JobTyped(job)
    PROVE  /\ JobTyped(Returned(job)) /\ JobTyped(Detached(job)) /\ JobTyped(LetGo(job))
           /\ JobTyped(Closed(job)) /\ Closed(job).phase = "done"
           /\ JobTyped(Closed(Returned(job))) /\ Closed(Returned(job)).phase = "done"
           /\ JobTyped(Dropped(job)) /\ Dropped(job).phase = "done"
<1>1. <<>> \in Grids
  BY DEF Grids
<1>2. JobTyped(Returned(job))
  BY <1>1 DEF JobTyped, Returned, Over, Fields
<1>3. JobTyped(Detached(job))
  BY <1>1 DEF JobTyped, Detached, Over, Fields
<1>4. JobTyped(Closed(job)) /\ Closed(job).phase = "done"
  BY DEF JobTyped, Closed, Fields
<1>5. JobTyped(Closed(Returned(job))) /\ Closed(Returned(job)).phase = "done"
  BY <1>2 DEF JobTyped, Closed, Returned, Over, Fields
<1>6. JobTyped(Dropped(job)) /\ Dropped(job).phase = "done"
  BY <1>1, DroppingLeaves DEF JobTyped
<1>7. QED
  BY <1>2, <1>3, <1>4, <1>5, <1>6 DEF LetGo

LEMMA SpawnTyped ==
    ASSUME JobsClean, JobsTyped, NEW j \in Saves, NEW stmts \in Seq(Stmts), Spawn(j, stmts)
    PROVE  JobsTyped' /\ Flying' \subseteq Flying \cup {j} /\ j \in Flying'
<1>1. PICK driver \in {"sqlx", "mssql"} :
          Set(j, [NoJob EXCEPT !.phase = "spawned", !.stmts = stmts,
                               !.driver = driver])
  BY DEF Spawn
<1> DEFINE job == [NoJob EXCEPT !.phase = "spawned", !.stmts = stmts,
                                !.driver = driver]
<1>2. job.phase = "spawned" /\ job.stmts = stmts /\ job.work = <<>>
  BY DEF NoJob
<1> HIDE DEF job
<1>3. JobTyped(job) /\ table' \in Grids
  BY <1>2 DEF JobTyped, Grids, Spawn, JobsTyped
<1>4. Set(j, job)
  BY <1>1 DEF job
<1>5. QED
  BY <1>2, <1>3, <1>4, SetTyped

LEMMA StepTyped ==
    ASSUME JobsClean, WorkInv, JobsTyped, NEW j \in Saves, SaveStep(j)
    PROVE  JobsTyped' /\ Flying' \subseteq Flying
<1>1. /\ Clean(jobs[j]) /\ DOMAIN jobs[j] = Fields /\ JobTyped(jobs[j])
      /\ jobs[j].stmts \in Seq(Stmts) /\ jobs[j].work \in Grids /\ table \in Grids
  BY DEF JobsClean, Clean, JobsTyped, JobTyped
<1>2. ASSUME \/ Begin(j) \/ BeginFails(j) \/ Run(j) \/ Refuse(j) \/ Commit(j)
             \/ CommitFails(j) \/ TimeOut(j)
      PROVE  j \in Flying
  BY <1>2 DEF Begin, BeginFails, Run, Refuse, Commit, CommitFails, TimeOut, Running,
              AtCommit, Flying, InFlight
<1>3. ASSUME NEW job, Set(j, job), JobTyped(job), table' \in Grids,
             j \in Flying \/ job.phase = "done"
      PROVE  JobsTyped' /\ Flying' \subseteq Flying
  <2>1. /\ JobsTyped' /\ Flying' \subseteq Flying \cup {j}
        /\ job.phase = "done" => j \notin Flying'
    BY <1>3, SetTyped
  <2>2. QED
    BY <1>3, <2>1
<1>4. CASE Begin(j)
  <2> DEFINE job == [jobs[j] EXCEPT !.phase = "open", !.work = table, !.conn = "held",
                                    !.tx = TRUE]
  <2>1. Set(j, job) /\ table' = table
    BY <1>4 DEF Begin
  <2>2. job.stmts = jobs[j].stmts /\ job.work = table
    BY <1>1 DEF Fields
  <2> HIDE DEF job
  <2>3. QED
    BY <1>1, <1>2, <1>3, <1>4, <2>1, <2>2 DEF JobTyped
<1>5. CASE Run(j)
  <2> DEFINE rows == After(jobs[j].work, NextStatement(j), keyed)
             job == [jobs[j] EXCEPT !.work = rows, !.ran = @ + 1]
  <2>1. Set(j, job) /\ table' = table /\ Running(j)
    BY <1>5 DEF Run
  <2>2. NextStatement(j) \in Stmts
    <3>1. /\ jobs[j].ran \in Nat /\ jobs[j].ran < Len(jobs[j].stmts)
          /\ Len(jobs[j].stmts) \in Nat
      BY <1>1, <2>1, LenProperties DEF WorkInv, Running
    <3>2. jobs[j].ran + 1 \in 1..Len(jobs[j].stmts)
      BY <3>1
    <3>3. QED
      BY <1>1, <3>2, ElementOfSeq DEF NextStatement
  <2>3. rows \in Grids
    BY <1>1, <2>2, AfterType
  <2> HIDE DEF rows
  <2>4. job.stmts = jobs[j].stmts /\ job.work = rows
    BY <1>1 DEF Fields
  <2> HIDE DEF job
  <2>5. QED
    BY <1>1, <1>2, <1>3, <1>5, <2>1, <2>3, <2>4 DEF JobTyped
<1>6. CASE BeginFails(j) \/ Refuse(j) \/ TimeOut(j)
  <2>1. /\ table' = table
        /\ \/ Set(j, Returned(jobs[j]))
           \/ Set(j, Detached(jobs[j]))
           \/ Set(j, LetGo(jobs[j]))
    BY <1>6 DEF BeginFails, Refuse, TimeOut
  <2>2. /\ JobTyped(Returned(jobs[j])) /\ JobTyped(Detached(jobs[j]))
        /\ JobTyped(LetGo(jobs[j]))
    BY <1>1, LeavingTyped
  <2>3. QED
    BY <1>1, <1>2, <1>3, <1>6, <2>1, <2>2
<1>7. CASE Commit(j)
  <2> DEFINE job == [Returned(jobs[j]) EXCEPT !.committed = TRUE, !.saved = TRUE]
  <2>1. Set(j, job) /\ table' = jobs[j].work
    BY <1>7 DEF Commit, Committed
  <2>2. JobTyped(job)
    BY <1>1 DEF JobTyped, Returned, Over, Fields, Grids
  <2> HIDE DEF job
  <2>3. QED
    BY <1>1, <1>2, <1>3, <1>7, <2>1, <2>2
<1>8. CASE CommitFails(j)
  <2>1. PICK written \in BOOLEAN :
            /\ table' = IF written THEN [jobs[j] EXCEPT !.committed = written].work
                        ELSE table
            /\ Set(j, LetGo([jobs[j] EXCEPT !.committed = written]))
    BY <1>8 DEF CommitFails
  <2> DEFINE job == [jobs[j] EXCEPT !.committed = written]
  <2>2. DOMAIN job = Fields /\ JobTyped(job) /\ job.work = jobs[j].work
    BY <1>1 DEF Fields, JobTyped
  <2>3. Set(j, LetGo(job)) /\ table' \in Grids
    BY <1>1, <2>1, <2>2
  <2> HIDE DEF job
  <2>4. JobTyped(LetGo(job))
    BY <2>2, LeavingTyped
  <2>5. QED
    BY <1>2, <1>3, <1>8, <2>3, <2>4
<1>9. CASE LeftoverEnds(j)
  <2>1. PICK left : Set(j, left) /\ Lasts(jobs[j], left)
    BY <1>9, LeftoverFacts
  <2>2. table' = table
    BY <1>9, LeftoverFacts
  <2>3. QED
    BY <1>1, <1>3, <2>1, <2>2 DEF Lasts, JobTyped
<1>10. QED
  BY <1>4, <1>5, <1>6, <1>7, <1>8, <1>9 DEF SaveStep

LEMMA EndTyped ==
    ASSUME JobsClean, JobsTyped, NEW j \in Saves,
           Cancel(j) \/ (jobs[j].phase = "ended" /\ Handled(j))
    PROVE  JobsTyped' /\ Flying' \subseteq Flying \ {j} /\ j \in Flying
<1>1. /\ DOMAIN jobs[j] = Fields /\ JobTyped(jobs[j]) /\ table \in Grids
  BY DEF JobsClean, Clean, JobsTyped
<1>2. j \in Flying
  BY DEF Cancel, Flying, InFlight
<1>3. ASSUME NEW job, Set(j, job), JobTyped(job), table' \in Grids, job.phase = "done"
      PROVE  JobsTyped' /\ Flying' \subseteq Flying \ {j}
  <2>1. JobsTyped' /\ Flying' \subseteq Flying \cup {j} /\ j \notin Flying'
    BY <1>3, SetTyped
  <2>2. QED
    BY <1>2, <2>1
<1>4. /\ table' = table
      /\ \/ Set(j, Closed(jobs[j])) \/ Set(j, Closed(Returned(jobs[j])))
         \/ Set(j, Dropped(jobs[j]))
  BY DEF Cancel, Handled
<1>5. /\ JobTyped(Closed(jobs[j])) /\ Closed(jobs[j]).phase = "done"
      /\ JobTyped(Closed(Returned(jobs[j]))) /\ Closed(Returned(jobs[j])).phase = "done"
      /\ JobTyped(Dropped(jobs[j])) /\ Dropped(jobs[j]).phase = "done"
  BY <1>1, LeavingTyped
<1>6. JobsTyped' /\ Flying' \subseteq Flying \ {j}
  BY <1>1, <1>3, <1>4, <1>5
<1>7. QED
  BY <1>2, <1>6
-----------------------------------------------------------------------------
(* What the user does to the sheet.                                        *)
SheetGood(G, strict) == /\ Small(sheet) /\ Known(sheet, G)
                        /\ strict => CellHome(sheet)

LEMMA FinishedSheetsKept ==
    ASSUME NEW G, NEW strict, Stable(G, strict), SheetGood(G, strict),
           NEW s \in FinishedSheets
    PROVE  Kept(sheet, s, G) /\ s.cell = NoCell
<1>1. Small(sheet) /\ Known(sheet, G) /\ (strict => CellHome(sheet))
  BY DEF SheetGood
<1>2. CASE sheet.cell = NoCell
  BY <1>1, <1>2, KeptSelf DEF FinishedSheets
<1>3. CASE sheet.cell # NoCell
  <2>1. PICK v \in Typed : s = Finished(sheet, v)
    BY <1>3 DEF FinishedSheets
  <2>2. v \in Nat
    <3>1. CASE v \in Values
      BY <3>1, SheetAssumption
    <3>2. CASE v \notin Values
      <4>1. /\ sheet.cell.row \in DOMAIN sheet.rows
            /\ v = sheet.rows[sheet.cell.row][sheet.cell.col]
        BY <2>1, <3>2 DEF Typed
      <4>2. sheet.rows \in Grids /\ sheet.cell \in Cells
        BY <1>1, SheetFields
      <4>3. sheet.rows[sheet.cell.row] \in Rows /\ sheet.cell.col \in Columns
        BY <4>1, <4>2, ElementOfSeq, LenProperties DEF Grids, Cells
      <4>4. QED
        BY <4>1, <4>3 DEF Rows, Columns
    <3>3. QED
      BY <3>1, <3>2
  <2>3. strict => sheet.cell.row \notin PendingRows(sheet.queue, "delete")
    BY <1>1, <1>3 DEF CellHome
  <2>a. v = Default /\ sheet.cell.row \in DOMAIN sheet.rows
           => sheet.rows[sheet.cell.row][sheet.cell.col] = v
    BY <2>1, SheetAssumption DEF Typed, Default
  <2>4. Kept(sheet, Finished(sheet, v), G) /\ Finished(sheet, v).cell = NoCell
    BY <1>1, <2>2, <2>3, <2>a, FinishedKept
  <2>5. QED
    BY <2>1, <2>4
<1>4. QED
  BY <1>2, <1>3

LEMMA UserSteps ==
    ASSUME NEW G, NEW strict, Stable(G, strict), SheetGood(G, strict), ids \in Nat,
           StartEdit \/ AddRow \/ DuplicateRow \/ ToggleDelete \/ Undo \/ Redo
    PROVE  /\ Kept(sheet, sheet', G) /\ CellHome(sheet')
           /\ \E n \in {0, 1} : Edits(sheet', n)
<1>1. ASSUME NEW s \in FinishedSheets
      PROVE  Kept(sheet, s, G) /\ Small(s) /\ Known(s, G) /\ s.cell = NoCell
  BY FinishedSheetsKept DEF Kept
<1>2. ASSUME NEW s \in FinishedSheets, NEW s2, Kept(s, s2, G) PROVE Kept(sheet, s2, G)
  BY <1>1, <1>2, KeptTwice
<1>3. ASSUME NEW s2, NEW n \in {0, 1}, Edits(s2, n), Kept(sheet, s2, G), CellHome(s2)
      PROVE  /\ Kept(sheet, sheet', G) /\ CellHome(sheet')
             /\ \E m \in {0, 1} : Edits(sheet', m)
  <2>1. sheet' = s2
    BY <1>3 DEF Edits
  <2>2. QED
    BY <1>3, <2>1
<1>4. CASE StartEdit
  <2>1. PICK s \in FinishedSheets : \E i \in DOMAIN s.rows, col \in Columns :
            Edits(Started(s, i, col), 0)
    BY <1>4 DEF StartEdit
  <2>2. PICK i \in DOMAIN s.rows, col \in Columns : Edits(Started(s, i, col), 0)
    BY <2>1
  <2>3. Kept(s, Started(s, i, col), G) /\ CellHome(Started(s, i, col))
    BY <1>1, StartedKept
  <2>4. QED
    BY <1>2, <1>3, <2>2, <2>3
<1>5. CASE AddRow
  <2>1. PICK s \in FinishedSheets : Edits(RowAdded(s, ids + 1), 1)
    BY <1>5 DEF AddRow
  <2>2. Small(s) /\ Known(s, G) /\ s.cell = NoCell /\ ids + 1 \in Nat
    BY <1>1
  <2>3. Kept(s, RowAdded(s, ids + 1), G) /\ CellHome(RowAdded(s, ids + 1))
    BY <2>2, RowAddedKept
  <2>4. QED
    BY <1>2, <1>3, <2>1, <2>3
<1>6. CASE DuplicateRow
  <2>1. PICK s \in FinishedSheets : \E i \in DOMAIN s.rows :
            Edits(Duplicated(s, i, ids + 1, keyed), 1)
    BY <1>6 DEF DuplicateRow
  <2>2. PICK i \in DOMAIN s.rows : Edits(Duplicated(s, i, ids + 1, keyed), 1)
    BY <2>1
  <2>3. Small(s) /\ Known(s, G) /\ s.cell = NoCell /\ ids + 1 \in Nat
    BY <1>1
  <2>4. /\ Kept(s, Duplicated(s, i, ids + 1, keyed), G)
        /\ Duplicated(s, i, ids + 1, keyed).cell = NoCell
    BY <2>3, DuplicatedKept
  <2>5. CellHome(Duplicated(s, i, ids + 1, keyed))
    BY <2>4 DEF CellHome
  <2>6. QED
    BY <1>2, <1>3, <2>2, <2>4, <2>5
<1>7. CASE ToggleDelete
  <2>1. PICK s \in FinishedSheets : \E S \in SUBSET DOMAIN s.rows \ {{}} :
            Edits(DeleteToggled(s, S), 0)
    BY <1>7 DEF ToggleDelete
  <2>2. PICK S \in SUBSET DOMAIN s.rows \ {{}} : Edits(DeleteToggled(s, S), 0)
    BY <2>1
  <2>3. Kept(s, DeleteToggled(s, S), G) /\ DeleteToggled(s, S).cell = NoCell
    BY <1>1, ToggledKept
  <2>4. CellHome(DeleteToggled(s, S))
    BY <2>3 DEF CellHome
  <2>5. QED
    BY <1>2, <1>3, <2>2, <2>3, <2>4
<1>8. CASE Undo
  <2>1. PICK s \in FinishedSheets : Edits(Undone(s), 0)
    BY <1>8 DEF Undo
  <2>2. Kept(s, Undone(s), G) /\ Undone(s).cell = NoCell
    BY <1>1, UndoneKept
  <2>3. CellHome(Undone(s))
    BY <2>2 DEF CellHome
  <2>4. QED
    BY <1>2, <1>3, <2>1, <2>2, <2>3
<1>9. CASE Redo
  <2>1. PICK s \in FinishedSheets : Edits(Redone(s), 0)
    BY <1>9 DEF Redo
  <2>2. Kept(s, Redone(s), G) /\ Redone(s).cell = NoCell
    BY <1>1, RedoneKept
  <2>3. CellHome(Redone(s))
    BY <2>2 DEF CellHome
  <2>4. QED
    BY <1>2, <1>3, <2>1, <2>2, <2>3
<1>10. QED
  BY <1>4, <1>5, <1>6, <1>7, <1>8, <1>9

LEMMA FinishSteps ==
    ASSUME NEW G, NEW strict, Stable(G, strict), SheetGood(G, strict), FinishEdit
    PROVE  Kept(sheet, sheet', G) /\ sheet'.cell = NoCell /\ CellHome(sheet')
<1>1. CASE sheet' \in FinishedSheets
  BY <1>1, FinishedSheetsKept DEF CellHome
<1>2. CASE sheet' = Cancelled(sheet)
  BY <1>2, CancelledKept DEF CellHome, SheetGood
<1>3. QED
  BY <1>1, <1>2 DEF FinishEdit

LEMMA SavedSheet ==
    ASSUME NEW G, NEW strict, Stable(G, strict), SheetGood(G, strict), NEW j \in Saves,
           Save(j)
    PROVE  /\ Kept(sheet, sheet', G) /\ sheet'.cell = NoCell /\ CellHome(sheet')
           /\ sheet'.queue # <<>> /\ sheet'.queue \in Queues
           /\ Statements(sheet') \in Seq(Stmts)
           /\ Spawn(j, Statements(sheet'))
           /\ sent' = [sent EXCEPT ![j] = sheet'.queue]
           /\ sheet.cell = NoCell => sheet' = sheet
<1>1. PICK s \in FinishedSheets :
         /\ s.queue # <<>>
         /\ Spawn(j, Statements(s))
         /\ sent' = [sent EXCEPT ![j] = s.queue]
         /\ sheet' = s
  BY DEF Save
<1>2. Kept(sheet, s, G) /\ s.cell = NoCell
  BY FinishedSheetsKept
<1>3. s.queue \in Queues /\ s.rows \in Grids
  BY <1>2, SheetFields DEF Kept
<1>4. Statements(s) \in Seq(Stmts)
  BY <1>3, StatementsType
<1>5. CellHome(s)
  BY <1>2 DEF CellHome
<1>6. sheet.cell = NoCell => s = sheet
  BY DEF FinishedSheets
<1>7. QED
  BY <1>1, <1>2, <1>3, <1>4, <1>5, <1>6

(* Esc.                                                                    *)
LEMMA DiscardedSheet ==
    ASSUME NEW G, Known(sheet, G), [rows |-> sheet.base, queue |-> <<>>] \in G, Discard
    PROVE  /\ Small(sheet') /\ Known(sheet', G) /\ sheet'.cell = NoCell
           /\ sheet'.queue = <<>> /\ sheet'.undo = <<>> /\ sheet'.redo = <<>>
           /\ sheet'.base = sheet.base /\ sheet'.rows = sheet.base
           /\ loaded' = sheet.base
<1>1. sheet' = Loaded(Unwound(sheet)) /\ loaded' = sheet.base
  BY DEF Discard
<1>2. Unwound(sheet) = sheet.base
  BY UnwoundIsBase
<1>3. sheet.base \in Grids
  BY KnownHere
<1>4. sheet' = Loaded(sheet.base)
  BY <1>1, <1>2
<1>5. QED
  BY <1>1, <1>3, <1>4, LoadedKnown
-----------------------------------------------------------------------------
(* The answer of a save.                                                   *)
LEMMA SentType ==
    ASSUME NEW j \in Saves, sheet.queue \in Queues, sent[j] \in Queues
    PROVE  /\ Sent(j) \in Queues /\ Len(Sent(j)) \in Nat
           /\ Len(Sent(j)) <= Len(sheet.queue) /\ Len(Sent(j)) <= Len(sent[j])
           /\ \A k \in 1..Len(Sent(j)) : Sent(j)[k] = sent[j][k]
           /\ sent[j] = sheet.queue => Len(Sent(j)) = Len(sheet.queue)
<1> DEFINE a == Len(sent[j])
           b == Len(sheet.queue)
           M == {a, b}
           m == Min(M)
           q == SubSeq(sent[j], 1, m)
<1>1. a \in Nat /\ b \in Nat /\ sent[j] \in Seq(Ops) /\ \A k \in 1..a : sent[j][k] \in Ops
  BY QueueTypes
<1>2. m \in M /\ \A k \in M : m <= k
  <2>1. M \in SUBSET Nat /\ M # {}
    BY <1>1
  <2> HIDE DEF M
  <2>2. QED
    BY <2>1, LeastOf
<1> HIDE DEF m
<1>3. m \in Nat /\ m <= a /\ m <= b /\ (a = b => m = b)
  BY <1>1, <1>2
<1>4. Sent(j) = q
  BY DEF Sent, m
<1>5. q \in Seq(Ops) /\ Len(q) = m /\ \A k \in 1..m : q[k] = sent[j][k]
  <2>1. \A k \in 1..m : sent[j][k] \in Ops
    BY <1>1, <1>3
  <2>2. /\ q \in Seq(Ops) /\ Len(q) = IF 1 <= m THEN m - 1 + 1 ELSE 0
        /\ \A k \in 1..(m - 1 + 1) : q[k] = sent[j][1 + k - 1]
    BY <1>3, <2>1, SubSeqProperties
  <2> HIDE DEF q
  <2>3. QED
    BY <1>3, <2>2
<1> HIDE DEF q
<1>6. sent[j] = sheet.queue => a = b
  OBVIOUS
<1>7. QED
  BY <1>3, <1>4, <1>5, <1>6 DEF Queues, a, b

LEMMA RestType ==
    ASSUME NEW j \in Saves, sheet.queue \in Queues, sent[j] \in Queues,
           NEW rest, rest = SubSeq(sheet.queue, Len(Sent(j)) + 1, Len(sheet.queue))
    PROVE  /\ rest \in Queues
           /\ Len(rest) = Len(sheet.queue) - Len(Sent(j))
           /\ \A k \in 1..Len(rest) : /\ Len(Sent(j)) + k \in 1..Len(sheet.queue)
                                      /\ rest[k] = sheet.queue[Len(Sent(j)) + k]
           /\ sent[j] = sheet.queue => rest = <<>>
<1> DEFINE m == Len(Sent(j))
           n == Len(sheet.queue)
<1>1. /\ m \in Nat /\ n \in Nat /\ m <= n /\ (sent[j] = sheet.queue => m = n)
      /\ \A k \in 1..n : sheet.queue[k] \in Ops
  BY SentType, QueueTypes
<1>2. rest = SubSeq(sheet.queue, m + 1, n)
  OBVIOUS
<1> HIDE DEF m, n
<1>3. m + 1 \in Int /\ n \in Int /\ \A k \in (m + 1)..n : sheet.queue[k] \in Ops
  BY <1>1
<1>4. /\ rest \in Seq(Ops)
      /\ Len(rest) = IF m + 1 <= n THEN n - (m + 1) + 1 ELSE 0
      /\ \A k \in 1..(n - (m + 1) + 1) : rest[k] = sheet.queue[(m + 1) + k - 1]
  <2> DEFINE b == SubSeq(sheet.queue, m + 1, n)
  <2>1. /\ b \in Seq(Ops) /\ Len(b) = IF m + 1 <= n THEN n - (m + 1) + 1 ELSE 0
        /\ \A k \in 1..(n - (m + 1) + 1) : b[k] = sheet.queue[(m + 1) + k - 1]
    BY <1>3, SubSeqProperties
  <2> HIDE DEF b
  <2>2. rest = b
    BY <1>2 DEF b
  <2>3. QED
    BY <2>1, <2>2
<1>5. Len(rest) = n - m
  <2>1. (IF m + 1 <= n THEN n - (m + 1) + 1 ELSE 0) = n - m
    BY ONLY <1>1
  <2>2. QED
    BY <1>4, <2>1
<1>6. ASSUME NEW k \in 1..Len(rest) PROVE m + k \in 1..n /\ rest[k] = sheet.queue[m + k]
  <2>1. k \in 1..(n - m)
    BY <1>5
  <2>2. k \in 1..(n - (m + 1) + 1) /\ (m + 1) + k - 1 = m + k /\ m + k \in 1..n
    BY ONLY <1>1, <2>1
  <2>3. QED
    BY <1>4, <2>2
<1>7. sent[j] = sheet.queue => rest = <<>>
  <2> SUFFICES ASSUME sent[j] = sheet.queue PROVE rest = <<>>
    OBVIOUS
  <2>1. Len(rest) = 0
    BY <1>1, <1>5
  <2>2. QED
    BY <1>4, <2>1, EmptySeq
<1>8. QED
  BY <1>4, <1>5, <1>6, <1>7 DEF Queues, m, n

LEMMA DrainedType ==
    ASSUME NEW j \in Saves, Small(sheet), sent[j] \in Queues
    PROVE  \E t : /\ t \in Sheets /\ t.cell = sheet.cell
                  /\ Drained(j) = HistoryCleared(t)
                  /\ sent[j] = sheet.queue => t.queue = <<>>
<1>1. sheet \in Sheets /\ sheet.queue \in Queues
  BY SheetFields DEF Small
<1>2. CASE Intact(j)
  <2> DEFINE rest == SubSeq(sheet.queue, Len(Sent(j)) + 1, Len(sheet.queue))
             u == [sheet EXCEPT !.queue = rest]
             t == DeletedDropped(u, Sent(j))
  <2>1. rest \in Queues /\ (sent[j] = sheet.queue => rest = <<>>)
    BY <1>1, RestType
  <2>2. Drained(j) = HistoryCleared(t)
    BY <1>2 DEF Drained
  <2> HIDE DEF rest
  <2>3. u \in Sheets /\ u.queue = rest /\ u.cell = sheet.cell
    BY <1>1, <2>1 DEF Sheets
  <2> HIDE DEF u
  <2>4. AsBefore(u, t)
    BY <2>3, DroppedType
  <2>5. t \in Sheets /\ t.cell = sheet.cell /\ (sent[j] = sheet.queue => t.queue = <<>>)
    BY <2>1, <2>3, <2>4 DEF AsBefore
  <2>6. QED
    BY <2>2, <2>5
<1>3. CASE ~Intact(j)
  <2> DEFINE t == [sheet EXCEPT !.queue = <<>>]
  <2>1. <<>> \in Queues
    BY DEF Queues
  <2>2. t \in Sheets /\ t.queue = <<>> /\ t.cell = sheet.cell
    BY <1>1, <2>1 DEF Sheets
  <2>3. Drained(j) = HistoryCleared(t)
    BY <1>3 DEF Drained
  <2> HIDE DEF t
  <2>4. QED
    BY <2>2, <2>3
<1>4. QED
  BY <1>2, <1>3

LEMMA AnsweredSheet ==
    ASSUME NEW j \in Saves, Small(sheet), sent[j] \in Queues, SaveSucceeded(j)
    PROVE  /\ Small(sheet') /\ Known(sheet', States) /\ sheet'.cell = sheet.cell
           /\ sheet'.undo = <<>> /\ sheet'.redo = <<>> /\ sheet'.base = sheet'.rows
           /\ sent[j] = sheet.queue => sheet'.queue = <<>> /\ loaded' = sheet'.rows
<1>1. PICK t : /\ t \in Sheets /\ t.cell = sheet.cell
               /\ Drained(j) = HistoryCleared(t)
               /\ sent[j] = sheet.queue => t.queue = <<>>
  BY DrainedType
<1> DEFINE w == HistoryCleared(t)
<1>2. sheet' = w /\ loaded' = Rewound(sheet')
  BY <1>1 DEF SaveSucceeded
<1>3. State(t) \in States
  BY <1>1 DEF Sheets, State, States
<1>4. /\ Small(w) /\ Known(w, States) /\ w.cell = t.cell /\ w.queue = t.queue
      /\ w.undo = <<>> /\ w.redo = <<>> /\ w.base = t.rows /\ w.rows = t.rows
  BY <1>1, <1>3, ClearedKnown
<1> HIDE DEF w
<1>5. w.rows \in Grids
  BY <1>4, SheetFields
<1>6. w.queue = <<>> => Rewound(w) = w.rows
  BY <1>5, RewoundEmpty
<1>7. Rewound(sheet') = Rewound(w)
  BY <1>2
<1>8. QED
  BY <1>1, <1>2, <1>4, <1>6, <1>7

(* The rows of a reload.                                                   *)
LEMMA ReloadedSheet ==
    ASSUME NEW G, table \in Grids, [rows |-> table, queue |-> <<>>] \in G, Small(sheet),
           Pristine, sheet' = [sheet EXCEPT !.rows = table, !.base = table]
    PROVE  /\ Small(sheet') /\ Known(sheet', G) /\ sheet'.cell = NoCell
           /\ sheet'.queue = <<>> /\ sheet'.undo = <<>> /\ sheet'.redo = <<>>
           /\ sheet'.base = table
<1> DEFINE w == [sheet EXCEPT !.rows = table, !.base = table]
<1>1. sheet \in Sheets /\ Len(sheet.undo) + Len(sheet.redo) <= UndoLimit
  BY DEF Small
<1>2. /\ w \in Sheets /\ w.rows = table /\ w.base = table /\ w.queue = sheet.queue
      /\ w.undo = sheet.undo /\ w.redo = sheet.redo /\ w.cell = sheet.cell
  BY <1>1 DEF Sheets
<1> HIDE DEF w
<1>3. /\ w.queue = <<>> /\ w.undo = <<>> /\ w.redo = <<>> /\ w.cell = NoCell
  BY <1>2 DEF Pristine
<1>4. State(w) \in G /\ w.queue \in Queues
  BY <1>2, <1>3 DEF State, Queues
<1>5. Known(w, G)
  BY <1>2, <1>3, <1>4, KnownAlone
<1>6. Small(w)
  BY <1>1, <1>2 DEF Small
<1>7. sheet' = w
  BY DEF w
<1>8. QED
  BY <1>2, <1>3, <1>5, <1>6, <1>7
-----------------------------------------------------------------------------
(* The sheet through every step but the answer of a save.                  *)
EmptyIn(G) == \A rows \in Grids : [rows |-> rows, queue |-> <<>>] \in G

Counted == reloads \in Nat /\ ids \in Nat /\ replaced \in BOOLEAN /\ disturbed \in BOOLEAN

LEMMA CountedNext == Counted /\ [Next]_vars => Counted'
<1> SUFFICES ASSUME Counted, [Next]_vars PROVE Counted'
  OBVIOUS
<1>1. CASE UNCHANGED vars
  BY <1>1 DEF vars, gridVars, Counted
<1>2. ASSUME NEW s, NEW n \in {0, 1}, Edits(s, n) PROVE Counted'
  BY <1>2 DEF Edits, Counted
<1>3. CASE StartEdit \/ AddRow \/ DuplicateRow \/ ToggleDelete \/ Undo \/ Redo
  BY <1>2, <1>3, Zenon DEF StartEdit, AddRow, DuplicateRow, ToggleDelete, Undo, Redo
<1>4. CASE FinishEdit
  BY <1>4 DEF FinishEdit, Counted
<1>5. CASE Discard
  BY <1>5 DEF Discard, AskReload, Counted
<1>6. CASE Reload
  <2>1. reloads' \in Nat
    BY <1>6 DEF Reload, Counted
  <2>2. ids' = ids /\ disturbed' = disturbed
    BY <1>6 DEF Reload
  <2>3. replaced' \in BOOLEAN
    BY <1>6 DEF Reload, Counted
  <2>4. QED
    BY <2>1, <2>2, <2>3 DEF Counted
<1>7. ASSUME NEW j \in Saves, Save(j) PROVE Counted'
  BY <1>7 DEF Save, Counted
<1>8. ASSUME NEW j \in Saves, SaveSteps(j) PROVE Counted'
  BY <1>8 DEF SaveSteps, gridVars, Counted
<1>9. ASSUME NEW j \in Saves, CancelSave(j) PROVE Counted'
  BY <1>9 DEF CancelSave, Counted
<1>10. ASSUME NEW j \in Saves, SaveSucceeded(j) PROVE Counted'
  BY <1>10 DEF SaveSucceeded, AskReload, Counted
<1>11. ASSUME NEW j \in Saves, SaveFailed(j) PROVE Counted'
  BY <1>11 DEF SaveFailed, Counted
<1>12. QED
  BY <1>1, <1>3, <1>4, <1>5, <1>6, <1>7, <1>8, <1>9, <1>10, <1>11 DEF Next

LEMMA SheetSteps ==
    ASSUME NEW G, NEW strict, Stable(G, strict), EmptyIn(G), Counted, ~replaced',
           table \in Grids, SheetGood(G, strict), [Next]_vars,
           \A j \in Saves : ~SaveSucceeded(j)
    PROVE  SheetGood(G, strict)'
<1>1. ASSUME sheet' = sheet PROVE SheetGood(G, strict)'
  BY <1>1 DEF SheetGood
<1>2. ASSUME Small(sheet'), Known(sheet', G), CellHome(sheet') PROVE SheetGood(G, strict)'
  BY <1>2 DEF SheetGood
<1>3. CASE StartEdit \/ AddRow \/ DuplicateRow \/ ToggleDelete \/ Undo \/ Redo
  <2>1. ids \in Nat
    BY DEF Counted
  <2>2. Kept(sheet, sheet', G) /\ CellHome(sheet')
    BY <1>3, <2>1, UserSteps
  <2>3. QED
    BY <1>2, <2>2 DEF Kept
<1>4. CASE FinishEdit
  <2>1. Kept(sheet, sheet', G) /\ CellHome(sheet')
    BY <1>4, FinishSteps
  <2>2. QED
    BY <1>2, <2>1 DEF Kept
<1>5. CASE Discard
  <2>1. Known(sheet, G) /\ sheet.base \in Grids
    BY KnownHere DEF SheetGood
  <2>2. [rows |-> sheet.base, queue |-> <<>>] \in G
    BY <2>1 DEF EmptyIn
  <2>3. Small(sheet') /\ Known(sheet', G) /\ sheet'.cell = NoCell
    BY <1>5, <2>1, <2>2, DiscardedSheet
  <2>4. QED
    BY <1>2, <2>3 DEF CellHome
<1>6. CASE Reload
  <2>1. CASE sheet' = sheet
    BY <1>1, <2>1
  <2>2. CASE sheet' # sheet
    <3>1. /\ sheet' = [sheet EXCEPT !.rows = table, !.base = table]
          /\ replaced' = (replaced \/ ~Pristine)
      BY <1>6, <2>2 DEF Reload
    <3>2. Pristine
      BY <3>1
    <3>3. Small(sheet)
      BY DEF SheetGood
    <3>4. [rows |-> table, queue |-> <<>>] \in G
      BY DEF EmptyIn
    <3>5. Small(sheet') /\ Known(sheet', G) /\ sheet'.cell = NoCell
      BY <3>1, <3>2, <3>3, <3>4, ReloadedSheet
    <3>6. QED
      BY <1>2, <3>5 DEF CellHome
  <2>3. QED
    BY <2>1, <2>2
<1>7. ASSUME NEW j \in Saves, Save(j) PROVE SheetGood(G, strict)'
  <2>1. Kept(sheet, sheet', G) /\ CellHome(sheet')
    BY <1>7, SavedSheet
  <2>2. QED
    BY <1>2, <2>1 DEF Kept
<1>8. ASSUME NEW j \in Saves, SaveSteps(j) \/ CancelSave(j) \/ SaveFailed(j)
      PROVE  SheetGood(G, strict)'
  BY <1>1, <1>8 DEF SaveSteps, CancelSave, SaveFailed, gridVars
<1>9. CASE UNCHANGED vars
  BY <1>1, <1>9 DEF vars, gridVars
<1>10. QED
  BY <1>3, <1>4, <1>5, <1>6, <1>7, <1>8, <1>9 DEF Next
-----------------------------------------------------------------------------
(* While no reload replaced rows under edits, all is typed and the history *)
(* is one chain of states; while the user waits for saves and reloads, a   *)
(* save under way has sent what is pending, and a reload finds no edits.   *)
TypedInv == ~replaced => /\ JobsTyped /\ sent \in [Saves -> Queues]
                         /\ SheetGood(States, FALSE)

WaitInv ==
    ~disturbed =>
       /\ ~replaced
       /\ sheet.lost = 0 => sheet.base = loaded
       /\ reloads > 0 => Pristine
       /\ \A j \in Flying : sent[j] = sheet.queue /\ sheet.cell = NoCell
       /\ \A i, j \in Flying : i = j

HistoryInv == Counted /\ TypedInv /\ WaitInv

LEMMA FlagsStay ==
    ASSUME Counted, [Next]_vars
    PROVE  (replaced => replaced') /\ (disturbed => disturbed')
<1> DEFINE Stay == (replaced => replaced') /\ (disturbed => disturbed')
<1>1. CASE UNCHANGED vars
  BY <1>1 DEF vars, gridVars
<1>2. ASSUME NEW s, NEW n \in {0, 1}, Edits(s, n) PROVE Stay
  BY <1>2, Zenon DEF Edits
<1>3. CASE StartEdit \/ AddRow \/ DuplicateRow \/ ToggleDelete \/ Undo \/ Redo
  BY <1>2, <1>3, Zenon DEF StartEdit, AddRow, DuplicateRow, ToggleDelete, Undo, Redo
<1>4. CASE FinishEdit
  BY <1>4, Zenon DEF FinishEdit
<1>5. CASE Discard
  BY <1>5, Zenon DEF Discard
<1>6. CASE Reload
  <2>1. disturbed' = disturbed
    BY <1>6 DEF Reload
  <2>2. CASE replaced' = (replaced \/ ~Pristine)
    BY <2>1, <2>2, Zenon
  <2>3. CASE UNCHANGED <<sheet, loaded, replaced>>
    BY <2>1, <2>3
  <2>4. QED
    BY <1>6, <2>2, <2>3, Zenon DEF Reload
<1>7. ASSUME NEW j \in Saves, Save(j) PROVE Stay
  <2>1. disturbed' = (disturbed \/ Busy) /\ replaced' = replaced
    BY <1>7 DEF Save
  <2>2. QED
    BY <2>1, Zenon
<1>8. ASSUME NEW j \in Saves,
             SaveSteps(j) \/ CancelSave(j) \/ SaveSucceeded(j) \/ SaveFailed(j)
      PROVE  Stay
  <2>1. replaced' = replaced
    BY <1>8 DEF SaveSteps, gridVars, CancelSave, SaveSucceeded, SaveFailed
  <2>2. CASE CancelSave(j) \/ SaveFailed(j)
    BY <2>1, <2>2, Zenon DEF CancelSave, SaveFailed
  <2>3. CASE SaveSteps(j) \/ SaveSucceeded(j)
    BY <2>1, <2>3 DEF SaveSteps, gridVars, SaveSucceeded
  <2>4. QED
    BY <1>8, <2>2, <2>3
<1>9. QED
  BY <1>1, <1>3, <1>4, <1>5, <1>6, <1>7, <1>8, Zenon DEF Next

LEMMA StatesSteps ==
    ASSUME Counted, ~replaced', JobsTyped, SheetGood(States, FALSE), [Next]_vars,
           \A j \in Saves : ~SaveSucceeded(j)
    PROVE  SheetGood(States, FALSE)'
<1>1. EmptyIn(States)
  BY DEF EmptyIn, States, Queues
<1>2. ASSUME NEW strict, Stable(States, strict), SheetGood(States, strict)
      PROVE  SheetGood(States, strict)'
  BY <1>1, <1>2, SheetSteps DEF JobsTyped
<1>3. QED
  BY <1>2, StatesStable

LEMMA TypedNext ==
    ASSUME JobsClean, WorkInv, Counted, TypedInv, [Next]_vars
    PROVE  TypedInv'
<1> SUFFICES ASSUME ~replaced'
             PROVE  (JobsTyped /\ sent \in [Saves -> Queues] /\ SheetGood(States, FALSE))'
  BY DEF TypedInv
<1>1. /\ ~replaced /\ JobsTyped /\ sent \in [Saves -> Queues]
      /\ SheetGood(States, FALSE)
  BY FlagsStay DEF TypedInv
<1>2. Small(sheet)
  BY <1>1 DEF SheetGood
<1>3. ASSUME UNCHANGED saveVars PROVE JobsTyped'
  BY <1>1, <1>3 DEF saveVars, JobsTyped
<1>4. SheetGood(States, FALSE)'
  <2>1. CASE \A j \in Saves : ~SaveSucceeded(j)
    BY <1>1, <2>1, StatesSteps
  <2>2. ASSUME NEW j \in Saves, SaveSucceeded(j) PROVE SheetGood(States, FALSE)'
    <3>1. sent[j] \in Queues
      BY <1>1
    <3>2. Small(sheet') /\ Known(sheet', States)
      BY <1>2, <2>2, <3>1, AnsweredSheet
    <3>3. QED
      BY <3>2 DEF SheetGood
  <2>3. QED
    BY <2>1, <2>2
<1>5. JobsTyped' /\ sent' \in [Saves -> Queues]
  <2>1. CASE \/ StartEdit \/ FinishEdit \/ AddRow \/ DuplicateRow \/ ToggleDelete
             \/ Undo \/ Redo \/ Discard \/ Reload
    <3>1. JobsTyped'
      BY <1>3, <2>1, SheetLeavesJobs
    <3>2. ASSUME NEW s, NEW n \in {0, 1}, Edits(s, n) PROVE sent' = sent
      BY <3>2 DEF Edits
    <3>3. sent' = sent
      BY <2>1, <3>2, Zenon DEF StartEdit, FinishEdit, AddRow, DuplicateRow, ToggleDelete,
                               Undo, Redo, Discard, Reload
    <3>4. QED
      BY <1>1, <3>1, <3>3
  <2>2. ASSUME NEW j \in Saves, Save(j) PROVE JobsTyped' /\ sent' \in [Saves -> Queues]
    <3>1. ASSUME NEW strict, Stable(States, strict), SheetGood(States, strict)
          PROVE  /\ sheet'.queue \in Queues /\ Statements(sheet') \in Seq(Stmts)
                 /\ Spawn(j, Statements(sheet'))
                 /\ sent' = [sent EXCEPT ![j] = sheet'.queue]
      BY <2>2, <3>1, SavedSheet
    <3>2. /\ sheet'.queue \in Queues /\ Statements(sheet') \in Seq(Stmts)
          /\ Spawn(j, Statements(sheet'))
          /\ sent' = [sent EXCEPT ![j] = sheet'.queue]
      BY <1>1, <3>1, StatesStable
    <3>3. JobsTyped'
      BY <1>1, <3>2, SpawnTyped
    <3>4. QED
      BY <1>1, <3>2, <3>3
  <2>3. ASSUME NEW j \in Saves, SaveSteps(j) PROVE JobsTyped' /\ sent' \in [Saves -> Queues]
    BY <1>1, <2>3, StepTyped DEF SaveSteps, gridVars
  <2>4. ASSUME NEW j \in Saves, CancelSave(j) \/ SaveSucceeded(j) \/ SaveFailed(j)
        PROVE  JobsTyped' /\ sent' \in [Saves -> Queues]
    <3>1. /\ Cancel(j) \/ (jobs[j].phase = "ended" /\ Handled(j))
          /\ sent' = sent
      BY <2>4 DEF CancelSave, SaveSucceeded, SaveFailed
    <3>2. JobsTyped'
      BY <1>1, <3>1, EndTyped
    <3>3. QED
      BY <1>1, <3>1, <3>2
  <2>5. CASE UNCHANGED vars
    BY <1>1, <1>3, <2>5 DEF vars, gridVars
  <2>6. QED
    BY <2>1, <2>2, <2>3, <2>4, <2>5 DEF Next
<1>6. QED
  BY <1>4, <1>5

(* Nobody waits for an answer.                                             *)
LEMMA NotBusy ==
    ASSUME Counted, ~Busy
    PROVE  reloads = 0 /\ Flying = {}
BY DEF Busy, Counted, Flying

LEMMA WaitNext ==
    ASSUME JobsClean, WorkInv, Counted, TypedInv, WaitInv, [Next]_vars
    PROVE  WaitInv'
<1> SUFFICES ASSUME ~disturbed'
             PROVE  /\ ~replaced'
                    /\ sheet'.lost = 0 => sheet'.base = loaded'
                    /\ reloads' > 0 => Pristine'
                    /\ \A j \in Flying' : sent'[j] = sheet'.queue /\ sheet'.cell = NoCell
                    /\ \A i, j \in Flying' : i = j
  BY DEF WaitInv
<1>1. /\ ~disturbed /\ ~replaced
      /\ sheet.lost = 0 => sheet.base = loaded
      /\ reloads > 0 => Pristine
      /\ \A j \in Flying : sent[j] = sheet.queue /\ sheet.cell = NoCell
      /\ \A i, j \in Flying : i = j
  BY FlagsStay DEF WaitInv
<1>2. /\ JobsTyped /\ sent \in [Saves -> Queues] /\ SheetGood(States, FALSE)
      /\ Small(sheet) /\ Known(sheet, States)
  BY <1>1 DEF TypedInv, SheetGood
<1>3. ids \in Nat /\ reloads \in Nat
  BY DEF Counted
<1> DEFINE Goal == /\ ~replaced'
                   /\ sheet'.lost = 0 => sheet'.base = loaded'
                   /\ reloads' > 0 => Pristine'
                   /\ \A j \in Flying' : sent'[j] = sheet'.queue /\ sheet'.cell = NoCell
                   /\ \A i, j \in Flying' : i = j
<1>4. ASSUME ~Busy, replaced' = replaced, loaded' = loaded, reloads' = reloads,
             Flying' = {}, Kept(sheet, sheet', States)
      PROVE  Goal
  <2>1. reloads = 0
    BY <1>4, NotBusy
  <2>2. sheet'.lost = 0 => sheet'.base = loaded'
    BY <1>1, <1>4 DEF Kept
  <2>3. ~(reloads' > 0)
    BY <1>4, <2>1
  <2>4. QED
    BY <1>1, <1>4, <2>2, <2>3
<1>5. ASSUME UNCHANGED saveVars PROVE Flying' = Flying
  BY <1>5 DEF saveVars, Flying, InFlight
<1>6. CASE StartEdit \/ AddRow \/ DuplicateRow \/ ToggleDelete \/ Undo \/ Redo
  <2>1. ASSUME NEW strict, Stable(States, strict), SheetGood(States, strict)
        PROVE  Kept(sheet, sheet', States) /\ \E n \in {0, 1} : Edits(sheet', n)
    BY <1>3, <1>6, <2>1, UserSteps
  <2>2. Kept(sheet, sheet', States) /\ \E n \in {0, 1} : Edits(sheet', n)
    BY <1>2, <2>1, StatesStable
  <2>3. /\ ~Busy /\ replaced' = replaced /\ loaded' = loaded /\ reloads' = reloads
        /\ UNCHANGED saveVars
    BY <2>2 DEF Edits
  <2>4. Flying' = {}
    BY <1>5, <2>3, NotBusy
  <2>5. QED
    BY <1>4, <2>2, <2>3, <2>4
<1>7. CASE FinishEdit
  <2>1. ASSUME NEW strict, Stable(States, strict), SheetGood(States, strict)
        PROVE  Kept(sheet, sheet', States)
    BY <1>7, <2>1, FinishSteps
  <2>2. Kept(sheet, sheet', States)
    BY <1>2, <2>1, StatesStable
  <2>3. /\ ~Busy /\ replaced' = replaced /\ loaded' = loaded /\ reloads' = reloads
        /\ UNCHANGED saveVars
    BY <1>7 DEF FinishEdit
  <2>4. Flying' = {}
    BY <1>5, <2>3, NotBusy
  <2>5. QED
    BY <1>4, <2>2, <2>3, <2>4
<1>8. CASE Discard
  <2>1. sheet.base \in Grids
    BY <1>2, KnownHere
  <2>2. [rows |-> sheet.base, queue |-> <<>>] \in States
    BY <2>1 DEF States, Queues
  <2>3. /\ sheet'.cell = NoCell
        /\ sheet'.queue = <<>> /\ sheet'.undo = <<>> /\ sheet'.redo = <<>>
        /\ sheet'.base = sheet.base /\ loaded' = sheet.base
    BY <1>2, <1>8, <2>2, DiscardedSheet
  <2>4. ~Busy /\ replaced' = replaced /\ UNCHANGED saveVars
    BY <1>8 DEF Discard
  <2>5. Flying' = {}
    BY <1>5, <2>4, NotBusy
  <2>6. Pristine'
    BY <2>3 DEF Pristine
  <2>7. QED
    BY <1>1, <2>3, <2>4, <2>5, <2>6
<1>9. CASE Reload
  <2>1. reloads > 0 /\ Pristine /\ UNCHANGED saveVars /\ sent' = sent
    BY <1>1, <1>9 DEF Reload
  <2>2. Flying' = Flying
    BY <1>5, <2>1
  <2>3. CASE sheet' = [sheet EXCEPT !.rows = table, !.base = table] /\ loaded' = table
             /\ replaced' = (replaced \/ ~Pristine)
    <3>1. table \in Grids
      BY <1>2 DEF JobsTyped
    <3>2. [rows |-> table, queue |-> <<>>] \in States
      BY <3>1 DEF States, Queues
    <3>3. /\ sheet'.cell = NoCell /\ sheet'.queue = <<>> /\ sheet'.undo = <<>>
          /\ sheet'.redo = <<>> /\ sheet'.base = table
      BY <1>2, <2>1, <2>3, <3>1, <3>2, ReloadedSheet
    <3>4. Pristine' /\ sheet'.queue = sheet.queue
      BY <2>1, <3>3 DEF Pristine
    <3>5. ~replaced'
      BY <1>1, <2>1, <2>3
    <3>6. \A j \in Flying' : sent'[j] = sheet'.queue /\ sheet'.cell = NoCell
      BY <1>1, <2>1, <2>2, <3>3, <3>4
    <3>7. \A i, j \in Flying' : i = j
      BY <1>1, <2>2
    <3>8. QED
      BY <2>3, <3>3, <3>4, <3>5, <3>6, <3>7
  <2>4. CASE UNCHANGED <<sheet, loaded, replaced>>
    <3>1. Pristine'
      BY <2>1, <2>4 DEF Pristine
    <3>2. QED
      BY <1>1, <2>1, <2>2, <2>4, <3>1
  <2>5. QED
    BY <1>9, <2>3, <2>4 DEF Reload
<1>10. ASSUME NEW j \in Saves, Save(j) PROVE Goal
  <2>1. ASSUME NEW strict, Stable(States, strict), SheetGood(States, strict)
        PROVE  /\ Kept(sheet, sheet', States) /\ sheet'.cell = NoCell
               /\ Statements(sheet') \in Seq(Stmts) /\ Spawn(j, Statements(sheet'))
               /\ sent' = [sent EXCEPT ![j] = sheet'.queue]
    BY <1>10, <2>1, SavedSheet
  <2>2. /\ Kept(sheet, sheet', States) /\ sheet'.cell = NoCell
        /\ Statements(sheet') \in Seq(Stmts) /\ Spawn(j, Statements(sheet'))
        /\ sent' = [sent EXCEPT ![j] = sheet'.queue]
    BY <1>2, <2>1, StatesStable
  <2>3. ~Busy /\ replaced' = replaced /\ loaded' = loaded /\ reloads' = reloads
    BY <1>10 DEF Save
  <2>4. reloads = 0 /\ Flying = {}
    BY <2>3, NotBusy
  <2>5. Flying' \subseteq {j}
    BY <1>2, <2>2, <2>4, SpawnTyped
  <2>6. sent'[j] = sheet'.queue
    BY <1>2, <2>2
  <2>7. sheet'.lost = 0 => sheet'.base = loaded'
    BY <1>1, <2>2, <2>3 DEF Kept
  <2>8. ~(reloads' > 0)
    BY <2>3, <2>4
  <2>9. \A i \in Flying' : i = j
    BY <2>5
  <2>10. \A i \in Flying' : sent'[i] = sheet'.queue /\ sheet'.cell = NoCell
    BY <2>2, <2>6, <2>9
  <2>11. QED
    BY <1>1, <2>3, <2>7, <2>8, <2>9, <2>10
<1>11. ASSUME NEW j \in Saves, SaveSteps(j) \/ CancelSave(j) \/ SaveFailed(j)
       PROVE  Goal
  <2>1. UNCHANGED <<sheet, reloads, sent, loaded, replaced>>
    BY <1>11 DEF SaveSteps, gridVars, CancelSave, SaveFailed
  <2>2. Flying' \subseteq Flying
    <3>1. CASE SaveSteps(j)
      BY <1>2, <3>1, StepTyped DEF SaveSteps
    <3>2. CASE CancelSave(j) \/ SaveFailed(j)
      <4>1. Cancel(j) \/ (jobs[j].phase = "ended" /\ Handled(j))
        BY <3>2 DEF CancelSave, SaveFailed
      <4>2. QED
        BY <1>2, <4>1, EndTyped
    <3>3. QED
      BY <1>11, <3>1, <3>2
  <2>3. Pristine' <=> Pristine
    BY <2>1 DEF Pristine
  <2>4. QED
    BY <1>1, <2>1, <2>2, <2>3
<1>12. ASSUME NEW j \in Saves, SaveSucceeded(j) PROVE Goal
  <2>1. jobs[j].phase = "ended" /\ Handled(j) /\ replaced' = replaced
    BY <1>12 DEF SaveSucceeded
  <2>2. Flying' \subseteq Flying \ {j} /\ j \in Flying
    BY <1>2, <2>1, EndTyped
  <2>3. Flying' = {} /\ sent[j] = sheet.queue /\ sheet.cell = NoCell
    BY <1>1, <2>2
  <2>4. sent[j] \in Queues
    BY <1>2
  <2>5. /\ sheet'.cell = sheet.cell /\ sheet'.undo = <<>> /\ sheet'.redo = <<>>
        /\ sheet'.base = sheet'.rows
        /\ sheet'.queue = <<>> /\ loaded' = sheet'.rows
    BY <1>2, <1>12, <2>3, <2>4, AnsweredSheet
  <2>6. Pristine'
    BY <2>3, <2>5 DEF Pristine
  <2>7. QED
    BY <1>1, <2>1, <2>3, <2>5, <2>6
<1>13. CASE UNCHANGED vars
  <2>1. /\ UNCHANGED <<sheet, reloads, sent, loaded, replaced>> /\ UNCHANGED saveVars
    BY <1>13 DEF vars, gridVars
  <2>2. Flying' = Flying /\ (Pristine' <=> Pristine)
    BY <1>5, <2>1 DEF Pristine
  <2>3. QED
    BY <1>1, <2>1, <2>2
<1>14. QED
  BY <1>6, <1>7, <1>8, <1>9, <1>10, <1>11, <1>12, <1>13 DEF Next

(* The rows of the beginning have no DEFAULT.                              *)
LEMMA FirstGrid ==
    /\ FirstRows \in Grids
    /\ \A k \in 1..Len(FirstRows) :
          FirstRows[k].key # Default /\ FirstRows[k].val # Default
<1> DEFINE R == [id : Nat, key : Nat \ {Default}, val : Nat \ {Default}]
           n == Len(FirstRows)
<1>1. FirstRows \in Seq(R)
  BY GridAssumption
<1>2. n \in Nat /\ FirstRows = [k \in 1..n |-> FirstRows[k]] /\ \A k \in 1..n : FirstRows[k] \in R
  BY <1>1, LenProperties, ElementOfSeq
<1>3. \A r \in R : r \in Rows /\ r.key # Default /\ r.val # Default
  BY DEF Rows, Default
<1> HIDE DEF R
<1>4. \A k \in 1..n : FirstRows[k] \in Rows
  BY <1>2, <1>3
<1>5. FirstRows \in Seq(Rows)
  BY <1>2, <1>4
<1>6. QED
  BY <1>2, <1>3, <1>5 DEF Grids

LEMMA InitHistory == Init => HistoryInv
<1> SUFFICES ASSUME Init PROVE HistoryInv
  OBVIOUS
<1>1. FirstRows \in Grids
  BY FirstGrid
<1>2. /\ jobs = [j \in Saves |-> NoJob] /\ table = FirstRows
      /\ sheet = Loaded(FirstRows) /\ reloads = 0
      /\ sent = [j \in Saves |-> <<>>] /\ ids = Len(FirstRows)
      /\ loaded = FirstRows /\ replaced = FALSE /\ disturbed = FALSE
  BY DEF Init, SaveInit
<1>3. Len(FirstRows) \in Nat
  BY <1>1 DEF Grids
<1>4. Counted
  BY <1>2, <1>3 DEF Counted
<1>5. [rows |-> FirstRows, queue |-> <<>>] \in States
  BY <1>1 DEF States, Queues
<1>6. Small(sheet) /\ Known(sheet, States) /\ sheet.cell = NoCell
  BY <1>1, <1>2, <1>5, LoadedKnown
<1>7. SheetGood(States, FALSE)
  BY <1>6 DEF SheetGood
<1>8. <<>> \in Seq(Stmts) /\ <<>> \in Grids /\ <<>> \in Queues
  BY DEF Grids, Queues
<1>9. JobTyped(NoJob)
  BY <1>8 DEF JobTyped, NoJob
<1>10. JobsTyped
  BY <1>1, <1>2, <1>9 DEF JobsTyped
<1>11. sent \in [Saves -> Queues]
  BY <1>2, <1>8
<1>12. \A j \in Saves : jobs[j].phase = "none"
  BY <1>2 DEF NoJob
<1>13. Flying = {}
  BY <1>12 DEF Flying, InFlight
<1>14. sheet.base = loaded
  BY <1>2 DEF Loaded
<1>15. ~(reloads > 0)
  BY <1>2
<1>16. WaitInv
  BY <1>2, <1>13, <1>14, <1>15 DEF WaitInv
<1>17. QED
  BY <1>4, <1>7, <1>10, <1>11, <1>16 DEF HistoryInv, TypedInv

LEMMA AlwaysHistory == Spec => []HistoryInv
<1>1. JobsClean /\ WorkInv /\ HistoryInv /\ [Next]_vars => HistoryInv'
  BY CountedNext, TypedNext, WaitNext DEF HistoryInv
<1>2. QED
  BY <1>1, InitClean, InitWork, InitHistory, NextClean, NextWork, PTL DEF Spec

(* Undoing step by step leads back to the rows before the oldest step kept *)
(* and its queues fit together, whatever is edited, saved, discarded or    *)
(* read again in between; and Esc restores what was loaded if the user     *)
(* waits for saves and no step was lost to UNDO_LIMIT (grid_record,        *)
(* grid_undo, grid_redo and discard_pending_changes).                      *)
THEOREM UndoLeadsBack == Spec => []UndoRestores
<1>1. HistoryInv => UndoRestores
  <2> SUFFICES ASSUME HistoryInv PROVE UndoRestores
    OBVIOUS
  <2>1. ASSUME ~replaced
        PROVE  /\ Unwound(sheet) = sheet.base
               /\ sheet.undo # <<>> => Last(sheet.undo).after = sheet.queue
               /\ \A k \in 2..Len(sheet.undo) :
                     sheet.undo[k].before = sheet.undo[k - 1].after
    <3>1. Known(sheet, States)
      BY <2>1 DEF HistoryInv, TypedInv, SheetGood
    <3>2. QED
      BY <3>1, UnwoundIsBase, QueuesFit
  <2>2. ~disturbed /\ sheet.lost = 0 => sheet.base = loaded
    BY DEF HistoryInv, WaitInv
  <2>3. QED
    BY <2>1, <2>2 DEF UndoRestores
<1>2. QED
  BY <1>1, AlwaysHistory, PTL
-----------------------------------------------------------------------------
(* The operations of a queue name rows of the grid, and none follows the   *)
(* deletion of its row.                                                    *)
HomeIn(rows, queue) ==
    \A k \in DOMAIN queue : /\ queue[k].row \in DOMAIN rows
                            /\ rows[queue[k].row].id = queue[k].snap.id
DeletesLast(queue) ==
    \A k, l \in DOMAIN queue :
        k < l /\ queue[k].kind = "delete" => queue[l].row # queue[k].row
Homely(strict) ==
    {st \in States : /\ HomeIn(st.rows, st.queue)
                     /\ strict => DeletesLast(st.queue)}

LEMMA GridTypes ==
    ASSUME NEW rows \in Grids
    PROVE  /\ Len(rows) \in Nat /\ DOMAIN rows = 1..Len(rows)
           /\ rows \in Seq(Rows)
           /\ \A k \in 1..Len(rows) : rows[k] \in Rows
BY LenProperties, ElementOfSeq DEF Grids

LEMMA AppendHome ==
    ASSUME NEW rows \in Grids, NEW queue \in Queues, NEW op \in Ops,
           HomeIn(rows, queue), op.row \in 1..Len(rows), rows[op.row].id = op.snap.id
    PROVE  /\ HomeIn(rows, Append(queue, op))
           /\ DeletesLast(queue) /\ op.row \notin PendingRows(queue, "delete")
                 => DeletesLast(Append(queue, op))
<1> DEFINE w == Append(queue, op)
           n == Len(queue)
<1>1. n \in Nat /\ DOMAIN queue = 1..n /\ queue \in Seq(Ops) /\ DOMAIN rows = 1..Len(rows)
  BY QueueTypes, GridTypes
<1>2. /\ w \in Seq(Ops) /\ Len(w) = n + 1 /\ w[n + 1] = op
      /\ \A k \in 1..n : w[k] = queue[k]
  BY <1>1, AppendProperties
<1>3. DOMAIN w = 1..(n + 1)
  BY <1>2, LenProperties
<1> HIDE DEF w, n
<1>4. HomeIn(rows, w)
  <2> SUFFICES ASSUME NEW k \in DOMAIN w
               PROVE  w[k].row \in DOMAIN rows /\ rows[w[k].row].id = w[k].snap.id
    BY DEF HomeIn
  <2>1. CASE k = n + 1
    BY <1>1, <1>2, <2>1
  <2>2. CASE k # n + 1
    <3>1. k \in 1..n
      BY <1>1, <1>3, <2>2
    <3>2. QED
      BY <1>1, <1>2, <3>1 DEF HomeIn
  <2>3. QED
    BY <2>1, <2>2
<1>5. ASSUME DeletesLast(queue), op.row \notin PendingRows(queue, "delete")
      PROVE  DeletesLast(w)
  <2> SUFFICES ASSUME NEW k \in DOMAIN w, NEW l \in DOMAIN w, k < l, w[k].kind = "delete"
               PROVE  w[l].row # w[k].row
    BY DEF DeletesLast
  <2>1. k \in 1..n /\ w[k] = queue[k]
    BY <1>1, <1>2, <1>3
  <2>2. CASE l = n + 1
    <3>1. w[k].row \in PendingRows(queue, "delete")
      BY <1>1, <2>1 DEF PendingRows
    <3>2. QED
      BY <1>2, <1>5, <2>2, <3>1
  <2>3. CASE l # n + 1
    <3>1. l \in 1..n /\ w[l] = queue[l]
      BY <1>1, <1>2, <1>3, <2>3
    <3>2. QED
      BY <1>1, <1>5, <2>1, <3>1 DEF DeletesLast
  <2>4. QED
    BY <2>2, <2>3
<1>6. QED
  BY <1>4, <1>5 DEF w

LEMMA PickedHome ==
    ASSUME NEW rows \in Grids, NEW queue \in Queues, NEW S \in SUBSET DOMAIN queue,
           HomeIn(rows, queue)
    PROVE  /\ Picked(queue, S) \in Queues /\ HomeIn(rows, Picked(queue, S))
           /\ DeletesLast(queue) => DeletesLast(Picked(queue, S))
           /\ \A m \in DOMAIN Picked(queue, S) : \E k \in S : Picked(queue, S)[m] = queue[k]
<1> DEFINE w == Picked(queue, S)
           n == Len(queue)
           c == Cardinality(S)
<1>1. n \in Nat /\ DOMAIN queue = 1..n /\ queue \in Seq(Ops) /\ S \in SUBSET (1..n)
  BY QueueTypes
<1>2. w \in Queues /\ DOMAIN w = 1..c /\ c \in Nat
  BY <1>1, PickedType, PickedPlaces DEF Queues
<1> HIDE DEF n
<1>3. ASSUME NEW m \in 1..c PROVE \E k \in S : Rank(S, k) = m - 1 /\ w[m] = queue[k]
  <2>1. PICK k \in S : Rank(S, k) = m - 1
    BY <1>1, RankTaken
  <2>2. Rank(S, k) \in Nat /\ w[Rank(S, k) + 1] = queue[k]
    BY <1>1, RankType, PickedPlaces
  <2>3. Rank(S, k) + 1 = m
    BY <2>1, <2>2
  <2>4. QED
    BY <2>1, <2>2, <2>3
<1> HIDE DEF w, c
<1>4. HomeIn(rows, w)
  <2> SUFFICES ASSUME NEW m \in DOMAIN w
               PROVE  w[m].row \in DOMAIN rows /\ rows[w[m].row].id = w[m].snap.id
    BY DEF HomeIn
  <2>1. PICK k \in S : w[m] = queue[k]
    BY <1>2, <1>3
  <2>2. QED
    BY <1>1, <2>1 DEF HomeIn
<1>5. ASSUME DeletesLast(queue) PROVE DeletesLast(w)
  <2> SUFFICES ASSUME NEW m \in DOMAIN w, NEW o \in DOMAIN w, m < o, w[m].kind = "delete"
               PROVE  w[o].row # w[m].row
    BY DEF DeletesLast
  <2>1. PICK k \in S : Rank(S, k) = m - 1 /\ w[m] = queue[k]
    BY <1>2, <1>3
  <2>2. PICK l \in S : Rank(S, l) = o - 1 /\ w[o] = queue[l]
    BY <1>2, <1>3
  <2>3. k < l
    <3> SUFFICES ASSUME ~(k < l) PROVE FALSE
      OBVIOUS
    <3>1. k \in Nat /\ l \in Nat /\ m \in Nat /\ o \in Nat
      BY <1>1, <1>2
    <3>2. l < k \/ l = k
      BY <3>1
    <3>3. k \in 1..(n + 1)
      BY <1>1
    <3>4. l < k => Rank(S, l) < Rank(S, k)
      BY <1>1, <3>3, RankRises
    <3>5. QED
      BY <2>1, <2>2, <3>1, <3>2, <3>4
  <2>4. k \in DOMAIN queue /\ l \in DOMAIN queue
    BY <1>1
  <2>5. QED
    BY <1>5, <2>1, <2>2, <2>3, <2>4 DEF DeletesLast
<1>6. \A m \in DOMAIN w : \E k \in S : w[m] = queue[k]
  BY <1>2, <1>3
<1>7. QED
  BY <1>2, <1>4, <1>5, <1>6 DEF w

(* A row leaves that no operation names.                                   *)
LEMMA DownHome ==
    ASSUME NEW rows \in Grids, NEW queue \in Queues, NEW i \in 1..Len(rows),
           HomeIn(rows, queue), \A k \in DOMAIN queue : queue[k].row # i
    PROVE  /\ HomeIn(WithoutRow(rows, i), Shifted(queue, i + 1, -1))
           /\ DeletesLast(queue) => DeletesLast(Shifted(queue, i + 1, -1))
<1> DEFINE w == Shifted(queue, i + 1, -1)
           g == WithoutRow(rows, i)
<1>1. Len(rows) \in Nat /\ DOMAIN rows = 1..Len(rows) /\ i \in Nat \ {0} /\ i <= Len(rows)
  BY GridTypes
<1>2. /\ g \in Grids /\ Len(g) = Len(rows) - 1
      /\ \A k \in 1..(Len(rows) - 1) : g[k] = IF k < i THEN rows[k] ELSE rows[k + 1]
  BY <1>1, RowTaken
<1>3. DOMAIN g = 1..(Len(rows) - 1)
  BY <1>2, GridTypes
<1>4. i + 1 \in Nat /\ i + 1 >= 2
  BY <1>1
<1>5. /\ DOMAIN w = DOMAIN queue
      /\ \A k \in DOMAIN queue :
            /\ w[k].row = IF queue[k].row >= i + 1 THEN queue[k].row + -1 ELSE queue[k].row
            /\ w[k].kind = queue[k].kind /\ w[k].snap = queue[k].snap
  BY <1>4, ShiftedType
<1>6. \A k \in DOMAIN queue : queue[k].row \in 1..Len(rows) /\ queue[k].row # i
  BY <1>1 DEF HomeIn
<1> HIDE DEF w, g
<1>7. ASSUME NEW k \in DOMAIN w
      PROVE  w[k].row \in DOMAIN g /\ g[w[k].row].id = w[k].snap.id
  <2> DEFINE r == queue[k].row
  <2>1. r \in 1..Len(rows) /\ r # i /\ rows[r].id = queue[k].snap.id
    BY <1>5, <1>6 DEF HomeIn
  <2>2. w[k].row = (IF r >= i + 1 THEN r + -1 ELSE r) /\ w[k].snap = queue[k].snap
    BY <1>5
  <2> HIDE DEF r
  <2>3. CASE r >= i + 1
    <3>1. w[k].row = r - 1 /\ r - 1 \in 1..(Len(rows) - 1) /\ ~(r - 1 < i) /\ (r - 1) + 1 = r
      BY <1>1, <2>1, <2>2, <2>3
    <3>2. g[r - 1] = rows[r]
      BY <1>2, <3>1
    <3>3. QED
      BY <1>3, <2>1, <2>2, <3>1, <3>2
  <2>4. CASE ~(r >= i + 1)
    <3>1. w[k].row = r /\ r \in 1..(Len(rows) - 1) /\ r < i
      BY <1>1, <2>1, <2>2, <2>4
    <3>2. g[r] = rows[r]
      BY <1>2, <3>1
    <3>3. QED
      BY <1>3, <2>1, <2>2, <3>1, <3>2
  <2>5. QED
    BY <2>3, <2>4
<1>8. ASSUME DeletesLast(queue) PROVE DeletesLast(w)
  <2> SUFFICES ASSUME NEW k \in DOMAIN w, NEW l \in DOMAIN w, k < l, w[k].kind = "delete"
               PROVE  w[l].row # w[k].row
    BY DEF DeletesLast
  <2>1. queue[l].row # queue[k].row
    BY <1>5, <1>8 DEF DeletesLast
  <2>2. /\ queue[l].row \in 1..Len(rows) /\ queue[l].row # i
        /\ queue[k].row \in 1..Len(rows) /\ queue[k].row # i
    BY <1>5, <1>6
  <2>3. /\ w[k].row = IF queue[k].row >= i + 1 THEN queue[k].row + -1 ELSE queue[k].row
        /\ w[l].row = IF queue[l].row >= i + 1 THEN queue[l].row + -1 ELSE queue[l].row
    BY <1>5
  <2>4. QED
    BY <1>1, <2>1, <2>2, <2>3
<1>9. HomeIn(g, w)
  BY <1>7 DEF HomeIn
<1>10. QED
  BY <1>8, <1>9 DEF w, g

(* A row comes in: nothing names it yet.                                   *)
LEMMA UpHome ==
    ASSUME NEW rows \in Grids, NEW queue \in Queues, NEW i \in 1..Len(rows),
           NEW new \in Rows, HomeIn(rows, queue)
    PROVE  /\ HomeIn(WithRow(rows, i + 1, new), Shifted(queue, i + 1, 1))
           /\ DeletesLast(queue) => DeletesLast(Shifted(queue, i + 1, 1))
           /\ i + 1 \notin PendingRows(Shifted(queue, i + 1, 1), "delete")
<1> DEFINE w == Shifted(queue, i + 1, 1)
           g == WithRow(rows, i + 1, new)
<1>1. Len(rows) \in Nat /\ DOMAIN rows = 1..Len(rows) /\ i \in Nat \ {0} /\ i <= Len(rows)
  BY GridTypes
<1>2. i + 1 \in Nat \ {0} /\ i + 1 \in Nat /\ i + 1 >= 2 /\ i + 1 <= Len(rows) + 1
  BY <1>1
<1>3. /\ g \in Grids /\ Len(g) = Len(rows) + 1
      /\ \A k \in 1..(Len(rows) + 1) : g[k] = IF k < i + 1 THEN rows[k]
                                              ELSE IF k = i + 1 THEN new ELSE rows[k - 1]
  BY <1>2, RowPutIn
<1>4. DOMAIN g = 1..(Len(rows) + 1)
  BY <1>3, GridTypes
<1>5. /\ DOMAIN w = DOMAIN queue
      /\ \A k \in DOMAIN queue :
            /\ w[k].row = IF queue[k].row >= i + 1 THEN queue[k].row + 1 ELSE queue[k].row
            /\ w[k].kind = queue[k].kind /\ w[k].snap = queue[k].snap
  BY <1>2, ShiftedType
<1>6. \A k \in DOMAIN queue : queue[k].row \in 1..Len(rows)
  BY <1>1 DEF HomeIn
<1> HIDE DEF w, g
<1>7. ASSUME NEW k \in DOMAIN w
      PROVE  w[k].row \in DOMAIN g /\ g[w[k].row].id = w[k].snap.id /\ w[k].row # i + 1
  <2> DEFINE r == queue[k].row
  <2>1. r \in 1..Len(rows) /\ rows[r].id = queue[k].snap.id
    BY <1>5, <1>6 DEF HomeIn
  <2>2. w[k].row = (IF r >= i + 1 THEN r + 1 ELSE r) /\ w[k].snap = queue[k].snap
    BY <1>5
  <2> HIDE DEF r
  <2>3. CASE r >= i + 1
    <3>1. /\ w[k].row = r + 1 /\ r + 1 \in 1..(Len(rows) + 1) /\ ~(r + 1 < i + 1)
          /\ r + 1 # i + 1 /\ (r + 1) - 1 = r
      BY <1>1, <2>1, <2>2, <2>3
    <3>2. g[r + 1] = rows[r]
      BY <1>3, <3>1
    <3>3. QED
      BY <1>4, <2>1, <2>2, <3>1, <3>2
  <2>4. CASE ~(r >= i + 1)
    <3>1. w[k].row = r /\ r \in 1..(Len(rows) + 1) /\ r < i + 1 /\ r # i + 1
      BY <1>1, <2>1, <2>2, <2>4
    <3>2. g[r] = rows[r]
      BY <1>3, <3>1
    <3>3. QED
      BY <1>4, <2>1, <2>2, <3>1, <3>2
  <2>5. QED
    BY <2>3, <2>4
<1>8. ASSUME DeletesLast(queue) PROVE DeletesLast(w)
  <2> SUFFICES ASSUME NEW k \in DOMAIN w, NEW l \in DOMAIN w, k < l, w[k].kind = "delete"
               PROVE  w[l].row # w[k].row
    BY DEF DeletesLast
  <2>1. queue[l].row # queue[k].row
    BY <1>5, <1>8 DEF DeletesLast
  <2>2. queue[l].row \in 1..Len(rows) /\ queue[k].row \in 1..Len(rows)
    BY <1>5, <1>6
  <2>3. /\ w[k].row = IF queue[k].row >= i + 1 THEN queue[k].row + 1 ELSE queue[k].row
        /\ w[l].row = IF queue[l].row >= i + 1 THEN queue[l].row + 1 ELSE queue[l].row
    BY <1>5
  <2>4. QED
    BY <1>1, <2>1, <2>2, <2>3
<1>9. HomeIn(g, w)
  BY <1>7 DEF HomeIn
<1>10. i + 1 \notin PendingRows(w, "delete")
  BY <1>7 DEF PendingRows
<1>11. QED
  BY <1>8, <1>9, <1>10 DEF w, g
-----------------------------------------------------------------------------
(* No edit leads out of those states.                                      *)
LEMMA HomelyParts ==
    ASSUME NEW strict, NEW st \in Homely(strict)
    PROVE  /\ st \in States /\ st.rows \in Grids /\ st.queue \in Queues
           /\ Len(st.rows) \in Nat /\ DOMAIN st.rows = 1..Len(st.rows)
           /\ HomeIn(st.rows, st.queue)
           /\ strict => DeletesLast(st.queue)
BY GridTypes DEF Homely, States

LEMMA SameIdsHome ==
    ASSUME NEW rows \in Grids, NEW rows2 \in Grids, NEW queue, HomeIn(rows, queue),
           Len(rows2) >= Len(rows), \A k \in 1..Len(rows) : rows2[k].id = rows[k].id
    PROVE  HomeIn(rows2, queue)
<1>1. /\ DOMAIN rows = 1..Len(rows) /\ DOMAIN rows2 = 1..Len(rows2)
      /\ Len(rows) \in Nat /\ Len(rows2) \in Nat
  BY GridTypes
<1>2. ASSUME NEW k \in DOMAIN queue
      PROVE  queue[k].row \in DOMAIN rows2 /\ rows2[queue[k].row].id = queue[k].snap.id
  <2>1. queue[k].row \in 1..Len(rows) /\ rows[queue[k].row].id = queue[k].snap.id
    BY <1>1 DEF HomeIn
  <2>2. queue[k].row \in 1..Len(rows2)
    BY <1>1, <2>1
  <2>3. QED
    BY <1>1, <2>1, <2>2
<1>3. QED
  BY <1>2 DEF HomeIn

LEMMA EditHome ==
    ASSUME NEW strict, NEW st \in Homely(strict), NEW i \in 1..Len(st.rows),
           NEW col \in Columns, NEW v \in Nat,
           strict => i \notin PendingRows(st.queue, "delete")
    PROVE  Edited(st, i, col, v) \in Homely(strict)
<1>1. /\ st \in States /\ st.rows \in Grids /\ st.queue \in Queues
      /\ DOMAIN st.rows = 1..Len(st.rows) /\ HomeIn(st.rows, st.queue)
      /\ strict => DeletesLast(st.queue)
  BY HomelyParts
<1> DEFINE rows == WithCell(st.rows, i, col, v)
           queue == QueueAfterEdit(st, i, col, v)
<1>2. /\ rows \in Grids /\ Len(rows) = Len(st.rows)
      /\ \A k \in 1..Len(st.rows) : k # i => rows[k] = st.rows[k]
      /\ rows[i] = [st.rows[i] EXCEPT ![col] = v]
  BY <1>1, CellTakes
<1>3. st.rows[i] \in Rows
  BY <1>1, GridTypes
<1>4. rows[i].id = st.rows[i].id
  BY <1>2, <1>3 DEF Rows, Columns
<1>5. Edited(st, i, col, v) \in States /\ Edited(st, i, col, v) = [rows |-> rows, queue |-> queue]
  BY <1>1, EditType DEF Edited
<1>6. queue \in Queues
  BY <1>5 DEF States
<1>7. \/ \E k \in DOMAIN st.queue : queue = Retyped(st.queue, k, col, v)
      \/ queue = Append(st.queue, Update(i, col, st.rows[i][col], v, st.rows[i]))
  BY <1>1, EditOfQueue
<1> HIDE DEF rows, queue
<1>8. Len(rows) >= Len(st.rows) /\ \A k \in 1..Len(st.rows) : rows[k].id = st.rows[k].id
  <2>1. Len(rows) >= Len(st.rows)
    BY <1>1, <1>2, GridTypes
  <2>2. ASSUME NEW k \in 1..Len(st.rows) PROVE rows[k].id = st.rows[k].id
    <3>1. CASE k = i
      BY <1>4, <3>1
    <3>2. CASE k # i
      BY <1>2, <3>2
    <3>3. QED
      BY <3>1, <3>2
  <2>3. QED
    BY <2>1, <2>2
<1>9. HomeIn(rows, st.queue)
  BY <1>1, <1>2, <1>8, SameIdsHome
<1>10. HomeIn(rows, queue) /\ (strict => DeletesLast(queue))
  <2>1. ASSUME NEW k \in DOMAIN st.queue, queue = Retyped(st.queue, k, col, v)
        PROVE  HomeIn(rows, queue) /\ (strict => DeletesLast(queue))
    <3>1. /\ \A l \in DOMAIN st.queue : st.queue[l] \in Ops
      BY <1>1, QueueTypes
    <3>2. DOMAIN queue = DOMAIN st.queue
      BY <2>1 DEF Retyped
    <3>3. ASSUME NEW l \in DOMAIN queue
          PROVE  /\ queue[l].kind = st.queue[l].kind /\ queue[l].row = st.queue[l].row
                 /\ queue[l].snap.id = st.queue[l].snap.id
      <4> DEFINE op == st.queue[l]
      <4>1. op \in Ops
        BY <3>1, <3>2
      <4>2. queue[l] = op \/ queue[l] = [op EXCEPT !.snap[col] = v]
        BY <2>1, <3>2 DEF Retyped
      <4> HIDE DEF op
      <4>3. CASE queue[l] = [op EXCEPT !.snap[col] = v]
        BY <4>1, <4>3 DEF Ops, Rows, Columns, op
      <4>4. CASE queue[l] = op
        BY <4>4 DEF op
      <4>5. QED
        BY <4>2, <4>3, <4>4
    <3>4. HomeIn(rows, queue)
      BY <1>9, <3>2, <3>3 DEF HomeIn
    <3>5. ASSUME strict PROVE DeletesLast(queue)
      BY <1>1, <3>2, <3>3, <3>5 DEF DeletesLast
    <3>6. QED
      BY <3>4, <3>5
  <2>2. CASE queue = Append(st.queue, Update(i, col, st.rows[i][col], v, st.rows[i]))
    <3> DEFINE op == Update(i, col, st.rows[i][col], v, st.rows[i])
    <3>1. i \in Nat \ {0} /\ st.rows[i][col] \in Nat
      <4>1. Len(st.rows) \in Nat
        BY <1>1, GridTypes
      <4>2. QED
        BY <1>3, <4>1 DEF Rows, Columns
    <3>2. op \in Ops
      BY <1>3, <3>1, OpTypes
    <3>3. op.row = i /\ op.snap.id = st.rows[i].id
      BY DEF Update
    <3> HIDE DEF op
    <3>4. op.row \in 1..Len(rows) /\ rows[op.row].id = op.snap.id
      BY <1>2, <1>4, <3>3
    <3>5. /\ HomeIn(rows, Append(st.queue, op))
          /\ DeletesLast(st.queue) /\ op.row \notin PendingRows(st.queue, "delete")
                => DeletesLast(Append(st.queue, op))
      BY <1>1, <1>2, <1>9, <3>2, <3>4, AppendHome
    <3>6. queue = Append(st.queue, op)
      BY <2>2 DEF op
    <3>7. QED
      BY <1>1, <3>3, <3>5, <3>6
  <2>3. QED
    BY <1>7, <2>1, <2>2
<1>11. QED
  BY <1>5, <1>10 DEF Homely

LEMMA AddHome ==
    ASSUME NEW strict, NEW st \in Homely(strict), NEW new \in Rows
    PROVE  Added(st, new) \in Homely(strict)
<1>1. /\ st \in States /\ st.rows \in Grids /\ st.queue \in Queues
      /\ Len(st.rows) \in Nat /\ DOMAIN st.rows = 1..Len(st.rows)
      /\ HomeIn(st.rows, st.queue) /\ strict => DeletesLast(st.queue)
  BY HomelyParts
<1>2. HomeIn(st.rows, st.queue) /\ (strict => DeletesLast(st.queue))
  BY HomelyParts
<1> DEFINE i == Len(st.rows) + 1
           rows == WithRow(st.rows, i, new)
           op == InsertRow(i, new)
           queue == Append(st.queue, op)
<1>3. i \in Nat \ {0} /\ i <= Len(st.rows) + 1 /\ i = Len(st.rows) + 1
  BY <1>1
<1>4. Added(st, new) \in States /\ Added(st, new) = [rows |-> rows, queue |-> queue]
  BY <1>1, AddType DEF Added
<1> HIDE DEF i
<1>5. /\ rows \in Grids /\ Len(rows) = Len(st.rows) + 1
      /\ \A k \in 1..(Len(st.rows) + 1) :
            rows[k] = IF k < i THEN st.rows[k] ELSE IF k = i THEN new ELSE st.rows[k - 1]
  BY <1>1, <1>3, RowPutIn
<1> HIDE DEF rows
<1>6. /\ Len(rows) >= Len(st.rows) /\ i \in 1..Len(rows) /\ rows[i] = new
      /\ \A k \in 1..Len(st.rows) : rows[k] = st.rows[k]
  BY <1>1, <1>3, <1>5
<1>7. HomeIn(rows, st.queue)
  BY <1>1, <1>2, <1>5, <1>6, SameIdsHome
<1>8. op \in Ops /\ op.row = i /\ op.snap = new
  BY <1>3, OpTypes DEF InsertRow, Columns
<1>9. op.row \notin PendingRows(st.queue, "delete")
  <2>1. ASSUME NEW k \in DOMAIN st.queue PROVE st.queue[k].row # i
    <3>1. st.queue[k].row \in 1..Len(st.rows)
      BY <1>1, <1>2 DEF HomeIn
    <3>2. QED
      BY <1>1, <1>3, <3>1
  <2>2. QED
    BY <1>8, <2>1 DEF PendingRows
<1> HIDE DEF op
<1>10. HomeIn(rows, queue) /\ (DeletesLast(st.queue) => DeletesLast(queue))
  <2>1. op.row \in 1..Len(rows) /\ rows[op.row].id = op.snap.id
    BY <1>6, <1>8
  <2>2. QED
    BY <1>1, <1>5, <1>7, <1>8, <1>9, <2>1, AppendHome
<1> HIDE DEF queue
<1>11. QED
  BY <1>2, <1>4, <1>10 DEF Homely

LEMMA CopyHome ==
    ASSUME NEW strict, NEW st \in Homely(strict), NEW i \in 1..Len(st.rows), NEW new \in Rows
    PROVE  Copied(st, i, new) \in Homely(strict)
<1>1. /\ st \in States /\ st.rows \in Grids /\ st.queue \in Queues
      /\ Len(st.rows) \in Nat /\ HomeIn(st.rows, st.queue)
  BY HomelyParts
<1>2. strict => DeletesLast(st.queue)
  BY HomelyParts
<1> DEFINE rows == WithRow(st.rows, i + 1, new)
           up == Shifted(st.queue, i + 1, 1)
           op == InsertRow(i + 1, new)
           queue == Append(up, op)
<1>3. i + 1 \in Nat \ {0} /\ i + 1 \in Nat /\ i + 1 >= 2 /\ i + 1 <= Len(st.rows) + 1
  BY <1>1
<1>4. Copied(st, i, new) \in States /\ Copied(st, i, new) = [rows |-> rows, queue |-> queue]
  BY <1>1, CopyType DEF Copied
<1>5. rows \in Grids /\ Len(rows) = Len(st.rows) + 1 /\ rows[i + 1] = new
  <2> DEFINE p == i + 1
             g == WithRow(st.rows, p, new)
  <2>1. p \in Nat \ {0} /\ p <= Len(st.rows) + 1 /\ p \in 1..(Len(st.rows) + 1)
    BY <1>1, <1>3
  <2> HIDE DEF p
  <2>2. /\ g \in Grids /\ Len(g) = Len(st.rows) + 1
        /\ \A k \in 1..(Len(st.rows) + 1) :
              g[k] = IF k < p THEN st.rows[k] ELSE IF k = p THEN new ELSE st.rows[k - 1]
    BY <1>1, <2>1, RowPutIn
  <2> HIDE DEF g
  <2>3. g[p] = new
    BY <2>1, <2>2
  <2>4. QED
    BY <2>2, <2>3 DEF g, p
<1>6. /\ HomeIn(rows, up) /\ i + 1 \notin PendingRows(up, "delete")
      /\ DeletesLast(st.queue) => DeletesLast(up)
  BY <1>1, UpHome
<1>7. up \in Queues
  BY <1>1, <1>3, ShiftedType
<1>8. op \in Ops /\ op.row = i + 1 /\ op.snap = new
  BY <1>3, OpTypes DEF InsertRow, Columns
<1> HIDE DEF rows, up, op
<1>9. HomeIn(rows, queue) /\ (DeletesLast(up) => DeletesLast(queue))
  <2>1. i + 1 \in 1..Len(rows) /\ rows[i + 1] = new
    BY <1>3, <1>5
  <2>2. op.row \in 1..Len(rows) /\ rows[op.row].id = op.snap.id
    BY <1>8, <2>1
  <2>3. QED
    BY <1>5, <1>6, <1>7, <1>8, <2>2, AppendHome
<1> HIDE DEF queue
<1>10. QED
  BY <1>2, <1>4, <1>6, <1>9 DEF Homely

LEMMA FlipHome ==
    ASSUME NEW strict, NEW st \in Homely(strict), NEW i \in 1..Len(st.rows)
    PROVE  Flipped(st, i) \in Homely(strict)
<1>1. /\ st \in States /\ st.rows \in Grids /\ st.queue \in Queues
      /\ Len(st.rows) \in Nat /\ HomeIn(st.rows, st.queue)
  BY HomelyParts
<1>2. strict => DeletesLast(st.queue)
  BY HomelyParts
<1>3. Flipped(st, i) \in States
  BY <1>1, FlipType
<1>4. CASE i \in PendingRows(st.queue, "insert")
  <2> DEFINE off == OpsOffRow(st.queue, i)
             S == {k \in DOMAIN st.queue : st.queue[k].row # i}
             rows == WithoutRow(st.rows, i)
             queue == Shifted(off, i + 1, -1)
  <2>1. Flipped(st, i) = [rows |-> rows, queue |-> queue]
    BY <1>4 DEF Flipped
  <2>2. S \in SUBSET DOMAIN st.queue /\ off = Picked(st.queue, S)
    BY DEF OpsOffRow
  <2>3. \A k \in S : st.queue[k].row # i
    OBVIOUS
  <2> HIDE DEF S, off
  <2>4. /\ off \in Queues /\ HomeIn(st.rows, off)
        /\ DeletesLast(st.queue) => DeletesLast(off)
        /\ \A m \in DOMAIN off : \E k \in S : off[m] = st.queue[k]
    BY <1>1, <2>2, PickedHome
  <2>5. \A m \in DOMAIN off : off[m].row # i
    BY <2>3, <2>4
  <2>6. HomeIn(rows, queue) /\ (DeletesLast(off) => DeletesLast(queue))
    BY <1>1, <2>4, <2>5, DownHome
  <2> HIDE DEF rows, queue
  <2>7. QED
    BY <1>2, <1>3, <2>1, <2>4, <2>6 DEF Homely
<1>5. CASE i \notin PendingRows(st.queue, "insert") /\ i \in PendingRows(st.queue, "delete")
  <2> DEFINE S == {k \in DOMAIN st.queue :
                      st.queue[k].kind # "delete" \/ st.queue[k].row # i}
             queue == Restored(st.queue, i)
  <2>1. Flipped(st, i) = [rows |-> st.rows, queue |-> queue]
    BY <1>5 DEF Flipped
  <2>2. S \in SUBSET DOMAIN st.queue /\ queue = Picked(st.queue, S)
    BY DEF Restored
  <2> HIDE DEF S, queue
  <2>3. HomeIn(st.rows, queue) /\ (DeletesLast(st.queue) => DeletesLast(queue))
    BY <1>1, <2>2, PickedHome
  <2>4. QED
    BY <1>2, <1>3, <2>1, <2>3 DEF Homely
<1>6. CASE i \notin PendingRows(st.queue, "insert") /\ i \notin PendingRows(st.queue, "delete")
  <2> DEFINE op == DeleteRow(i, st.rows[i])
             queue == Append(st.queue, op)
  <2>1. Flipped(st, i) = [rows |-> st.rows, queue |-> queue]
    BY <1>6 DEF Flipped
  <2>2. st.rows[i] \in Rows /\ i \in Nat \ {0}
    BY <1>1, GridTypes
  <2>3. /\ op \in Ops
        /\ op = [kind |-> "delete", row |-> i, col |-> "val", old |-> 0, new |-> 0,
                 snap |-> st.rows[i]]
    BY <2>2, OpTypes DEF Columns
  <2>4. op.row = i /\ op.snap = st.rows[i]
    BY <2>3
  <2> HIDE DEF op
  <2>5. HomeIn(st.rows, queue) /\ (DeletesLast(st.queue) => DeletesLast(queue))
    BY <1>1, <1>6, <2>3, <2>4, AppendHome
  <2> HIDE DEF queue
  <2>6. QED
    BY <1>2, <1>3, <2>1, <2>5 DEF Homely
<1>7. QED
  BY <1>4, <1>5, <1>6

LEMMA HomelyStable ==
    ASSUME NEW strict
    PROVE  Stable(Homely(strict), strict) /\ EmptyIn(Homely(strict))
<1>1. Homely(strict) \subseteq States
  BY DEF Homely
<1>2. \A st \in Homely(strict) :
        \A i \in 1..Len(st.rows), col \in Columns, v \in Nat \ {Default} :
          (strict => i \notin PendingRows(st.queue, "delete"))
             => Edited(st, i, col, v) \in Homely(strict)
  BY EditHome
<1>3. \A st \in Homely(strict) : \A new \in Rows : Added(st, new) \in Homely(strict)
  BY AddHome
<1>4. \A st \in Homely(strict) : \A i \in 1..Len(st.rows), new \in Rows :
          Copied(st, i, new) \in Homely(strict)
  BY CopyHome
<1>5. \A st \in Homely(strict) : \A i \in 1..Len(st.rows) : Flipped(st, i) \in Homely(strict)
  BY FlipHome
<1>6. ASSUME NEW rows \in Grids
      PROVE  [rows |-> rows, queue |-> <<>>] \in Homely(strict)
  BY DEF Homely, States, HomeIn, DeletesLast, Queues
<1>7. QED
  BY <1>1, <1>2, <1>3, <1>4, <1>5, <1>6 DEF Stable, EmptyIn
-----------------------------------------------------------------------------
(* The rows a save deleted leave the grid, and nothing still names one.    *)
Off(t, P, m) ==
    /\ HomeIn(t.rows, t.queue)
    /\ Len(t.rows) >= m
    /\ \A k \in DOMAIN t.queue : t.queue[k].row \in P => t.queue[k].row > m

LEMMA DropHome ==
    ASSUME NEW s, NEW t, NEW P, NEW i \in Nat \ {0}, AsBefore(s, t), Off(t, P, i)
    PROVE  AsBefore(s, DroppedIn(t, P, i)) /\ Off(DroppedIn(t, P, i), P, i - 1)
<1>1. /\ t.rows \in Grids /\ t.queue \in Queues /\ HomeIn(t.rows, t.queue)
      /\ Len(t.rows) >= i
      /\ \A k \in DOMAIN t.queue : t.queue[k].row \in P => t.queue[k].row > i
  BY DEF AsBefore, Sheets, Off
<1>2. Len(t.rows) \in Nat /\ DOMAIN t.rows = 1..Len(t.rows) /\ i \in 1..Len(t.rows)
  BY <1>1, GridTypes
<1>3. \A k \in DOMAIN t.queue : t.queue[k].row \in 1..Len(t.rows)
  BY <1>1, <1>2 DEF HomeIn
<1>4. CASE i \in P
  <2> DEFINE w == DroppedRow(t, i)
             q == Shifted(t.queue, i + 1, -1)
             g == WithoutRow(t.rows, i)
  <2>1. AsBefore(s, w) /\ w.rows = g /\ w.queue = q
    BY DroppedRowType
  <2>2. DroppedIn(t, P, i) = w
    BY <1>4 DEF DroppedIn
  <2>3. \A k \in DOMAIN t.queue : t.queue[k].row # i
    BY <1>1, <1>2, <1>4
  <2>4. HomeIn(g, q)
    BY <1>1, <1>2, <2>3, DownHome
  <2>5. Len(g) = Len(t.rows) - 1
    BY <1>1, <1>2, RowTaken
  <2>6. i + 1 \in Nat /\ i + 1 >= 2
    OBVIOUS
  <2>7. /\ DOMAIN q = DOMAIN t.queue
        /\ \A k \in DOMAIN t.queue :
              q[k].row = IF t.queue[k].row >= i + 1 THEN t.queue[k].row + -1
                         ELSE t.queue[k].row
    BY <1>1, <2>6, ShiftedType
  <2> HIDE DEF w, q, g
  <2>8. ASSUME NEW k \in DOMAIN q, q[k].row \in P PROVE q[k].row > i - 1
    <3> DEFINE r == t.queue[k].row
    <3>1. /\ r \in Nat /\ r # i /\ (r \in P => r > i)
          /\ q[k].row = IF r >= i + 1 THEN r + -1 ELSE r
      BY <1>1, <1>2, <1>3, <2>3, <2>7
    <3> HIDE DEF r
    <3>2. CASE r >= i + 1
      BY <3>1, <3>2
    <3>3. CASE ~(r >= i + 1)
      BY <2>8, <3>1, <3>3
    <3>4. QED
      BY <3>2, <3>3
  <2>9. Len(w.rows) >= i - 1
    BY <1>2, <2>1, <2>5
  <2>10. Off(w, P, i - 1)
    BY <2>1, <2>4, <2>8, <2>9 DEF Off
  <2>11. QED
    BY <2>1, <2>2, <2>10
<1>5. CASE i \notin P
  <2>1. DroppedIn(t, P, i) = t
    BY <1>5 DEF DroppedIn
  <2>2. Len(t.rows) >= i - 1
    BY <1>1, <1>2
  <2>3. ASSUME NEW k \in DOMAIN t.queue, t.queue[k].row \in P PROVE t.queue[k].row > i - 1
    <3>1. t.queue[k].row > i /\ t.queue[k].row \in Nat
      BY <1>1, <1>2, <1>3, <2>3
    <3>2. QED
      BY <3>1
  <2>4. Off(t, P, i - 1)
    BY <1>1, <2>2, <2>3 DEF Off
  <2>5. QED
    BY <2>1, <2>4
<1>6. QED
  BY <1>4, <1>5

LEMMA DroppedHome ==
    ASSUME NEW s \in Sheets, NEW saved, HomeIn(s.rows, s.queue),
           \A k \in DOMAIN s.queue : s.queue[k].row \notin PendingRows(saved, "delete")
    PROVE  HomeIn(DeletedDropped(s, saved).rows, DeletedDropped(s, saved).queue)
<1> DEFINE P == PendingRows(saved, "delete")
           n == Len(s.rows)
           W == [k \in Nat |-> {t \in Sheets : AsBefore(s, t) /\ Off(t, P, n - k)}]
<1>1. n \in Nat
  BY LenProperties DEF Sheets, Grids
<1>2. s \in W[0]
  <2>1. AsBefore(s, s)
    BY DEF AsBefore
  <2>2. Off(s, P, n)
    BY <1>1 DEF Off
  <2>3. n - 0 = n
    BY <1>1
  <2> HIDE DEF P, n
  <2>4. QED
    BY <2>1, <2>2, <2>3
<1>3. ASSUME NEW k \in 1..n, NEW t \in W[k - 1]
      PROVE  DroppedIn(t, P, n + 1 - k) \in W[k]
  <2> DEFINE i == n + 1 - k
  <2>1. k \in Nat /\ k - 1 \in Nat /\ i \in Nat \ {0} /\ n - (k - 1) = i /\ i - 1 = n - k
    BY <1>1
  <2>2. t \in Sheets /\ AsBefore(s, t) /\ Off(t, P, n - (k - 1))
    BY <2>1
  <2> HIDE DEF P, i
  <2>3. AsBefore(s, DroppedIn(t, P, i)) /\ Off(DroppedIn(t, P, i), P, i - 1)
    BY <2>1, <2>2, DropHome
  <2>4. DroppedIn(t, P, i) \in Sheets
    BY <2>3 DEF AsBefore
  <2>5. DroppedIn(t, P, i) \in W[k]
    BY <2>1, <2>3, <2>4
  <2>6. QED
    BY <2>5 DEF i
<1> HIDE DEF W
<1>4. DeletedDropped(s, saved) \in W[n]
  BY <1>1, <1>2, <1>3, DroppedWithin
<1>5. QED
  BY <1>1, <1>4 DEF W, Off

(* The rows a save deleted are those of the queue it took, if that is      *)
(* intact; nothing after them names one.                                   *)
LEMMA DrainedHome ==
    ASSUME NEW j \in Saves, Small(sheet), sent[j] \in Queues,
           HomeIn(sheet.rows, sheet.queue), DeletesLast(sheet.queue)
    PROVE  \E t : /\ t \in Sheets /\ Drained(j) = HistoryCleared(t)
                  /\ HomeIn(t.rows, t.queue)
<1>1. /\ sheet \in Sheets /\ sheet.queue \in Queues /\ sheet.rows \in Grids
      /\ Len(sheet.queue) \in Nat /\ DOMAIN sheet.queue = 1..Len(sheet.queue)
  BY SheetFields, QueueTypes DEF Small
<1>2. CASE Intact(j)
  <2> DEFINE a == Sent(j)
             rest == SubSeq(sheet.queue, Len(a) + 1, Len(sheet.queue))
             u == [sheet EXCEPT !.queue = rest]
             t == DeletedDropped(u, a)
  <2>1. a \in Queues /\ Len(a) \in Nat /\ Len(a) <= Len(sheet.queue)
    BY <1>1, SentType
  <2>2. /\ rest \in Queues /\ Len(rest) = Len(sheet.queue) - Len(a)
        /\ \A k \in 1..Len(rest) : /\ Len(a) + k \in 1..Len(sheet.queue)
                                   /\ rest[k] = sheet.queue[Len(a) + k]
    BY <1>1, RestType
  <2>3. Drained(j) = HistoryCleared(t)
    BY <1>2 DEF Drained
  <2>4. \A k \in DOMAIN a : Plain(sheet.queue[k]) = Plain(a[k])
    BY <1>2 DEF Intact
  <2> HIDE DEF rest, a
  <2>5. DOMAIN a = 1..Len(a) /\ DOMAIN rest = 1..Len(rest) /\ Len(rest) \in Nat
    BY <2>1, <2>2, QueueTypes
  <2>6. u \in Sheets /\ u.queue = rest /\ u.rows = sheet.rows
    BY <1>1, <2>2 DEF Sheets
  <2> HIDE DEF u
  <2>7. HomeIn(u.rows, u.queue)
    <3>1. ASSUME NEW k \in DOMAIN rest
          PROVE  /\ rest[k].row \in DOMAIN sheet.rows
                 /\ sheet.rows[rest[k].row].id = rest[k].snap.id
      <4>1. Len(a) + k \in DOMAIN sheet.queue /\ rest[k] = sheet.queue[Len(a) + k]
        BY <1>1, <2>2, <2>5
      <4>2. QED
        BY <4>1 DEF HomeIn
    <3>2. HomeIn(sheet.rows, rest)
      BY <3>1 DEF HomeIn
    <3>3. QED
      BY <2>6, <3>2
  <2>8. ASSUME NEW k \in DOMAIN a
        PROVE  /\ k \in 1..Len(sheet.queue)
               /\ sheet.queue[k].kind = a[k].kind /\ sheet.queue[k].row = a[k].row
    <3>1. k \in 1..Len(sheet.queue)
      BY <1>1, <2>1, <2>5
    <3>2. sheet.queue[k] \in Ops /\ a[k] \in Ops
      BY <1>1, <2>1, <3>1, QueueTypes
    <3>3. ASSUME NEW op \in Ops PROVE Plain(op).kind = op.kind /\ Plain(op).row = op.row
      BY DEF Plain, Ops
    <3>4. QED
      BY <2>4, <3>1, <3>2, <3>3
  <2>9. ASSUME NEW k \in DOMAIN u.queue
        PROVE  u.queue[k].row \notin PendingRows(a, "delete")
    <3>1. k \in 1..Len(rest) /\ u.queue[k] = sheet.queue[Len(a) + k]
      BY <2>2, <2>5, <2>6
    <3>2. Len(a) + k \in DOMAIN sheet.queue
      BY <1>1, <2>2, <3>1
    <3>3. ASSUME NEW l \in DOMAIN a, a[l].kind = "delete"
          PROVE  u.queue[k].row # a[l].row
      <4>1. l \in DOMAIN sheet.queue /\ l < Len(a) + k
        BY <1>1, <2>1, <2>5, <2>8, <3>1
      <4>2. sheet.queue[l].kind = "delete" /\ sheet.queue[l].row = a[l].row
        BY <2>8, <3>3
      <4>3. sheet.queue[Len(a) + k].row # sheet.queue[l].row
        BY <3>2, <4>1, <4>2 DEF DeletesLast
      <4>4. QED
        BY <3>1, <4>2, <4>3
    <3>4. QED
      BY <3>3 DEF PendingRows
  <2>10. HomeIn(t.rows, t.queue)
    BY <2>6, <2>7, <2>9, DroppedHome
  <2>11. t \in Sheets
    <3>1. AsBefore(u, t)
      BY <2>6, DroppedType
    <3>2. QED
      BY <3>1 DEF AsBefore
  <2> HIDE DEF t
  <2>12. QED
    BY <2>3, <2>10, <2>11
<1>3. CASE ~Intact(j)
  <2> DEFINE t == [sheet EXCEPT !.queue = <<>>]
  <2>1. <<>> \in Queues
    BY DEF Queues
  <2>2. t \in Sheets /\ t.queue = <<>>
    BY <1>1, <2>1 DEF Sheets
  <2>3. Drained(j) = HistoryCleared(t)
    BY <1>3 DEF Drained
  <2> HIDE DEF t
  <2>4. HomeIn(t.rows, t.queue)
    BY <2>2 DEF HomeIn
  <2>5. QED
    BY <2>2, <2>3, <2>4
<1>4. QED
  BY <1>2, <1>3

(* The grid after the answer of a save.                                    *)
LEMMA AnsweredHome ==
    ASSUME NEW j \in Saves, Small(sheet), sent[j] \in Queues, SaveSucceeded(j),
           HomeIn(sheet.rows, sheet.queue), DeletesLast(sheet.queue)
    PROVE  /\ Small(sheet') /\ Known(sheet', Homely(FALSE))
           /\ sheet'.queue = <<>> => Known(sheet', Homely(TRUE))
<1>1. PICK t : /\ t \in Sheets /\ Drained(j) = HistoryCleared(t)
               /\ HomeIn(t.rows, t.queue)
  BY DrainedHome
<1> DEFINE w == HistoryCleared(t)
<1>2. sheet' = w
  BY <1>1 DEF SaveSucceeded
<1>3. State(t) \in States /\ State(t).rows = t.rows /\ State(t).queue = t.queue
  BY <1>1 DEF Sheets, State, States
<1>4. ASSUME NEW strict, strict => DeletesLast(t.queue)
      PROVE  Small(w) /\ Known(w, Homely(strict)) /\ w.queue = t.queue
  <2>1. State(t) \in Homely(strict)
    BY <1>1, <1>3, <1>4 DEF Homely
  <2>2. QED
    BY <1>1, <2>1, ClearedKnown
<1> HIDE DEF w
<1>5. Small(w) /\ Known(w, Homely(FALSE)) /\ w.queue = t.queue
  BY <1>4
<1>6. ASSUME t.queue = <<>> PROVE Known(w, Homely(TRUE))
  <2>1. DeletesLast(t.queue)
    BY <1>6 DEF DeletesLast
  <2>2. QED
    BY <1>4, <2>1
<1>7. QED
  BY <1>2, <1>5, <1>6
-----------------------------------------------------------------------------
(* One save at most; a save may still be answered.                         *)
OneSave == \A i, j \in Saves : i = j
MaySave == \E j \in Saves : jobs[j].phase # "done"

(* While a save may still be answered, an open cell names its row, and     *)
(* nothing is pending after the deletion of its row: what the answer takes *)
(* off the grid is then named by nothing that stays.                       *)
HomeInv ==
    ~replaced =>
       /\ OneSave \/ ~disturbed => SheetGood(Homely(FALSE), FALSE)
       /\ (OneSave /\ MaySave) \/ ~disturbed => SheetGood(Homely(TRUE), TRUE)

LEMMA DoneStays ==
    ASSUME JobsClean, [Next]_vars, MaySave'
    PROVE  MaySave
<1>1. SUFFICES ASSUME \A j \in Saves : jobs[j].phase = "done" PROVE FALSE
  BY DEF MaySave
<1>2. ASSUME UNCHANGED saveVars PROVE FALSE
  BY <1>1, <1>2 DEF saveVars, MaySave
<1>3. CASE \/ StartEdit \/ FinishEdit \/ AddRow \/ DuplicateRow \/ ToggleDelete
           \/ Undo \/ Redo \/ Discard \/ Reload
  BY <1>2, <1>3, SheetLeavesJobs
<1>4. ASSUME NEW j \in Saves, Save(j) PROVE FALSE
  <2>1. jobs[j].phase = "none"
    BY <1>4 DEF Save, Spawn
  <2>2. QED
    BY <1>1, <2>1
<1>5. ASSUME NEW j \in Saves, SaveSteps(j) PROVE FALSE
  <2>1. LeftoverEnds(j) \/ jobs[j].phase \in {"spawned", "open"}
    BY <1>5 DEF SaveSteps, SaveStep, Begin, BeginFails, Run, Refuse, Running, Commit,
                CommitFails, AtCommit, TimeOut
  <2>2. PICK left : Set(j, left) /\ left.phase = "done"
    BY <1>1, <2>1, LeftoverFacts DEF Lasts
  <2>3. \A i \in Saves : jobs'[i].phase = "done"
    BY <1>1, <2>2 DEF Set, JobsClean
  <2>4. QED
    BY <2>3 DEF MaySave
<1>6. ASSUME NEW j \in Saves, CancelSave(j) \/ SaveSucceeded(j) \/ SaveFailed(j)
      PROVE  FALSE
  <2>1. jobs[j].phase \in {"spawned", "open", "ended"}
    BY <1>6 DEF CancelSave, Cancel, InFlight, SaveSucceeded, SaveFailed
  <2>2. QED
    BY <1>1, <2>1
<1>7. CASE UNCHANGED vars
  BY <1>2, <1>7 DEF vars
<1>8. QED
  BY <1>3, <1>4, <1>5, <1>6, <1>7 DEF Next

LEMMA HomeNext ==
    ASSUME JobsClean, WorkInv, HistoryInv, HomeInv, [Next]_vars
    PROVE  HomeInv'
<1> SUFFICES ASSUME ~replaced'
             PROVE  /\ OneSave \/ ~disturbed' => SheetGood(Homely(FALSE), FALSE)'
                    /\ (OneSave /\ MaySave') \/ ~disturbed' => SheetGood(Homely(TRUE), TRUE)'
  BY DEF HomeInv, OneSave
<1>1. /\ Counted /\ ~replaced /\ (disturbed => disturbed')
  BY FlagsStay DEF HistoryInv
<1>2. /\ JobsTyped /\ sent \in [Saves -> Queues] /\ SheetGood(States, FALSE)
      /\ table \in Grids
  BY <1>1 DEF HistoryInv, TypedInv, JobsTyped
<1>3. /\ OneSave \/ ~disturbed => SheetGood(Homely(FALSE), FALSE)
      /\ (OneSave /\ MaySave) \/ ~disturbed => SheetGood(Homely(TRUE), TRUE)
  BY <1>1 DEF HomeInv
<1>4. CASE \A j \in Saves : ~SaveSucceeded(j)
  <2>1. ASSUME NEW strict, SheetGood(Homely(strict), strict)
        PROVE  SheetGood(Homely(strict), strict)'
    <3> DEFINE G == Homely(strict)
    <3>1. Stable(G, strict) /\ EmptyIn(G)
      BY HomelyStable
    <3>2. SheetGood(G, strict)
      BY <2>1
    <3> HIDE DEF G
    <3>3. SheetGood(G, strict)'
      BY <1>1, <1>2, <1>4, <3>1, <3>2, SheetSteps
    <3>4. QED
      BY <3>3 DEF G
  <2>2. MaySave' => MaySave
    BY DoneStays
  <2>3. QED
    BY <1>1, <1>3, <2>1, <2>2
<1>5. ASSUME NEW j \in Saves, SaveSucceeded(j)
      PROVE  /\ OneSave \/ ~disturbed' => SheetGood(Homely(FALSE), FALSE)'
             /\ (OneSave /\ MaySave') \/ ~disturbed' => SheetGood(Homely(TRUE), TRUE)'
  <2>1. jobs[j].phase = "ended" /\ Handled(j) /\ disturbed' = disturbed
    BY <1>5 DEF SaveSucceeded
  <2>2. MaySave
    BY <2>1 DEF MaySave
  <2>3. Small(sheet) /\ sent[j] \in Queues
    BY <1>2 DEF SheetGood
  <2>4. ASSUME OneSave \/ ~disturbed
        PROVE  /\ Small(sheet') /\ Known(sheet', Homely(FALSE))
               /\ sheet'.queue = <<>> => Known(sheet', Homely(TRUE))
    <3>1. Known(sheet, Homely(TRUE))
      BY <1>3, <2>2, <2>4 DEF SheetGood
    <3>2. State(sheet) \in Homely(TRUE)
      BY <3>1, KnownHere
    <3>3. HomeIn(sheet.rows, sheet.queue) /\ DeletesLast(sheet.queue)
      BY <3>2 DEF Homely, State
    <3>4. QED
      BY <1>5, <2>3, <3>3, AnsweredHome
  <2>5. ASSUME OneSave \/ ~disturbed' PROVE SheetGood(Homely(FALSE), FALSE)'
    BY <2>1, <2>4, <2>5 DEF SheetGood
  <2>6. ASSUME ~disturbed' PROVE SheetGood(Homely(TRUE), TRUE)'
    <3>1. ~disturbed
      BY <2>1, <2>6
    <3>2. j \in Flying
      BY <2>1 DEF Flying, InFlight
    <3>3. sent[j] = sheet.queue /\ sheet.cell = NoCell
      BY <3>1, <3>2 DEF HistoryInv, WaitInv
    <3>4. sheet'.cell = NoCell /\ sheet'.queue = <<>>
      BY <1>5, <2>3, <3>3, AnsweredSheet
    <3>5. CellHome(sheet')
      BY <3>4 DEF CellHome
    <3>6. Small(sheet') /\ Known(sheet', Homely(TRUE))
      BY <2>4, <3>1, <3>4
    <3>7. QED
      BY <3>5, <3>6 DEF SheetGood
  <2>7. ~(OneSave /\ MaySave')
    <3> SUFFICES ASSUME OneSave, MaySave' PROVE FALSE
      OBVIOUS
    <3>1. PICK i \in Saves : jobs'[i].phase # "done"
      BY DEF MaySave
    <3>2. i = j
      BY DEF OneSave
    <3>3. jobs'[j] = Closed(jobs[j]) /\ DOMAIN jobs[j] = Fields
      BY <2>1 DEF Handled, Set, JobsClean, Clean
    <3>4. jobs'[j].phase = "done"
      BY <3>3, ClosingLeaves
    <3>5. QED
      BY <3>1, <3>2, <3>4
  <2>8. QED
    BY <2>5, <2>6, <2>7
<1>6. QED
  BY <1>4, <1>5

LEMMA InitHome == Init => HomeInv
<1> SUFFICES ASSUME Init PROVE HomeInv
  OBVIOUS
<1>1. FirstRows \in Grids /\ sheet = Loaded(FirstRows)
  BY FirstGrid DEF Init
<1>2. ASSUME NEW strict PROVE SheetGood(Homely(strict), strict)
  <2>1. [rows |-> FirstRows, queue |-> <<>>] \in Homely(strict)
    BY <1>1, HomelyStable DEF EmptyIn
  <2>2. Small(sheet) /\ Known(sheet, Homely(strict)) /\ sheet.cell = NoCell
    BY <1>1, <2>1, LoadedKnown
  <2>3. QED
    BY <2>2 DEF SheetGood, CellHome
<1>3. QED
  BY <1>2 DEF HomeInv

(* Every pending operation names the row it was made on, whatever is       *)
(* copied, removed, undone or saved in between, also while the save is     *)
(* under way: of one save for any user, of any number of saves for a user  *)
(* who waits for them.  So does the open cell of a user who waits          *)
(* (shift_op_rows, grid_toggle_delete_rows, grid_drop_saved_deleted_rows). *)
THEOREM PositionsHold == Spec => [](OneSave \/ ~disturbed => PositionsStayHome)
<1>1. JobsClean /\ WorkInv /\ HistoryInv /\ HomeInv /\ [Next]_vars => HomeInv'
  BY HomeNext
<1>2. HistoryInv /\ HomeInv => (OneSave \/ ~disturbed => PositionsStayHome)
  <2> SUFFICES ASSUME HistoryInv, HomeInv, OneSave \/ ~disturbed PROVE PositionsStayHome
    OBVIOUS
  <2>1. ASSUME ~replaced, NEW k \in DOMAIN sheet.queue
        PROVE  /\ sheet.queue[k].row \in DOMAIN sheet.rows
               /\ sheet.rows[sheet.queue[k].row].id = sheet.queue[k].snap.id
    <3>1. Known(sheet, Homely(FALSE))
      BY <2>1 DEF HomeInv, SheetGood
    <3>2. State(sheet) \in Homely(FALSE)
      BY <3>1, KnownHere
    <3>3. HomeIn(sheet.rows, sheet.queue)
      BY <3>2 DEF Homely, State
    <3>4. QED
      BY <3>3 DEF HomeIn
  <2>2. ASSUME ~disturbed, sheet.cell # NoCell
        PROVE  sheet.rows[sheet.cell.row].id = sheet.cell.id
    <3>1. ~replaced
      BY <2>2 DEF HistoryInv, WaitInv
    <3>2. CellHome(sheet)
      BY <2>2, <3>1 DEF HomeInv, SheetGood
    <3>3. QED
      BY <2>2, <3>2 DEF CellHome
  <2>3. QED
    BY <2>1, <2>2 DEF PositionsStayHome
<1>3. QED
  BY <1>1, <1>2, InitClean, InitWork, InitHistory, InitHome, NextClean, NextWork,
     AlwaysHistory, PTL DEF Spec
-----------------------------------------------------------------------------
(* Picking the same in the same order gives the same.                      *)
Places == {S \in SUBSET Nat : \E n \in Nat : S \in SUBSET (1..n)}

InOrder(f, S, S2) ==
    /\ f \in [S -> S2]
    /\ \A l \in S2 : \E k \in S : f[k] = l
    /\ \A k, l \in S : k < l => f[k] < f[l]

LEMMA InOrderBack ==
    ASSUME NEW S \in Places, NEW S2 \in Places, NEW f, InOrder(f, S, S2),
           NEW k \in S, NEW l \in S
    PROVE  /\ f[k] = f[l] => k = l
           /\ f[k] < f[l] => k < l
<1>1. k \in Nat /\ l \in Nat /\ f[k] \in Nat /\ f[l] \in Nat
  BY DEF InOrder, Places
<1>2. (k < l => f[k] < f[l]) /\ (l < k => f[l] < f[k])
  BY DEF InOrder
<1>3. QED
  BY <1>1, <1>2

LEMMA RankAlong ==
    ASSUME NEW S \in Places, NEW S2 \in Places, NEW f, InOrder(f, S, S2), NEW k \in S
    PROVE  Rank(S2, f[k]) = Rank(S, k)
<1> DEFINE a == {j \in S : j < k}
           b == {j \in S2 : j < f[k]}
           g == [j \in a |-> f[j]]
<1>1. IsFiniteSet(a)
  BY RankType DEF Places
<1>2. g \in [a -> b]
  <2>1. ASSUME NEW j \in a PROVE f[j] \in b
    BY DEF InOrder
  <2>2. QED
    BY <2>1
<1>3. \A l \in b : \E j \in a : g[j] = l
  <2> SUFFICES ASSUME NEW l \in b PROVE \E j \in a : f[j] = l
    OBVIOUS
  <2>1. l \in S2 /\ l < f[k]
    OBVIOUS
  <2>2. PICK j \in S : f[j] = l
    BY <2>1 DEF InOrder
  <2>3. j < k
    BY <2>1, <2>2, InOrderBack
  <2>4. QED
    BY <2>2, <2>3
<1>4. \A i, j \in a : g[i] = g[j] => i = j
  <2> SUFFICES ASSUME NEW i \in a, NEW j \in a, f[i] = f[j] PROVE i = j
    OBVIOUS
  <2>1. i \in S /\ j \in S
    OBVIOUS
  <2>2. QED
    BY <2>1, InOrderBack
<1> HIDE DEF a, b, g
<1>5. g \in Bijection(a, b)
  BY <1>2, <1>3, <1>4 DEF Bijection, Injection, Surjection, IsInjective
<1>6. Cardinality(b) = Cardinality(a)
  BY <1>1, <1>5, FS_Bijection DEF ExistsBijection
<1>7. QED
  BY <1>6 DEF Rank, a, b

LEMMA PickedAlong ==
    ASSUME NEW S \in Places, NEW S2 \in Places, NEW s, NEW s2, NEW f, InOrder(f, S, S2),
           \A k \in S : s2[f[k]] = s[k]
    PROVE  Picked(s2, S2) = Picked(s, S)
<1> DEFINE p == Picked(s, S)
           p2 == Picked(s2, S2)
<1>1. \A i, j \in S : f[i] = f[j] => i = j
  BY InOrderBack
<1>2. f \in Bijection(S, S2)
  BY <1>1 DEF InOrder, Bijection, Injection, Surjection, IsInjective
<1>3. IsFiniteSet(S)
  BY RankType DEF Places
<1>4. Cardinality(S2) = Cardinality(S)
  BY <1>2, <1>3, FS_Bijection DEF ExistsBijection
<1>5. p = [m \in 1..Cardinality(S) |-> p[m]] /\ p2 = [m \in 1..Cardinality(S2) |-> p2[m]]
  BY DEF Picked
<1>6. /\ \A k \in S : Rank(S, k) \in Nat /\ p[Rank(S, k) + 1] = s[k]
      /\ \A k \in S2 : p2[Rank(S2, k) + 1] = s2[k]
  BY PickedPlaces, RankType DEF Places
<1> HIDE DEF p, p2
<1>7. ASSUME NEW m \in 1..Cardinality(S) PROVE p2[m] = p[m]
  <2>1. PICK k \in S : Rank(S, k) = m - 1
    BY RankTaken DEF Places
  <2>2. Rank(S, k) + 1 = m
    BY <1>6, <2>1
  <2>3. p[m] = s[k]
    BY <1>6, <2>2
  <2>4. f[k] \in S2 /\ Rank(S2, f[k]) = Rank(S, k)
    <3>1. f[k] \in S2
      BY DEF InOrder
    <3>2. QED
      BY <3>1, RankAlong
  <2>5. p2[m] = s2[f[k]]
    BY <1>6, <2>2, <2>4
  <2>6. QED
    BY <2>3, <2>5
<1>8. p2 = p
  BY <1>4, <1>5, <1>7
<1>9. QED
  BY <1>8 DEF p, p2

(* The same first edit.                                                    *)
LEMMA OldAlong ==
    ASSUME NEW q \in Queues, NEW q2 \in Queues, NEW i, NEW i2, NEW col, NEW default, NEW f,
           InOrder(f, FirstEdits(q, i, col), FirstEdits(q2, i2, col)),
           \A k \in FirstEdits(q, i, col) : q2[f[k]].old = q[k].old
    PROVE  OldValue(q2, i2, col, default) = OldValue(q, i, col, default)
<1> DEFINE a == FirstEdits(q, i, col)
           b == FirstEdits(q2, i2, col)
<1>1. a \in SUBSET Nat /\ b \in SUBSET Nat
  BY QueueTypes DEF FirstEdits
<1>2. /\ OldValue(q, i, col, default) = IF a = {} THEN default ELSE q[Min(a)].old
      /\ OldValue(q2, i2, col, default) = IF b = {} THEN default ELSE q2[Min(b)].old
  BY DEF OldValue
<1>3. InOrder(f, a, b) /\ \A k \in a : q2[f[k]].old = q[k].old
  OBVIOUS
<1> HIDE DEF a, b
<1>4. CASE a = {}
  <2>1. b = {}
    BY <1>3, <1>4 DEF InOrder
  <2>2. QED
    BY <1>2, <1>4, <2>1
<1>5. CASE a # {}
  <2>1. Min(a) \in a /\ \A k \in a : Min(a) <= k
    BY <1>1, <1>5, LeastOf
  <2>2. f[Min(a)] \in b
    BY <1>3, <2>1 DEF InOrder
  <2>3. Min(b) \in b /\ \A k \in b : Min(b) <= k
    BY <1>1, <2>2, LeastOf
  <2>4. PICK l \in a : f[l] = Min(b)
    BY <1>3, <2>3 DEF InOrder
  <2>5. Min(a) = l
    <3> SUFFICES ASSUME Min(a) # l PROVE FALSE
      OBVIOUS
    <3> DEFINE m == Min(a)
    <3>1. m \in Nat /\ l \in Nat /\ m <= l /\ m # l
      BY <1>1, <2>1
    <3>2. m < l /\ m \in a
      BY <2>1, <3>1
    <3>3. f[m] < f[l]
      BY <1>3, <3>2 DEF InOrder
    <3>4. f[l] <= f[m] /\ f[m] \in Nat /\ f[l] \in Nat
      BY <1>1, <2>2, <2>3, <2>4
    <3>5. QED
      BY <3>3, <3>4
  <2>6. b # {}
    BY <2>2
  <2>7. QED
    BY <1>2, <1>3, <1>5, <2>4, <2>5, <2>6
<1>6. QED
  BY <1>4, <1>5

(* What a row was before the edits.                                        *)
LEMMA OriginalAlike ==
    ASSUME NEW q, NEW q2, NEW i, NEW i2, NEW r \in Rows, NEW r2 \in Rows, r2.id = r.id,
           \A col \in Columns : OldValue(q2, i2, col, r2[col]) = OldValue(q, i, col, r[col])
    PROVE  Original(q2, i2, r2) = Original(q, i, r)
<1>1. /\ Original(q, i, r) = [r EXCEPT !.key = OldValue(q, i, "key", r.key),
                                       !.val = OldValue(q, i, "val", r.val)]
      /\ Original(q2, i2, r2) = [r2 EXCEPT !.key = OldValue(q2, i2, "key", r2.key),
                                           !.val = OldValue(q2, i2, "val", r2.val)]
  BY DEF Original, Rows
<1>2. /\ OldValue(q2, i2, "key", r2.key) = OldValue(q, i, "key", r.key)
      /\ OldValue(q2, i2, "val", r2.val) = OldValue(q, i, "val", r.val)
  <2>1. "key" \in Columns /\ "val" \in Columns
    BY DEF Columns
  <2>2. r["key"] = r.key /\ r["val"] = r.val /\ r2["key"] = r2.key /\ r2["val"] = r2.val
    OBVIOUS
  <2>3. QED
    BY <2>1, <2>2
<1>3. ASSUME NEW a, NEW b
      PROVE  [r EXCEPT !.key = a, !.val = b] = [r2 EXCEPT !.key = a, !.val = b]
  BY DEF Rows
<1>4. QED
  BY <1>1, <1>2, <1>3

(* The rows that are not new.                                              *)
Standing(st) == (1..Len(st.rows)) \ PendingRows(st.queue, "insert")

LEMMA RewoundAlong ==
    ASSUME NEW st \in States, NEW st2 \in States, NEW f,
           InOrder(f, Standing(st), Standing(st2)),
           \A k \in Standing(st) :
              Original(st2.queue, f[k], st2.rows[f[k]]) = Original(st.queue, k, st.rows[k])
    PROVE  Rewound(st2) = Rewound(st)
<1>1. ASSUME NEW s \in States
      PROVE  /\ Standing(s) \in SUBSET (1..Len(s.rows)) /\ Standing(s) \in Places
             /\ Rewound(s) = Picked([i \in 1..Len(s.rows) |->
                                        Original(s.queue, i, s.rows[i])], Standing(s))
  <2>1. Len(s.rows) \in Nat /\ DOMAIN s.rows = 1..Len(s.rows)
    BY GridTypes DEF States
  <2>2. Standing(s) \in SUBSET (1..Len(s.rows))
    BY DEF Standing
  <2>3. Standing(s) \in SUBSET Nat
    BY <2>2
  <2>4. Standing(s) \in Places
    BY <2>1, <2>2, <2>3 DEF Places
  <2>5. QED
    BY <2>1, <2>2, <2>4 DEF Rewound, Standing
<1> DEFINE n == Len(st.rows)
           n2 == Len(st2.rows)
           o == [i \in 1..n |-> Original(st.queue, i, st.rows[i])]
           o2 == [i \in 1..n2 |-> Original(st2.queue, i, st2.rows[i])]
           S == Standing(st)
           S2 == Standing(st2)
<1>2. S \in Places /\ S \in SUBSET (1..n) /\ Rewound(st) = Picked(o, S)
  BY <1>1
<1>3. S2 \in Places /\ S2 \in SUBSET (1..n2) /\ Rewound(st2) = Picked(o2, S2)
  BY <1>1
<1>4. \A k \in S : o2[f[k]] = o[k]
  <2> SUFFICES ASSUME NEW k \in S PROVE o2[f[k]] = o[k]
    OBVIOUS
  <2>1. k \in 1..n /\ f[k] \in 1..n2
    BY <1>2, <1>3 DEF InOrder
  <2>2. QED
    BY <2>1
<1>5. InOrder(f, S, S2)
  OBVIOUS
<1> HIDE DEF o, o2, S, S2, n, n2
<1>6. Picked(o2, S2) = Picked(o, S)
  BY <1>2, <1>3, <1>4, <1>5, PickedAlong
<1>7. QED
  BY <1>2, <1>3, <1>6
-----------------------------------------------------------------------------
(* What the changes of a queue do to the old values it holds.              *)
LEMMA StayInOrder ==
    ASSUME NEW S \in Places
    PROVE  InOrder([k \in S |-> k], S, S)
BY DEF InOrder, Places

LEMMA SameOld ==
    ASSUME NEW q \in Queues, NEW q2 \in Queues, NEW i, NEW i2, NEW col, NEW default,
           FirstEdits(q2, i2, col) = FirstEdits(q, i, col),
           \A k \in FirstEdits(q, i, col) : q2[k].old = q[k].old
    PROVE  OldValue(q2, i2, col, default) = OldValue(q, i, col, default)
<1> DEFINE a == FirstEdits(q, i, col)
<1>1. a \in SUBSET Nat
  BY QueueTypes DEF FirstEdits
<1>2. /\ OldValue(q, i, col, default) = IF a = {} THEN default ELSE q[Min(a)].old
      /\ OldValue(q2, i2, col, default) = IF a = {} THEN default ELSE q2[Min(a)].old
  BY DEF OldValue
<1>3. \A k \in a : q2[k].old = q[k].old
  OBVIOUS
<1> HIDE DEF a
<1>4. a # {} => Min(a) \in a
  BY <1>1, LeastOf
<1>5. QED
  BY <1>2, <1>3, <1>4

(* The operations stay where they are in the queue; those on one row are   *)
(* the ones that were on another.                                          *)
LEMMA MovedOld ==
    ASSUME NEW q \in Queues, NEW q2 \in Queues, NEW i, NEW i2, DOMAIN q2 = DOMAIN q,
           \A k \in DOMAIN q : /\ q2[k].kind = q[k].kind /\ q2[k].col = q[k].col
                               /\ q2[k].old = q[k].old
                               /\ q2[k].row = i2 <=> q[k].row = i
    PROVE  \A col, default : OldValue(q2, i2, col, default) = OldValue(q, i, col, default)
<1> SUFFICES ASSUME NEW col, NEW default
             PROVE  OldValue(q2, i2, col, default) = OldValue(q, i, col, default)
  OBVIOUS
<1>1. FirstEdits(q2, i2, col) = FirstEdits(q, i, col)
  BY DEF FirstEdits
<1>2. \A k \in FirstEdits(q, i, col) : q2[k].old = q[k].old
  BY DEF FirstEdits
<1>3. QED
  BY <1>1, <1>2, SameOld

(* An operation more.                                                      *)
LEMMA AppendedOld ==
    ASSUME NEW q \in Queues, NEW op \in Ops
    PROVE  /\ \A i, col, default :
                 ~(op.kind = "update" /\ op.row = i /\ op.col = col)
                    => OldValue(Append(q, op), i, col, default) = OldValue(q, i, col, default)
           /\ op.kind = "update"
                 => \A default : OldValue(Append(q, op), op.row, op.col, default)
                                    = OldValue(q, op.row, op.col, op.old)
           /\ PendingRows(Append(q, op), "insert")
                 = PendingRows(q, "insert") \cup (IF op.kind = "insert" THEN {op.row} ELSE {})
<1> DEFINE w == Append(q, op)
           n == Len(q)
<1>1. n \in Nat /\ DOMAIN q = 1..n /\ q \in Seq(Ops)
  BY QueueTypes
<1>2. /\ w \in Seq(Ops) /\ Len(w) = n + 1 /\ w[n + 1] = op
      /\ \A k \in 1..n : w[k] = q[k]
  BY <1>1, AppendProperties
<1>3. DOMAIN w = 1..(n + 1) /\ w \in Queues
  BY <1>2, LenProperties DEF Queues
<1> HIDE DEF w, n
<1>4. 1..(n + 1) = (1..n) \cup {n + 1} /\ n + 1 \notin 1..n
  BY <1>1
<1>5. ASSUME NEW i, NEW col
      PROVE  FirstEdits(w, i, col)
                = FirstEdits(q, i, col)
                     \cup (IF op.kind = "update" /\ op.row = i /\ op.col = col THEN {n + 1}
                           ELSE {})
  BY <1>1, <1>2, <1>3, <1>4 DEF FirstEdits
<1>6. ASSUME NEW i, NEW col, NEW default, FirstEdits(w, i, col) = FirstEdits(q, i, col)
      PROVE  OldValue(w, i, col, default) = OldValue(q, i, col, default)
  <2>1. \A k \in FirstEdits(q, i, col) : w[k].old = q[k].old
    BY <1>1, <1>2 DEF FirstEdits
  <2>2. ASSUME NEW q2 \in Queues, FirstEdits(q2, i, col) = FirstEdits(q, i, col),
               \A k \in FirstEdits(q, i, col) : q2[k].old = q[k].old
        PROVE  OldValue(q2, i, col, default) = OldValue(q, i, col, default)
    BY <2>2, SameOld
  <2>3. w \in Queues
    BY <1>3
  <2>4. QED
    BY <1>6, <2>1, <2>2, <2>3
<1>7. ASSUME NEW i, NEW col, NEW default,
             ~(op.kind = "update" /\ op.row = i /\ op.col = col)
      PROVE  OldValue(w, i, col, default) = OldValue(q, i, col, default)
  BY <1>5, <1>6, <1>7
<1>8. ASSUME op.kind = "update", NEW default
      PROVE  OldValue(w, op.row, op.col, default) = OldValue(q, op.row, op.col, op.old)
  <2> DEFINE a == FirstEdits(q, op.row, op.col)
             b == FirstEdits(w, op.row, op.col)
  <2>1. b = a \cup {n + 1}
    BY <1>5, <1>8
  <2>2. a \in SUBSET (1..n)
    BY <1>1 DEF FirstEdits
  <2>3. /\ OldValue(q, op.row, op.col, op.old) = IF a = {} THEN op.old ELSE q[Min(a)].old
        /\ OldValue(w, op.row, op.col, default) = IF b = {} THEN default ELSE w[Min(b)].old
    BY DEF OldValue
  <2> HIDE DEF a, b
  <2>4. a \in SUBSET Nat /\ b \in SUBSET Nat /\ b # {}
    BY <1>1, <2>1, <2>2
  <2>5. Min(b) \in b /\ \A k \in b : Min(b) <= k
    BY <2>4, LeastOf
  <2>6. CASE a = {}
    <3>1. Min(b) = n + 1
      BY <2>1, <2>5, <2>6
    <3>2. QED
      BY <1>2, <2>3, <2>4, <2>6, <3>1
  <2>7. CASE a # {}
    <3>1. Min(a) \in a /\ \A k \in a : Min(a) <= k
      BY <2>4, <2>7, LeastOf
    <3>2. Min(b) <= Min(a) /\ Min(a) \in Nat /\ Min(b) \in Nat /\ Min(a) \in 1..n
      BY <2>1, <2>2, <2>4, <2>5, <3>1
    <3>3. Min(b) # n + 1
      BY <1>1, <3>2
    <3>4. Min(b) \in a
      BY <2>1, <2>5, <3>3
    <3>5. Min(a) <= Min(b)
      BY <3>1, <3>4
    <3>6. Min(a) = Min(b)
      BY <3>2, <3>5
    <3>7. w[Min(b)] = q[Min(a)]
      BY <1>2, <3>2, <3>6
    <3>8. QED
      BY <2>3, <2>4, <2>7, <3>7
  <2>8. QED
    BY <2>6, <2>7
<1>9. PendingRows(w, "insert")
         = PendingRows(q, "insert") \cup (IF op.kind = "insert" THEN {op.row} ELSE {})
  BY <1>1, <1>2, <1>3, <1>4 DEF PendingRows
<1>10. QED
  BY <1>7, <1>8, <1>9 DEF w

(* Operations less, none of them one of the row's edits.                   *)
LEMMA PickedOld ==
    ASSUME NEW q \in Queues, NEW T \in SUBSET DOMAIN q, NEW i, NEW col, NEW default,
           FirstEdits(q, i, col) \subseteq T
    PROVE  OldValue(Picked(q, T), i, col, default) = OldValue(q, i, col, default)
<1> DEFINE w == Picked(q, T)
           n == Len(q)
           c == Cardinality(T)
           a == FirstEdits(q, i, col)
           b == FirstEdits(w, i, col)
           f == [k \in a |-> Rank(T, k) + 1]
<1>1. n \in Nat /\ DOMAIN q = 1..n /\ q \in Seq(Ops) /\ T \in SUBSET (1..n)
  BY QueueTypes
<1>2. w \in Queues /\ DOMAIN w = 1..c /\ c \in Nat
  BY <1>1, PickedType, PickedPlaces DEF Queues
<1>3. \A k \in T : Rank(T, k) + 1 \in 1..c /\ w[Rank(T, k) + 1] = q[k] /\ Rank(T, k) \in Nat
  BY <1>1, PickedPlaces, RankType
<1>4. ASSUME NEW k \in a PROVE f[k] \in b /\ w[f[k]] = q[k]
  <2>1. k \in T /\ f[k] = Rank(T, k) + 1
    OBVIOUS
  <2>2. q[k].kind = "update" /\ q[k].row = i /\ q[k].col = col
    BY DEF FirstEdits
  <2>3. f[k] \in DOMAIN w /\ w[f[k]] = q[k]
    BY <1>2, <1>3, <2>1
  <2> HIDE DEF w, f
  <2>4. QED
    BY <2>2, <2>3 DEF FirstEdits
<1>5. ASSUME NEW l \in b PROVE \E k \in a : f[k] = l
  <2>1. l \in 1..c /\ w[l].kind = "update" /\ w[l].row = i /\ w[l].col = col
    BY <1>2 DEF FirstEdits
  <2>2. PICK k \in T : Rank(T, k) = l - 1
    BY <1>1, <2>1, RankTaken
  <2>3. Rank(T, k) + 1 = l
    BY <1>2, <1>3, <2>1, <2>2
  <2>4. w[l] = q[k]
    BY <1>3, <2>3
  <2>5. k \in a
    BY <2>1, <2>4 DEF FirstEdits
  <2>6. QED
    BY <2>3, <2>5
<1>6. ASSUME NEW k \in a, NEW l \in a, k < l PROVE f[k] < f[l]
  <2>1. k \in T /\ l \in T /\ l \in 1..(n + 1)
    BY <1>1
  <2>2. Rank(T, k) < Rank(T, l)
    BY <1>1, <1>6, <2>1, RankRises
  <2>3. QED
    BY <1>3, <2>1, <2>2
<1>7. InOrder(f, a, b)
  <2>1. f = [k \in a |-> f[k]] /\ DOMAIN f = a
    OBVIOUS
  <2> HIDE DEF f, a, b
  <2>2. f \in [a -> b]
    BY <1>4, <2>1
  <2>3. QED
    BY <1>5, <1>6, <2>2 DEF InOrder
<1>8. \A k \in a : w[f[k]].old = q[k].old
  BY <1>4
<1> HIDE DEF w, f
<1>9. QED
  BY <1>2, <1>7, <1>8, OldAlong DEF w
LEMMA PickedPending ==
    ASSUME NEW q \in Queues, NEW T \in SUBSET DOMAIN q, NEW kind
    PROVE  /\ \A m \in DOMAIN Picked(q, T) : \E k \in T : Picked(q, T)[m] = q[k]
           /\ PendingRows(Picked(q, T), kind)
                 = {q[k].row : k \in {j \in T : q[j].kind = kind}}
<1> DEFINE w == Picked(q, T)
           n == Len(q)
           c == Cardinality(T)
<1>1. n \in Nat /\ DOMAIN q = 1..n /\ q \in Seq(Ops) /\ T \in SUBSET (1..n)
  BY QueueTypes
<1>2. /\ DOMAIN w = 1..c /\ c \in Nat
      /\ \A k \in T : Rank(T, k) + 1 \in 1..c /\ w[Rank(T, k) + 1] = q[k] /\ Rank(T, k) \in Nat
  BY <1>1, PickedPlaces, RankType
<1> HIDE DEF w
<1>3. ASSUME NEW m \in DOMAIN w PROVE \E k \in T : w[m] = q[k]
  <2>1. PICK k \in T : Rank(T, k) = m - 1
    BY <1>1, <1>2, RankTaken
  <2>2. Rank(T, k) + 1 = m
    BY <1>2, <2>1
  <2>3. QED
    BY <1>2, <2>2
<1>4. ASSUME NEW l \in PendingRows(w, kind)
      PROVE  l \in {q[k].row : k \in {j \in T : q[j].kind = kind}}
  <2>1. PICK m \in DOMAIN w : w[m].kind = kind /\ w[m].row = l
    BY DEF PendingRows
  <2>2. PICK k \in T : w[m] = q[k]
    BY <1>3
  <2>3. QED
    BY <2>1, <2>2
<1>5. ASSUME NEW l \in {q[k].row : k \in {j \in T : q[j].kind = kind}}
      PROVE  l \in PendingRows(w, kind)
  <2>1. PICK k \in T : q[k].kind = kind /\ q[k].row = l
    OBVIOUS
  <2> DEFINE m == Rank(T, k) + 1
  <2>2. m \in DOMAIN w /\ w[m] = q[k]
    BY <1>2
  <2> HIDE DEF m
  <2>3. QED
    BY <2>1, <2>2 DEF PendingRows
<1>6. QED
  BY <1>3, <1>4, <1>5 DEF w
-----------------------------------------------------------------------------
(* The edits do not change what the rows were before them.                 *)
LEMMA SameStanding ==
    ASSUME NEW st \in States, NEW st2 \in States, Standing(st2) = Standing(st),
           \A k \in Standing(st) :
              Original(st2.queue, k, st2.rows[k]) = Original(st.queue, k, st.rows[k])
    PROVE  Rewound(st2) = Rewound(st)
<1> DEFINE S == Standing(st)
           f == [k \in S |-> k]
<1>1. Len(st.rows) \in Nat /\ S \in SUBSET (1..Len(st.rows))
  BY GridTypes DEF States, Standing
<1>2. S \in SUBSET Nat
  BY <1>1
<1>3. S \in Places
  BY <1>1, <1>2 DEF Places
<1>4. InOrder(f, S, S)
  <2> HIDE DEF S
  <2>1. QED
    BY <1>3, StayInOrder
<1>5. \A k \in S : f[k] = k
  OBVIOUS
<1> HIDE DEF f
<1>6. QED
  BY <1>4, <1>5, RewoundAlong

LEMMA EditExplains ==
    ASSUME NEW st \in States, NEW i \in 1..Len(st.rows), NEW col \in Columns, NEW v \in Nat
    PROVE  Rewound(Edited(st, i, col, v)) = Rewound(st)
<1> DEFINE rows == WithCell(st.rows, i, col, v)
           q == st.queue
           w == QueueAfterEdit(st, i, col, v)
           st2 == Edited(st, i, col, v)
           P == PendingRows(q, "insert")
<1>1. /\ st.rows \in Grids /\ q \in Queues /\ Len(st.rows) \in Nat
      /\ \A k \in 1..Len(st.rows) : st.rows[k] \in Rows
  BY GridTypes DEF States
<1>2. /\ rows \in Grids /\ Len(rows) = Len(st.rows)
      /\ \A k \in 1..Len(st.rows) : k # i => rows[k] = st.rows[k]
      /\ rows[i] = [st.rows[i] EXCEPT ![col] = v]
  BY <1>1, CellTakes
<1>3. st2 \in States /\ st2.rows = rows /\ st2.queue = w /\ w \in Queues
  <2>1. st2 \in States
    BY EditType
  <2>2. st2.rows = rows /\ st2.queue = w
    BY DEF Edited
  <2>3. QED
    BY <2>1, <2>2 DEF States
<1>4. st.rows[i] \in Rows /\ st.rows[i][col] \in Nat /\ i \in Nat \ {0}
  <2>1. st.rows[i] \in Rows
    BY <1>1
  <2>2. QED
    BY <1>1, <2>1 DEF Rows, Columns
<1> DEFINE op == Update(i, col, st.rows[i][col], v, st.rows[i])
<1>5. /\ op \in Ops /\ op.kind = "update" /\ op.row = i /\ op.col = col
      /\ op.old = st.rows[i][col]
  BY <1>4, OpTypes DEF Update
<1>6. \/ \E k \in DOMAIN q : /\ q[k].kind = "insert" /\ q[k].row = i
                             /\ w = Retyped(q, k, col, v)
      \/ /\ \A k \in DOMAIN q : ~(q[k].kind = "insert" /\ q[k].row = i)
         /\ w = Append(q, op)
  BY <1>1, EditOfQueue
<1> HIDE DEF w, op, rows, st2
<1>7. ASSUME NEW m \in DOMAIN q, q[m].kind = "insert", q[m].row = i, w = Retyped(q, m, col, v)
      PROVE  /\ PendingRows(w, "insert") = P
             /\ \A k \in Standing(st) : k # i
             /\ \A k, c, d : OldValue(w, k, c, d) = OldValue(q, k, c, d)
  <2>1. DOMAIN w = DOMAIN q
    BY <1>7 DEF Retyped
  <2>2. ASSUME NEW l \in DOMAIN q
        PROVE  /\ w[l].kind = q[l].kind /\ w[l].row = q[l].row
               /\ w[l].col = q[l].col /\ w[l].old = q[l].old
    <3> DEFINE p == q[l]
    <3>1. p \in Ops
      BY <1>1, QueueTypes
    <3>2. w[l] = p \/ w[l] = [p EXCEPT !.snap[col] = v]
      BY <1>7 DEF Retyped
    <3> HIDE DEF p
    <3>3. CASE w[l] = [p EXCEPT !.snap[col] = v]
      BY <3>1, <3>3 DEF Ops, p
    <3>4. CASE w[l] = p
      BY <3>4 DEF p
    <3>5. QED
      BY <3>2, <3>3, <3>4
  <2>3. PendingRows(w, "insert") = P
    BY <2>1, <2>2 DEF PendingRows
  <2>4. i \in P
    BY <1>7 DEF PendingRows
  <2>5. \A k \in Standing(st) : k # i
    BY <2>4 DEF Standing
  <2>6. ASSUME NEW k PROVE \A c, d : OldValue(w, k, c, d) = OldValue(q, k, c, d)
    <3>1. \A l \in DOMAIN q : w[l].row = k <=> q[l].row = k
      BY <2>2
    <3>2. QED
      BY <1>1, <1>3, <2>1, <2>2, <3>1, MovedOld
  <2>7. QED
    BY <2>3, <2>5, <2>6
<1>8. ASSUME w = Append(q, op)
      PROVE  /\ PendingRows(w, "insert") = P
             /\ \A k, c, d : ~(k = i /\ c = col) => OldValue(w, k, c, d) = OldValue(q, k, c, d)
             /\ \A d : OldValue(w, i, col, d) = OldValue(q, i, col, st.rows[i][col])
  BY <1>1, <1>5, <1>8, AppendedOld
<1>9. PendingRows(w, "insert") = P
  BY <1>6, <1>7, <1>8
<1>10. Standing(st2) = Standing(st)
  BY <1>2, <1>3, <1>9 DEF Standing
<1>11. ASSUME NEW k \in Standing(st)
       PROVE  Original(w, k, rows[k]) = Original(q, k, st.rows[k])
  <2>1. k \in 1..Len(st.rows) /\ st.rows[k] \in Rows
    BY <1>1 DEF Standing
  <2>2. rows[k] \in Rows /\ rows[k].id = st.rows[k].id
    <3>1. rows[k] \in Rows
      BY <1>2, <2>1, GridTypes
    <3>2. CASE k # i
      BY <1>2, <2>1, <3>1, <3>2
    <3>3. CASE k = i
      BY <1>2, <1>4, <3>1, <3>3 DEF Rows, Columns
    <3>4. QED
      BY <3>2, <3>3
  <2>3. ASSUME NEW c \in Columns
        PROVE  OldValue(w, k, c, rows[k][c]) = OldValue(q, k, c, st.rows[k][c])
    <3>1. CASE k # i
      <4>1. rows[k] = st.rows[k]
        BY <1>2, <2>1, <3>1
      <4>2. \A d : OldValue(w, k, c, d) = OldValue(q, k, c, d)
        BY <1>6, <1>7, <1>8, <3>1
      <4>3. QED
        BY <4>1, <4>2
    <3>2. CASE k = i
      <4>1. w = Append(q, op)
        BY <1>6, <1>7, <3>2
      <4>2. CASE c = col
        BY <1>8, <3>2, <4>1, <4>2
      <4>3. CASE c # col
        <5>1. rows[k][c] = st.rows[k][c]
          BY <1>2, <1>4, <3>2, <4>3 DEF Rows, Columns
        <5>2. \A d : OldValue(w, k, c, d) = OldValue(q, k, c, d)
          BY <1>8, <4>1, <4>3
        <5>3. QED
          BY <5>1, <5>2
      <4>4. QED
        BY <4>2, <4>3
    <3>3. QED
      BY <3>1, <3>2
  <2>4. QED
    BY <2>1, <2>2, <2>3, OriginalAlike
<1> HIDE DEF q
<1>12. Rewound(st2) = Rewound(st)
  BY <1>3, <1>10, <1>11, SameStanding DEF q
<1>13. QED
  BY <1>12 DEF st2

LEMMA AddExplains ==
    ASSUME NEW st \in States, NEW new \in Rows
    PROVE  Rewound(Added(st, new)) = Rewound(st)
<1> DEFINE n == Len(st.rows)
           p == n + 1
           q == st.queue
           op == InsertRow(p, new)
           rows == WithRow(st.rows, p, new)
           w == Append(q, op)
           st2 == Added(st, new)
<1>1. /\ st.rows \in Grids /\ q \in Queues /\ n \in Nat
      /\ \A k \in 1..n : st.rows[k] \in Rows
  BY GridTypes DEF States
<1>2. st2 \in States /\ st2.rows = rows /\ st2.queue = w
  BY AddType DEF Added
<1>3. p = n + 1 /\ p \in Nat \ {0} /\ p <= Len(st.rows) + 1
  BY <1>1
<1> HIDE DEF p
<1>4. op \in Ops /\ op.row = p /\ op.kind = "insert"
  BY <1>3, OpTypes DEF InsertRow, Columns
<1>5. /\ rows \in Grids /\ Len(rows) = n + 1
      /\ \A k \in 1..(n + 1) :
            rows[k] = IF k < p THEN st.rows[k] ELSE IF k = p THEN new ELSE st.rows[k - 1]
  BY <1>1, <1>3, RowPutIn
<1>6. \A k \in 1..n : rows[k] = st.rows[k]
  BY <1>1, <1>3, <1>5
<1>7. /\ \A k, c, d : OldValue(w, k, c, d) = OldValue(q, k, c, d)
      /\ PendingRows(w, "insert") = PendingRows(q, "insert") \cup {p}
  BY <1>1, <1>4, AppendedOld
<1> HIDE DEF rows, op, w, st2
<1>8. Standing(st2) = Standing(st)
  <2>1. 1..(n + 1) = (1..n) \cup {p} /\ p \notin 1..n
    BY <1>1, <1>3
  <2>2. Standing(st2) = (1..(n + 1)) \ (PendingRows(q, "insert") \cup {p})
    BY <1>2, <1>5, <1>7 DEF Standing
  <2>3. Standing(st) = (1..n) \ PendingRows(q, "insert")
    BY DEF Standing
  <2>4. QED
    BY <2>1, <2>2, <2>3
<1>9. ASSUME NEW k \in Standing(st)
      PROVE  Original(w, k, rows[k]) = Original(q, k, st.rows[k])
  <2>1. rows[k] = st.rows[k] /\ st.rows[k] \in Rows
    BY <1>1, <1>6 DEF Standing
  <2>2. QED
    BY <1>7, <2>1, OriginalAlike
<1> HIDE DEF q, n
<1>10. Rewound(st2) = Rewound(st)
  BY <1>2, <1>8, <1>9, SameStanding DEF q
<1>11. QED
  BY <1>10 DEF st2

LEMMA CopyExplains ==
    ASSUME NEW st \in States, NEW i \in 1..Len(st.rows), NEW new \in Rows
    PROVE  Rewound(Copied(st, i, new)) = Rewound(st)
<1> DEFINE n == Len(st.rows)
           p == i + 1
           q == st.queue
           u == Shifted(q, p, 1)
           op == InsertRow(p, new)
           rows == WithRow(st.rows, p, new)
           w == Append(u, op)
           st2 == Copied(st, i, new)
           P == PendingRows(q, "insert")
           P2 == PendingRows(w, "insert")
           S == Standing(st)
           S2 == Standing(st2)
           f == [k \in S |-> IF k < p THEN k ELSE k + 1]
<1>1. /\ st.rows \in Grids /\ q \in Queues /\ n \in Nat
      /\ \A k \in 1..n : st.rows[k] \in Rows
      /\ DOMAIN q = 1..Len(q)
      /\ \A k \in DOMAIN q : q[k].row \in Nat \ {0}
  <2>1. st.rows \in Grids /\ q \in Queues
    BY DEF States
  <2>2. \A k \in DOMAIN q : q[k] \in Ops
    BY <2>1, QueueTypes
  <2>3. QED
    BY <2>1, <2>2, GridTypes, QueueTypes DEF Ops
<1>2. st2 \in States /\ st2.rows = rows /\ st2.queue = w
  BY CopyType DEF Copied
<1>3. p \in Nat \ {0} /\ p \in Nat /\ p >= 2 /\ p <= Len(st.rows) + 1
  BY <1>1
<1> HIDE DEF p
<1>4. op \in Ops /\ op.row = p /\ op.kind = "insert"
  BY <1>3, OpTypes DEF InsertRow, Columns
<1>5. /\ rows \in Grids /\ Len(rows) = n + 1
      /\ \A k \in 1..(n + 1) :
            rows[k] = IF k < p THEN st.rows[k] ELSE IF k = p THEN new ELSE st.rows[k - 1]
  BY <1>1, <1>3, RowPutIn
<1>6. /\ u \in Queues /\ DOMAIN u = DOMAIN q
      /\ \A k \in DOMAIN q :
            /\ u[k].row = IF q[k].row >= p THEN q[k].row + 1 ELSE q[k].row
            /\ u[k].kind = q[k].kind /\ u[k].col = q[k].col /\ u[k].old = q[k].old
  BY <1>1, <1>3, ShiftedType
<1> HIDE DEF rows, op, u
<1>7. /\ \A k, c, d : OldValue(w, k, c, d) = OldValue(u, k, c, d)
      /\ P2 = PendingRows(u, "insert") \cup {p}
  BY <1>4, <1>6, AppendedOld
<1> HIDE DEF w
<1>8. ASSUME NEW l \in 1..n
      PROVE  (IF l < p THEN l ELSE l + 1) \in P2 <=> l \in P
  <2> DEFINE m == IF l < p THEN l ELSE l + 1
  <2>1. m # p /\ m \in Nat
    BY <1>1, <1>3
  <2>2. \A k \in DOMAIN q : u[k].row = m <=> q[k].row = l
    BY <1>1, <1>3, <1>6
  <2> HIDE DEF m
  <2>3. m \in PendingRows(u, "insert") <=> l \in P
    BY <1>6, <2>2 DEF PendingRows
  <2>4. QED
    BY <1>7, <2>1, <2>3 DEF m
<1>9. p \in P2
  BY <1>7
<1>10. S = (1..n) \ P /\ S2 = (1..(n + 1)) \ P2
  BY <1>2, <1>5 DEF Standing
<1>11. \A k \in S : f[k] = IF k < p THEN k ELSE k + 1
  OBVIOUS
<1>12. f = [k \in S |-> f[k]]
  OBVIOUS
<1> HIDE DEF P, P2, S, S2, f, q, st2, n
<1>13. ASSUME NEW k \in S PROVE f[k] \in S2
  <2>1. k \in 1..n /\ k \notin P
    BY <1>10
  <2>2. f[k] \in 1..(n + 1)
    BY <1>1, <1>11, <2>1
  <2>3. f[k] \notin P2
    BY <1>8, <1>11, <2>1
  <2>4. QED
    BY <1>10, <2>2, <2>3
<1>14. ASSUME NEW l \in S2 PROVE \E k \in S : f[k] = l
  <2>1. l \in 1..(n + 1) /\ l \notin P2 /\ l # p
    BY <1>9, <1>10
  <2> DEFINE k == IF l < p THEN l ELSE l - 1
  <2>2. k \in 1..n /\ l = IF k < p THEN k ELSE k + 1
    BY <1>1, <1>3, <2>1 DEF n
  <2> HIDE DEF k
  <2>3. k \in S
    BY <1>8, <1>10, <2>1, <2>2
  <2>4. QED
    BY <1>11, <2>2, <2>3
<1>15. ASSUME NEW k \in S, NEW l \in S, k < l PROVE f[k] < f[l]
  <2>1. k \in 1..n /\ l \in 1..n
    BY <1>10
  <2>2. QED
    BY <1>1, <1>3, <1>11, <1>15, <2>1
<1>16. InOrder(f, S, S2)
  <2>1. f \in [S -> S2]
    BY <1>12, <1>13
  <2>2. QED
    BY <1>14, <1>15, <2>1 DEF InOrder
<1>17. ASSUME NEW k \in S
       PROVE  Original(w, f[k], rows[f[k]]) = Original(q, k, st.rows[k])
  <2>1. k \in 1..n
    BY <1>10
  <2>2. rows[f[k]] = st.rows[k] /\ st.rows[k] \in Rows
    <3>1. CASE k < p
      BY <1>1, <1>3, <1>5, <1>11, <2>1, <3>1
    <3>2. CASE ~(k < p)
      <4>1. f[k] = k + 1 /\ k + 1 \in 1..(n + 1) /\ k + 1 > p /\ (k + 1) - 1 = k
        BY <1>1, <1>3, <1>11, <2>1, <3>2
      <4>2. rows[k + 1] = st.rows[(k + 1) - 1]
        BY <1>3, <1>5, <4>1
      <4>3. QED
        BY <1>1, <2>1, <4>1, <4>2
    <3>3. QED
      BY <3>1, <3>2
  <2>3. \A j \in DOMAIN q : u[j].row = f[k] <=> q[j].row = k
    BY <1>1, <1>3, <1>6, <1>11, <2>1
  <2>4. \A c, d : OldValue(u, f[k], c, d) = OldValue(q, k, c, d)
    BY <1>1, <1>6, <2>3, MovedOld
  <2>5. QED
    BY <1>7, <2>2, <2>4, OriginalAlike
<1>18. Rewound(st2) = Rewound(st)
  BY <1>2, <1>16, <1>17, RewoundAlong DEF S, S2, q
<1>19. QED
  BY <1>18 DEF st2

LEMMA FlipExplains ==
    ASSUME NEW st \in States, NEW i \in 1..Len(st.rows)
    PROVE  Rewound(Flipped(st, i)) = Rewound(st)
<1> DEFINE n == Len(st.rows)
           q == st.queue
           P == PendingRows(q, "insert")
           S == Standing(st)
           st2 == Flipped(st, i)
           S2 == Standing(st2)
<1>1. /\ st.rows \in Grids /\ q \in Queues /\ n \in Nat
      /\ \A k \in 1..n : st.rows[k] \in Rows
      /\ DOMAIN q = 1..Len(q)
      /\ \A k \in DOMAIN q : q[k].row \in Nat \ {0}
  <2>1. st.rows \in Grids /\ q \in Queues
    BY DEF States
  <2>2. \A k \in DOMAIN q : q[k] \in Ops
    BY <2>1, QueueTypes
  <2>3. QED
    BY <2>1, <2>2, GridTypes, QueueTypes DEF Ops
<1>2. st2 \in States
  BY FlipType
<1>3. S = (1..n) \ P
  BY DEF Standing
<1>4. i \in Nat \ {0} /\ i <= n
  BY <1>1
<1>5. CASE i \in P
  <2> DEFINE T == {k \in DOMAIN q : q[k].row # i}
             off == Picked(q, T)
             p == i + 1
             u == Shifted(off, p, -1)
             rows == WithoutRow(st.rows, i)
             f == [k \in S |-> IF k < i THEN k ELSE k - 1]
             P2 == PendingRows(u, "insert")
  <2>1. st2.rows = rows /\ st2.queue = u
    BY <1>5 DEF Flipped, OpsOffRow
  <2>2. T \in SUBSET DOMAIN q /\ off \in Queues
    BY <1>1, PickedType DEF Queues
  <2>3. \A k \in T : q[k].row # i
    OBVIOUS
  <2>4. \A k, c : k # i => FirstEdits(q, k, c) \subseteq T
    BY DEF FirstEdits
  <2>5. \A r : r # i => (r \in {q[k].row : k \in {j \in T : q[j].kind = "insert"}} <=> r \in P)
    BY DEF PendingRows
  <2> HIDE DEF T
  <2>6. /\ \A m \in DOMAIN off : \E k \in T : off[m] = q[k]
        /\ PendingRows(off, "insert") = {q[k].row : k \in {j \in T : q[j].kind = "insert"}}
    BY <1>1, <2>2, PickedPending
  <2>7. \A k, c, d : k # i => OldValue(off, k, c, d) = OldValue(q, k, c, d)
    BY <1>1, <2>2, <2>4, PickedOld
  <2>8. \A m \in DOMAIN off : off[m].row # i /\ off[m].row \in Nat \ {0}
    BY <1>1, <2>2, <2>3, <2>6
  <2> HIDE DEF off
  <2>9. p \in Nat /\ p >= 2 /\ p = i + 1
    BY <1>4
  <2> HIDE DEF p
  <2>10. /\ u \in Queues /\ DOMAIN u = DOMAIN off
         /\ \A k \in DOMAIN off :
              /\ u[k].row = IF off[k].row >= p THEN off[k].row + (-1) ELSE off[k].row
              /\ u[k].kind = off[k].kind /\ u[k].col = off[k].col /\ u[k].old = off[k].old
    BY <2>2, <2>9, ShiftedType
  <2>11. /\ rows \in Grids /\ Len(rows) = n - 1
         /\ \A k \in 1..(n - 1) : rows[k] = IF k < i THEN st.rows[k] ELSE st.rows[k + 1]
    BY <1>1, <1>4, RowTaken
  <2> HIDE DEF u, rows
  <2>12. ASSUME NEW l \in 1..n, l # i, NEW m, m = IF l < i THEN l ELSE l - 1
         PROVE  /\ \A k \in DOMAIN off : u[k].row = m <=> off[k].row = l
                /\ m \in P2 <=> l \in P
    <3>1. \A k \in DOMAIN off : u[k].row = m <=> off[k].row = l
      BY <1>1, <1>4, <2>8, <2>9, <2>10, <2>12
    <3>2. m \in P2 <=> l \in PendingRows(off, "insert")
      BY <2>10, <3>1 DEF PendingRows
    <3>3. QED
      BY <2>5, <2>6, <2>12, <3>1, <3>2
  <2>13. S2 = (1..(n - 1)) \ P2
    BY <2>1, <2>11 DEF Standing
  <2>14. \A k \in S : f[k] = IF k < i THEN k ELSE k - 1
    OBVIOUS
  <2>15. f = [k \in S |-> f[k]]
    OBVIOUS
  <2> HIDE DEF f, P2, S2, S, P, q, st2, n
  <2>16. \A k \in S : k \in 1..n /\ k \notin P /\ k # i
    BY <1>3, <1>5
  <2>17. ASSUME NEW k \in S PROVE f[k] \in S2
    <3>1. f[k] \in 1..(n - 1)
      BY <1>1, <1>4, <2>14, <2>16
    <3>2. f[k] \notin P2
      BY <2>12, <2>14, <2>16
    <3>3. QED
      BY <2>13, <3>1, <3>2
  <2>18. ASSUME NEW l \in S2 PROVE \E k \in S : f[k] = l
    <3>1. l \in 1..(n - 1) /\ l \notin P2
      BY <2>13
    <3> DEFINE k == IF l < i THEN l ELSE l + 1
    <3>2. k \in 1..n /\ k # i /\ l = IF k < i THEN k ELSE k - 1
      BY <1>1, <1>4, <3>1
    <3> HIDE DEF k
    <3>3. k \in S
      BY <1>3, <2>12, <3>1, <3>2
    <3>4. QED
      BY <2>14, <3>2, <3>3
  <2>19. ASSUME NEW k \in S, NEW l \in S, k < l PROVE f[k] < f[l]
    <3>1. k \in 1..n /\ l \in 1..n /\ k # i /\ l # i
      BY <2>16
    <3>2. QED
      BY <1>1, <1>4, <2>14, <2>19, <3>1
  <2>20. InOrder(f, S, S2)
    <3>1. f \in [S -> S2]
      BY <2>15, <2>17
    <3>2. QED
      BY <2>18, <2>19, <3>1 DEF InOrder
  <2>21. ASSUME NEW k \in S
         PROVE  Original(u, f[k], rows[f[k]]) = Original(q, k, st.rows[k])
    <3>1. k \in 1..n /\ k # i
      BY <2>16
    <3>2. rows[f[k]] = st.rows[k] /\ st.rows[k] \in Rows
      <4>1. CASE k < i
        <5>1. f[k] = k /\ k \in 1..(n - 1)
          BY <1>1, <1>4, <2>14, <3>1, <4>1
        <5>2. QED
          BY <1>1, <2>11, <3>1, <4>1, <5>1
      <4>2. CASE ~(k < i)
        <5>1. f[k] = k - 1 /\ k - 1 \in 1..(n - 1) /\ ~(k - 1 < i) /\ (k - 1) + 1 = k
          BY <1>1, <1>4, <2>14, <3>1, <4>2
        <5>2. rows[k - 1] = st.rows[(k - 1) + 1]
          BY <2>11, <5>1
        <5>3. QED
          BY <1>1, <3>1, <5>1, <5>2
      <4>3. QED
        BY <4>1, <4>2
    <3>3. \A j \in DOMAIN off : u[j].row = f[k] <=> off[j].row = k
      BY <2>12, <2>14, <3>1
    <3>4. \A c, d : OldValue(u, f[k], c, d) = OldValue(off, k, c, d)
      BY <2>2, <2>10, <3>3, MovedOld
    <3>5. QED
      BY <2>7, <3>1, <3>2, <3>4, OriginalAlike
  <2>22. QED
    BY <1>2, <2>1, <2>20, <2>21, RewoundAlong DEF S, S2, q, st2
<1>6. CASE i \notin P /\ i \in PendingRows(q, "delete")
  <2> DEFINE T == {k \in DOMAIN q : q[k].kind # "delete" \/ q[k].row # i}
             w == Picked(q, T)
  <2>1. st2.rows = st.rows /\ st2.queue = w
    BY <1>6 DEF Flipped, Restored
  <2>2. T \in SUBSET DOMAIN q
    OBVIOUS
  <2>3. \A k, c : FirstEdits(q, k, c) \subseteq T
    BY DEF FirstEdits
  <2>4. {q[k].row : k \in {j \in T : q[j].kind = "insert"}} = P
    BY DEF PendingRows
  <2> HIDE DEF T
  <2>5. PendingRows(w, "insert") = {q[k].row : k \in {j \in T : q[j].kind = "insert"}}
    BY <1>1, <2>2, PickedPending
  <2>6. \A k, c, d : OldValue(w, k, c, d) = OldValue(q, k, c, d)
    BY <1>1, <2>2, <2>3, PickedOld
  <2> HIDE DEF w, st2, q, P, n
  <2>7. Standing(st2) = Standing(st)
    BY <2>1, <2>4, <2>5 DEF Standing, P, q
  <2>8. ASSUME NEW k \in Standing(st)
        PROVE  Original(w, k, st.rows[k]) = Original(q, k, st.rows[k])
    <3>1. st.rows[k] \in Rows
      BY <1>1, <1>3
    <3>2. QED
      BY <2>6, <3>1, OriginalAlike
  <2>9. Rewound(st2) = Rewound(st)
    BY <1>2, <2>1, <2>7, <2>8, SameStanding DEF q
  <2>10. QED
    BY <2>9 DEF st2
<1>7. CASE i \notin P /\ i \notin PendingRows(q, "delete")
  <2> DEFINE op == DeleteRow(i, st.rows[i])
             w == Append(q, op)
  <2>1. st2.rows = st.rows /\ st2.queue = w
    BY <1>7 DEF Flipped
  <2>2. st.rows[i] \in Rows
    BY <1>1
  <2>3. /\ op \in Ops
        /\ op = [kind |-> "delete", row |-> i, col |-> "val", old |-> 0, new |-> 0,
                 snap |-> st.rows[i]]
    BY <1>4, <2>2, OpTypes DEF Columns
  <2>4. op.kind = "delete"
    BY <2>3
  <2> HIDE DEF op
  <2>a. op \in Ops /\ op.kind # "update" /\ op.kind # "insert" /\ q \in Queues
    BY <1>1, <2>3, <2>4
  <2> HIDE DEF q
  <2>b. PendingRows(w, "insert") = PendingRows(q, "insert") \cup {}
    BY <2>a, AppendedOld
  <2>c. \A k, c, d : OldValue(w, k, c, d) = OldValue(q, k, c, d)
    BY <2>a, AppendedOld
  <2>5. /\ \A k, c, d : OldValue(w, k, c, d) = OldValue(q, k, c, d)
        /\ PendingRows(w, "insert") = P
    BY <2>b, <2>c
  <2> HIDE DEF w, st2, P, n
  <2>6. Standing(st2) = Standing(st)
    BY <2>1, <2>5 DEF Standing, P, q
  <2>7. ASSUME NEW k \in Standing(st)
        PROVE  Original(w, k, st.rows[k]) = Original(q, k, st.rows[k])
    <3>1. st.rows[k] \in Rows
      BY <1>1, <1>3
    <3>2. QED
      BY <2>5, <3>1, OriginalAlike
  <2>8. Rewound(st2) = Rewound(st)
    BY <1>2, <2>1, <2>6, <2>7, SameStanding DEF q
  <2>9. QED
    BY <2>8 DEF st2
<1>8. QED
  BY <1>5, <1>6, <1>7
-----------------------------------------------------------------------------
(* The states that explain the rows l.  No edit leads out of them.         *)
Explains(l) == {st \in States : Rewound(st) = l}

LEMMA ExplainsStable ==
    ASSUME NEW l, NEW strict
    PROVE  Stable(Explains(l), strict)
<1>1. Explains(l) \subseteq States
  BY DEF Explains
<1>2. ASSUME NEW st \in Explains(l), NEW i \in 1..Len(st.rows), NEW col \in Columns,
             NEW v \in Nat \ {Default}
      PROVE  Edited(st, i, col, v) \in Explains(l)
  BY EditType, EditExplains DEF Explains
<1>3. ASSUME NEW st \in Explains(l), NEW new \in Rows PROVE Added(st, new) \in Explains(l)
  BY AddType, AddExplains DEF Explains
<1>4. ASSUME NEW st \in Explains(l), NEW i \in 1..Len(st.rows), NEW new \in Rows
      PROVE  Copied(st, i, new) \in Explains(l)
  BY CopyType, CopyExplains DEF Explains
<1>5. ASSUME NEW st \in Explains(l), NEW i \in 1..Len(st.rows)
      PROVE  Flipped(st, i) \in Explains(l)
  BY FlipType, FlipExplains DEF Explains
<1>6. QED
  BY <1>1, <1>2, <1>3, <1>4, <1>5 DEF Stable

LEMMA StateExplains ==
    ASSUME NEW s, Small(s), s.undo = <<>>, s.redo = <<>>, s.base = s.rows
    PROVE  Known(s, Explains(Rewound(s)))
<1>1. s.rows \in Grids /\ s.queue \in Queues /\ State(s) \in States
  BY SheetFields
<1>2. Rewound(State(s)) = Rewound(s)
  BY DEF Rewound, State
<1>3. State(s) \in Explains(Rewound(s))
  BY <1>1, <1>2 DEF Explains
<1>4. QED
  BY <1>1, <1>3, KnownAlone

(* Every state of the history explains the rows last loaded or saved.      *)
ExplainInv == ~replaced => Known(sheet, Explains(loaded))

LEMMA ExplainNext ==
    ASSUME HistoryInv, ExplainInv, [Next]_vars
    PROVE  ExplainInv'
<1> SUFFICES ASSUME ~replaced'
             PROVE  Known(sheet', Explains(loaded'))
  BY DEF ExplainInv
<1>1. Counted /\ ~replaced /\ ids \in Nat
  BY FlagsStay DEF HistoryInv, Counted
<1>2. /\ Small(sheet) /\ Known(sheet, States) /\ table \in Grids
      /\ sent \in [Saves -> Queues]
  BY <1>1 DEF HistoryInv, TypedInv, JobsTyped, SheetGood
<1> DEFINE G == Explains(loaded)
<1>3. Known(sheet, G)
  BY <1>1 DEF ExplainInv
<1>4. PICK strict : ~strict
  OBVIOUS
<1>5. Stable(G, strict)
  BY ExplainsStable
<1>6. SheetGood(G, strict)
  BY <1>2, <1>3, <1>4 DEF SheetGood
<1>7. ASSUME Known(sheet', G), loaded' = loaded PROVE Known(sheet', Explains(loaded'))
  BY <1>7
<1>8. ASSUME UNCHANGED <<sheet, loaded>> PROVE Known(sheet', Explains(loaded'))
  BY <1>3, <1>8
<1>9. ASSUME Small(sheet'), sheet'.undo = <<>>, sheet'.redo = <<>>,
             sheet'.base = sheet'.rows, loaded' = Rewound(sheet')
      PROVE  Known(sheet', Explains(loaded'))
  BY <1>9, StateExplains
<1>10. ASSUME Small(sheet'), sheet'.undo = <<>>, sheet'.redo = <<>>, sheet'.queue = <<>>,
              sheet'.base = sheet'.rows, loaded' = sheet'.rows
       PROVE  Known(sheet', Explains(loaded'))
  <2>1. sheet'.rows \in Grids
    BY <1>10, SheetFields
  <2>2. Rewound(sheet') = sheet'.rows
    BY <1>10, <2>1, RewoundEmpty
  <2>3. QED
    BY <1>9, <1>10, <2>2
<1> HIDE DEF G
<1>11. CASE StartEdit \/ AddRow \/ DuplicateRow \/ ToggleDelete \/ Undo \/ Redo
  <2>1. Kept(sheet, sheet', G) /\ \E n \in {0, 1} : Edits(sheet', n)
    BY <1>1, <1>5, <1>6, <1>11, UserSteps
  <2>2. loaded' = loaded
    BY <2>1 DEF Edits
  <2>3. QED
    BY <1>7, <2>1, <2>2 DEF Kept
<1>12. CASE FinishEdit
  <2>1. Kept(sheet, sheet', G)
    BY <1>5, <1>6, <1>12, FinishSteps
  <2>2. QED
    BY <1>7, <1>12, <2>1 DEF Kept, FinishEdit
<1>13. CASE Discard
  <2>0. sheet.base \in Grids
    BY <1>2, KnownHere
  <2>1. [rows |-> sheet.base, queue |-> <<>>] \in States
    BY <2>0 DEF States, Queues
  <2>2. /\ Small(sheet') /\ sheet'.queue = <<>> /\ sheet'.undo = <<>> /\ sheet'.redo = <<>>
        /\ sheet'.base = sheet.base /\ sheet'.rows = sheet.base /\ loaded' = sheet.base
    BY <1>2, <1>13, <2>1, DiscardedSheet
  <2>3. QED
    BY <1>10, <2>2
<1>14. CASE Reload
  <2>1. CASE UNCHANGED <<sheet, loaded, replaced>>
    BY <1>8, <2>1
  <2>2. CASE /\ sheet' = [sheet EXCEPT !.rows = table, !.base = table]
             /\ loaded' = table
             /\ replaced' = (replaced \/ ~Pristine)
    <3>1. Pristine
      BY <2>2
    <3>2. [rows |-> table, queue |-> <<>>] \in States
      BY <1>2 DEF States, Queues
    <3>3. /\ Small(sheet') /\ sheet'.queue = <<>> /\ sheet'.undo = <<>>
          /\ sheet'.redo = <<>> /\ sheet'.base = table
      BY <1>2, <2>2, <3>1, <3>2, ReloadedSheet
    <3>4. sheet'.rows = table
      BY <1>2, <2>2 DEF Small, Sheets
    <3>5. QED
      BY <1>10, <2>2, <3>3, <3>4
  <2>3. QED
    BY <1>14, <2>1, <2>2 DEF Reload
<1>15. ASSUME NEW j \in Saves, Save(j) PROVE Known(sheet', Explains(loaded'))
  <2>1. Kept(sheet, sheet', G)
    BY <1>5, <1>6, <1>15, SavedSheet
  <2>2. QED
    BY <1>7, <1>15, <2>1 DEF Kept, Save
<1>16. ASSUME NEW j \in Saves, SaveSteps(j) \/ CancelSave(j) \/ SaveFailed(j)
       PROVE  Known(sheet', Explains(loaded'))
  BY <1>8, <1>16 DEF SaveSteps, CancelSave, SaveFailed, gridVars
<1>17. ASSUME NEW j \in Saves, SaveSucceeded(j) PROVE Known(sheet', Explains(loaded'))
  <2>1. sent[j] \in Queues
    BY <1>2
  <2>2. /\ Small(sheet') /\ sheet'.undo = <<>> /\ sheet'.redo = <<>>
        /\ sheet'.base = sheet'.rows
    BY <1>2, <1>17, <2>1, AnsweredSheet
  <2>3. loaded' = Rewound(sheet')
    BY <1>17 DEF SaveSucceeded
  <2>4. QED
    BY <1>9, <2>2, <2>3
<1>18. CASE UNCHANGED vars
  BY <1>8, <1>18 DEF vars, gridVars
<1>19. QED
  BY <1>11, <1>12, <1>13, <1>14, <1>15, <1>16, <1>17, <1>18 DEF Next

LEMMA InitExplain == Init => ExplainInv
<1> SUFFICES ASSUME Init PROVE ExplainInv
  OBVIOUS
<1>1. FirstRows \in Grids /\ sheet = Loaded(FirstRows) /\ loaded = FirstRows
  BY FirstGrid DEF Init
<1> DEFINE st == [rows |-> FirstRows, queue |-> <<>>]
<1>2. st \in States /\ st.rows = FirstRows /\ st.queue = <<>>
  BY <1>1 DEF States, Queues
<1> HIDE DEF st
<1>3. Rewound(st) = FirstRows
  BY <1>1, <1>2, RewoundEmpty
<1>4. st \in Explains(FirstRows)
  BY <1>2, <1>3 DEF Explains
<1>5. Known(sheet, Explains(FirstRows))
  BY <1>1, <1>4, LoadedKnown DEF st
<1>6. QED
  BY <1>1, <1>5 DEF ExplainInv

(* The queue is the difference between what was loaded or saved and what   *)
(* is shown, whatever is edited, copied, removed, undone, redone, saved,   *)
(* discarded or answered in between, with any number of saves under way:   *)
(* the WHERE a save is made of has the values the rows were loaded with    *)
(* (spreadsheet_build_where_clause).                                       *)
THEOREM QueueExplains == Spec => []QueueExplainsGrid
<1>1. HistoryInv /\ ExplainInv /\ [Next]_vars => ExplainInv'
  BY ExplainNext
<1>2. ExplainInv => QueueExplainsGrid
  <2> SUFFICES ASSUME ExplainInv, ~replaced PROVE Rewound(sheet) = loaded
    BY DEF QueueExplainsGrid
  <2>1. State(sheet) \in Explains(loaded)
    BY KnownHere DEF ExplainInv
  <2>2. Rewound(State(sheet)) = Rewound(sheet)
    BY DEF Rewound, State
  <2>3. QED
    BY <2>1, <2>2 DEF Explains
<1>3. QED
  BY <1>1, <1>2, InitExplain, AlwaysHistory, PTL DEF Spec
-----------------------------------------------------------------------------
(* What Picked picks, in order: p tells where an element was.              *)
Picks(p, s, S) ==
    /\ p \in [1..Cardinality(S) -> S] /\ Cardinality(S) \in Nat
    /\ DOMAIN Picked(s, S) = 1..Cardinality(S)
    /\ \A l, m \in 1..Cardinality(S) : /\ l < m <=> p[l] < p[m]
                                       /\ p[l] = p[m] => l = m
    /\ \A k \in S : \E m \in 1..Cardinality(S) : p[m] = k
    /\ \A m \in 1..Cardinality(S) : Picked(s, S)[m] = s[p[m]]

LEMMA PickedMap ==
    ASSUME NEW n \in Nat, NEW S \in SUBSET (1..n), NEW s
    PROVE  \E p : Picks(p, s, S)
<1> DEFINE c == Cardinality(S)
           p == [m \in 1..c |-> CHOOSE k \in S : Rank(S, k) = m - 1]
<1>1. /\ c \in Nat /\ DOMAIN Picked(s, S) = 1..c
      /\ \A k \in S : /\ Rank(S, k) \in Nat /\ Rank(S, k) + 1 \in 1..c
                      /\ Picked(s, S)[Rank(S, k) + 1] = s[k]
  BY PickedPlaces, RankType
<1>2. \A m \in 1..c : p[m] \in S /\ Rank(S, p[m]) = m - 1
  BY RankTaken
<1>3. p = [m \in 1..c |-> p[m]]
  OBVIOUS
<1> HIDE DEF p
<1>4. p \in [1..c -> S]
  BY <1>2, <1>3
<1>5. ASSUME NEW k \in S, NEW l \in S PROVE /\ k < l => Rank(S, k) < Rank(S, l)
                                            /\ Rank(S, k) = Rank(S, l) => k = l
                                            /\ Rank(S, k) < Rank(S, l) => k < l
  <2>1. k \in 1..(n + 1) /\ l \in 1..(n + 1) /\ Rank(S, k) \in Nat /\ Rank(S, l) \in Nat
    BY <1>1
  <2>2. (k < l => Rank(S, k) < Rank(S, l)) /\ (l < k => Rank(S, l) < Rank(S, k))
    BY <2>1, RankRises
  <2>3. k < l \/ k = l \/ l < k
    BY <2>1
  <2>4. QED
    BY <2>1, <2>2, <2>3
<1>7. ASSUME NEW l \in 1..c, NEW m \in 1..c
      PROVE  /\ l < m <=> p[l] < p[m]
             /\ p[l] = p[m] => l = m
  <2>1. /\ p[l] \in S /\ Rank(S, p[l]) = l - 1
        /\ p[m] \in S /\ Rank(S, p[m]) = m - 1
    BY <1>2
  <2>2. l \in Nat /\ m \in Nat
    BY <1>1
  <2>3. p[l] < p[m] <=> Rank(S, p[l]) < Rank(S, p[m])
    BY <1>5, <2>1
  <2>4. p[l] = p[m] => Rank(S, p[l]) = Rank(S, p[m])
    OBVIOUS
  <2>5. QED
    BY <2>1, <2>2, <2>3, <2>4
<1>9. ASSUME NEW k \in S PROVE \E m \in 1..c : p[m] = k
  <2> DEFINE m == Rank(S, k) + 1
  <2>1. m \in 1..c /\ m - 1 = Rank(S, k)
    BY <1>1
  <2> HIDE DEF m
  <2>2. p[m] \in S /\ Rank(S, p[m]) = Rank(S, k)
    BY <1>2, <2>1
  <2>3. p[m] = k
    BY <1>5, <2>2
  <2>4. QED
    BY <2>1, <2>3
<1>10. ASSUME NEW m \in 1..c PROVE Picked(s, S)[m] = s[p[m]]
  <2>1. Rank(S, p[m]) + 1 = m /\ p[m] \in S
    BY <1>1, <1>2
  <2>2. QED
    BY <1>1, <2>1
<1> HIDE DEF c
<1>11. QED
  BY <1>1, <1>4, <1>7, <1>9, <1>10 DEF c, Picks
-----------------------------------------------------------------------------
(* What the operations of a queue say of the rows.  A new row has no other *)
(* operation, and a row is marked for deletion once.  Any other operation  *)
(* knows its row but for columns edited, and the last edit of a column is  *)
(* what the row shows; none types DEFAULT.                                 *)
NewAlone(queue) ==
    \A k, l \in DOMAIN queue :
        queue[k].kind = "insert" /\ queue[l].row = queue[k].row => l = k
OneDelete(queue) ==
    \A k, l \in DOMAIN queue :
        queue[k].kind = "delete" /\ queue[l].kind = "delete" /\ queue[l].row = queue[k].row
           => l = k
KnowsRow(rows, queue) ==
    \A k \in DOMAIN queue : \A col \in Columns :
        queue[k].kind # "insert" =>
           \/ queue[k].snap[col] = rows[queue[k].row][col]
           \/ FirstEdits(queue, queue[k].row, col) # {}
LastIsShown(rows, queue) ==
    \A k \in DOMAIN queue :
        queue[k].kind = "update" =>
           /\ queue[k].new # Default
           /\ \/ queue[k].new = rows[queue[k].row][queue[k].col]
              \/ \E l \in FirstEdits(queue, queue[k].row, queue[k].col) : k < l
Truthful(rows, queue) == /\ NewAlone(queue) /\ OneDelete(queue)
                         /\ KnowsRow(rows, queue) /\ LastIsShown(rows, queue)
Honest == {st \in Homely(FALSE) : Truthful(st.rows, st.queue)}

LEMMA HonestMade ==
    ASSUME NEW st \in Homely(FALSE), NEW rows, NEW queue,
           st = [rows |-> rows, queue |-> queue], Truthful(rows, queue)
    PROVE  st \in Honest
<1>1. st.rows = rows /\ st.queue = queue
  OBVIOUS
<1>2. Truthful(st.rows, st.queue)
  BY <1>1
<1>3. QED
  BY <1>2 DEF Honest

(* Operations less or rows moved: p tells where an operation was.          *)
Moved(rows, q, rows2, q2, p) ==
    /\ p \in [DOMAIN q2 -> DOMAIN q]
    /\ \A l, m \in DOMAIN q2 :
          /\ p[l] = p[m] => l = m
          /\ p[l] < p[m] => l < m
          /\ q2[l].row = q2[m].row <=> q[p[l]].row = q[p[m]].row
    /\ \A m \in DOMAIN q2 :
          /\ q2[m].kind = q[p[m]].kind /\ q2[m].col = q[p[m]].col /\ q2[m].new = q[p[m]].new
          /\ q2[m].kind # "insert" => /\ q2[m].snap = q[p[m]].snap
                                     /\ rows2[q2[m].row] = rows[q[p[m]].row]
          /\ \A k \in DOMAIN q : q[k].kind = "update" /\ q[k].row = q[p[m]].row
                                    => \E l \in DOMAIN q2 : p[l] = k

LEMMA MovedTruth ==
    ASSUME NEW rows, NEW rows2, NEW q \in Queues, NEW q2 \in Queues, NEW p,
           Truthful(rows, q), Moved(rows, q, rows2, q2, p)
    PROVE  Truthful(rows2, q2)
<1>1. NewAlone(q) /\ OneDelete(q) /\ KnowsRow(rows, q) /\ LastIsShown(rows, q)
  BY DEF Truthful
<1>0. /\ p \in [DOMAIN q2 -> DOMAIN q]
      /\ \A l, m \in DOMAIN q2 :
            /\ p[l] = p[m] => l = m
            /\ p[l] < p[m] => l < m
            /\ q2[l].row = q2[m].row <=> q[p[l]].row = q[p[m]].row
      /\ \A m \in DOMAIN q2 :
            /\ p[m] \in DOMAIN q
            /\ q2[m].kind = q[p[m]].kind /\ q2[m].col = q[p[m]].col /\ q2[m].new = q[p[m]].new
            /\ q2[m].kind # "insert" => /\ q2[m].snap = q[p[m]].snap
                                       /\ rows2[q2[m].row] = rows[q[p[m]].row]
            /\ \A k \in DOMAIN q : q[k].kind = "update" /\ q[k].row = q[p[m]].row
                                      => \E l \in DOMAIN q2 : p[l] = k
  BY DEF Moved
<1>2. NewAlone(q2)
  BY <1>0, <1>1 DEF NewAlone
<1>3. OneDelete(q2)
  BY <1>0, <1>1 DEF OneDelete
<1>4. ASSUME NEW m \in DOMAIN q2, NEW col, NEW k \in FirstEdits(q, q[p[m]].row, col)
      PROVE  \E l \in FirstEdits(q2, q2[m].row, col) : p[l] = k
  <2>1. k \in DOMAIN q /\ q[k].kind = "update" /\ q[k].row = q[p[m]].row /\ q[k].col = col
    BY DEF FirstEdits
  <2>2. PICK l \in DOMAIN q2 : p[l] = k
    BY <1>0, <2>1
  <2>3. q2[l].row = q2[m].row /\ q2[l].kind = "update" /\ q2[l].col = col
    BY <1>0, <2>1, <2>2
  <2>4. QED
    BY <2>2, <2>3 DEF FirstEdits
<1>5. KnowsRow(rows2, q2)
  <2> SUFFICES ASSUME NEW m \in DOMAIN q2, NEW col \in Columns, q2[m].kind # "insert"
               PROVE  \/ q2[m].snap[col] = rows2[q2[m].row][col]
                      \/ FirstEdits(q2, q2[m].row, col) # {}
    BY DEF KnowsRow
  <2>1. p[m] \in DOMAIN q /\ q[p[m]].kind # "insert"
    BY <1>0
  <2>2. \/ q[p[m]].snap[col] = rows[q[p[m]].row][col]
        \/ FirstEdits(q, q[p[m]].row, col) # {}
    BY <1>1, <2>1 DEF KnowsRow
  <2>3. QED
    BY <1>0, <1>4, <2>1, <2>2
<1>6. LastIsShown(rows2, q2)
  <2> SUFFICES ASSUME NEW m \in DOMAIN q2, q2[m].kind = "update"
               PROVE  /\ q2[m].new # Default
                      /\ \/ q2[m].new = rows2[q2[m].row][q2[m].col]
                         \/ \E l \in FirstEdits(q2, q2[m].row, q2[m].col) : m < l
    BY DEF LastIsShown
  <2>1. p[m] \in DOMAIN q /\ q[p[m]].kind = "update"
    BY <1>0
  <2>2. /\ q[p[m]].new # Default
        /\ \/ q[p[m]].new = rows[q[p[m]].row][q[p[m]].col]
           \/ \E k \in FirstEdits(q, q[p[m]].row, q[p[m]].col) : p[m] < k
    BY <1>1, <2>1 DEF LastIsShown
  <2>3. rows2[q2[m].row] = rows[q[p[m]].row] /\ q2[m].new = q[p[m]].new /\ q2[m].col = q[p[m]].col
    BY <1>0
  <2>4. ASSUME NEW k \in FirstEdits(q, q[p[m]].row, q[p[m]].col), p[m] < k
        PROVE  \E l \in FirstEdits(q2, q2[m].row, q2[m].col) : m < l
    <3>1. PICK l \in FirstEdits(q2, q2[m].row, q[p[m]].col) : p[l] = k
      BY <1>4
    <3>2. l \in DOMAIN q2
      BY DEF FirstEdits
    <3>3. p[m] < p[l]
      BY <2>4, <3>1
    <3>4. m < l
      BY <1>0, <3>2, <3>3
    <3>5. QED
      BY <2>3, <3>1, <3>4
  <2>5. QED
    BY <2>2, <2>3, <2>4
<1>7. QED
  BY <1>2, <1>3, <1>5, <1>6 DEF Truthful

(* An operation more; an edit changes its cell.                            *)
LEMMA AppendTruth ==
    ASSUME NEW rows, NEW rows2, NEW q \in Queues, NEW op \in Ops, Truthful(rows, q),
           \A k \in DOMAIN q :
              q[k].row = op.row => op.kind # "insert" /\ q[k].kind # "insert",
           op.kind = "delete" => op.row \notin PendingRows(q, "delete"),
           \A k \in DOMAIN q, col \in Columns :
              \/ rows2[q[k].row][col] = rows[q[k].row][col]
              \/ op.kind = "update" /\ op.row = q[k].row /\ op.col = col,
           op.kind # "insert" =>
              \A col \in Columns : \/ op.snap[col] = rows2[op.row][col]
                                   \/ op.kind = "update" /\ op.col = col,
           op.kind = "update" => op.new # Default /\ op.new = rows2[op.row][op.col]
    PROVE  Truthful(rows2, Append(q, op))
<1> DEFINE w == Append(q, op)
           n == Len(q)
           z == n + 1
<1>1. /\ NewAlone(q) /\ OneDelete(q) /\ KnowsRow(rows, q) /\ LastIsShown(rows, q)
      /\ n \in Nat /\ DOMAIN q = 1..n /\ q \in Seq(Ops) /\ \A k \in DOMAIN q : q[k] \in Ops
  BY QueueTypes DEF Truthful
<1>2. w \in Seq(Ops) /\ Len(w) = n + 1 /\ w[n + 1] = op /\ \A k \in 1..n : w[k] = q[k]
  BY <1>1, AppendProperties
<1>3. /\ DOMAIN w = (1..n) \cup {z} /\ z \notin 1..n /\ w[z] = op /\ \A k \in 1..n : k < z
      /\ \A k \in DOMAIN w : k \in 1..n \/ k = z
  BY <1>1, <1>2, LenProperties
<1> HIDE DEF w, z, n
<1>4. ASSUME NEW i, NEW col
      PROVE  /\ FirstEdits(q, i, col) \subseteq FirstEdits(w, i, col)
             /\ op.kind = "update" /\ op.row = i /\ op.col = col => z \in FirstEdits(w, i, col)
  BY <1>1, <1>2, <1>3 DEF FirstEdits
<1>5. NewAlone(w)
  <2> SUFFICES ASSUME NEW k \in DOMAIN w, NEW l \in DOMAIN w, w[k].kind = "insert",
                      w[l].row = w[k].row
               PROVE  l = k
    BY DEF NewAlone
  <2>1. CASE k \in 1..n /\ l \in 1..n
    BY <1>1, <1>2, <2>1 DEF NewAlone
  <2>2. CASE k \in 1..n /\ l = z
    BY <1>1, <1>2, <1>3, <2>2
  <2>3. CASE k = z /\ l \in 1..n
    BY <1>1, <1>2, <1>3, <2>3
  <2>4. QED
    BY <1>3, <2>1, <2>2, <2>3
<1>6. OneDelete(w)
  <2> SUFFICES ASSUME NEW k \in DOMAIN w, NEW l \in DOMAIN w, w[k].kind = "delete",
                      w[l].kind = "delete", w[l].row = w[k].row
               PROVE  l = k
    BY DEF OneDelete
  <2>0. \A m \in 1..n : q[m].kind = "delete" => q[m].row \in PendingRows(q, "delete")
    BY <1>1 DEF PendingRows
  <2>1. CASE k \in 1..n /\ l \in 1..n
    BY <1>1, <1>2, <2>1 DEF OneDelete
  <2>2. CASE k \in 1..n /\ l = z
    BY <1>1, <1>2, <1>3, <2>0, <2>2
  <2>3. CASE k = z /\ l \in 1..n
    BY <1>1, <1>2, <1>3, <2>0, <2>3
  <2>4. QED
    BY <1>3, <2>1, <2>2, <2>3
<1>7. KnowsRow(rows2, w)
  <2> SUFFICES ASSUME NEW k \in DOMAIN w, NEW col \in Columns, w[k].kind # "insert"
               PROVE  \/ w[k].snap[col] = rows2[w[k].row][col]
                      \/ FirstEdits(w, w[k].row, col) # {}
    BY DEF KnowsRow
  <2>1. CASE k \in 1..n
    <3>1. w[k] = q[k] /\ k \in DOMAIN q
      BY <1>1, <1>2, <2>1
    <3>2. \/ q[k].snap[col] = rows[q[k].row][col]
          \/ FirstEdits(q, q[k].row, col) # {}
      BY <1>1, <3>1 DEF KnowsRow
    <3>3. \/ rows2[q[k].row][col] = rows[q[k].row][col]
          \/ op.kind = "update" /\ op.row = q[k].row /\ op.col = col
      BY <3>1
    <3>4. QED
      BY <1>4, <3>1, <3>2, <3>3
  <2>2. CASE k = z
    BY <1>3, <1>4, <2>2
  <2>3. QED
    BY <1>3, <2>1, <2>2
<1>8. LastIsShown(rows2, w)
  <2> SUFFICES ASSUME NEW k \in DOMAIN w, w[k].kind = "update"
               PROVE  /\ w[k].new # Default
                      /\ \/ w[k].new = rows2[w[k].row][w[k].col]
                         \/ \E l \in FirstEdits(w, w[k].row, w[k].col) : k < l
    BY DEF LastIsShown
  <2>1. CASE k \in 1..n
    <3>1. w[k] = q[k] /\ k \in DOMAIN q /\ k < z /\ q[k].col \in Columns
      BY <1>1, <1>2, <1>3, <2>1 DEF Ops
    <3>2. /\ q[k].new # Default
          /\ \/ q[k].new = rows[q[k].row][q[k].col]
             \/ \E l \in FirstEdits(q, q[k].row, q[k].col) : k < l
      BY <1>1, <3>1 DEF LastIsShown
    <3>3. \/ rows2[q[k].row][q[k].col] = rows[q[k].row][q[k].col]
          \/ op.kind = "update" /\ op.row = q[k].row /\ op.col = q[k].col
      BY <3>1
    <3>4. QED
      BY <1>4, <3>1, <3>2, <3>3
  <2>2. CASE k = z
    BY <1>3, <2>2
  <2>3. QED
    BY <1>3, <2>1, <2>2
<1>9. QED
  BY <1>5, <1>6, <1>7, <1>8 DEF Truthful, w
-----------------------------------------------------------------------------
(* Every operation of the user keeps the queue truthful.                   *)
LEMMA EditHonest ==
    ASSUME NEW st \in Honest, NEW i \in 1..Len(st.rows), NEW col \in Columns,
           NEW v \in Nat \ {Default}
    PROVE  Edited(st, i, col, v) \in Honest
<1>1. /\ st \in Homely(FALSE) /\ Truthful(st.rows, st.queue)
      /\ st \in States /\ st.rows \in Grids /\ st.queue \in Queues
      /\ DOMAIN st.rows = 1..Len(st.rows) /\ HomeIn(st.rows, st.queue)
  BY HomelyParts DEF Honest
<1> DEFINE rows == WithCell(st.rows, i, col, v)
           queue == QueueAfterEdit(st, i, col, v)
           op == Update(i, col, st.rows[i][col], v, st.rows[i])
<1>2. /\ \A k \in 1..Len(st.rows) : k # i => rows[k] = st.rows[k]
      /\ rows[i] = [st.rows[i] EXCEPT ![col] = v]
  BY <1>1, CellTakes
<1>3. st.rows[i] \in Rows
  BY <1>1, GridTypes
<1>4. /\ rows[i][col] = v
      /\ \A c \in Columns : c # col => rows[i][c] = st.rows[i][c]
  BY <1>2, <1>3 DEF Rows, Columns
<1>5. /\ Edited(st, i, col, v) \in Homely(FALSE)
      /\ Edited(st, i, col, v) = [rows |-> rows, queue |-> queue]
  BY <1>1, EditHome DEF Edited
<1>6. queue \in Queues
  BY <1>1, EditType DEF Edited, States
<1>7. \A k \in DOMAIN st.queue : st.queue[k].row \in 1..Len(st.rows) /\ st.queue[k] \in Ops
  BY <1>1, QueueTypes DEF HomeIn
<1>8. \/ \E k \in DOMAIN st.queue : /\ st.queue[k].kind = "insert" /\ st.queue[k].row = i
                                    /\ queue = Retyped(st.queue, k, col, v)
      \/ /\ \A k \in DOMAIN st.queue : ~(st.queue[k].kind = "insert" /\ st.queue[k].row = i)
         /\ queue = Append(st.queue, op)
  BY <1>1, EditOfQueue
<1>9. op \in Ops /\ op.kind = "update" /\ op.row = i /\ op.col = col /\ op.new = v
                 /\ op.snap = st.rows[i]
  <2>1. i \in Nat \ {0} /\ st.rows[i][col] \in Nat
    BY <1>1, <1>3, GridTypes DEF Rows, Columns
  <2>2. QED
    BY <1>3, <2>1, OpTypes DEF Update
<1> HIDE DEF rows, queue, op
<1>10. ASSUME NEW k \in DOMAIN st.queue, st.queue[k].kind = "insert", st.queue[k].row = i,
              queue = Retyped(st.queue, k, col, v)
       PROVE  Truthful(rows, queue)
  <2>1. DOMAIN queue = DOMAIN st.queue
    BY <1>10 DEF Retyped
  <2>2. ASSUME NEW l \in DOMAIN queue
        PROVE  /\ queue[l].kind = st.queue[l].kind /\ queue[l].row = st.queue[l].row
               /\ queue[l].col = st.queue[l].col /\ queue[l].new = st.queue[l].new
               /\ l # k => queue[l].snap = st.queue[l].snap
    <3> DEFINE o == st.queue[l]
    <3>1. o \in Ops
      BY <1>7, <2>1
    <3>2. queue[l] = o \/ (l = k /\ queue[l] = [o EXCEPT !.snap[col] = v])
      BY <1>10, <2>1 DEF Retyped
    <3> HIDE DEF o
    <3>3. CASE l = k /\ queue[l] = [o EXCEPT !.snap[col] = v]
      BY <3>1, <3>3 DEF Ops, Rows, Columns, o
    <3>4. CASE queue[l] = o
      BY <3>4 DEF o
    <3>5. QED
      BY <3>2, <3>3, <3>4
  <2>3. \A l \in DOMAIN queue : st.queue[l].row = i => l = k
    BY <1>1, <1>10, <2>1 DEF Truthful, NewAlone
  <2>4. \A l \in DOMAIN queue : queue[l].kind # "insert" =>
           queue[l].snap = st.queue[l].snap /\ rows[queue[l].row] = st.rows[st.queue[l].row]
    BY <1>2, <1>7, <1>10, <2>1, <2>2, <2>3
  <2> DEFINE p == [l \in DOMAIN queue |-> l]
  <2>5. p \in [DOMAIN queue -> DOMAIN st.queue] /\ \A l \in DOMAIN queue : p[l] = l
    BY <2>1
  <2> HIDE DEF p
  <2>6. Moved(st.rows, st.queue, rows, queue, p)
    BY <2>1, <2>2, <2>4, <2>5 DEF Moved
  <2>7. QED
    BY <1>1, <1>6, <2>6, MovedTruth
<1>11. ASSUME \A k \in DOMAIN st.queue : ~(st.queue[k].kind = "insert" /\ st.queue[k].row = i),
              queue = Append(st.queue, op)
       PROVE  Truthful(rows, queue)
  <2>1. \A k \in DOMAIN st.queue :
           st.queue[k].row = op.row => op.kind # "insert" /\ st.queue[k].kind # "insert"
    BY <1>9, <1>11
  <2>2. \A k \in DOMAIN st.queue, c \in Columns :
           \/ rows[st.queue[k].row][c] = st.rows[st.queue[k].row][c]
           \/ op.kind = "update" /\ op.row = st.queue[k].row /\ op.col = c
    BY <1>2, <1>4, <1>7, <1>9
  <2>3. \A c \in Columns : op.snap[c] = rows[op.row][c] \/ (op.kind = "update" /\ op.col = c)
    BY <1>4, <1>9
  <2>4. op.new # Default /\ op.new = rows[op.row][op.col] /\ op.kind # "delete"
    BY <1>4, <1>9
  <2>5. QED
    BY <1>1, <1>9, <1>11, <2>1, <2>2, <2>3, <2>4, AppendTruth
<1>12. Truthful(rows, queue)
  BY <1>8, <1>10, <1>11
<1>13. QED
  BY <1>5, <1>12, HonestMade

LEMMA AddHonest ==
    ASSUME NEW st \in Honest, NEW new \in Rows
    PROVE  Added(st, new) \in Honest
<1>1. /\ st \in Homely(FALSE) /\ Truthful(st.rows, st.queue)
      /\ st.rows \in Grids /\ st.queue \in Queues
      /\ Len(st.rows) \in Nat /\ DOMAIN st.rows = 1..Len(st.rows)
      /\ HomeIn(st.rows, st.queue)
  BY HomelyParts DEF Honest
<1> DEFINE i == Len(st.rows) + 1
           rows == WithRow(st.rows, i, new)
           op == InsertRow(i, new)
           queue == Append(st.queue, op)
<1>2. i \in Nat \ {0} /\ i <= Len(st.rows) + 1 /\ i = Len(st.rows) + 1
  BY <1>1
<1>3. /\ Added(st, new) \in Homely(FALSE)
      /\ Added(st, new) = [rows |-> rows, queue |-> queue]
  BY <1>1, AddHome DEF Added
<1> HIDE DEF i
<1>4. /\ rows \in Grids /\ Len(rows) = Len(st.rows) + 1
      /\ \A k \in 1..(Len(st.rows) + 1) :
            rows[k] = IF k < i THEN st.rows[k] ELSE IF k = i THEN new ELSE st.rows[k - 1]
  <2>1. st.rows \in Grids /\ i \in Nat \ {0} /\ i <= Len(st.rows) + 1
    BY <1>1, <1>2
  <2>2. QED
    BY <2>1, RowPutIn
<1> HIDE DEF rows
<1>5. \A k \in 1..Len(st.rows) : rows[k] = st.rows[k] /\ k # i
  BY <1>1, <1>2, <1>4
<1>6. op \in Ops /\ op.row = i /\ op.kind = "insert"
  BY <1>2, OpTypes DEF InsertRow, Columns
<1> HIDE DEF op
<1>7. \A k \in DOMAIN st.queue : st.queue[k].row \in 1..Len(st.rows)
  BY <1>1 DEF HomeIn
<1>8. Truthful(rows, queue)
  BY <1>1, <1>5, <1>6, <1>7, AppendTruth
<1> HIDE DEF queue
<1>9. QED
  BY <1>3, <1>8, HonestMade

LEMMA CopyHonest ==
    ASSUME NEW st \in Honest, NEW i \in 1..Len(st.rows), NEW new \in Rows
    PROVE  Copied(st, i, new) \in Honest
<1>1. /\ st \in Homely(FALSE) /\ Truthful(st.rows, st.queue)
      /\ st.rows \in Grids /\ st.queue \in Queues
      /\ Len(st.rows) \in Nat /\ DOMAIN st.rows = 1..Len(st.rows)
      /\ HomeIn(st.rows, st.queue)
  BY HomelyParts DEF Honest
<1> DEFINE z == i + 1
           rows == WithRow(st.rows, z, new)
           up == Shifted(st.queue, z, 1)
           op == InsertRow(z, new)
           queue == Append(up, op)
<1>2. z \in Nat \ {0} /\ z \in Nat /\ z >= 2 /\ z <= Len(st.rows) + 1 /\ z = i + 1
  BY <1>1
<1>3. /\ Copied(st, i, new) \in Homely(FALSE)
      /\ Copied(st, i, new) = [rows |-> rows, queue |-> queue]
  BY <1>1, CopyHome DEF Copied
<1> HIDE DEF z
<1>4. /\ rows \in Grids /\ Len(rows) = Len(st.rows) + 1
      /\ \A k \in 1..(Len(st.rows) + 1) :
            rows[k] = IF k < z THEN st.rows[k] ELSE IF k = z THEN new ELSE st.rows[k - 1]
  BY <1>1, <1>2, RowPutIn
<1>5. /\ up \in Queues /\ DOMAIN up = DOMAIN st.queue
      /\ \A k \in DOMAIN st.queue :
            /\ up[k].row = IF st.queue[k].row >= z THEN st.queue[k].row + 1 ELSE st.queue[k].row
            /\ up[k].kind = st.queue[k].kind /\ up[k].col = st.queue[k].col
            /\ up[k].new = st.queue[k].new /\ up[k].snap = st.queue[k].snap
  BY <1>1, <1>2, ShiftedType
<1>6. op \in Ops /\ op.row = z /\ op.kind = "insert"
  BY <1>2, OpTypes DEF InsertRow, Columns
<1> HIDE DEF rows, up, op
<1>7. \A k \in DOMAIN st.queue : st.queue[k].row \in 1..Len(st.rows)
  BY <1>1 DEF HomeIn
<1>8. \A k \in DOMAIN up : rows[up[k].row] = st.rows[st.queue[k].row] /\ up[k].row # z
  <2> SUFFICES ASSUME NEW k \in DOMAIN up
               PROVE  rows[up[k].row] = st.rows[st.queue[k].row] /\ up[k].row # z
    OBVIOUS
  <2> DEFINE r == st.queue[k].row
             r2 == up[k].row
  <2>1. r \in 1..Len(st.rows) /\ r2 = IF r >= z THEN r + 1 ELSE r
    BY <1>5, <1>7
  <2> HIDE DEF r, r2
  <2>2. ASSUME r >= z PROVE rows[r2] = st.rows[r] /\ r2 # z
    <3>1. r2 = r + 1 /\ r + 1 \in 1..(Len(st.rows) + 1) /\ ~(r + 1 < z) /\ r + 1 # z
      BY <1>1, <1>2, <2>1, <2>2
    <3>2. rows[r2] = st.rows[r2 - 1] /\ r2 - 1 = r
      BY <1>1, <1>4, <2>1, <3>1
    <3>3. QED
      BY <3>1, <3>2
  <2>3. ASSUME ~(r >= z) PROVE rows[r2] = st.rows[r] /\ r2 # z
    BY <1>1, <1>2, <1>4, <2>1, <2>3
  <2>4. QED
    BY <2>2, <2>3 DEF r, r2
<1>9. \A k, l \in DOMAIN up : up[k].row = up[l].row <=> st.queue[k].row = st.queue[l].row
  <2> SUFFICES ASSUME NEW k \in DOMAIN up, NEW l \in DOMAIN up
               PROVE  up[k].row = up[l].row <=> st.queue[k].row = st.queue[l].row
    OBVIOUS
  <2>1. /\ st.queue[k].row \in Nat /\ st.queue[l].row \in Nat
        /\ up[k].row = IF st.queue[k].row >= z THEN st.queue[k].row + 1 ELSE st.queue[k].row
        /\ up[l].row = IF st.queue[l].row >= z THEN st.queue[l].row + 1 ELSE st.queue[l].row
    BY <1>1, <1>5, <1>7
  <2>2. QED
    BY <1>2, <2>1
<1>10. Truthful(rows, up)
  <2> DEFINE p == [l \in DOMAIN up |-> l]
  <2>1. p \in [DOMAIN up -> DOMAIN st.queue] /\ \A l \in DOMAIN up : p[l] = l
    BY <1>5
  <2> HIDE DEF p
  <2>2. Moved(st.rows, st.queue, rows, up, p)
    BY <1>5, <1>8, <1>9, <2>1 DEF Moved
  <2>3. QED
    BY <1>1, <1>5, <2>2, MovedTruth
<1>11. Truthful(rows, queue)
  BY <1>5, <1>6, <1>8, <1>10, AppendTruth
<1> HIDE DEF queue
<1>12. QED
  BY <1>3, <1>11, HonestMade

(* Operations taken off the queue, with all edits of the rows they leave.  *)
LEMMA PickedTruth ==
    ASSUME NEW rows, NEW q \in Queues, NEW S \in SUBSET DOMAIN q, Truthful(rows, q),
           \A k \in S, l \in DOMAIN q :
              q[l].row = q[k].row /\ q[l].kind = "update" => l \in S
    PROVE  /\ Picked(q, S) \in Queues /\ Truthful(rows, Picked(q, S))
           /\ \A m \in DOMAIN Picked(q, S) : \E k \in S : Picked(q, S)[m] = q[k]
<1> DEFINE q2 == Picked(q, S)
<1>1. Len(q) \in Nat /\ DOMAIN q = 1..Len(q) /\ q \in Seq(Ops)
  BY QueueTypes
<1>2. q2 \in Queues
  BY <1>1, PickedType DEF Queues
<1>3. S \in SUBSET (1..Len(q))
  BY <1>1
<1>4. PICK p : Picks(p, q, S)
  BY <1>1, <1>3, PickedMap
<1> HIDE DEF q2
<1>5. /\ p \in [DOMAIN q2 -> DOMAIN q] /\ \A m \in DOMAIN q2 : p[m] \in S /\ q2[m] = q[p[m]]
      /\ \A l, m \in DOMAIN q2 : /\ p[l] < p[m] => l < m
                                 /\ p[l] = p[m] => l = m
      /\ \A k \in S : \E m \in DOMAIN q2 : p[m] = k
  BY <1>4 DEF Picks, q2
<1>6. \A m \in DOMAIN q2, k \in DOMAIN q :
         q[k].kind = "update" /\ q[k].row = q[p[m]].row => \E l \in DOMAIN q2 : p[l] = k
  BY <1>5
<1>7. Moved(rows, q, rows, q2, p)
  BY <1>5, <1>6 DEF Moved
<1>8. Truthful(rows, q2)
  BY <1>2, <1>7, MovedTruth
<1>9. QED
  BY <1>2, <1>5, <1>8 DEF q2

LEMMA FlipHonest ==
    ASSUME NEW st \in Honest, NEW i \in 1..Len(st.rows)
    PROVE  Flipped(st, i) \in Honest
<1>1. /\ st \in Homely(FALSE) /\ Truthful(st.rows, st.queue)
      /\ st.rows \in Grids /\ st.queue \in Queues
      /\ Len(st.rows) \in Nat /\ DOMAIN st.rows = 1..Len(st.rows)
      /\ HomeIn(st.rows, st.queue)
  BY HomelyParts DEF Honest
<1>2. Flipped(st, i) \in Homely(FALSE)
  BY <1>1, FlipHome
<1>3. \A k \in DOMAIN st.queue : st.queue[k].row \in 1..Len(st.rows)
  BY <1>1 DEF HomeIn
<1>4. CASE i \in PendingRows(st.queue, "insert")
  <2> DEFINE off == OpsOffRow(st.queue, i)
             S == {k \in DOMAIN st.queue : st.queue[k].row # i}
             rows == WithoutRow(st.rows, i)
             queue == Shifted(off, i + 1, -1)
  <2>1. Flipped(st, i) = [rows |-> rows, queue |-> queue]
    BY <1>4 DEF Flipped
  <2>2. S \in SUBSET DOMAIN st.queue /\ off = Picked(st.queue, S)
    BY DEF OpsOffRow
  <2>3. \A k \in S, l \in DOMAIN st.queue :
           st.queue[l].row = st.queue[k].row /\ st.queue[l].kind = "update" => l \in S
    OBVIOUS
  <2>4. \A k \in S : st.queue[k].row # i /\ st.queue[k].row \in 1..Len(st.rows)
    BY <1>3
  <2> HIDE DEF S, off
  <2>5. /\ off \in Queues /\ Truthful(st.rows, off)
        /\ \A m \in DOMAIN off : \E k \in S : off[m] = st.queue[k]
    BY <1>1, <2>2, <2>3, PickedTruth
  <2>6. \A m \in DOMAIN off : off[m].row # i /\ off[m].row \in 1..Len(st.rows)
    BY <2>4, <2>5
  <2>7. i + 1 \in Nat /\ i + 1 >= 2 /\ -1 \in {1, -1} /\ i \in Nat \ {0} /\ i <= Len(st.rows)
    BY <1>1
  <2>8. /\ queue \in Queues /\ DOMAIN queue = DOMAIN off
        /\ \A k \in DOMAIN off :
              /\ queue[k].row = IF off[k].row >= i + 1 THEN off[k].row + (-1) ELSE off[k].row
              /\ queue[k].kind = off[k].kind /\ queue[k].col = off[k].col
              /\ queue[k].new = off[k].new /\ queue[k].snap = off[k].snap
    BY <2>5, <2>7, ShiftedType
  <2>9. \A k \in 1..(Len(st.rows) - 1) :
           rows[k] = IF k < i THEN st.rows[k] ELSE st.rows[k + 1]
    BY <1>1, <2>7, RowTaken
  <2> HIDE DEF rows, queue
  <2>10. \A k \in DOMAIN queue : rows[queue[k].row] = st.rows[off[k].row]
    <3> SUFFICES ASSUME NEW k \in DOMAIN queue
                 PROVE  rows[queue[k].row] = st.rows[off[k].row]
      OBVIOUS
    <3> DEFINE r == off[k].row
               r2 == queue[k].row
    <3>1. r \in 1..Len(st.rows) /\ r # i /\ r2 = IF r >= i + 1 THEN r + (-1) ELSE r
      BY <2>6, <2>8
    <3> HIDE DEF r, r2
    <3>2. rows[r2] = st.rows[r]
      BY <1>1, <2>7, <2>9, <3>1
    <3>3. QED
      BY <3>2 DEF r, r2
  <2>11. \A k, l \in DOMAIN queue : queue[k].row = queue[l].row <=> off[k].row = off[l].row
    <3> SUFFICES ASSUME NEW k \in DOMAIN queue, NEW l \in DOMAIN queue
                 PROVE  queue[k].row = queue[l].row <=> off[k].row = off[l].row
      OBVIOUS
    <3>1. /\ off[k].row \in Nat /\ off[l].row \in Nat /\ off[k].row # i /\ off[l].row # i
          /\ queue[k].row = IF off[k].row >= i + 1 THEN off[k].row + (-1) ELSE off[k].row
          /\ queue[l].row = IF off[l].row >= i + 1 THEN off[l].row + (-1) ELSE off[l].row
      BY <1>1, <2>6, <2>8
    <3>2. QED
      BY <2>7, <3>1
  <2> DEFINE p == [l \in DOMAIN queue |-> l]
  <2>12. p \in [DOMAIN queue -> DOMAIN off] /\ \A l \in DOMAIN queue : p[l] = l
    BY <2>8
  <2> HIDE DEF p
  <2>13. Truthful(rows, queue)
    <3>1. Moved(st.rows, off, rows, queue, p)
      BY <2>8, <2>10, <2>11, <2>12 DEF Moved
    <3>2. QED
      BY <2>5, <2>8, <3>1, MovedTruth
  <2>14. QED
    BY <1>2, <2>1, <2>13, HonestMade
<1>5. CASE i \notin PendingRows(st.queue, "insert") /\ i \in PendingRows(st.queue, "delete")
  <2> DEFINE S == {k \in DOMAIN st.queue :
                      st.queue[k].kind # "delete" \/ st.queue[k].row # i}
             queue == Restored(st.queue, i)
  <2>1. Flipped(st, i) = [rows |-> st.rows, queue |-> queue]
    BY <1>5 DEF Flipped
  <2>2. S \in SUBSET DOMAIN st.queue /\ queue = Picked(st.queue, S)
    BY DEF Restored
  <2>3. \A k \in S, l \in DOMAIN st.queue :
           st.queue[l].row = st.queue[k].row /\ st.queue[l].kind = "update" => l \in S
    OBVIOUS
  <2> HIDE DEF S, queue
  <2>4. Truthful(st.rows, queue)
    BY <1>1, <2>2, <2>3, PickedTruth
  <2>5. QED
    BY <1>2, <2>1, <2>4, HonestMade
<1>6. CASE i \notin PendingRows(st.queue, "insert") /\ i \notin PendingRows(st.queue, "delete")
  <2> DEFINE op == DeleteRow(i, st.rows[i])
             queue == Append(st.queue, op)
  <2>1. Flipped(st, i) = [rows |-> st.rows, queue |-> queue]
    BY <1>6 DEF Flipped
  <2>2. st.rows[i] \in Rows /\ i \in Nat \ {0}
    BY <1>1, GridTypes
  <2>3. /\ op \in Ops
        /\ op = [kind |-> "delete", row |-> i, col |-> "val", old |-> 0, new |-> 0,
                 snap |-> st.rows[i]]
    BY <2>2, OpTypes DEF Columns
  <2>4. op.row = i /\ op.snap = st.rows[i] /\ op.kind = "delete"
    BY <2>3
  <2> HIDE DEF op
  <2>5. \A k \in DOMAIN st.queue : st.queue[k].kind = "insert" => st.queue[k].row # i
    BY <1>6 DEF PendingRows
  <2>6. Truthful(st.rows, queue)
    BY <1>1, <1>6, <2>3, <2>4, <2>5, AppendTruth
  <2> HIDE DEF queue
  <2>7. QED
    BY <1>2, <2>1, <2>6, HonestMade
<1>7. QED
  BY <1>4, <1>5, <1>6

LEMMA HonestStable == Stable(Honest, FALSE) /\ EmptyIn(Honest)
<1>1. Honest \subseteq States
  BY DEF Honest, Homely
<1>2. \A st \in Honest : \A i \in 1..Len(st.rows), col \in Columns, v \in Nat \ {Default} :
         Edited(st, i, col, v) \in Honest
  BY EditHonest
<1>3. \A st \in Honest : \A new \in Rows : Added(st, new) \in Honest
  BY AddHonest
<1>4. \A st \in Honest : \A i \in 1..Len(st.rows), new \in Rows : Copied(st, i, new) \in Honest
  BY CopyHonest
<1>5. \A st \in Honest : \A i \in 1..Len(st.rows) : Flipped(st, i) \in Honest
  BY FlipHonest
<1>6. ASSUME NEW rows \in Grids PROVE [rows |-> rows, queue |-> <<>>] \in Honest
  <2>2. [rows |-> rows, queue |-> <<>>] \in Homely(FALSE)
    BY HomelyStable DEF EmptyIn
  <2>3. Truthful(rows, <<>>)
    BY DEF Truthful, NewAlone, OneDelete, KnowsRow, LastIsShown
  <2>4. QED
    BY <2>2, <2>3 DEF Honest
<1>7. QED
  BY <1>1, <1>2, <1>3, <1>4, <1>5, <1>6 DEF Stable, EmptyIn
-----------------------------------------------------------------------------
(* Every state of the history is truthful if the user waits for saves.     *)
HonestInv == ~disturbed => Known(sheet, Honest)

LEMMA HonestNext ==
    ASSUME JobsClean, WorkInv, HistoryInv, HonestInv, [Next]_vars
    PROVE  HonestInv'
<1> SUFFICES ASSUME ~disturbed' PROVE Known(sheet', Honest)
  BY DEF HonestInv
<1>1. ~disturbed /\ Counted
  BY FlagsStay DEF HistoryInv
<1>2. /\ ~replaced /\ \A j \in Flying : sent[j] = sheet.queue
      /\ Small(sheet) /\ table \in Grids /\ sent \in [Saves -> Queues]
  BY <1>1 DEF HistoryInv, WaitInv, TypedInv, JobsTyped, SheetGood
<1>3. ~replaced'
  BY <1>1, WaitNext DEF HistoryInv, WaitInv
<1>4. Stable(Honest, FALSE) /\ EmptyIn(Honest) /\ Known(sheet, Honest)
  BY <1>1, HonestStable DEF HonestInv
<1>5. CASE \A j \in Saves : ~SaveSucceeded(j)
  <2>1. ASSUME NEW strict, ~strict, Stable(Honest, strict) PROVE Known(sheet', Honest)
    <3>1. SheetGood(Honest, strict)
      BY <1>2, <1>4, <2>1 DEF SheetGood
    <3>2. SheetGood(Honest, strict)'
      BY <1>1, <1>2, <1>3, <1>4, <1>5, <2>1, <3>1, SheetSteps
    <3>3. QED
      BY <3>2 DEF SheetGood
  <2>2. QED
    BY <1>4, <2>1
<1>6. ASSUME NEW j \in Saves, SaveSucceeded(j) PROVE Known(sheet', Honest)
  <2>1. j \in Flying
    BY <1>6 DEF SaveSucceeded, Flying, InFlight
  <2>2. sent[j] \in Queues /\ sent[j] = sheet.queue
    BY <1>2, <2>1
  <2>3. /\ Small(sheet') /\ sheet'.undo = <<>> /\ sheet'.redo = <<>>
        /\ sheet'.base = sheet'.rows /\ sheet'.queue = <<>>
    BY <1>2, <1>6, <2>2, AnsweredSheet
  <2>4. sheet'.rows \in Grids /\ sheet'.queue \in Queues
    BY <2>3, SheetFields
  <2>5. State(sheet') \in Honest
    BY <1>4, <2>3, <2>4 DEF State, EmptyIn
  <2>6. QED
    BY <2>3, <2>4, <2>5, KnownAlone
<1>7. QED
  BY <1>5, <1>6

LEMMA InitHonest == Init => HonestInv
<1> SUFFICES ASSUME Init PROVE Known(sheet, Honest)
  BY DEF HonestInv
<1>1. FirstRows \in Grids /\ sheet = Loaded(FirstRows)
  BY FirstGrid DEF Init
<1>2. [rows |-> FirstRows, queue |-> <<>>] \in Honest
  BY <1>1, HonestStable DEF EmptyIn
<1>3. QED
  BY <1>1, <1>2, LoadedKnown
-----------------------------------------------------------------------------
(* A table agrees with the rows at the positions of S: g tells the row of  *)
(* each row of the table.  DEFAULT stands for any value of the server.     *)
NoDefaults(T) == \A l \in DOMAIN T : T[l].key # Default /\ T[l].val # Default
Fits(r, t) == /\ t.id = r.id
              /\ r.key \in {Default, t.key} /\ r.val \in {Default, t.val}
Pairs(g, T, rows, S) ==
    /\ g \in [DOMAIN T -> S]
    /\ \A l, m \in DOMAIN T : g[l] = g[m] => l = m
    /\ \A i \in S : \E l \in DOMAIN T : g[l] = i
    /\ \A l \in DOMAIN T : Fits(rows[g[l]], T[l])
Agrees(T, rows, S) == \E g : Pairs(g, T, rows, S)

Along(h, rows, S, rows2, S2) ==
    /\ h \in [S -> S2]
    /\ \A i, k \in S : h[i] = h[k] => i = k
    /\ \A k \in S2 : \E i \in S : h[i] = k
    /\ \A i \in S : rows2[h[i]] = rows[i]

LEMMA AgreesAlong ==
    ASSUME NEW T, NEW rows, NEW rows2, NEW S, NEW S2, NEW h, Along(h, rows, S, rows2, S2),
           Agrees(T, rows, S)
    PROVE  Agrees(T, rows2, S2)
<1>1. PICK g : Pairs(g, T, rows, S)
  BY DEF Agrees
<1> DEFINE f == [l \in DOMAIN T |-> h[g[l]]]
<1>2. f \in [DOMAIN T -> S2] /\ \A l \in DOMAIN T : g[l] \in S /\ f[l] = h[g[l]]
  BY <1>1 DEF Pairs, Along
<1> HIDE DEF f
<1>3. \A l, m \in DOMAIN T : f[l] = f[m] => l = m
  BY <1>1, <1>2 DEF Pairs, Along
<1>4. \A k \in S2 : \E l \in DOMAIN T : f[l] = k
  <2> SUFFICES ASSUME NEW k \in S2 PROVE \E l \in DOMAIN T : f[l] = k
    OBVIOUS
  <2>1. PICK i \in S : h[i] = k
    BY DEF Along
  <2>2. PICK l \in DOMAIN T : g[l] = i
    BY <1>1 DEF Pairs
  <2>3. QED
    BY <1>2, <2>1, <2>2
<1>5. \A l \in DOMAIN T : Fits(rows2[f[l]], T[l])
  BY <1>1, <1>2 DEF Pairs, Along
<1>6. Pairs(f, T, rows2, S2)
  BY <1>2, <1>3, <1>4, <1>5 DEF Pairs
<1>7. QED
  BY <1>6 DEF Agrees

(* A table agrees with its own rows, and no less.                          *)
LEMMA AgreesItself ==
    ASSUME NEW T \in Grids
    PROVE  Agrees(T, T, 1..Len(T))
<1> DEFINE g == [l \in 1..Len(T) |-> l]
<1>1. DOMAIN T = 1..Len(T)
  BY GridTypes
<1>2. g \in [DOMAIN T -> 1..Len(T)] /\ \A l \in DOMAIN T : g[l] = l
  BY <1>1
<1> HIDE DEF g
<1>3. \A l \in DOMAIN T : Fits(T[g[l]], T[l])
  BY <1>2 DEF Fits
<1>4. Pairs(g, T, T, 1..Len(T))
  BY <1>1, <1>2, <1>3 DEF Pairs
<1>5. QED
  BY <1>4 DEF Agrees

LEMMA AgreesAll ==
    ASSUME NEW T \in Grids, NEW rows \in Grids, Agrees(T, rows, 1..Len(rows))
    PROVE  /\ Len(rows) = Len(T)
           /\ \A k \in DOMAIN rows : \E l \in DOMAIN T : Fits(rows[k], T[l])
<1>1. /\ Len(T) \in Nat /\ DOMAIN T = 1..Len(T)
      /\ Len(rows) \in Nat /\ DOMAIN rows = 1..Len(rows)
  BY GridTypes
<1> DEFINE A == 1..Len(T)
           B == 1..Len(rows)
<1>2. PICK g : Pairs(g, T, rows, B)
  BY DEF Agrees
<1>3. g \in Bijection(A, B)
  BY <1>1, <1>2 DEF Pairs, Bijection, Injection, Surjection, IsInjective
<1>4. /\ IsFiniteSet(A) /\ Cardinality(A) = Len(T)
      /\ IsFiniteSet(B) /\ Cardinality(B) = Len(rows)
  <2>1. ASSUME NEW n \in Nat PROVE IsFiniteSet(1..n) /\ Cardinality(1..n) = n
    <3>1. IsFiniteSet(1..n) /\ Cardinality(1..n) = IF 1 > n THEN 0 ELSE n - 1 + 1
      BY FS_Interval
    <3>2. QED
      BY <3>1
  <2>2. QED
    BY <1>1, <2>1
<1>5. ExistsBijection(A, B)
  BY <1>3 DEF ExistsBijection
<1> HIDE DEF A, B
<1>6. Cardinality(B) = Cardinality(A)
  BY <1>4, <1>5, FS_Bijection
<1>7. ASSUME NEW k \in DOMAIN rows PROVE \E l \in DOMAIN T : Fits(rows[k], T[l])
  BY <1>1, <1>2 DEF Pairs, B
<1>8. QED
  BY <1>4, <1>6, <1>7

(* A WHERE that matches one row matches the one its values are of.         *)
LEMMA Found ==
    ASSUME NEW T \in Grids, NoDefaults(T), NEW w, NEW key, NEW k,
           Matching(T, w, key) = {k}, NEW l \in DOMAIN T, Fits(w, T[l])
    PROVE  l = k
<1>1. k \in DOMAIN T /\ T[k].key = w.key /\ (key \/ T[k].val = w.val)
  BY DEF Matching
<1>2. w.key # Default /\ (key \/ w.val # Default)
  BY <1>1 DEF NoDefaults
<1>3. T[l].key = w.key /\ (key \/ T[l].val = w.val)
  BY <1>2 DEF Fits
<1>4. l \in Matching(T, w, key)
  BY <1>3 DEF Matching
<1>5. QED
  BY <1>4

LEMMA FoundRow ==
    ASSUME NEW T \in Grids, NoDefaults(T), NEW rows, NEW S, NEW g, Pairs(g, T, rows, S),
           NEW i \in S, NEW st, st.kind # "insert", NEW key, Expected(T, st, key),
           st.where = rows[i]
    PROVE  \E k \in DOMAIN T : /\ Matching(T, st.where, key) = {k} /\ g[k] = i
                              /\ Fits(rows[i], T[k])
<1>1. PICK k \in DOMAIN T : Matching(T, st.where, key) = {k}
  BY DEF Expected
<1>2. PICK l \in DOMAIN T : g[l] = i
  BY DEF Pairs
<1>3. Fits(st.where, T[l])
  BY <1>2 DEF Pairs
<1>4. l = k
  BY <1>1, <1>3, Found
<1>5. QED
  BY <1>1, <1>2, <1>3, <1>4

(* The statements of a save, one by one, on a table that agrees with rows. *)
LEMMA UpdateAgrees ==
    ASSUME NEW T \in Grids, NoDefaults(T), NEW rows, NEW S, Agrees(T, rows, S),
           NEW rows2, NEW i \in S, NEW st \in Stmts, st.kind = "update", NEW key,
           Expected(T, st, key), st.where = rows[i],
           \A k \in S : k # i => rows2[k] = rows[k],
           rows2[i].id = rows[i].id,
           \A col \in Columns :
              /\ col \in st.set => st.to[col] = rows2[i][col] /\ rows2[i][col] # Default
              /\ col \notin st.set => rows2[i][col] = rows[i][col]
    PROVE  NoDefaults(After(T, st, key)) /\ Agrees(After(T, st, key), rows2, S)
<1>1. PICK g : Pairs(g, T, rows, S)
  BY DEF Agrees
<1>2. PICK k \in DOMAIN T : /\ Matching(T, st.where, key) = {k} /\ g[k] = i
                             /\ Fits(rows[i], T[k])
  BY <1>1, FoundRow
<1> DEFINE T2 == After(T, st, key)
           new == Assigned(T[k], st.to, st.set)
<1>6. T2 = [m \in DOMAIN T |-> IF m \in {k} THEN Assigned(T[m], st.to, st.set) ELSE T[m]]
  BY <1>2 DEF After
<1>7. DOMAIN T2 = DOMAIN T /\ T2[k] = new /\ \A m \in DOMAIN T : m # k => T2[m] = T[m]
  BY <1>6
<1> HIDE DEF T2
<1>8. T[k] \in Rows /\ st.set \in SUBSET Columns
  BY GridTypes DEF Stmts
<1>9. /\ new.id = T[k].id
      /\ "key" \in st.set => new.key = st.to.key
      /\ "key" \notin st.set => new.key = T[k].key
      /\ "val" \in st.set => new.val = st.to.val
      /\ "val" \notin st.set => new.val = T[k].val
  BY <1>8 DEF Assigned, Rows
<1> HIDE DEF new
<1>10. /\ "key" \in st.set => st.to.key = rows2[i].key /\ rows2[i].key # Default
       /\ "key" \notin st.set => rows2[i].key = rows[i].key
       /\ "val" \in st.set => st.to.val = rows2[i].val /\ rows2[i].val # Default
       /\ "val" \notin st.set => rows2[i].val = rows[i].val
  BY DEF Columns
<1>11. T[k].key # Default /\ T[k].val # Default /\ Fits(rows[i], T[k])
  BY <1>2 DEF NoDefaults
<1>12. new.key # Default /\ new.val # Default /\ Fits(rows2[i], new)
  BY <1>9, <1>10, <1>11 DEF Fits
<1>13. NoDefaults(T2)
  BY <1>7, <1>12 DEF NoDefaults
<1>14. ASSUME NEW m \in DOMAIN T2 PROVE Fits(rows2[g[m]], T2[m])
  <2>1. CASE m = k
    BY <1>2, <1>7, <1>12, <2>1
  <2>2. CASE m # k
    <3>1. g[m] # i /\ g[m] \in S
      BY <1>1, <1>2, <1>7, <2>2 DEF Pairs
    <3>2. Fits(rows[g[m]], T[m])
      BY <1>1, <1>7 DEF Pairs
    <3>3. QED
      BY <1>7, <2>2, <3>1, <3>2
  <2>3. QED
    BY <2>1, <2>2
<1>15. Pairs(g, T2, rows2, S)
  BY <1>1, <1>7, <1>14 DEF Pairs
<1>16. QED
  BY <1>13, <1>15 DEF Agrees, T2

LEMMA InsertAgrees ==
    ASSUME NEW T \in Grids, NoDefaults(T), NEW rows, NEW S, Agrees(T, rows, S),
           NEW rows2, NEW i, i \notin S, NEW st \in Stmts, st.kind = "insert", NEW key,
           st.to = rows2[i], \A k \in S : rows2[k] = rows[k]
    PROVE  /\ NoDefaults(After(T, st, key))
           /\ Agrees(After(T, st, key), rows2, S \cup {i})
<1>1. PICK g : Pairs(g, T, rows, S)
  BY DEF Agrees
<1> DEFINE T2 == After(T, st, key)
           new == Filled(T, st.to)
           z == Len(T) + 1
           f == [l \in DOMAIN T2 |-> IF l = z THEN i ELSE g[l]]
<1>2. T \in Seq(Rows) /\ Len(T) \in Nat /\ DOMAIN T = 1..Len(T)
  BY GridTypes
<1>3. NextKey(T) \in Nat \ {0} /\ st.to \in Rows
  BY NextKeyType DEF Stmts
<1>4. new \in Rows /\ new.key # Default /\ new.val # Default /\ Fits(st.to, new)
  <2> DEFINE r == st.to
  <2>1. /\ r \in Rows
        /\ new = [r EXCEPT !.key = IF r.key = 0 THEN NextKey(T) ELSE r.key,
                          !.val = IF r.val = 0 THEN 1 ELSE r.val]
    BY <1>3 DEF Filled
  <2> HIDE DEF r, new
  <2>2. /\ new \in Rows /\ new.id = r.id
        /\ new.key = IF r.key = 0 THEN NextKey(T) ELSE r.key
        /\ new.val = IF r.val = 0 THEN 1 ELSE r.val
    BY <1>3, <2>1 DEF Rows
  <2>3. QED
    BY <1>3, <2>2 DEF Fits, Default, r
<1>5. T2 = Append(T, new)
  BY DEF After
<1> HIDE DEF new
<1>6. /\ Len(T2) = Len(T) + 1 /\ T2[Len(T) + 1] = new /\ T2 \in Seq(Rows)
      /\ \A l \in 1..Len(T) : T2[l] = T[l]
  BY <1>2, <1>4, <1>5, AppendProperties
<1> HIDE DEF T2
<1>7. /\ DOMAIN T2 = DOMAIN T \cup {z} /\ z \notin DOMAIN T /\ T2[z] = new
      /\ \A l \in DOMAIN T : T2[l] = T[l]
  BY <1>2, <1>6, LenProperties
<1> HIDE DEF z
<1>8. NoDefaults(T2)
  BY <1>4, <1>7 DEF NoDefaults
<1>9. f \in [DOMAIN T2 -> S \cup {i}] /\ f[z] = i /\ \A l \in DOMAIN T : f[l] = g[l] /\ g[l] \in S
  BY <1>1, <1>7 DEF Pairs
<1> HIDE DEF f
<1>10. \A l, m \in DOMAIN T2 : f[l] = f[m] => l = m
  BY <1>1, <1>7, <1>9 DEF Pairs
<1>11. \A k \in S \cup {i} : \E l \in DOMAIN T2 : f[l] = k
  BY <1>1, <1>7, <1>9 DEF Pairs
<1>12. \A l \in DOMAIN T2 : Fits(rows2[f[l]], T2[l])
  BY <1>1, <1>4, <1>7, <1>9 DEF Pairs
<1>13. Pairs(f, T2, rows2, S \cup {i})
  BY <1>9, <1>10, <1>11, <1>12 DEF Pairs
<1>14. QED
  BY <1>8, <1>13 DEF Agrees, T2

LEMMA DeleteAgrees ==
    ASSUME NEW T \in Grids, NoDefaults(T), NEW rows, NEW S, Agrees(T, rows, S),
           NEW rows2, NEW i \in S, NEW st \in Stmts, st.kind = "delete", NEW key,
           Expected(T, st, key), st.where = rows[i],
           \A k \in S : k # i => rows2[k] = rows[k]
    PROVE  /\ NoDefaults(After(T, st, key))
           /\ Agrees(After(T, st, key), rows2, S \ {i})
<1>1. PICK g : Pairs(g, T, rows, S)
  BY DEF Agrees
<1>2. PICK k \in DOMAIN T : /\ Matching(T, st.where, key) = {k} /\ g[k] = i
                             /\ Fits(rows[i], T[k])
  BY <1>1, FoundRow
<1> DEFINE T2 == After(T, st, key)
           D == DOMAIN T \ {k}
<1>6. T2 = Picked(T, D)
  BY <1>2 DEF After
<1>7. Len(T) \in Nat /\ D \in SUBSET (1..Len(T)) /\ D \subseteq DOMAIN T /\ k \notin D
      /\ \A m \in DOMAIN T : m = k \/ m \in D
  BY GridTypes
<1> HIDE DEF D
<1>8. PICK p : Picks(p, T, D)
  BY <1>7, PickedMap
<1> HIDE DEF T2
<1>9. /\ p \in [DOMAIN T2 -> D]
      /\ \A m, n \in DOMAIN T2 : p[m] = p[n] => m = n
      /\ \A n \in D : \E m \in DOMAIN T2 : p[m] = n
      /\ \A m \in DOMAIN T2 : p[m] \in D /\ T2[m] = T[p[m]]
  BY <1>6, <1>8 DEF Picks
<1>10. NoDefaults(T2)
  BY <1>7, <1>9 DEF NoDefaults
<1> DEFINE f == [m \in DOMAIN T2 |-> g[p[m]]]
<1>11. \A m \in DOMAIN T2 : f[m] = g[p[m]]
  OBVIOUS
<1>12. \A n \in D : g[n] \in S /\ g[n] # i
  BY <1>1, <1>2, <1>7 DEF Pairs
<1>13. f \in [DOMAIN T2 -> S \ {i}]
  BY <1>9, <1>12
<1> HIDE DEF f
<1>14. \A m, n \in DOMAIN T2 : f[m] = f[n] => m = n
  BY <1>1, <1>7, <1>9, <1>11 DEF Pairs
<1>15. \A j \in S \ {i} : \E m \in DOMAIN T2 : f[m] = j
  <2> SUFFICES ASSUME NEW j \in S \ {i} PROVE \E m \in DOMAIN T2 : f[m] = j
    OBVIOUS
  <2>1. PICK n \in DOMAIN T : g[n] = j
    BY <1>1 DEF Pairs
  <2>2. n \in D
    BY <1>2, <1>7, <2>1
  <2>3. PICK m \in DOMAIN T2 : p[m] = n
    BY <1>9, <2>2
  <2>4. QED
    BY <1>11, <2>1, <2>3
<1>16. ASSUME NEW m \in DOMAIN T2 PROVE Fits(rows2[f[m]], T2[m])
  <2>1. p[m] \in D /\ p[m] \in DOMAIN T /\ T2[m] = T[p[m]] /\ f[m] = g[p[m]]
    BY <1>7, <1>9, <1>11
  <2>2. Fits(rows[g[p[m]]], T[p[m]]) /\ g[p[m]] \in S /\ g[p[m]] # i
    BY <1>1, <1>12, <2>1 DEF Pairs
  <2>3. QED
    BY <2>1, <2>2
<1>17. Pairs(f, T2, rows2, S \ {i})
  BY <1>13, <1>14, <1>15, <1>16 DEF Pairs
<1>18. QED
  BY <1>10, <1>17 DEF Agrees, T2
-----------------------------------------------------------------------------
(* The operations that get a statement: of the edits of a row, the first.  *)
Firsts(q) ==
    {k \in DOMAIN q :
        ~(q[k].kind = "update"
             /\ \E j \in 1..(k - 1) : q[j].kind = "update" /\ q[j].row = q[k].row)}
FirstOps(q)  == Picked(q, Firsts(q))
Uncrossed(q) == PendingRows(q, "update") \cap PendingRows(q, "delete") = {}

LEMMA StatementsOf ==
    ASSUME NEW s, s.queue \in Queues
    PROVE  /\ FirstOps(s.queue) \in Seq(Ops)
           /\ Statements(s) = [m \in 1..Len(FirstOps(s.queue)) |->
                                  Statement(s, FirstOps(s.queue)[m])]
           /\ Len(Statements(s)) = Len(FirstOps(s.queue))
<1> DEFINE F == FirstOps(s.queue)
<1>1. Firsts(s.queue) \in SUBSET DOMAIN s.queue
  BY DEF Firsts
<1>2. F \in Seq(Ops)
  BY <1>1, PickedType DEF FirstOps, Queues
<1>3. Len(F) \in Nat /\ DOMAIN F = 1..Len(F)
  BY <1>2, LenProperties
<1>4. Statements(s) = [m \in DOMAIN F |-> Statement(s, F[m])]
  BY DEF Statements, FirstOps, Firsts
<1> HIDE DEF F
<1>5. DOMAIN Statements(s) = 1..Len(F)
  BY <1>3, <1>4
<1>6. Len(Statements(s)) = Len(F)
  BY <1>3, <1>5, <1>4
<1>7. QED
  BY <1>2, <1>3, <1>4, <1>6 DEF F

LEMMA FirstsOnce ==
    ASSUME NEW q \in Queues, NewAlone(q), OneDelete(q), Uncrossed(q)
    PROVE  /\ \A k, l \in Firsts(q) : q[k].row = q[l].row => k = l
           /\ \A k \in DOMAIN q : \E l \in Firsts(q) : q[l].row = q[k].row
<1>1. /\ Len(q) \in Nat /\ DOMAIN q = 1..Len(q) /\ \A k \in DOMAIN q : q[k] \in Ops
  BY QueueTypes
<1>2. \A k \in DOMAIN q : q[k].kind \in {"update", "insert", "delete"}
  BY <1>1 DEF Ops
<1>3. \A k \in Firsts(q) : k \in DOMAIN q
  BY DEF Firsts
<1>4. ASSUME NEW k \in Firsts(q), NEW l \in Firsts(q), q[k].row = q[l].row PROVE k = l
  <2>1. k \in DOMAIN q /\ l \in DOMAIN q /\ k \in Nat /\ l \in Nat
    BY <1>1, <1>3
  <2>2. CASE q[k].kind = "insert" \/ q[l].kind = "insert"
    BY <1>4, <2>1, <2>2 DEF NewAlone
  <2>3. CASE q[k].kind = "delete" /\ q[l].kind = "delete"
    BY <1>4, <2>1, <2>3 DEF OneDelete
  <2>4. CASE q[k].kind = "update" /\ q[l].kind = "update"
    <3>1. ~(k < l) /\ ~(l < k)
      BY <1>1, <1>4, <2>1, <2>4 DEF Firsts
    <3>2. QED
      BY <2>1, <3>1
  <2>5. ~(q[k].kind = "update" /\ q[l].kind = "delete")
    BY <1>4, <2>1 DEF Uncrossed, PendingRows
  <2>6. ~(q[l].kind = "update" /\ q[k].kind = "delete")
    BY <1>4, <2>1 DEF Uncrossed, PendingRows
  <2>7. QED
    BY <1>2, <2>1, <2>2, <2>3, <2>4, <2>5, <2>6
<1>5. ASSUME NEW k \in DOMAIN q PROVE \E l \in Firsts(q) : q[l].row = q[k].row
  <2>1. CASE q[k].kind # "update"
    BY <2>1 DEF Firsts
  <2>2. CASE q[k].kind = "update"
    <3> DEFINE E == {j \in DOMAIN q : q[j].kind = "update" /\ q[j].row = q[k].row}
               l == Min(E)
    <3>1. E \in SUBSET Nat /\ E # {}
      BY <1>1, <2>2
    <3> HIDE DEF E
    <3>2. l \in E /\ \A j \in E : l <= j
      BY <3>1, LeastOf
    <3> HIDE DEF l
    <3>3. l \in DOMAIN q /\ q[l].row = q[k].row /\ l \in Nat
      BY <1>1, <3>2 DEF E
    <3>4. ASSUME NEW j \in 1..(l - 1), q[j].kind = "update", q[j].row = q[l].row
          PROVE  FALSE
      <4>1. j \in DOMAIN q /\ j \in Nat /\ ~(l <= j)
        BY <1>1, <3>3
      <4>2. j \in E
        BY <3>3, <3>4, <4>1 DEF E
      <4>3. QED
        BY <3>2, <4>1, <4>2
    <3>5. l \in Firsts(q)
      BY <3>3, <3>4 DEF Firsts
    <3>6. QED
      BY <3>3, <3>5
  <2>3. QED
    BY <2>1, <2>2
<1>6. QED
  BY <1>4, <1>5

LEMMA FirstOpsOnce ==
    ASSUME NEW q \in Queues, NewAlone(q), OneDelete(q), Uncrossed(q)
    PROVE  LET F == FirstOps(q) IN
           /\ F \in Seq(Ops) /\ Len(F) \in Nat
           /\ \A l, m \in 1..Len(F) : F[l].row = F[m].row => l = m
           /\ \A k \in DOMAIN q : \E m \in 1..Len(F) : F[m].row = q[k].row
           /\ \A m \in 1..Len(F) : \E k \in DOMAIN q : F[m] = q[k]
<1> DEFINE F == FirstOps(q)
<1>1. Len(q) \in Nat /\ DOMAIN q = 1..Len(q) /\ q \in Seq(Ops)
  BY QueueTypes
<1>2. Firsts(q) \in SUBSET (1..Len(q)) /\ Firsts(q) \in SUBSET DOMAIN q
  BY <1>1 DEF Firsts
<1>3. F \in Seq(Ops)
  BY <1>1, <1>2, PickedType DEF FirstOps
<1>4. Len(F) \in Nat /\ DOMAIN F = 1..Len(F)
  BY <1>3, LenProperties
<1>5. PICK p : Picks(p, q, Firsts(q))
  BY <1>1, <1>2, PickedMap
<1>6. /\ \A m \in DOMAIN F : p[m] \in Firsts(q) /\ F[m] = q[p[m]]
      /\ \A l, m \in DOMAIN F : p[l] = p[m] => l = m
      /\ \A k \in Firsts(q) : \E m \in DOMAIN F : p[m] = k
  BY <1>5 DEF Picks, FirstOps
<1> HIDE DEF F
<1>7. \A l, m \in 1..Len(F) : F[l].row = F[m].row => l = m
  BY <1>4, <1>6, FirstsOnce
<1>8. ASSUME NEW k \in DOMAIN q PROVE \E m \in 1..Len(F) : F[m].row = q[k].row
  <2>1. PICK l \in Firsts(q) : q[l].row = q[k].row
    BY FirstsOnce
  <2>2. PICK m \in DOMAIN F : p[m] = l
    BY <1>6
  <2>3. QED
    BY <1>4, <1>6, <2>1, <2>2
<1>9. \A m \in 1..Len(F) : \E k \in DOMAIN q : F[m] = q[k]
  BY <1>2, <1>4, <1>6
<1>10. QED
  BY <1>3, <1>4, <1>7, <1>8, <1>9 DEF F

(* The WHERE of an operation has the values its row was loaded with, and   *)
(* the cells that are edited show the last value typed.                    *)
LEMMA WhereTold ==
    ASSUME NEW st \in Honest, NEW k \in DOMAIN st.queue, st.queue[k].kind # "insert"
    PROVE  Original(st.queue, st.queue[k].row, st.queue[k].snap)
              = Original(st.queue, st.queue[k].row, st.rows[st.queue[k].row])
<1> DEFINE op == st.queue[k]
           i == op.row
<1>1. /\ st.rows \in Grids /\ st.queue \in Queues /\ HomeIn(st.rows, st.queue)
      /\ KnowsRow(st.rows, st.queue)
  BY HomelyParts DEF Honest, Truthful
<1>2. op \in Ops /\ i \in 1..Len(st.rows) /\ st.rows[i].id = op.snap.id
  BY <1>1, QueueTypes, GridTypes DEF HomeIn
<1>3. st.rows[i] \in Rows /\ op.snap \in Rows
  BY <1>1, <1>2, GridTypes DEF Ops
<1>4. ASSUME NEW col \in Columns
      PROVE  OldValue(st.queue, i, col, op.snap[col])
                = OldValue(st.queue, i, col, st.rows[i][col])
  <2>1. op.snap[col] = st.rows[i][col] \/ FirstEdits(st.queue, i, col) # {}
    BY <1>1 DEF KnowsRow
  <2>2. QED
    BY <2>1 DEF OldValue
<1> HIDE DEF op, i
<1>5. Original(st.queue, i, op.snap) = Original(st.queue, i, st.rows[i])
  BY <1>2, <1>3, <1>4, OriginalAlike
<1>6. QED
  BY <1>5 DEF op, i

LEMMA CellsTold ==
    ASSUME NEW st \in Honest, NEW i \in 1..Len(st.rows), NEW was,
           was = Original(st.queue, i, st.rows[i])
    PROVE  /\ was.id = st.rows[i].id
           /\ \A col \in Columns :
                 /\ FirstEdits(st.queue, i, col) = {} => was[col] = st.rows[i][col]
                 /\ FirstEdits(st.queue, i, col) # {} =>
                       /\ st.rows[i][col] # Default
                       /\ \A d : NewValue(st.queue, i, col, d) = st.rows[i][col]
<1>1. /\ st.rows \in Grids /\ st.queue \in Queues /\ LastIsShown(st.rows, st.queue)
  BY HomelyParts DEF Honest, Truthful
<1>2. st.rows[i] \in Rows
  BY <1>1, GridTypes
<1>3. was = [st.rows[i] EXCEPT !.key = OldValue(st.queue, i, "key", st.rows[i].key),
                               !.val = OldValue(st.queue, i, "val", st.rows[i].val)]
  BY DEF Original, Rows
<1>4. /\ was.id = st.rows[i].id
      /\ was.key = OldValue(st.queue, i, "key", st.rows[i].key)
      /\ was.val = OldValue(st.queue, i, "val", st.rows[i].val)
  BY <1>2, <1>3 DEF Rows
<1>5. ASSUME NEW col \in Columns
      PROVE  /\ FirstEdits(st.queue, i, col) = {} => was[col] = st.rows[i][col]
             /\ FirstEdits(st.queue, i, col) # {} =>
                   /\ st.rows[i][col] # Default
                   /\ \A d : NewValue(st.queue, i, col, d) = st.rows[i][col]
  <2> DEFINE E == FirstEdits(st.queue, i, col)
             m == Max(E)
  <2>1. was[col] = OldValue(st.queue, i, col, st.rows[i][col])
    BY <1>4 DEF Columns
  <2>2. E = {} => was[col] = st.rows[i][col]
    BY <2>1 DEF OldValue
  <2>3. ASSUME E # {}
        PROVE  /\ st.rows[i][col] # Default
               /\ \A d : NewValue(st.queue, i, col, d) = st.rows[i][col]
    <3>1. /\ Len(st.queue) \in Nat /\ E \in SUBSET Nat
          /\ \A l \in E : l <= Len(st.queue) /\ l \in DOMAIN st.queue
                          /\ st.queue[l].kind = "update" /\ st.queue[l].row = i
                          /\ st.queue[l].col = col
      BY <1>1, QueueTypes DEF FirstEdits
    <3>2. \A d : NewValue(st.queue, i, col, d) = st.queue[m].new
      BY <2>3 DEF NewValue
    <3> HIDE DEF E
    <3>3. m \in E /\ \A l \in E : l <= m
      BY <2>3, <3>1, GreatestOf
    <3> HIDE DEF m
    <3>4. ~(\E l \in E : m < l)
      BY <3>1, <3>3
    <3>5. st.queue[m].new # Default /\ st.queue[m].new = st.rows[i][col]
      BY <1>1, <3>1, <3>3, <3>4 DEF LastIsShown, E
    <3>6. QED
      BY <3>2, <3>5
  <2>4. QED
    BY <2>2, <2>3
<1>6. QED
  BY <1>4, <1>5
-----------------------------------------------------------------------------
(* What the first n statements of a save make of the table: the rows they  *)
(* are about are as the grid shows them, those they insert are there and   *)
(* those they delete are not, and the others are as they were loaded.      *)
DoneRows(q, n) == {FirstOps(q)[m].row : m \in 1..n}
Present(s, n) ==
    {i \in 1..Len(s.rows) :
        /\ i \in PendingRows(s.queue, "insert") => i \in DoneRows(s.queue, n)
        /\ i \in PendingRows(s.queue, "delete") => i \notin DoneRows(s.queue, n)}
Shown(s, n) ==
    [i \in 1..Len(s.rows) |-> IF i \in DoneRows(s.queue, n) THEN s.rows[i]
                              ELSE Original(s.queue, i, s.rows[i])]
Ready(s) == State(s) \in Honest /\ Uncrossed(s.queue)

LEMMA ReadyParts ==
    ASSUME NEW s, Ready(s)
    PROVE  /\ State(s) \in Honest /\ State(s).rows = s.rows /\ State(s).queue = s.queue
           /\ s.rows \in Grids /\ s.queue \in Queues /\ Uncrossed(s.queue)
           /\ Len(s.rows) \in Nat /\ DOMAIN s.rows = 1..Len(s.rows)
           /\ HomeIn(s.rows, s.queue) /\ NewAlone(s.queue) /\ OneDelete(s.queue)
<1>1. State(s).rows = s.rows /\ State(s).queue = s.queue
  BY DEF State
<1>2. State(s) \in Honest /\ State(s) \in Homely(FALSE) /\ Truthful(s.rows, s.queue)
  BY <1>1 DEF Honest, Ready
<1>3. /\ s.rows \in Grids /\ s.queue \in Queues
      /\ Len(s.rows) \in Nat /\ DOMAIN s.rows = 1..Len(s.rows)
      /\ HomeIn(s.rows, s.queue)
  BY <1>1, <1>2, HomelyParts
<1>4. QED
  BY <1>1, <1>2, <1>3 DEF Ready, Truthful

(* The operations of a row, by the kind of one of them.                    *)
LEMMA KindsOfRow ==
    ASSUME NEW q \in Queues, NewAlone(q), Uncrossed(q), NEW k \in DOMAIN q
    PROVE  /\ q[k].kind = "insert" => /\ q[k].row \in PendingRows(q, "insert")
                                      /\ q[k].row \notin PendingRows(q, "delete")
           /\ q[k].kind = "update" => /\ q[k].row \notin PendingRows(q, "insert")
                                      /\ q[k].row \notin PendingRows(q, "delete")
           /\ q[k].kind = "delete" => /\ q[k].row \notin PendingRows(q, "insert")
                                      /\ q[k].row \in PendingRows(q, "delete")
<1>1. ASSUME NEW kind, NEW i
      PROVE  i \in PendingRows(q, kind) <=> \E l \in DOMAIN q : q[l].kind = kind /\ q[l].row = i
  BY DEF PendingRows
<1>2. q[k].kind # "insert" => q[k].row \notin PendingRows(q, "insert")
  BY <1>1 DEF NewAlone
<1>3. q[k].kind = "insert" => q[k].row \notin PendingRows(q, "delete")
  BY <1>1 DEF NewAlone
<1>4. q[k].kind = "update" => q[k].row \notin PendingRows(q, "delete")
  BY <1>1 DEF Uncrossed
<1>5. QED
  BY <1>1, <1>2, <1>3, <1>4

(* A row before and after the edits pending for it.                        *)
LEMMA CellsShown ==
    ASSUME NEW s, Ready(s), NEW i \in 1..Len(s.rows)
    PROVE  /\ Original(s.queue, i, s.rows[i]).id = s.rows[i].id
           /\ \A col \in Columns :
                 /\ FirstEdits(s.queue, i, col) = {} =>
                       Original(s.queue, i, s.rows[i])[col] = s.rows[i][col]
                 /\ FirstEdits(s.queue, i, col) # {} =>
                       /\ s.rows[i][col] # Default
                       /\ \A d : NewValue(s.queue, i, col, d) = s.rows[i][col]
<1> DEFINE st == State(s)
<1>1. st \in Honest /\ st.rows = s.rows /\ st.queue = s.queue
  BY ReadyParts
<1> HIDE DEF st
<1>2. i \in 1..Len(st.rows)
  BY <1>1
<1>3. /\ Original(st.queue, i, st.rows[i]).id = st.rows[i].id
      /\ \A col \in Columns :
            /\ FirstEdits(st.queue, i, col) = {} =>
                  Original(st.queue, i, st.rows[i])[col] = st.rows[i][col]
            /\ FirstEdits(st.queue, i, col) # {} =>
                  /\ st.rows[i][col] # Default
                  /\ \A d : NewValue(st.queue, i, col, d) = st.rows[i][col]
  BY <1>1, <1>2, CellsTold
<1>4. QED
  BY <1>1, <1>3

Adds(rows, rows2, S, i, st) ==
    /\ st \in Stmts /\ st.kind = "insert" /\ st.to = rows2[i]
    /\ i \notin S /\ \A k \in S : rows2[k] = rows[k]

LEMMA InsertAdds ==
    ASSUME NEW T \in Grids, NoDefaults(T), NEW rows, NEW S, Agrees(T, rows, S),
           NEW rows2, NEW i, NEW st, NEW key, Adds(rows, rows2, S, i, st)
    PROVE  /\ NoDefaults(After(T, st, key))
           /\ Agrees(After(T, st, key), rows2, S \cup {i})
BY InsertAgrees DEF Adds

(* One statement more.                                                     *)
LEMMA StatementAgrees ==
    ASSUME NEW s, Ready(s), NEW n \in Nat, n < Len(Statements(s)), NEW T \in Grids,
           NoDefaults(T), Agrees(T, Shown(s, n), Present(s, n)), NEW key,
           NEW st, st = Statements(s)[n + 1], Expected(T, st, key)
    PROVE  /\ NoDefaults(After(T, st, key))
           /\ Agrees(After(T, st, key), Shown(s, n + 1), Present(s, n + 1))
<1>1. /\ State(s) \in Honest /\ State(s).rows = s.rows /\ State(s).queue = s.queue
      /\ s.rows \in Grids /\ s.queue \in Queues /\ Uncrossed(s.queue)
      /\ Len(s.rows) \in Nat /\ HomeIn(s.rows, s.queue)
      /\ NewAlone(s.queue) /\ OneDelete(s.queue) /\ DOMAIN s.rows = 1..Len(s.rows)
  BY ReadyParts
<1> DEFINE F == FirstOps(s.queue)
           op == F[n + 1]
           i == op.row
           was == Shown(s, n)
           now == Shown(s, n + 1)
           S == Present(s, n)
           done == DoneRows(s.queue, n)
           done2 == DoneRows(s.queue, n + 1)
           old == Original(s.queue, i, s.rows[i])
<1>2. /\ F \in Seq(Ops) /\ Len(F) \in Nat
      /\ \A l, m \in 1..Len(F) : F[l].row = F[m].row => l = m
      /\ \A m \in 1..Len(F) : \E k \in DOMAIN s.queue : F[m] = s.queue[k]
  BY <1>1, FirstOpsOnce
<1>3. /\ Statements(s) = [m \in 1..Len(F) |-> Statement(s, F[m])]
      /\ Len(Statements(s)) = Len(F)
  BY <1>1, StatementsOf
<1>4. done = {F[m].row : m \in 1..n} /\ done2 = {F[m].row : m \in 1..(n + 1)}
  BY DEF DoneRows
<1> HIDE DEF F, done, done2
<1>5. n + 1 \in 1..Len(F) /\ \A m \in 1..n : m \in 1..Len(F) /\ m # n + 1
  BY <1>2, <1>3
<1>6. st = Statement(s, op)
  BY <1>3, <1>5
<1>7. PICK k \in DOMAIN s.queue : op = s.queue[k]
  BY <1>2, <1>5
<1> HIDE DEF op
<1>8. op \in Ops /\ i \in 1..Len(s.rows)
  BY <1>1, <1>7, QueueTypes DEF HomeIn
<1>9. /\ op.kind \in {"update", "insert", "delete"} /\ st \in Stmts
      /\ s.rows[i] \in Rows /\ old \in Rows
  <2>1. st \in Stmts
    BY <1>1, <1>6, <1>8, StatementType
  <2>2. s.rows[i] \in Rows
    BY <1>1, <1>8, GridTypes
  <2>3. old \in Rows
    BY <1>1, <2>2, OriginalType
  <2>4. QED
    BY <1>8, <2>1, <2>2, <2>3 DEF Ops
<1>10. done2 = done \cup {i} /\ i \notin done
  <2>1. \A m \in 1..(n + 1) : m \in 1..n \/ m = n + 1
    OBVIOUS
  <2>2. F[n + 1].row = i /\ \A m \in 1..n : F[m].row # i
    BY <1>2, <1>5 DEF op
  <2>3. n + 1 \in 1..(n + 1) /\ \A m \in 1..n : m \in 1..(n + 1)
    OBVIOUS
  <2>4. QED
    BY <1>4, <2>1, <2>2, <2>3
<1>11. /\ was[i] = old /\ now[i] = s.rows[i]
       /\ \A j \in S : j # i => now[j] = was[j]
  BY <1>8, <1>10 DEF Shown, Present, done, done2
<1>12. \A j : j \in S <=>
          /\ j \in 1..Len(s.rows)
          /\ j \in PendingRows(s.queue, "insert") => j \in done
          /\ j \in PendingRows(s.queue, "delete") => j \notin done
  BY DEF Present, done
<1>13. \A j : j \in Present(s, n + 1) <=>
          /\ j \in 1..Len(s.rows)
          /\ j \in PendingRows(s.queue, "insert") => j \in done2
          /\ j \in PendingRows(s.queue, "delete") => j \notin done2
  BY DEF Present, done2
<1>14. Agrees(T, was, S)
  OBVIOUS
<1>15. op.kind # "insert" => Original(s.queue, i, op.snap) = old
  BY <1>1, <1>7, WhereTold
<1>16. /\ old.id = s.rows[i].id
       /\ \A col \in Columns :
             /\ FirstEdits(s.queue, i, col) = {} => old[col] = s.rows[i][col]
             /\ FirstEdits(s.queue, i, col) # {} =>
                   /\ s.rows[i][col] # Default
                   /\ \A d : NewValue(s.queue, i, col, d) = s.rows[i][col]
  BY <1>8, CellsShown
<1> HIDE DEF i, was, now, S, old
<1>17. CASE op.kind = "update"
  <2>1. st = [kind |-> "update", where |-> old,
              to |-> [id |-> old.id, key |-> NewValue(s.queue, i, "key", old.key),
                      val |-> NewValue(s.queue, i, "val", old.val)],
              set |-> {c \in Columns : FirstEdits(s.queue, i, c) # {}}]
    BY <1>6, <1>15, <1>17 DEF Statement, i
  <2>2. /\ st.kind = "update" /\ st.where = old
        /\ st.to.key = NewValue(s.queue, i, "key", old.key)
        /\ st.to.val = NewValue(s.queue, i, "val", old.val)
        /\ st.set = {c \in Columns : FirstEdits(s.queue, i, c) # {}}
    BY <2>1
  <2>3. ASSUME NEW col \in Columns
        PROVE  /\ col \in st.set => st.to[col] = now[i][col] /\ now[i][col] # Default
               /\ col \notin st.set => now[i][col] = was[i][col]
    <3>1. st.to[col] = NewValue(s.queue, i, col, old[col])
      BY <2>2 DEF Columns
    <3>2. QED
      BY <1>11, <1>16, <2>2, <3>1
  <2>4. /\ i \notin PendingRows(s.queue, "insert") /\ i \notin PendingRows(s.queue, "delete")
    BY <1>1, <1>7, <1>17, KindsOfRow DEF i
  <2>5. i \in S /\ Present(s, n + 1) = S
    BY <1>8, <1>10, <1>12, <1>13, <2>4
  <2>6. NoDefaults(After(T, st, key)) /\ Agrees(After(T, st, key), now, S)
    BY <1>9, <1>11, <1>14, <1>16, <2>2, <2>3, <2>5, UpdateAgrees
  <2>7. QED
    BY <2>5, <2>6 DEF now
<1>18. CASE op.kind = "insert"
  <2>1. st = [kind |-> "insert", where |-> NoRow, set |-> {}, to |-> s.rows[i]]
    BY <1>1, <1>6, <1>8, <1>18 DEF Statement, i
  <2>2. st.kind = "insert" /\ st.to = now[i]
    BY <1>11, <2>1
  <2>3. i \in PendingRows(s.queue, "insert") /\ i \notin PendingRows(s.queue, "delete")
    BY <1>1, <1>7, <1>18, KindsOfRow DEF i
  <2>4. i \notin S /\ Present(s, n + 1) = S \cup {i}
    BY <1>8, <1>10, <1>12, <1>13, <2>3
  <2>5. \A j \in S : now[j] = was[j]
    BY <1>11, <2>4
  <2>6. NoDefaults(After(T, st, key)) /\ Agrees(After(T, st, key), now, S \cup {i})
    <3>1. Adds(was, now, S, i, st)
      BY <1>9, <2>2, <2>4, <2>5 DEF Adds
    <3>2. QED
      BY <1>14, <3>1, InsertAdds
  <2>7. QED
    BY <2>4, <2>6 DEF now
<1>19. CASE op.kind = "delete"
  <2>1. st = [kind |-> "delete", where |-> old, to |-> NoRow, set |-> {}]
    BY <1>6, <1>15, <1>19 DEF Statement, i
  <2>2. st.kind = "delete" /\ st.where = was[i]
    BY <1>11, <2>1
  <2>3. i \notin PendingRows(s.queue, "insert") /\ i \in PendingRows(s.queue, "delete")
    BY <1>1, <1>7, <1>19, KindsOfRow DEF i
  <2>4. i \in S /\ Present(s, n + 1) = S \ {i}
    BY <1>8, <1>10, <1>12, <1>13, <2>3
  <2>5. NoDefaults(After(T, st, key)) /\ Agrees(After(T, st, key), now, S \ {i})
    BY <1>9, <1>11, <1>14, <2>2, <2>4, DeleteAgrees
  <2>6. QED
    BY <2>4, <2>5 DEF now
<1>20. QED
  BY <1>9, <1>17, <1>18, <1>19

(* Before the first statement the table agrees with what was loaded, after *)
(* the last one with what is shown but for the rows deleted.               *)
LEMMA StartAgrees ==
    ASSUME NEW s, Ready(s), NEW T, NEW rows \in Grids, rows = Rewound(s),
           Agrees(T, rows, 1..Len(rows))
    PROVE  Agrees(T, Shown(s, 0), Present(s, 0))
<1>1. /\ s.rows \in Grids /\ s.queue \in Queues
      /\ Len(s.rows) \in Nat /\ DOMAIN s.rows = 1..Len(s.rows)
  BY ReadyParts
<1> DEFINE was == Shown(s, 0)
           S == Present(s, 0)
<1>2. DoneRows(s.queue, 0) = {}
  BY DEF DoneRows
<1>3. was = [i \in DOMAIN s.rows |-> Original(s.queue, i, s.rows[i])]
  BY <1>1, <1>2 DEF Shown
<1>4. S = DOMAIN s.rows \ PendingRows(s.queue, "insert") /\ S \in SUBSET (1..Len(s.rows))
  BY <1>1, <1>2 DEF Present
<1> HIDE DEF S
<1>5. rows = Picked(was, S)
  BY <1>3, <1>4 DEF Rewound
<1> HIDE DEF was
<1>6. PICK p : Picks(p, was, S)
  BY <1>1, <1>4, PickedMap
<1>7. 1..Len(rows) = 1..Cardinality(S)
  <2>1. DOMAIN rows = 1..Len(rows)
    BY GridTypes
  <2>2. QED
    BY <1>5, <1>6, <2>1 DEF Picks
<1>8. Along(p, rows, 1..Len(rows), was, S)
  BY <1>5, <1>6, <1>7 DEF Picks, Along
<1>9. QED
  BY <1>8, AgreesAlong DEF was, S

Lasting(s) == (1..Len(s.rows)) \ PendingRows(s.queue, "delete")

LEMMA EndAgrees ==
    ASSUME NEW s, Ready(s), NEW T, NEW n, n = Len(Statements(s)),
           Agrees(T, Shown(s, n), Present(s, n))
    PROVE  Agrees(T, s.rows, Lasting(s))
<1>1. /\ s.rows \in Grids /\ s.queue \in Queues /\ Uncrossed(s.queue)
      /\ Len(s.rows) \in Nat /\ HomeIn(s.rows, s.queue)
      /\ NewAlone(s.queue) /\ OneDelete(s.queue) /\ DOMAIN s.rows = 1..Len(s.rows)
  BY ReadyParts
<1> DEFINE F == FirstOps(s.queue)
           now == Shown(s, n)
           S == Present(s, n)
           S2 == Lasting(s)
<1>2. /\ Len(F) \in Nat
      /\ \A k \in DOMAIN s.queue : \E m \in 1..Len(F) : F[m].row = s.queue[k].row
  BY <1>1, FirstOpsOnce
<1>3. n = Len(F)
  BY <1>1, StatementsOf
<1>4. DoneRows(s.queue, n) = {F[m].row : m \in 1..Len(F)}
  BY <1>3 DEF DoneRows
<1> HIDE DEF F
<1>5. \A k \in DOMAIN s.queue : s.queue[k].row \in DoneRows(s.queue, n)
  BY <1>2, <1>4
<1>6. S = S2
  BY <1>5 DEF Present, Lasting, PendingRows
<1>7. ASSUME NEW i \in 1..Len(s.rows) PROVE now[i] = s.rows[i]
  <2>1. now[i] = IF i \in DoneRows(s.queue, n) THEN s.rows[i]
                 ELSE Original(s.queue, i, s.rows[i])
    BY DEF Shown
  <2>2. ASSUME i \notin DoneRows(s.queue, n)
        PROVE  Original(s.queue, i, s.rows[i]) = s.rows[i]
    <3>1. \A col : FirstEdits(s.queue, i, col) = {}
      BY <1>5, <2>2 DEF FirstEdits
    <3>2. \A col, d : OldValue(s.queue, i, col, d) = d
      BY <3>1 DEF OldValue
    <3>3. s.rows[i] \in Rows
      BY <1>1, GridTypes
    <3>4. QED
      BY <3>2, <3>3 DEF Original, Rows
  <2>3. QED
    BY <2>1, <2>2
<1> HIDE DEF now
<1> DEFINE h == [i \in S |-> i]
<1>8. h \in [S -> S2] /\ \A i \in S : h[i] = i
  BY <1>6
<1> HIDE DEF h
<1>9. S \subseteq 1..Len(s.rows)
  BY DEF Present
<1> HIDE DEF S, S2
<1>10. Along(h, now, S, s.rows, S2)
  BY <1>6, <1>7, <1>8, <1>9 DEF Along
<1>11. QED
  BY <1>10, AgreesAlong DEF now, S, S2
-----------------------------------------------------------------------------
(* The rows in P after the first m have left the rows of s, which are then *)
(* those of t: h tells where a row that stays has gone.                    *)
LeftOf(s, P, m) == {i \in 1..Len(s.rows) : i <= m \/ i \notin P}
Thinned(s, t, P, m) ==
    /\ Len(t.rows) >= m
    /\ \E h : /\ Along(h, s.rows, LeftOf(s, P, m), t.rows, 1..Len(t.rows))
              /\ \A i \in 1..m : h[i] = i

LEMMA DropThins ==
    ASSUME NEW s, Len(s.rows) \in Nat, NEW t, NEW P, NEW i \in 1..Len(s.rows),
           AsBefore(s, t), Thinned(s, t, P, i)
    PROVE  AsBefore(s, DroppedIn(t, P, i)) /\ Thinned(s, DroppedIn(t, P, i), P, i - 1)
<1>1. t.rows \in Grids /\ Len(t.rows) >= i /\ i \in Nat \ {0}
  BY DEF AsBefore, Sheets, Thinned
<1>2. Len(t.rows) \in Nat /\ i \in 1..Len(t.rows)
  BY <1>1, GridTypes
<1> DEFINE S == LeftOf(s, P, i)
           S2 == LeftOf(s, P, i - 1)
           n == Len(t.rows)
<1>3. PICK h : /\ Along(h, s.rows, S, t.rows, 1..n)
               /\ \A k \in 1..i : h[k] = k
  BY DEF Thinned
<1>4. i \in S /\ \A k \in 1..(i - 1) : k \in 1..i
  BY <1>1 DEF LeftOf
<1>5. CASE i \notin P
  <2>1. DroppedIn(t, P, i) = t
    BY <1>5 DEF DroppedIn
  <2>2. S2 = S
    <3>1. \A k \in 1..Len(s.rows) : k <= i <=> k <= i - 1 \/ k = i
      BY <1>1
    <3>2. QED
      BY <1>5, <3>1 DEF LeftOf
  <2>3. Len(t.rows) >= i - 1
    BY <1>1, <1>2
  <2>4. Thinned(s, t, P, i - 1)
    BY <1>3, <1>4, <2>2, <2>3 DEF Thinned
  <2>5. QED
    BY <2>1, <2>4
<1>6. CASE i \in P
  <2> DEFINE w == DroppedRow(t, i)
             g == WithoutRow(t.rows, i)
             f == [k \in S2 |-> IF h[k] < i THEN h[k] ELSE h[k] - 1]
  <2>1. AsBefore(s, w) /\ w.rows = g /\ DroppedIn(t, P, i) = w
    BY <1>1, <1>6, DroppedRowType DEF DroppedIn
  <2>2. /\ Len(g) = n - 1
        /\ \A k \in 1..(n - 1) : g[k] = IF k < i THEN t.rows[k] ELSE t.rows[k + 1]
    BY <1>1, <1>2, RowTaken
  <2>3. \A k : k \in S2 <=> k \in S /\ k # i
    <3>1. \A k \in 1..Len(s.rows) : k <= i <=> k <= i - 1 \/ k = i
      BY <1>1
    <3>2. ~(i <= i - 1)
      BY <1>1
    <3>3. QED
      BY <1>6, <3>1, <3>2 DEF LeftOf
  <2>4. /\ h \in [S -> 1..n]
        /\ \A k, l \in S : h[k] = h[l] => k = l
        /\ \A l \in 1..n : \E k \in S : h[k] = l
        /\ \A k \in S : t.rows[h[k]] = s.rows[k]
    BY <1>3 DEF Along
  <2>5. h[i] = i /\ \A k \in 1..(i - 1) : h[k] = k /\ k \in S2
    <3>1. i \in 1..i
      BY <1>1
    <3>2. \A k \in 1..(i - 1) : k \in 1..Len(s.rows) /\ k <= i - 1
      BY <1>1
    <3>3. QED
      BY <1>3, <1>4, <3>1, <3>2 DEF LeftOf
  <2> HIDE DEF S, S2, w, g, n
  <2>6. ASSUME NEW k \in S2
        PROVE  /\ h[k] \in 1..n /\ h[k] # i
               /\ f[k] = IF h[k] < i THEN h[k] ELSE h[k] - 1
               /\ f[k] \in 1..(n - 1)
               /\ g[f[k]] = s.rows[k]
    <3>1. k \in S /\ h[k] \in 1..n /\ h[k] # i /\ t.rows[h[k]] = s.rows[k]
      BY <1>4, <2>3, <2>4, <2>5
    <3>2. f[k] = IF h[k] < i THEN h[k] ELSE h[k] - 1
      OBVIOUS
    <3> HIDE DEF f
    <3>3. n \in Nat /\ i \in 1..n
      BY <1>2 DEF n
    <3>4. CASE h[k] < i
      BY <1>1, <2>2, <3>1, <3>2, <3>3, <3>4
    <3>5. CASE ~(h[k] < i)
      <4>1. h[k] - 1 \in 1..(n - 1) /\ ~(h[k] - 1 < i) /\ (h[k] - 1) + 1 = h[k]
        BY <1>1, <3>1, <3>3, <3>5
      <4>2. QED
        BY <2>2, <3>1, <3>2, <3>5, <4>1
    <3>6. QED
      BY <3>4, <3>5
  <2>7. f \in [S2 -> 1..(n - 1)]
    BY <2>6
  <2>8. \A k, l \in S2 : f[k] = f[l] => k = l
    <3> SUFFICES ASSUME NEW k \in S2, NEW l \in S2, f[k] = f[l] PROVE k = l
      OBVIOUS
    <3>1. /\ h[k] \in 1..n /\ h[k] # i /\ f[k] = IF h[k] < i THEN h[k] ELSE h[k] - 1
          /\ h[l] \in 1..n /\ h[l] # i /\ f[l] = IF h[l] < i THEN h[l] ELSE h[l] - 1
      BY <2>6
    <3> HIDE DEF f
    <3>2. n \in Nat
      BY <1>2 DEF n
    <3>3. \A a, b \in 1..n :
             a # i /\ b # i
             /\ (IF a < i THEN a ELSE a - 1) = (IF b < i THEN b ELSE b - 1) => a = b
      BY <1>1, <3>2
    <3>4. h[k] = h[l]
      BY <3>1, <3>3
    <3>5. QED
      BY <2>3, <2>4, <3>4
  <2>9. ASSUME NEW l \in 1..(n - 1) PROVE \E k \in S2 : f[k] = l
    <3>1. n \in Nat /\ i \in 1..n
      BY <1>2 DEF n
    <3>2. CASE l < i
      <4>1. PICK k \in S : h[k] = l
        BY <2>4, <3>1
      <4>2. k # i
        BY <1>1, <2>5, <3>2, <4>1
      <4>3. k \in S2
        BY <2>3, <4>2
      <4>4. f[k] = l
        BY <2>6, <3>2, <4>1, <4>3
      <4>5. QED
        BY <4>3, <4>4
    <3>3. CASE ~(l < i)
      <4>1. l + 1 \in 1..n /\ l + 1 # i /\ ~(l + 1 < i) /\ (l + 1) - 1 = l
        BY <1>1, <3>1, <3>3
      <4>2. PICK k \in S : h[k] = l + 1
        BY <2>4, <4>1
      <4>3. k # i
        BY <2>5, <4>1, <4>2
      <4>4. k \in S2
        BY <2>3, <4>3
      <4>5. f[k] = l
        BY <2>6, <4>1, <4>2, <4>4
      <4>6. QED
        BY <4>4, <4>5
    <3>4. QED
      BY <3>2, <3>3
  <2>10. \A k \in 1..(i - 1) : f[k] = k
    <3> SUFFICES ASSUME NEW k \in 1..(i - 1) PROVE f[k] = k
      OBVIOUS
    <3>1. h[k] = k /\ k \in S2 /\ k < i
      BY <1>1, <2>5
    <3>2. QED
      BY <2>6, <3>1
  <2>11. \A k \in S2 : g[f[k]] = s.rows[k]
    BY <2>6
  <2> HIDE DEF f
  <2>12. Len(w.rows) = n - 1 /\ w.rows = g
    BY <2>1, <2>2
  <2>13. Along(f, s.rows, S2, w.rows, 1..Len(w.rows))
    BY <2>7, <2>8, <2>9, <2>11, <2>12 DEF Along
  <2>14. Len(w.rows) >= i - 1
    BY <1>1, <1>2, <2>12 DEF n
  <2>15. Thinned(s, w, P, i - 1)
    BY <2>10, <2>13, <2>14 DEF Thinned, S2
  <2>16. QED
    BY <2>1, <2>15
<1>7. QED
  BY <1>5, <1>6

LEMMA DroppedThins ==
    ASSUME NEW s \in Sheets, NEW saved
    PROVE  Thinned(s, DeletedDropped(s, saved), PendingRows(saved, "delete"), 0)
<1> DEFINE P == PendingRows(saved, "delete")
           n == Len(s.rows)
           W == [k \in Nat |-> {t \in Sheets : AsBefore(s, t) /\ Thinned(s, t, P, n - k)}]
<1>1. n \in Nat
  BY LenProperties DEF Sheets, Grids
<1>2. s \in W[0]
  <2>1. AsBefore(s, s)
    BY DEF AsBefore
  <2>2. Thinned(s, s, P, n)
    <3> DEFINE S == LeftOf(s, P, n)
               h == [k \in S |-> k]
    <3>1. S = 1..n
      BY <1>1 DEF LeftOf
    <3>2. h \in [S -> S] /\ \A k \in S : h[k] = k
      OBVIOUS
    <3> HIDE DEF h
    <3>3. Along(h, s.rows, S, s.rows, S)
      BY <3>2 DEF Along
    <3>4. \A k \in 1..n : h[k] = k
      BY <3>1, <3>2
    <3> HIDE DEF S
    <3>5. QED
      BY <1>1, <3>1, <3>3, <3>4 DEF Thinned, S
  <2>3. n - 0 = n
    BY <1>1
  <2> HIDE DEF P, n
  <2>4. QED
    BY <2>1, <2>2, <2>3
<1>3. ASSUME NEW k \in 1..n, NEW t \in W[k - 1]
      PROVE  DroppedIn(t, P, n + 1 - k) \in W[k]
  <2> DEFINE i == n + 1 - k
  <2>1. k \in Nat /\ k - 1 \in Nat /\ i \in 1..n /\ n - (k - 1) = i /\ i - 1 = n - k
    BY <1>1
  <2>2. t \in Sheets /\ AsBefore(s, t) /\ Thinned(s, t, P, n - (k - 1))
    BY <2>1
  <2> HIDE DEF P, i
  <2>3. AsBefore(s, DroppedIn(t, P, i)) /\ Thinned(s, DroppedIn(t, P, i), P, i - 1)
    BY <1>1, <2>1, <2>2, DropThins
  <2>4. DroppedIn(t, P, i) \in Sheets
    BY <2>3 DEF AsBefore
  <2>5. DroppedIn(t, P, i) \in W[k]
    BY <2>1, <2>3, <2>4
  <2>6. QED
    BY <2>5 DEF i
<1> HIDE DEF W
<1>4. DeletedDropped(s, saved) \in W[n]
  BY <1>1, <1>2, <1>3, DroppedWithin
<1>5. n - n = 0
  BY <1>1
<1>6. QED
  BY <1>1, <1>4, <1>5 DEF W

(* The grid after the answer of a save nobody disturbed.                   *)
LEMMA AnsweredAgrees ==
    ASSUME NEW j \in Saves, Small(sheet), sent[j] = sheet.queue, SaveSucceeded(j), NEW T,
           Agrees(T, sheet.rows, Lasting(sheet))
    PROVE  Agrees(T, loaded', 1..Len(loaded'))
<1>1. sheet \in Sheets /\ sheet.queue \in Queues /\ Len(sheet.queue) \in Nat
  BY SheetFields, QueueTypes DEF Small
<1> DEFINE a == Sent(j)
           rest == SubSeq(sheet.queue, Len(a) + 1, Len(sheet.queue))
           u == [sheet EXCEPT !.queue = rest]
           t == DeletedDropped(u, a)
<1>2. a = sheet.queue
  <2>1. /\ a \in Queues /\ Len(a) = Len(sheet.queue)
        /\ \A k \in 1..Len(a) : a[k] = sheet.queue[k]
    BY <1>1, SentType
  <2> HIDE DEF a
  <2>2. a \in Seq(Ops) /\ sheet.queue \in Seq(Ops)
    BY <1>1, <2>1 DEF Queues
  <2>3. QED
    BY <2>1, <2>2, SeqEqual
<1>3. rest = <<>>
  BY <1>1, RestType
<1>4. Intact(j)
  BY <1>2 DEF Intact
<1>5. Drained(j) = HistoryCleared(t)
  BY <1>4 DEF Drained
<1> HIDE DEF rest, a
<1>6. u \in Sheets /\ u.rows = sheet.rows
  <2>1. rest \in Queues
    BY <1>3 DEF Queues
  <2>2. QED
    BY <1>1, <2>1 DEF Sheets
<1> HIDE DEF u
<1>7. t \in Sheets /\ Thinned(u, t, PendingRows(a, "delete"), 0)
  BY <1>6, DroppedType, DroppedThins DEF AsBefore
<1> HIDE DEF t
<1>8. sheet'.rows = t.rows
  <2>1. State(t) \in States
    BY <1>7 DEF Sheets, State, States
  <2>2. HistoryCleared(t).rows = t.rows
    BY <1>7, <2>1, ClearedKnown
  <2>3. QED
    BY <1>5, <2>2 DEF SaveSucceeded
<1>9. loaded' = t.rows
  BY <1>1, <1>8, AnsweredSheet
<1> DEFINE S == LeftOf(u, PendingRows(a, "delete"), 0)
<1>10. PICK h : Along(h, u.rows, S, t.rows, 1..Len(t.rows))
  BY <1>7 DEF Thinned
<1>11. S = Lasting(sheet)
  BY <1>2, <1>6 DEF LeftOf, Lasting
<1> HIDE DEF S
<1>12. Agrees(T, u.rows, S)
  BY <1>6, <1>11
<1>13. QED
  BY <1>9, <1>10, <1>12, AgreesAlong
-----------------------------------------------------------------------------
(* A save that was not made has sent nothing, and what was sent stays.     *)
Unsent == \A j \in Saves : jobs[j].phase = "none" => sent[j] = <<>>
SentInv == sent = [j \in Saves |-> sent[j]] /\ Unsent

LEMMA InitSent == Init => SentInv
BY DEF Init, SaveInit, NoJob, SentInv, Unsent

LEMMA SentStays ==
    ASSUME JobsClean, SentInv, [Next]_vars
    PROVE  SentInv' /\ \A j \in Saves : sent[j] # <<>> => sent'[j] = sent[j]
<1>1. ASSUME sent' = sent,
             \A j \in Saves : jobs'[j].phase = "none" => jobs[j].phase = "none"
      PROVE  SentInv' /\ \A j \in Saves : sent[j] # <<>> => sent'[j] = sent[j]
  BY <1>1 DEF SentInv, Unsent
<1>2. CASE UNCHANGED vars
  BY <1>1, <1>2 DEF vars, gridVars, saveVars
<1>3. CASE \/ StartEdit \/ FinishEdit \/ AddRow \/ DuplicateRow \/ ToggleDelete
           \/ Undo \/ Redo \/ Discard \/ Reload
  <2>1. jobs' = jobs
    BY <1>3, SheetLeavesJobs DEF saveVars
  <2>2. sent' = sent
    BY <1>3 DEF StartEdit, FinishEdit, AddRow, DuplicateRow, ToggleDelete, Undo, Redo,
                Discard, Reload, Edits
  <2>3. QED
    BY <1>1, <2>1, <2>2
<1>4. ASSUME NEW j \in Saves, jobs[j].phase # "none", NEW job, Set(j, job), sent' = sent,
             job.phase # "none"
      PROVE  SentInv' /\ \A i \in Saves : sent[i] # <<>> => sent'[i] = sent[i]
  <2>1. \A i \in Saves : jobs'[i].phase = "none" => jobs[i].phase = "none"
    BY <1>4 DEF Set, JobsClean
  <2>2. QED
    BY <1>1, <1>4, <2>1
<1>5. ASSUME NEW j \in Saves, Save(j)
      PROVE  SentInv' /\ \A i \in Saves : sent[i] # <<>> => sent'[i] = sent[i]
  <2>1. PICK s : sent' = [sent EXCEPT ![j] = s.queue] /\ Spawn(j, Statements(s))
    BY <1>5 DEF Save
  <2>2. sent[j] = <<>>
    BY <2>1 DEF Spawn, SentInv, Unsent
  <2>3. PICK driver : jobs' = [jobs EXCEPT ![j] = [NoJob EXCEPT !.phase = "spawned",
                                                   !.stmts = Statements(s),
                                                   !.driver = driver]]
    BY <2>1 DEF Spawn, Set
  <2>4. /\ jobs'[j].phase = "spawned"
        /\ \A i \in Saves : i # j => jobs'[i] = jobs[i] /\ sent'[i] = sent[i]
    BY <2>1, <2>3 DEF JobsClean, NoJob, SentInv
  <2>5. sent' = [i \in Saves |-> sent'[i]]
    BY <2>1 DEF SentInv
  <2>6. QED
    BY <2>2, <2>4, <2>5 DEF SentInv, Unsent
<1>6. ASSUME NEW j \in Saves,
             \/ SaveSteps(j) \/ CancelSave(j) \/ SaveSucceeded(j) \/ SaveFailed(j)
      PROVE  SentInv' /\ \A i \in Saves : sent[i] # <<>> => sent'[i] = sent[i]
  <2>1. sent' = sent
    BY <1>6 DEF SaveSteps, gridVars, CancelSave, SaveSucceeded, SaveFailed
  <2>2. jobs[j].phase # "none" /\ DOMAIN jobs[j] = Fields
    BY <1>6, LeftoverFacts DEF SaveSteps, SaveStep, Begin, BeginFails, Run, Refuse,
                Running, Commit, CommitFails, AtCommit, TimeOut, CancelSave, Cancel,
                InFlight, SaveSucceeded, SaveFailed, JobsClean, Clean
  <2>3. \E job : Set(j, job) /\ job.phase # "none"
    <3>1. ASSUME NEW job, DOMAIN job = Fields
          PROVE  /\ Returned(job).phase # "none" /\ Detached(job).phase # "none"
                 /\ LetGo(job).phase # "none" /\ Closed(job).phase # "none"
                 /\ Dropped(job).phase # "none"
      BY <3>1, LeavingLeaves, ClosingLeaves, DroppingLeaves DEF Left
    <3>2. CASE CancelSave(j) \/ SaveSucceeded(j) \/ SaveFailed(j)
      <4>1. \/ Set(j, Dropped(jobs[j]))
            \/ \E job : Set(j, Closed(job)) /\ DOMAIN job = Fields
        <5>1. CASE SaveSucceeded(j) \/ SaveFailed(j)
          BY <2>2, <5>1 DEF SaveSucceeded, SaveFailed, Handled
        <5>2. CASE CancelSave(j)
          <6>1. DOMAIN Returned(jobs[j]) = Fields
            BY <2>2, LeavingLeaves DEF Left
          <6>2. QED
            BY <2>2, <5>2, <6>1 DEF CancelSave, Cancel
        <5>3. QED
          BY <3>2, <5>1, <5>2
      <4>2. QED
        BY <2>2, <3>1, <4>1
    <3>3. CASE BeginFails(j) \/ Refuse(j) \/ TimeOut(j)
      BY <2>2, <3>1, <3>3 DEF BeginFails, Refuse, TimeOut
    <3>4. CASE Begin(j)
      <4> DEFINE job == [jobs[j] EXCEPT !.phase = "open", !.work = table, !.conn = "held",
                                        !.tx = TRUE]
      <4>1. Set(j, job)
        BY <3>4 DEF Begin
      <4>2. job.phase = "open"
        BY <2>2 DEF Fields
      <4> HIDE DEF job
      <4>3. QED
        BY <4>1, <4>2
    <3>5. CASE Run(j)
      <4> DEFINE rows == After(jobs[j].work, NextStatement(j), keyed)
                 job == [jobs[j] EXCEPT !.work = rows, !.ran = @ + 1]
      <4>1. Set(j, job)
        BY <3>5 DEF Run
      <4>2. job.phase = "open"
        BY <2>2, <3>5 DEF Run, Running, Fields
      <4> HIDE DEF job
      <4>3. QED
        BY <4>1, <4>2
    <3>6. CASE Commit(j)
      <4>1. Set(j, [Returned(jobs[j]) EXCEPT !.committed = TRUE, !.saved = TRUE])
        BY <3>6 DEF Commit, Committed
      <4> DEFINE left == Returned(jobs[j])
      <4>2. DOMAIN left = Fields /\ left.phase # "none"
        BY <2>2, <3>1, LeavingLeaves DEF Left
      <4> HIDE DEF left
      <4>3. [left EXCEPT !.committed = TRUE, !.saved = TRUE].phase # "none"
        BY <4>2 DEF Fields
      <4>4. QED
        BY <4>1, <4>3 DEF left
    <3>7. CASE CommitFails(j)
      <4>1. PICK written : Set(j, LetGo([jobs[j] EXCEPT !.committed = written]))
        BY <3>7 DEF CommitFails
      <4>2. DOMAIN [jobs[j] EXCEPT !.committed = written] = Fields
        BY <2>2
      <4>3. QED
        BY <3>1, <4>1, <4>2
    <3>8. CASE LeftoverEnds(j)
      BY <3>8, LeftoverFacts DEF Lasts
    <3>9. QED
      BY <1>6, <3>2, <3>3, <3>4, <3>5, <3>6, <3>7, <3>8 DEF SaveSteps, SaveStep
  <2>4. QED
    BY <1>4, <2>1, <2>2, <2>3
<1>7. QED
  BY <1>2, <1>3, <1>5, <1>6 DEF Next

(* A row edited and deleted by one save has been so ever since.            *)
LEMMA CrossedStays ==
    ASSUME JobsClean, SentInv, [Next]_vars, Crossed
    PROVE  Crossed'
<1>1. PICK j \in Saves : PendingRows(sent[j], "update") \cap PendingRows(sent[j], "delete") # {}
  BY DEF Crossed
<1>2. sent[j] # <<>>
  BY <1>1 DEF PendingRows
<1>3. sent'[j] = sent[j]
  BY <1>2, SentStays
<1>4. QED
  BY <1>1, <1>3 DEF Crossed

LEMMA RewoundType ==
    ASSUME NEW s, s.rows \in Grids, s.queue \in Queues
    PROVE  Rewound(s) \in Grids
<1> DEFINE was == [i \in DOMAIN s.rows |-> Original(s.queue, i, s.rows[i])]
           S == DOMAIN s.rows \ PendingRows(s.queue, "insert")
<1>1. Len(s.rows) \in Nat /\ DOMAIN s.rows = 1..Len(s.rows)
  BY GridTypes
<1>2. ASSUME NEW i \in 1..Len(s.rows) PROVE Original(s.queue, i, s.rows[i]) \in Rows
  <2>1. s.rows[i] \in Rows
    BY GridTypes
  <2>2. QED
    BY <2>1, OriginalType
<1>3. was \in Seq(Rows) /\ DOMAIN was = DOMAIN s.rows
  BY <1>1, <1>2
<1>4. S \in SUBSET DOMAIN was
  BY <1>3
<1>5. Rewound(s) = Picked(was, S)
  BY DEF Rewound
<1> HIDE DEF was, S
<1>6. QED
  BY <1>3, <1>4, <1>5, PickedType DEF Grids
-----------------------------------------------------------------------------
(* What a save under way knows of the table: before it has written, the    *)
(* table agrees with what was loaded; in its transaction, with what its    *)
(* statements so far make of that; once it has answered, with what is      *)
(* shown.                                                                  *)
SaveGood(job, T, rows, s) ==
    /\ job.stmts = Statements(s)
    /\ ~job.committed => Agrees(T, rows, 1..Len(rows))
    /\ job.phase = "open" => /\ NoDefaults(job.work)
                             /\ Agrees(job.work, Shown(s, job.ran), Present(s, job.ran))
    /\ job.saved => Agrees(T, s.rows, Lasting(s))
StoreInv ==
    ~disturbed /\ ~Crossed =>
       /\ NoDefaults(table)
       /\ Flying = {} => Agrees(table, loaded, 1..Len(loaded))
       /\ \A j \in Flying : reloads = 0 /\ SaveGood(jobs[j], table, loaded, sheet)

Calm == /\ ~disturbed /\ ~Crossed /\ ~replaced
        /\ JobsTyped /\ Small(sheet) /\ sent \in [Saves -> Queues]
        /\ loaded \in Grids /\ loaded = Rewound(sheet)
        /\ sheet.lost = 0 => sheet.base = loaded
        /\ \A j \in Flying : /\ sent[j] = sheet.queue /\ Ready(sheet)
                             /\ Flying = {j} /\ reloads = 0
                             /\ SaveGood(jobs[j], table, loaded, sheet)
        /\ NoDefaults(table)
        /\ Flying = {} => Agrees(table, loaded, 1..Len(loaded))
        /\ Counted

LEMMA CalmHere ==
    ASSUME HistoryInv, HonestInv, ExplainInv, StoreInv, ~disturbed, ~Crossed
    PROVE  Calm
<1>1. /\ ~replaced /\ (sheet.lost = 0 => sheet.base = loaded)
      /\ \A j \in Flying : sent[j] = sheet.queue
      /\ \A i, j \in Flying : i = j
      /\ Small(sheet) /\ JobsTyped /\ sent \in [Saves -> Queues] /\ Counted
  BY DEF HistoryInv, WaitInv, TypedInv, SheetGood
<1>2. State(sheet) \in Honest /\ sheet.rows \in Grids /\ sheet.queue \in Queues
  BY KnownHere DEF HonestInv
<1>3. loaded = Rewound(sheet)
  <2>1. State(sheet) \in Explains(loaded)
    BY <1>1, KnownHere DEF ExplainInv
  <2>2. Rewound(State(sheet)) = Rewound(sheet)
    BY DEF Rewound, State
  <2>3. QED
    BY <2>1, <2>2 DEF Explains
<1>4. loaded \in Grids
  BY <1>2, <1>3, RewoundType
<1>5. /\ NoDefaults(table)
      /\ Flying = {} => Agrees(table, loaded, 1..Len(loaded))
      /\ \A j \in Flying : reloads = 0 /\ SaveGood(jobs[j], table, loaded, sheet)
  BY DEF StoreInv
<1>6. \A j \in Flying : Ready(sheet) /\ Flying = {j}
  <2>1. \A j \in Saves : Uncrossed(sent[j])
    BY DEF Crossed, Uncrossed
  <2>2. QED
    BY <1>1, <1>2, <2>1 DEF Ready, Flying
<1>7. QED
  BY <1>1, <1>3, <1>4, <1>5, <1>6 DEF Calm

(* The only save under way takes a step, or begins or ends.                *)
LEMMA OnlySave ==
    ASSUME JobsClean, NEW j \in Saves, Flying \subseteq {j}, NEW job, Set(j, job)
    PROVE  /\ Flying' \subseteq {j} /\ jobs'[j] = job
           /\ job.phase \in {"spawned", "open", "ended"} <=> j \in Flying'
<1>1. jobs' = [i \in Saves |-> IF i = j THEN job ELSE jobs[i]]
  BY DEF Set, JobsClean
<1>2. jobs'[j] = job /\ \A i \in Saves : i # j => jobs'[i] = jobs[i]
  BY <1>1
<1>3. Flying' = {i \in Saves : jobs'[i].phase \in {"spawned", "open", "ended"}}
  BY DEF Flying, InFlight
<1>4. \A i \in Saves : i # j => jobs[i].phase \notin {"spawned", "open", "ended"}
  BY DEF Flying, InFlight
<1>5. QED
  BY <1>2, <1>3, <1>4

LEMMA StoreMade ==
    ASSUME JobsClean, NEW j \in Saves, Flying \subseteq {j}, NEW job, Set(j, job),
           NoDefaults(table'), job.phase \in {"spawned", "open", "ended"},
           reloads' = 0, SaveGood(job, table', loaded', sheet')
    PROVE  StoreInv'
<1>1. Flying' \subseteq {j} /\ jobs'[j] = job /\ Flying' # {}
  BY OnlySave
<1>2. \A i \in Flying' : reloads' = 0 /\ SaveGood(jobs'[i], table', loaded', sheet')
  BY <1>1
<1>3. QED
  BY <1>1, <1>2 DEF StoreInv

LEMMA StoreEnds ==
    ASSUME JobsClean, NEW j \in Saves, Flying \subseteq {j}, NEW job, Set(j, job),
           NoDefaults(table'), job.phase = "done",
           Agrees(table', loaded', 1..Len(loaded'))
    PROVE  StoreInv'
<1>1. Flying' = {}
  BY OnlySave
<1>2. QED
  BY <1>1 DEF StoreInv

(* The step of a save that leaves its transaction without writing.         *)
LEMMA StoreLeft ==
    ASSUME JobsClean, Calm, NEW j \in Flying, ~jobs[j].committed, UNCHANGED gridVars,
           NEW job, NEW left,
           Left(left, job), Set(j, left), job.stmts = jobs[j].stmts, job.saved = FALSE,
           NoDefaults(table'), ~job.committed => table' = table
    PROVE  StoreInv'
<1>1. /\ j \in Saves /\ Flying \subseteq {j} /\ reloads = 0
      /\ SaveGood(jobs[j], table, loaded, sheet)
  BY DEF Calm, Flying
<1>2. /\ left.phase = "ended" /\ left.stmts = job.stmts /\ left.committed = job.committed
      /\ left.saved = FALSE
  BY DEF Left
<1>3. loaded' = loaded /\ sheet' = sheet /\ reloads' = 0
  BY <1>1 DEF gridVars
<1>4. ~left.committed => Agrees(table', loaded', 1..Len(loaded'))
  BY <1>1, <1>2, <1>3 DEF SaveGood
<1>5. SaveGood(left, table', loaded', sheet')
  BY <1>1, <1>2, <1>3, <1>4 DEF SaveGood
<1>6. QED
  BY <1>1, <1>2, <1>3, <1>5, StoreMade

(* A step of the job of a save.                                            *)
LEMMA StoreSteps ==
    ASSUME JobsClean, WorkInv, Calm, NEW j \in Saves, SaveSteps(j), ~LeftoverEnds(j)
    PROVE  StoreInv'
<1>1. /\ Clean(jobs[j]) /\ DOMAIN jobs[j] = Fields /\ JobTyped(jobs[j])
      /\ jobs[j].stmts \in Seq(Stmts) /\ jobs[j].work \in Grids /\ table \in Grids
      /\ Len(jobs[j].stmts) \in Nat
  BY LenProperties DEF Calm, JobsClean, Clean, JobsTyped, JobTyped
<1>2. jobs[j].phase \in {"spawned", "open"}
  BY DEF SaveSteps, SaveStep, Begin, BeginFails, Run, Refuse, Commit, CommitFails, TimeOut,
         Running, AtCommit
<1>3. jobs[j].committed = FALSE /\ jobs[j].saved = FALSE
  BY <1>1, <1>2, UncommittedBefore
<1>4. /\ j \in Flying /\ Flying \subseteq {j} /\ Ready(sheet) /\ reloads = 0
      /\ loaded \in Grids /\ loaded = Rewound(sheet) /\ NoDefaults(table)
      /\ SaveGood(jobs[j], table, loaded, sheet)
  BY <1>2 DEF Calm, Flying, InFlight
<1>5. /\ jobs[j].stmts = Statements(sheet)
      /\ Agrees(table, loaded, 1..Len(loaded))
      /\ jobs[j].phase = "open" =>
            /\ NoDefaults(jobs[j].work)
            /\ Agrees(jobs[j].work, Shown(sheet, jobs[j].ran), Present(sheet, jobs[j].ran))
  BY <1>3, <1>4 DEF SaveGood
<1>6. UNCHANGED gridVars /\ loaded' = loaded /\ sheet' = sheet /\ reloads' = 0
  BY <1>4 DEF SaveSteps, gridVars
<1>7. CASE Begin(j)
  <2> DEFINE job == [jobs[j] EXCEPT !.phase = "open", !.work = table, !.conn = "held",
                                    !.tx = TRUE]
  <2>1. Set(j, job) /\ table' = table /\ jobs[j].ran = 0
    BY <1>7 DEF Begin, WorkInv
  <2>2. /\ job.phase = "open" /\ job.stmts = jobs[j].stmts /\ job.work = table
        /\ job.ran = jobs[j].ran /\ job.saved = jobs[j].saved
    BY <1>1 DEF Fields
  <2> HIDE DEF job
  <2>3. Agrees(table, Shown(sheet, 0), Present(sheet, 0))
    BY <1>4, <1>5, StartAgrees
  <2>4. SaveGood(job, table, loaded, sheet)
    BY <1>3, <1>4, <1>5, <2>1, <2>2, <2>3 DEF SaveGood
  <2>5. QED
    BY <1>4, <1>6, <2>1, <2>2, <2>4, StoreMade
<1>8. CASE Run(j)
  <2> DEFINE n == jobs[j].ran
             st == NextStatement(j)
             rows == After(jobs[j].work, st, keyed)
             job == [jobs[j] EXCEPT !.work = rows, !.ran = @ + 1]
  <2>1. /\ Set(j, job) /\ table' = table /\ jobs[j].phase = "open"
        /\ n \in Nat /\ n < Len(jobs[j].stmts) /\ Expected(jobs[j].work, st, keyed)
    BY <1>8 DEF Run, Running, WorkInv
  <2>2. st = Statements(sheet)[n + 1] /\ n < Len(Statements(sheet))
    BY <1>5, <2>1 DEF NextStatement
  <2>3. /\ job.phase = "open" /\ job.stmts = jobs[j].stmts /\ job.work = rows
        /\ job.ran = n + 1 /\ job.saved = jobs[j].saved
        /\ job.committed = jobs[j].committed
    BY <1>1, <2>1 DEF Fields
  <2> HIDE DEF job, st
  <2>4. NoDefaults(rows) /\ Agrees(rows, Shown(sheet, n + 1), Present(sheet, n + 1))
    <3>1. /\ NoDefaults(jobs[j].work)
          /\ Agrees(jobs[j].work, Shown(sheet, n), Present(sheet, n))
      BY <1>5, <2>1
    <3> DEFINE T == jobs[j].work
    <3>2. /\ T \in Grids /\ NoDefaults(T) /\ Agrees(T, Shown(sheet, n), Present(sheet, n))
          /\ Expected(T, st, keyed)
      BY <1>1, <2>1, <3>1
    <3>3. rows = After(T, st, keyed)
      OBVIOUS
    <3> HIDE DEF T, n, rows
    <3>4. NoDefaults(After(T, st, keyed))
          /\ Agrees(After(T, st, keyed), Shown(sheet, n + 1), Present(sheet, n + 1))
      BY <1>4, <2>1, <2>2, <3>2, StatementAgrees
    <3>5. QED
      BY <3>3, <3>4
  <2> HIDE DEF rows
  <2>5. SaveGood(job, table, loaded, sheet)
    BY <1>3, <1>4, <1>5, <2>3, <2>4 DEF SaveGood
  <2>6. QED
    BY <1>4, <1>6, <2>1, <2>3, <2>5, StoreMade
<1>9. CASE BeginFails(j) \/ Refuse(j) \/ TimeOut(j)
  <2>1. /\ table' = table
        /\ \/ Set(j, Returned(jobs[j]))
           \/ Set(j, Detached(jobs[j]))
           \/ Set(j, LetGo(jobs[j]))
    BY <1>9 DEF BeginFails, Refuse, TimeOut
  <2>2. PICK left : Left(left, jobs[j]) /\ Set(j, left)
    BY <1>1, <2>1, LeavingLeaves
  <2>3. QED
    BY <1>3, <1>4, <1>6, <2>1, <2>2, StoreLeft
<1>10. CASE Commit(j)
  <2> DEFINE back == Returned(jobs[j])
             job == [back EXCEPT !.committed = TRUE, !.saved = TRUE]
  <2>1. /\ Set(j, job) /\ table' = jobs[j].work /\ jobs[j].phase = "open"
        /\ jobs[j].ran = Len(jobs[j].stmts)
    BY <1>10 DEF Commit, Committed, AtCommit
  <2>2. DOMAIN back = Fields /\ back.phase = "ended" /\ back.stmts = jobs[j].stmts
    BY <1>1, LeavingLeaves DEF Left
  <2> HIDE DEF back
  <2>3. job.phase = "ended" /\ job.stmts = jobs[j].stmts /\ job.committed /\ job.saved
    BY <2>2 DEF Fields
  <2> HIDE DEF job
  <2>4. NoDefaults(table') /\ Agrees(table', sheet.rows, Lasting(sheet))
    BY <1>4, <1>5, <2>1, EndAgrees
  <2>5. SaveGood(job, table', loaded', sheet')
    BY <1>5, <1>6, <2>3, <2>4 DEF SaveGood
  <2>6. QED
    BY <1>4, <1>6, <2>1, <2>3, <2>4, <2>5, StoreMade
<1>11. CASE CommitFails(j)
  <2>1. PICK written \in BOOLEAN :
            /\ table' = IF written THEN [jobs[j] EXCEPT !.committed = written].work
                        ELSE table
            /\ Set(j, LetGo([jobs[j] EXCEPT !.committed = written]))
    BY <1>11 DEF CommitFails
  <2> DEFINE job == [jobs[j] EXCEPT !.committed = written]
             left == LetGo(job)
  <2>2. /\ DOMAIN job = Fields /\ job.work = jobs[j].work /\ job.stmts = jobs[j].stmts
        /\ job.saved = FALSE /\ job.committed = written
    BY <1>1, <1>3 DEF Fields
  <2>3. jobs[j].phase = "open"
    BY <1>11 DEF CommitFails, AtCommit
  <2>4. NoDefaults(table') /\ (~job.committed => table' = table)
    BY <1>4, <1>5, <2>1, <2>2, <2>3
  <2>5. Set(j, left)
    BY <2>1
  <2> HIDE DEF job
  <2>6. Left(left, job)
    BY <2>2, LeavingLeaves
  <2> HIDE DEF left
  <2>7. QED
    BY <1>3, <1>4, <1>6, <2>2, <2>4, <2>5, <2>6, StoreLeft
<1>12. QED
  BY <1>7, <1>8, <1>9, <1>10, <1>11 DEF SaveSteps, SaveStep

(* What an aborted save left open is none of the table.                    *)
LEMMA StoreLasts ==
    ASSUME JobsClean, Calm, NEW j \in Saves, SaveSteps(j), LeftoverEnds(j)
    PROVE  StoreInv'
<1>1. PICK left : Set(j, left) /\ Lasts(jobs[j], left)
  BY LeftoverFacts
<1>2. jobs[j].phase = "done" /\ left.phase = "done" /\ table' = table
  BY <1>1, LeftoverFacts DEF Lasts
<1>3. jobs'[j] = left /\ \A i \in Saves : i # j => jobs'[i] = jobs[i]
  BY <1>1 DEF Set, JobsClean
<1>4. j \notin Flying /\ Flying' = Flying /\ \A i \in Flying : jobs'[i] = jobs[i]
  BY <1>2, <1>3 DEF Flying, InFlight
<1>5. UNCHANGED <<sheet, reloads, loaded>>
  BY DEF SaveSteps, gridVars
<1>6. /\ NoDefaults(table)
      /\ Flying = {} => Agrees(table, loaded, 1..Len(loaded))
      /\ \A i \in Flying : reloads = 0 /\ SaveGood(jobs[i], table, loaded, sheet)
  BY DEF Calm
<1>7. \A i \in Flying' :
         reloads' = 0 /\ SaveGood(jobs'[i], table', loaded', sheet')
  BY <1>2, <1>4, <1>5, <1>6
<1>8. QED
  BY <1>2, <1>4, <1>5, <1>6, <1>7 DEF StoreInv

(* The user changes the grid while nothing is under way.                   *)
LEMMA StoreEdited ==
    ASSUME Calm, UNCHANGED saveVars, Flying = {},
           Agrees(table, loaded', 1..Len(loaded'))
    PROVE  StoreInv'
<1>1. table' = table /\ jobs' = jobs
  BY DEF saveVars
<1>2. Flying' = Flying
  BY <1>1 DEF Flying, InFlight
<1>3. NoDefaults(table') /\ Agrees(table', loaded', 1..Len(loaded'))
  BY <1>1 DEF Calm
<1>4. QED
  BY <1>2, <1>3 DEF StoreInv

LEMMA StoreSaved ==
    ASSUME JobsClean, HistoryInv, HonestInv, Calm, NEW j \in Saves, Save(j), ~Busy
    PROVE  StoreInv'
<1>1. Flying = {} /\ reloads = 0
  BY NotBusy DEF Calm
<1>2. PICK s : /\ Spawn(j, Statements(s)) /\ sheet' = s
               /\ reloads' = reloads /\ loaded' = loaded
  BY DEF Save
<1>3. PICK driver : Set(j, [NoJob EXCEPT !.phase = "spawned", !.stmts = Statements(s),
                                         !.driver = driver])
  BY <1>2 DEF Spawn
<1> DEFINE job == [NoJob EXCEPT !.phase = "spawned", !.stmts = Statements(s),
                                !.driver = driver]
<1>4. /\ job.phase = "spawned" /\ job.stmts = Statements(s)
      /\ job.committed = FALSE /\ job.saved = FALSE
  BY DEF NoJob
<1>5. Set(j, job) /\ table' = table /\ NoDefaults(table)
      /\ Agrees(table, loaded, 1..Len(loaded))
  BY <1>1, <1>2, <1>3 DEF Spawn, Calm
<1> HIDE DEF job
<1>6. SaveGood(job, table', loaded', sheet')
  BY <1>2, <1>4, <1>5 DEF SaveGood
<1>7. QED
  BY <1>1, <1>2, <1>4, <1>5, <1>6, StoreMade

(* The answer of a save is handled, or the save is cancelled.              *)
LEMMA StoreAnswered ==
    ASSUME JobsClean, Calm, NEW j \in Saves, ~disturbed',
           CancelSave(j) \/ SaveSucceeded(j) \/ SaveFailed(j)
    PROVE  StoreInv'
<1>1. j \in Flying
  BY DEF CancelSave, Cancel, SaveSucceeded, SaveFailed, Flying, InFlight
<1>2. /\ Flying \subseteq {j} /\ sent[j] = sheet.queue /\ Small(sheet)
      /\ SaveGood(jobs[j], table, loaded, sheet) /\ NoDefaults(table)
      /\ DOMAIN jobs[j] = Fields
  BY <1>1 DEF Calm, JobsClean, Clean
<1>3. table' = table
  BY DEF CancelSave, Cancel, SaveSucceeded, SaveFailed, Handled
<1>4. \E job : Set(j, job) /\ job.phase = "done"
  <2>1. ASSUME NEW job, DOMAIN job = Fields PROVE Closed(job).phase = "done"
    BY <2>1, ClosingLeaves
  <2>2. CASE SaveSucceeded(j) \/ SaveFailed(j)
    BY <1>2, <2>1, <2>2 DEF SaveSucceeded, SaveFailed, Handled
  <2>3. CASE CancelSave(j)
    <3>1. DOMAIN Returned(jobs[j]) = Fields /\ Dropped(jobs[j]).phase = "done"
      BY <1>2, LeavingLeaves, DroppingLeaves DEF Left
    <3>2. QED
      BY <1>2, <2>1, <2>3, <3>1 DEF CancelSave, Cancel
  <2>4. QED
    BY <2>2, <2>3
<1>5. Agrees(table', loaded', 1..Len(loaded'))
  <2>1. CASE CancelSave(j) \/ SaveFailed(j)
    <3>1. loaded' = loaded /\ ~jobs[j].committed
      BY <2>1 DEF CancelSave, SaveFailed
    <3>2. QED
      BY <1>2, <1>3, <3>1 DEF SaveGood
  <2>2. CASE SaveSucceeded(j)
    <3>1. Agrees(table, sheet.rows, Lasting(sheet))
      BY <1>2, <2>2 DEF SaveGood, SaveSucceeded
    <3>2. Agrees(table, loaded', 1..Len(loaded'))
      BY <1>2, <2>2, <3>1, AnsweredAgrees
    <3>3. QED
      BY <1>3, <3>2
  <2>3. QED
    BY <2>1, <2>2
<1>6. QED
  BY <1>2, <1>3, <1>4, <1>5, StoreEnds

LEMMA StoreNext ==
    ASSUME JobsClean, WorkInv, HistoryInv, HonestInv, ExplainInv, SentInv, StoreInv,
           [Next]_vars
    PROVE  StoreInv'
<1> SUFFICES ASSUME ~disturbed', ~Crossed' PROVE StoreInv'
  BY DEF StoreInv
<1>1. ~disturbed /\ ~Crossed
  BY FlagsStay, CrossedStays DEF HistoryInv
<1>2. Calm
  BY <1>1, CalmHere
<1>3. ~Busy => Flying = {} /\ Agrees(table, loaded, 1..Len(loaded))
  BY <1>2, NotBusy DEF Calm
<1>4. CASE \/ StartEdit \/ FinishEdit \/ AddRow \/ DuplicateRow \/ ToggleDelete
           \/ Undo \/ Redo
  <2>1. ~Busy /\ loaded' = loaded
    BY <1>4 DEF StartEdit, FinishEdit, AddRow, DuplicateRow, ToggleDelete, Undo, Redo, Edits
  <2>2. UNCHANGED saveVars
    BY <1>4, SheetLeavesJobs
  <2>3. QED
    BY <1>2, <1>3, <2>1, <2>2, StoreEdited
<1>5. CASE Discard
  <2>1. ~Busy /\ ~(sheet.lost > 0) /\ loaded' = sheet.base /\ UNCHANGED saveVars
    BY <1>5 DEF Discard
  <2>2. sheet.lost \in Nat
    BY <1>2, SheetFields DEF Calm
  <2>3. loaded' = loaded
    BY <1>2, <2>1, <2>2 DEF Calm
  <2>4. QED
    BY <1>2, <1>3, <2>1, <2>3, StoreEdited
<1>6. CASE Reload
  <2>1. reloads > 0 /\ UNCHANGED saveVars /\ loaded' \in {table, loaded}
    BY <1>6 DEF Reload
  <2>2. Flying = {}
    BY <1>2, <2>1 DEF Calm
  <2>3. Agrees(table, table, 1..Len(table)) /\ Agrees(table, loaded, 1..Len(loaded))
    BY <1>2, <2>2, AgreesItself DEF Calm, JobsTyped
  <2>4. QED
    BY <1>2, <2>1, <2>2, <2>3, StoreEdited
<1>7. ASSUME NEW j \in Saves, Save(j) PROVE StoreInv'
  <2>1. ~Busy
    BY <1>7 DEF Save
  <2>2. QED
    BY <1>2, <1>7, <2>1, StoreSaved
<1>8. ASSUME NEW j \in Saves, SaveSteps(j) PROVE StoreInv'
  BY <1>2, <1>8, StoreSteps, StoreLasts
<1>9. ASSUME NEW j \in Saves, CancelSave(j) \/ SaveSucceeded(j) \/ SaveFailed(j)
      PROVE  StoreInv'
  BY <1>2, <1>9, StoreAnswered
<1>10. CASE UNCHANGED vars
  <2>1. /\ disturbed' = disturbed /\ table' = table /\ loaded' = loaded /\ jobs' = jobs
        /\ reloads' = reloads /\ sheet' = sheet
    BY <1>10 DEF vars, gridVars, saveVars
  <2>2. Flying' = Flying
    BY <2>1 DEF Flying, InFlight
  <2>3. /\ NoDefaults(table)
        /\ Flying = {} => Agrees(table, loaded, 1..Len(loaded))
        /\ \A j \in Flying : reloads = 0 /\ SaveGood(jobs[j], table, loaded, sheet)
    BY <1>2 DEF Calm
  <2>4. QED
    BY <2>1, <2>2, <2>3 DEF StoreInv
<1>11. QED
  BY <1>4, <1>5, <1>6, <1>7, <1>8, <1>9, <1>10 DEF Next

LEMMA InitStore == Init => StoreInv
<1> SUFFICES ASSUME Init PROVE StoreInv
  OBVIOUS
<1>1. /\ table = FirstRows /\ loaded = FirstRows /\ FirstRows \in Grids
  BY FirstGrid DEF Init
<1>2. NoDefaults(table)
  BY <1>1, FirstGrid, GridTypes DEF NoDefaults
<1>3. Flying = {}
  BY DEF Init, SaveInit, NoJob, Flying, InFlight
<1>4. Agrees(table, loaded, 1..Len(loaded))
  BY <1>1, AgreesItself
<1>5. QED
  BY <1>2, <1>3, <1>4 DEF StoreInv

(* Without a save that edits and deletes one row, the table holds the rows *)
(* the grid shows as saved, whenever the user waits for saves and reloads: *)
(* every WHERE made of the original values names one row and its own       *)
(* (spreadsheet_generate_statements), a save that fails, runs out of time  *)
(* or is cancelled leaves the table as it was loaded, and the rows a save  *)
(* deleted are those that leave the grid (grid_drop_saved_deleted_rows).   *)
THEOREM SavesAreShown == Spec => []LoadedIsStored
<1> DEFINE Inv == HonestInv /\ ExplainInv /\ SentInv /\ StoreInv
<1>1. Init => Inv
  BY InitHonest, InitExplain, InitSent, InitStore
<1>2. JobsClean /\ WorkInv /\ HistoryInv /\ Inv /\ [Next]_vars => Inv'
  <2> SUFFICES ASSUME JobsClean, WorkInv, HistoryInv, Inv, [Next]_vars PROVE Inv'
    OBVIOUS
  <2>1. HonestInv' /\ ExplainInv' /\ SentInv' /\ StoreInv'
    BY HonestNext, ExplainNext, SentStays, StoreNext
  <2>2. QED
    BY <2>1
<1>3. HistoryInv /\ Inv => LoadedIsStored
  <2> SUFFICES ASSUME HistoryInv, Inv, ~Crossed, ~disturbed, ~Busy
               PROVE  /\ Len(loaded) = Len(table)
                      /\ \A k \in DOMAIN loaded : Stored(loaded[k])
    BY DEF LoadedIsStored, SavedIsShown
  <2>1. Calm
    BY CalmHere
  <2>2. /\ Agrees(table, loaded, 1..Len(loaded)) /\ table \in Grids /\ loaded \in Grids
    BY <2>1, NotBusy DEF Calm, JobsTyped
  <2>3. /\ Len(loaded) = Len(table)
        /\ \A k \in DOMAIN loaded : \E l \in DOMAIN table : Fits(loaded[k], table[l])
    BY <2>2, AgreesAll
  <2>4. QED
    BY <2>3 DEF Stored, Fits
<1>4. Init => JobsClean /\ WorkInv
  BY InitClean, InitWork
<1>5. JobsClean /\ WorkInv /\ [Next]_vars => JobsClean' /\ WorkInv'
  BY NextClean, NextWork
<1> HIDE DEF Inv
<1>6. QED
  BY <1>1, <1>2, <1>3, <1>4, <1>5, AlwaysHistory, PTL DEF Spec
=============================================================================
