--------------------------- MODULE QueryJobsProofs ---------------------------
(***************************************************************************)
(* What holds of the query jobs for every number of jobs, tabs and result  *)
(* sets, and every mix of kinds; and, in the second part, when tabs are    *)
(* only switched by code that calls sync_job_tabs and no statement runs in *)
(* a session: a closed tab runs and starts nothing.  And, when no result   *)
(* comes page by page, the spinner means that something is being executed. *)
(* The last part follows each job to its end, when moreover a statement    *)
(* has one result set: the results of a script come in order, and the jobs *)
(* implement the steps of the board.                                       *)
(***************************************************************************)
EXTENDS QueryJobs, TLAPS, FiniteSetTheorems, WellFoundedInduction

(* An id that allocate_id has not handed out is used nowhere.              *)
Numbered ==
    /\ \A j \in Jobs : j > last_id => /\ run[j] = "none"
                                      /\ tab_of[j] = NoTab
                                      /\ shown[j] = {}
                                      /\ j \notin active
    /\ \A i \in 1..Len(channel) : channel[i].job <= last_id

(* A job that may still send has not sent all it can.                      *)
Room == \A j \in Jobs : run[j] # "ended" => sent[j] < MaxSets

(* A job that no frame has recorded yet was started in the active tab: the *)
(* tab has not been switched since.                                        *)
Recorded ==
    ~BareSwitch =>
        \A j \in active : IF tab_of[j] = NoTab THEN stamp[j] = here
                          ELSE tab_of[j] = stamp[j]

JobsInv == TypeOK /\ Numbered /\ Room /\ Recorded /\ ResultsStayHome

LEMMA JobsInitially == Init => JobsInv
<1> SUFFICES ASSUME Init PROVE JobsInv
  OBVIOUS
<1>1. TypeOK
  <2>1. /\ kind \in [Jobs -> AllKinds \cup {"none", "failed"}]
        /\ stamp \in [Jobs -> Tabs \cup {NoTab}]
        /\ run \in [Jobs -> {"none", "queued", "running", "sending", "failing", "ended"}]
        /\ tab_of \in [Jobs -> Tabs \cup {NoTab}]
        /\ shown \in [Jobs -> SUBSET Tabs]
    BY DEF Init
  <2>2. /\ task \in [Jobs -> 0..MaxJobs]
        /\ sent \in [Jobs -> 0..MaxSets]
        /\ last_id \in 0..MaxJobs
        /\ opened \in Tabs
        /\ here \in tabs
        /\ tabs \subseteq Tabs
    BY JobsAssumption DEF Init, Tabs
  <2>3. channel \in Seq(Messages) /\ batches \subseteq (SUBSET Jobs) \ {{}}
    BY DEF Init
  <2>4. phase \in {"drain", "render"} /\ busy \in BOOLEAN
    BY DEF Init
  <2>5. /\ aborted \subseteq Jobs /\ active \subseteq Jobs
        /\ callbacks \subseteq Jobs /\ cancelled \subseteq Jobs
        /\ called \subseteq Jobs /\ gave_up \subseteq Jobs
        /\ dropped \subseteq Jobs
    BY DEF Init
  <2>6. QED
    BY <2>1, <2>2, <2>3, <2>4, <2>5 DEF TypeOK
<1>2. Numbered /\ Room /\ ResultsStayHome
  BY JobsAssumption DEF Init, Numbered, Room, ResultsStayHome
<1>3. Recorded
  BY DEF Init, Recorded
<1>4. QED
  BY <1>1, <1>2, <1>3 DEF JobsInv

LEMMA MessagesOfJobs ==
    ASSUME TypeOK
    PROVE  /\ Len(channel) \in Nat
           /\ \A i \in 1..Len(channel) : /\ channel[i] \in Messages
                                          /\ channel[i].job \in Jobs
<1>1. channel \in Seq(Messages)
  BY DEF TypeOK
<1>2. Len(channel) \in Nat /\ \A i \in 1..Len(channel) : channel[i] \in Messages
  BY <1>1
<1>3. QED
  BY <1>2 DEF Messages

(* The ids of one launch, and what allocate_id makes of last_id.           *)
LEMMA Allocated ==
    ASSUME TypeOK, NEW ids, ids \subseteq Jobs,
           ids = {Fresh} \/ ids = {Fresh, Fresh + 1},
           last_id' = last_id + Cardinality(ids)
    PROVE  /\ last_id' \in 0..MaxJobs
           /\ \A j \in ids : last_id < j /\ j <= last_id'
           /\ last_id <= last_id'
           /\ Fresh \in Jobs
           /\ ids # {}
<1>1. last_id \in Nat /\ Fresh = last_id + 1
  BY DEF TypeOK, Fresh
<1>2. CASE ids = {Fresh}
  <2>1. Cardinality(ids) = 1
    BY <1>2, FS_Singleton
  <2>2. QED
    BY <1>1, <1>2, <2>1, JobsAssumption DEF Jobs
<1>3. CASE ids = {Fresh, Fresh + 1}
  <2>1. Cardinality(ids) = 2
    <3>1. ids = {Fresh} \cup {Fresh + 1} /\ Fresh # Fresh + 1
      BY <1>1, <1>3
    <3>2. IsFiniteSet({Fresh}) /\ Cardinality({Fresh}) = 1
      BY FS_Singleton
    <3>3. Cardinality({Fresh} \cup {Fresh + 1}) = 1 + 1
      BY <3>1, <3>2, FS_AddElement
    <3>4. QED
      BY <3>1, <3>3
  <2>2. QED
    BY <1>1, <1>3, <2>1, JobsAssumption DEF Jobs
<1>4. QED
  BY <1>2, <1>3

LEMMA LaunchKeeps ==
    ASSUME JobsInv, NEW ids, ids = {Fresh} \/ ids = {Fresh, Fresh + 1},
           NEW k, NEW first, first \in {0, Fresh}, NEW waits \in BOOLEAN,
           Launch(ids, k, first, waits),
           busy' \in BOOLEAN, callbacks' \subseteq Jobs,
           batches' \subseteq (SUBSET Jobs) \ {{}}
    PROVE  JobsInv'
<1> USE DEF JobsInv
<1>1. /\ last_id' \in 0..MaxJobs
      /\ \A j \in ids : last_id < j /\ j <= last_id'
      /\ last_id <= last_id'
      /\ Fresh \in Jobs
      /\ ids \subseteq Jobs
  BY Allocated DEF Launch, New
<1>2. last_id \in Nat /\ last_id' \in Nat /\ Jobs \subseteq Nat
  BY <1>1, JobsAssumption DEF TypeOK, Jobs
<1>3. TypeOK'
  <2>1. kind' \in [Jobs -> AllKinds \cup {"none", "failed"}]
    BY JobsAssumption DEF TypeOK, Launch, New
  <2>2. stamp' \in [Jobs -> Tabs \cup {NoTab}]
    BY DEF TypeOK, Launch, New
  <2>3. task' \in [Jobs -> 0..MaxJobs]
    BY <1>1, JobsAssumption DEF TypeOK, Launch, Jobs
  <2>4. run' \in [Jobs -> {"none", "queued", "running", "sending", "failing", "ended"}]
    BY DEF TypeOK, Launch
  <2>5. QED
    BY <1>1, <2>1, <2>2, <2>3, <2>4 DEF TypeOK, Launch, New, tabVars
<1>4. Numbered'
  <2>1. \A j \in Jobs : j > last_id' => /\ run'[j] = "none"
                                         /\ tab_of'[j] = NoTab
                                         /\ shown'[j] = {}
                                         /\ j \notin active'
    BY <1>1, <1>2 DEF Numbered, Launch, New, TypeOK
  <2>2. channel' = channel
    BY DEF Launch, New
  <2>3. \A i \in 1..Len(channel) : channel[i].job <= last_id /\ channel[i].job \in Nat
    BY <1>2, MessagesOfJobs DEF Numbered
  <2>4. QED
    BY <1>1, <1>2, <2>1, <2>2, <2>3 DEF Numbered
<1>5. Room'
  BY <1>1, <1>2 DEF Room, Numbered, Launch, New, TypeOK
<1>6. Recorded'
  <2>0. active \subseteq Jobs
    BY DEF TypeOK
  <2>1. /\ tab_of' = tab_of /\ here' = here /\ active' = active \cup ids
        /\ \A j \in Jobs : stamp'[j] = IF j \in ids THEN here ELSE stamp[j]
    BY DEF Launch, New, tabVars
  <2>2. \A j \in ids : tab_of[j] = NoTab /\ j \notin active
    BY <1>1, <1>2 DEF Numbered
  <2>3. QED
    BY <1>1, <2>0, <2>1, <2>2 DEF Recorded
<1>7. ResultsStayHome'
  BY <1>1, <1>2 DEF ResultsStayHome, Numbered, Launch, New, TypeOK
<1>8. QED
  BY <1>3, <1>4, <1>5, <1>6, <1>7

(* A job that could not be started only uses up an id.                     *)
LEMMA StartFailsKeeps ==
    ASSUME JobsInv, NEW k \in {"failed", "callback"}, New({Fresh}, k),
           UNCHANGED <<task, run, active, batches, callbacks>>,
           busy' \in BOOLEAN, called' \subseteq Jobs
    PROVE  JobsInv'
<1> USE DEF JobsInv
<1>1. /\ last_id' \in 0..MaxJobs
      /\ last_id < Fresh
      /\ Fresh <= last_id'
      /\ last_id <= last_id'
      /\ Fresh \in Jobs
  BY Allocated DEF New
<1>2. last_id \in Nat /\ last_id' \in Nat /\ Jobs \subseteq Nat
  BY <1>1, JobsAssumption DEF TypeOK, Jobs
<1>3. TypeOK'
  <2>1. kind' \in [Jobs -> AllKinds \cup {"none", "failed"}]
    BY DEF TypeOK, New, AllKinds
  <2>2. stamp' \in [Jobs -> Tabs \cup {NoTab}]
    BY DEF TypeOK, New
  <2>3. QED
    BY <1>1, <2>1, <2>2 DEF TypeOK, New, tabVars
<1>4. Numbered'
  <2>1. channel' = channel /\ run' = run /\ tab_of' = tab_of /\ shown' = shown
        /\ active' = active
    BY DEF New
  <2>2. QED
    BY <1>1, <1>2, <2>1, MessagesOfJobs DEF Numbered
<1>5. Room'
  BY DEF Room, New
<1>6. Recorded'
  <2>1. /\ tab_of' = tab_of /\ here' = here /\ active' = active
        /\ \A j \in Jobs : j # Fresh => stamp'[j] = stamp[j]
    BY DEF New, tabVars
  <2>2. active \subseteq Jobs /\ Fresh \notin active
    BY <1>1, <1>2 DEF Numbered, TypeOK
  <2>3. QED
    BY <2>1, <2>2 DEF Recorded
<1>7. ResultsStayHome'
  <2>1. /\ shown' = shown
        /\ \A j \in Jobs : stamp'[j] = IF j = Fresh THEN here ELSE stamp[j]
    BY DEF New
  <2>2. shown[Fresh] = {}
    BY <1>1, <1>2 DEF Numbered
  <2>3. QED
    BY <2>1, <2>2 DEF ResultsStayHome
<1>8. QED
  BY <1>3, <1>4, <1>5, <1>6, <1>7

LEMMA StartKeeps == JobsInv /\ Start => JobsInv'
<1> SUFFICES ASSUME JobsInv, Start PROVE JobsInv'
  OBVIOUS
<1> USE DEF JobsInv
<1>1. TypeOK
  OBVIOUS
<1>2. CASE RunStatement
  BY <1>1, <1>2, LaunchKeeps DEF RunStatement, TypeOK
<1>3. CASE RunPage
  BY <1>1, <1>3, LaunchKeeps DEF RunPage, TypeOK
<1>4. CASE RunScript
  <2>1. Launch({Fresh, Fresh + 1}, "batch", Fresh, FALSE)
    BY <1>4 DEF RunScript
  <2>2. {Fresh, Fresh + 1} \in (SUBSET Jobs) \ {{}}
    BY <2>1 DEF Launch, New
  <2>3. batches' \subseteq (SUBSET Jobs) \ {{}}
    BY <1>1, <1>4, <2>2 DEF RunScript, TypeOK
  <2>4. QED
    BY <1>1, <1>4, <2>1, <2>3, LaunchKeeps DEF RunScript, TypeOK
<1>5. CASE RunInSession
  BY <1>1, <1>5, LaunchKeeps DEF RunInSession, TypeOK
<1>6. CASE RunWithCallback
  <2>1. Launch({Fresh}, "callback", Fresh, FALSE)
    BY <1>6 DEF RunWithCallback
  <2>2. Fresh \in Jobs
    BY <2>1 DEF Launch, New
  <2>3. QED
    BY <1>1, <1>6, <2>1, <2>2, LaunchKeeps DEF RunWithCallback, TypeOK
<1>7. CASE AutoRefresh
  BY <1>1, <1>7, LaunchKeeps DEF AutoRefresh, TypeOK
<1>8. CASE StatementStartFails
  BY <1>1, <1>8, StartFailsKeeps DEF StatementStartFails, TypeOK
<1>9. CASE CallbackStartFails
  <2>1. New({Fresh}, "callback") /\ Fresh \in Jobs
    BY <1>9 DEF CallbackStartFails, New
  <2>2. QED
    BY <1>1, <1>9, <2>1, StartFailsKeeps DEF CallbackStartFails, TypeOK
<1>10. QED
  BY <1>2, <1>3, <1>4, <1>5, <1>6, <1>7, <1>8, <1>9 DEF Start

(* The tasks neither touch the maps nor the tabs.                          *)
LEMMA AnswerKeeps ==
    ASSUME JobsInv, NEW j \in Jobs, Answer(j)
    PROVE  JobsInv'
<1> USE DEF JobsInv
<1>1. run' \in [Jobs -> {"none", "queued", "running", "sending", "failing", "ended"}]
  BY DEF Answer, TypeOK
<1>2. TypeOK'
  BY <1>1 DEF Answer, TypeOK, tabVars, jobVars, mapVars, seenVars
<1>3. Numbered'
  BY DEF Answer, Numbered, TypeOK, tabVars, jobVars, mapVars, seenVars
<1>4. Room'
  BY DEF Answer, Room, TypeOK
<1>5. Recorded' /\ ResultsStayHome'
  BY DEF Answer, Recorded, ResultsStayHome, tabVars, jobVars, mapVars, seenVars
<1>6. QED
  BY <1>2, <1>3, <1>4, <1>5

LEMMA SendKeeps ==
    ASSUME JobsInv, NEW j \in Jobs, Send(j)
    PROVE  JobsInv'
<1> USE DEF JobsInv
<1>1. /\ run[j] \in {"sending", "failing"}
      /\ sent' = [sent EXCEPT ![j] = @ + 1]
      /\ channel' = Append(channel, [job |-> j, ok |-> run[j] = "sending"])
      /\ UNCHANGED <<tabVars, jobVars, mapVars, seenVars>>
      /\ UNCHANGED <<phase, aborted>>
  BY DEF Send
<1>2. \A i \in Jobs : i # j => run'[i] = run[i] \/ (run[i] = "queued" /\ run'[i] \in {"ended", "failing", "running"})
  BY DEF Send, Proceed, AfterIt, Waiting
<1>3. run'[j] = "ended" \/ (run'[j] = run[j] /\ sent'[j] < MaxSets)
  BY DEF Send, Proceed
<1>4. run' \in [Jobs -> {"none", "queued", "running", "sending", "failing", "ended"}]
  <2>1. run' = run \/ Proceed(j)
    BY DEF Send
  <2>2. CASE Proceed(j)
    <3>1. \A i \in Jobs : AfterIt(i, j) \in {"none", "queued", "running", "sending", "failing", "ended"}
      BY DEF AfterIt, TypeOK
    <3>2. QED
      BY <2>2, <3>1 DEF Proceed
  <2>3. QED
    BY <2>1, <2>2 DEF TypeOK
<1>5. sent' \in [Jobs -> 0..MaxSets]
  <2>1. sent[j] \in Nat /\ sent[j] < MaxSets /\ MaxSets \in Nat
    BY <1>1, JobsAssumption DEF Room, TypeOK
  <2>2. sent[j] + 1 \in 0..MaxSets
    BY <2>1
  <2>3. QED
    BY <1>1, <2>2 DEF TypeOK
<1>6. TypeOK'
  <2>1. [job |-> j, ok |-> run[j] = "sending"] \in Messages
    BY DEF Messages
  <2>2. channel' \in Seq(Messages)
    BY <1>1, <2>1 DEF TypeOK
  <2>3. QED
    BY <1>1, <1>4, <1>5, <2>2 DEF TypeOK, tabVars, jobVars, mapVars, seenVars
<1>7. Numbered'
  <2>1. /\ last_id' = last_id /\ tab_of' = tab_of /\ shown' = shown
        /\ active' = active
    BY <1>1 DEF jobVars, mapVars, seenVars
  <2>2. ~(j > last_id)
    BY <1>1 DEF Numbered
  <2>3. \A i \in Jobs : i > last_id => run'[i] = "none"
    BY <1>2, <2>2 DEF Numbered
  <2>4. \A i \in 1..Len(channel') : channel'[i].job <= last_id
    <3>1. last_id \in Nat /\ j \in Nat
      BY JobsAssumption DEF TypeOK, Jobs
    <3>2. j <= last_id
      BY <2>2, <3>1
    <3>3. channel \in Seq(Messages)
      BY DEF TypeOK
    <3>4. QED
      BY <1>1, <3>2, <3>3 DEF Numbered
  <2>5. QED
    BY <2>1, <2>3, <2>4 DEF Numbered
<1>8. Room'
  BY <1>1, <1>2, <1>3 DEF Room, TypeOK
<1>9. Recorded' /\ ResultsStayHome'
  BY <1>1 DEF Recorded, ResultsStayHome, tabVars, jobVars, mapVars, seenVars
<1>10. QED
  BY <1>6, <1>7, <1>8, <1>9

(* A cancel only takes entries out of jobs.active, and only ends tasks.    *)
LEMMA CancelOnlyEnds ==
    ASSUME TypeOK, NEW ids, ids \subseteq Jobs, Cancel(ids)
    PROVE  /\ active' = active \ Together(ids)
           /\ Together(ids) \subseteq Jobs
           /\ batches' \subseteq (SUBSET Jobs) \ {{}}
           /\ cancelled' \subseteq Jobs
           /\ aborted' \subseteq Jobs
           /\ run' \in [Jobs -> {"none", "queued", "running", "sending", "failing", "ended"}]
           /\ \A j \in Jobs : run'[j] = run[j] \/ (run[j] # "none" /\ run'[j] = "ended")
<1>1. batches \subseteq (SUBSET Jobs) \ {{}}
  BY DEF TypeOK
<1>2. Together(ids) \subseteq Jobs
  BY <1>1 DEF Together
<1>3. /\ active' = active \ Together(ids)
      /\ batches' \subseteq batches
      /\ cancelled' = cancelled \cup Together(ids)
      /\ Abort(Together(ids))
  BY DEF Cancel
<1>4. aborted' \subseteq Jobs
  <2>1. \A j \in Jobs : task[j] # 0 => task[j] \in Jobs
    BY JobsAssumption DEF TypeOK, Jobs
  <2>2. {task[j] : j \in Together(ids)} \ {0} \subseteq Jobs
    BY <1>2, <2>1
  <2>3. QED
    BY <1>3, <2>2 DEF Abort, TypeOK
<1>5. /\ run' \in [Jobs -> {"none", "queued", "running", "sending", "failing", "ended"}]
      /\ \A j \in Jobs : run'[j] = run[j] \/ (run[j] # "none" /\ run'[j] = "ended")
  BY <1>3 DEF Abort, TypeOK
<1>6. cancelled' \subseteq Jobs
  BY <1>2, <1>3 DEF TypeOK
<1>7. QED
  BY <1>1, <1>2, <1>3, <1>4, <1>5, <1>6

(* The parts of the invariant that a cancel can disturb, whatever becomes  *)
(* of the tabs.                                                            *)
LEMMA CancelKeeps ==
    ASSUME JobsInv, NEW ids, ids \subseteq Jobs, Cancel(ids),
           UNCHANGED <<jobVars, sent, channel, shown>>,
           \A j \in Jobs : j > last_id => tab_of'[j] = NoTab
    PROVE  Numbered' /\ Room' /\ ResultsStayHome'
<1> USE DEF JobsInv
<1>1. /\ active' \subseteq active
      /\ \A j \in Jobs : run'[j] = run[j] \/ (run[j] # "none" /\ run'[j] = "ended")
  BY CancelOnlyEnds
<1>2. /\ last_id' = last_id /\ stamp' = stamp /\ sent' = sent
      /\ channel' = channel /\ shown' = shown
  BY DEF jobVars
<1>3. Numbered'
  BY <1>1, <1>2 DEF Numbered
<1>4. Room' /\ ResultsStayHome'
  BY <1>1, <1>2 DEF Room, ResultsStayHome
<1>5. QED
  BY <1>3, <1>4

LEMMA UserCancelKeeps == JobsInv /\ (CancelJob \/ CancelAll) => JobsInv'
<1> SUFFICES ASSUME JobsInv, CancelJob \/ CancelAll PROVE JobsInv'
  OBVIOUS
<1> USE DEF JobsInv
<1>1. PICK ids \in SUBSET Jobs : /\ Cancel(ids)
                                 /\ gave_up' \subseteq gave_up \cup Together(ids)
                                 /\ busy' \in BOOLEAN
                                 /\ UNCHANGED <<phase, tabVars, jobVars, sent, channel, callbacks,
                                                tab_of, shown, called, dropped>>
  <2>1. active \subseteq Jobs /\ busy \in BOOLEAN
    BY DEF TypeOK
  <2>2. CASE CancelJob
    <3>1. PICK j \in active : Cancel({j}) /\ gave_up' = gave_up \cup Together({j})
      BY <2>2 DEF CancelJob
    <3>2. {j} \in SUBSET Jobs
      BY <2>1
    <3>3. QED
      BY <2>1, <2>2, <3>1, <3>2 DEF CancelJob
  <2>3. CASE CancelAll
    <3>1. active \subseteq Together(active)
      BY DEF Together
    <3>2. QED
      BY <2>1, <2>3, <3>1 DEF CancelAll
  <2>4. QED
    BY <2>2, <2>3
<1>2. /\ active' = active \ Together(ids)
      /\ Together(ids) \subseteq Jobs
      /\ batches' \subseteq (SUBSET Jobs) \ {{}}
      /\ cancelled' \subseteq Jobs
      /\ aborted' \subseteq Jobs
      /\ run' \in [Jobs -> {"none", "queued", "running", "sending", "failing", "ended"}]
  BY <1>1, CancelOnlyEnds
<1>3. gave_up' \subseteq Jobs
  BY <1>1, <1>2 DEF TypeOK
<1>4. TypeOK'
  BY <1>1, <1>2, <1>3 DEF TypeOK, tabVars, jobVars
<1>5. Numbered' /\ Room' /\ ResultsStayHome'
  <2>1. \A j \in Jobs : j > last_id => tab_of'[j] = NoTab
    BY <1>1 DEF Numbered
  <2>2. QED
    BY <1>1, <2>1, CancelKeeps
<1>6. Recorded'
  BY <1>1, <1>2 DEF Recorded, tabVars, jobVars
<1>7. QED
  BY <1>4, <1>5, <1>6

LEMMA SyncedTyped ==
    ASSUME JobsInv
    PROVE  /\ Synced \in [Jobs -> Tabs \cup {NoTab}]
           /\ \A j \in Jobs : j > last_id => Synced[j] = NoTab
           /\ \A j \in active : /\ Synced[j] # NoTab
                                /\ ~BareSwitch => Synced[j] = stamp[j]
<1> USE DEF JobsInv
<1>1. here \in Tabs /\ NoTab \notin Tabs /\ active \subseteq Jobs
  BY JobsAssumption DEF TypeOK, Tabs, NoTab
<1>2. Synced \in [Jobs -> Tabs \cup {NoTab}]
  BY <1>1 DEF Synced, TypeOK
<1>3. \A j \in Jobs : j > last_id => Synced[j] = NoTab
  BY DEF Synced, Numbered
<1>4. \A j \in active : Synced[j] = IF tab_of[j] = NoTab THEN here ELSE tab_of[j]
  BY <1>1 DEF Synced
<1>5. \A j \in active : Synced[j] # NoTab
  BY <1>1, <1>4
<1>6. \A j \in active : ~BareSwitch => Synced[j] = stamp[j]
  BY <1>4 DEF Recorded
<1>7. QED
  BY <1>2, <1>3, <1>5, <1>6

(* Whatever becomes of the tabs, jobs.tab_of is right again once the jobs  *)
(* of the tabs that go are cancelled.                                      *)
LEMMA CancelJobsOfKeeps ==
    ASSUME JobsInv, NEW gone, CancelJobsOf(gone),
           UNCHANGED <<jobVars, sent, channel, callbacks, shown, called, gave_up>>,
           phase' \in {"drain", "render"}, tabs' \subseteq Tabs,
           opened' \in Tabs, here' \in tabs'
    PROVE  JobsInv'
<1> USE DEF JobsInv
<1>1. JobsOf(gone) \subseteq Jobs /\ Cancel(JobsOf(gone))
  BY DEF JobsOf, CancelJobsOf
<1>2. /\ active' = active \ Together(JobsOf(gone))
      /\ Together(JobsOf(gone)) \subseteq Jobs
      /\ batches' \subseteq (SUBSET Jobs) \ {{}}
      /\ cancelled' \subseteq Jobs
      /\ aborted' \subseteq Jobs
      /\ run' \in [Jobs -> {"none", "queued", "running", "sending", "failing", "ended"}]
  BY <1>1, CancelOnlyEnds
<1>3. /\ tab_of' = [j \in Jobs |-> IF j \in JobsOf(gone) THEN NoTab ELSE Synced[j]]
      /\ dropped' = dropped \cup Together(JobsOf(gone))
      /\ busy' \in BOOLEAN
  BY DEF CancelJobsOf, TypeOK
<1>4. tab_of' \in [Jobs -> Tabs \cup {NoTab}]
  BY <1>3, SyncedTyped
<1>5. TypeOK'
  BY <1>2, <1>3, <1>4 DEF TypeOK, jobVars
<1>6. Numbered' /\ Room' /\ ResultsStayHome'
  <2>1. \A j \in Jobs : j > last_id => tab_of'[j] = NoTab
    BY <1>3, SyncedTyped
  <2>2. QED
    BY <1>1, <2>1, CancelKeeps
<1>7. Recorded'
  <2>1. JobsOf(gone) \subseteq Together(JobsOf(gone)) /\ active \subseteq Jobs
    BY DEF Together, TypeOK
  <2>2. \A j \in active' : j \in active /\ j \in Jobs /\ tab_of'[j] = Synced[j]
    BY <1>2, <1>3, <2>1
  <2>3. stamp' = stamp
    BY DEF jobVars
  <2>4. QED
    BY <2>2, <2>3, SyncedTyped DEF Recorded
<1>8. QED
  BY <1>5, <1>6, <1>7

LEMMA CloseKeeps == JobsInv /\ (CloseTabs \/ StartFrame) => JobsInv'
<1> SUFFICES ASSUME JobsInv, CloseTabs \/ StartFrame PROVE JobsInv'
  OBVIOUS
<1>1. /\ phase \in {"drain", "render"} /\ tabs \subseteq Tabs /\ opened \in Tabs
      /\ here \in tabs
  BY DEF JobsInv, TypeOK
<1>2. CASE CloseTabs
  <2>1. PICK gone \in SUBSET tabs :
           /\ tabs' = IF gone = tabs THEN tabs ELSE tabs \ gone
           /\ here' \in tabs'
           /\ CancelJobsOf(IF gone = tabs THEN gone ELSE Tabs \ tabs')
    BY <1>2 DEF CloseTabs
  <2>2. tabs' \subseteq Tabs
    BY <1>1, <2>1
  <2>3. UNCHANGED <<phase, opened, jobVars, sent, channel, callbacks, shown, called, gave_up>>
    BY <1>2 DEF CloseTabs
  <2>4. QED
    BY <1>1, <2>1, <2>2, <2>3, CancelJobsOfKeeps
<1>3. CASE StartFrame
  <2>1. /\ CancelJobsOf(Tabs \ tabs)
        /\ phase' = "drain"
        /\ tabs' = tabs /\ opened' = opened /\ here' = here
        /\ UNCHANGED <<jobVars, sent, channel, callbacks, shown, called, gave_up>>
    BY <1>3 DEF StartFrame, tabVars
  <2>2. QED
    BY <1>1, <2>1, CancelJobsOfKeeps
<1>4. QED
  BY <1>2, <1>3

(* Moving between tabs, with sync_job_tabs first or, where BareSwitch says *)
(* so, without.                                                            *)
LEMMA SwitchKeeps == JobsInv /\ (NewTab \/ SwitchTab \/ SwitchBarely) => JobsInv'
<1> SUFFICES ASSUME JobsInv, NewTab \/ SwitchTab \/ SwitchBarely PROVE JobsInv'
  OBVIOUS
<1> USE DEF JobsInv
<1>1. /\ UNCHANGED <<phase, jobVars, taskVars, active, batches, callbacks,
                     cancelled, busy, seenVars>>
      /\ tab_of' = Synced \/ (BareSwitch /\ tab_of' = tab_of)
  BY DEF NewTab, SwitchTab, SwitchBarely, mapVars
<1>2. tabs' \subseteq Tabs /\ opened' \in Tabs /\ here' \in tabs'
  <2>1. tabs \subseteq Tabs /\ opened \in 1..MaxTabs /\ here \in tabs
    BY DEF TypeOK, Tabs
  <2>2. opened < MaxTabs => opened + 1 \in Tabs
    BY <2>1, JobsAssumption DEF Tabs
  <2>3. \/ tabs' = tabs /\ opened' = opened /\ here' \in tabs
        \/ /\ opened < MaxTabs /\ opened' = opened + 1
           /\ tabs' = tabs \cup {opened'} /\ here' = opened'
    BY DEF NewTab, SwitchTab, SwitchBarely
  <2>4. QED
    BY <2>1, <2>2, <2>3 DEF Tabs
<1>3. tab_of' \in [Jobs -> Tabs \cup {NoTab}]
  BY <1>1, SyncedTyped DEF TypeOK
<1>4. TypeOK'
  BY <1>1, <1>2, <1>3 DEF TypeOK, jobVars, taskVars, seenVars
<1>5. Numbered'
  <2>1. \A j \in Jobs : j > last_id => tab_of'[j] = NoTab
    BY <1>1, SyncedTyped DEF Numbered
  <2>2. QED
    BY <1>1, <2>1 DEF Numbered, jobVars, taskVars, seenVars
<1>6. Room' /\ ResultsStayHome'
  BY <1>1 DEF Room, ResultsStayHome, jobVars, taskVars, seenVars
<1>7. Recorded'
  <2>1. stamp' = stamp /\ active' = active
    BY <1>1 DEF jobVars
  <2>2. QED
    BY <1>1, <2>1, SyncedTyped DEF Recorded
<1>8. QED
  BY <1>4, <1>5, <1>6, <1>7

(* What every message does before it is told whose it is.                  *)
LEMMA ArrivesKeeps ==
    ASSUME JobsInv, NEW m \in Messages, Arrives(m),
           cancelled' \subseteq Jobs, callbacks' \subseteq Jobs,
           called' \subseteq Jobs, busy' \in BOOLEAN,
           shown' = shown \/ (/\ stamp[m.job] \in tabs
                              /\ Show(m, stamp[m.job]))
    PROVE  JobsInv'
<1> USE DEF JobsInv
<1>1. /\ m.job \in Jobs
      /\ channel \in Seq(Messages) /\ channel # <<>>
      /\ m = channel[1] /\ channel' = Tail(channel)
  BY DEF Messages, TypeOK, Arrives
<1>2. /\ Len(channel) \in Nat /\ Len(channel) > 0
      /\ channel' \in Seq(Messages)
      /\ Len(channel') = Len(channel) - 1
      /\ \A i \in 1..Len(channel') : channel'[i] = channel[i + 1]
  BY <1>1
<1>3. m.job <= last_id
  BY <1>1, <1>2 DEF Numbered
<1>4. last_id \in Nat /\ m.job \in Nat /\ ~(m.job > last_id)
  BY <1>1, <1>3, JobsAssumption DEF TypeOK, Jobs
<1>5. /\ tab_of' = [tab_of EXCEPT ![m.job] = NoTab]
      /\ active' = active \ {m.job}
      /\ batches' = {b \ {m.job} : b \in batches} \ {{}}
      /\ UNCHANGED <<phase, tabs, opened, here, last_id, kind, stamp, task,
                     run, sent, aborted, gave_up, dropped>>
  BY DEF Arrives, tabVars, jobVars
<1>6. /\ shown' \in [Jobs -> SUBSET Tabs]
      /\ \A j \in Jobs : shown'[j] = shown[j]
                          \/ (j = m.job /\ shown'[j] = shown[j] \cup {stamp[j]})
  <2>1. shown \in [Jobs -> SUBSET Tabs] /\ tabs \subseteq Tabs
    BY DEF TypeOK
  <2>2. CASE shown' = shown
    BY <2>1, <2>2
  <2>3. CASE stamp[m.job] \in tabs /\ Show(m, stamp[m.job])
    <3>1. shown' = [shown EXCEPT ![m.job] = shown[m.job] \cup {stamp[m.job]}]
      BY <2>3 DEF Show
    <3>2. shown[m.job] \cup {stamp[m.job]} \in SUBSET Tabs
      BY <1>1, <2>1, <2>3
    <3>3. QED
      BY <1>1, <2>1, <3>1, <3>2
  <2>4. QED
    BY <2>2, <2>3
<1>7. TypeOK'
  <2>1. batches' \subseteq (SUBSET Jobs) \ {{}}
    BY <1>5 DEF TypeOK
  <2>2. tab_of' \in [Jobs -> Tabs \cup {NoTab}]
    BY <1>5 DEF TypeOK
  <2>3. QED
    BY <1>2, <1>5, <1>6, <2>1, <2>2 DEF TypeOK
<1>8. Numbered'
  <2>1. \A j \in Jobs : j > last_id => shown'[j] = {}
    BY <1>4, <1>6 DEF Numbered
  <2>2. \A j \in Jobs : j > last_id => tab_of'[j] = NoTab
    BY <1>5 DEF Numbered, TypeOK
  <2>3. \A i \in 1..Len(channel') : channel'[i].job <= last_id
    BY <1>2 DEF Numbered
  <2>4. QED
    BY <1>5, <2>1, <2>2, <2>3 DEF Numbered
<1>9. Room'
  BY <1>5 DEF Room
<1>10. Recorded'
  BY <1>5 DEF Recorded, TypeOK
<1>11. ResultsStayHome'
  BY <1>5, <1>6 DEF ResultsStayHome
<1>12. QED
  BY <1>7, <1>8, <1>9, <1>10, <1>11

LEMMA HandleKeeps ==
    ASSUME JobsInv, NEW m \in Messages, Handle(m)
    PROVE  JobsInv'
<1> USE DEF JobsInv
<1>1. /\ Arrives(m)
      /\ m.job \in Jobs
      /\ cancelled \subseteq Jobs /\ callbacks \subseteq Jobs
      /\ called \subseteq Jobs /\ busy \in BOOLEAN
      /\ tabs \subseteq Tabs /\ here \in tabs
  BY DEF Handle, HandleCancelled, HandleCallback, HandleForClosedTab,
         HandleElsewhere, HandleHere, Messages, TypeOK
<1>2. CASE HandleCancelled(m)
  BY <1>1, <1>2, ArrivesKeeps DEF HandleCancelled, Idles
<1>3. CASE HandleCallback(m)
  BY <1>1, <1>3, ArrivesKeeps DEF HandleCallback, Live, Idles
<1>4. CASE HandleForClosedTab(m)
  BY <1>1, <1>4, ArrivesKeeps DEF HandleForClosedTab, Live, Idles
<1>5. CASE HandleElsewhere(m)
  BY <1>1, <1>5, ArrivesKeeps DEF HandleElsewhere, Live, Idles
<1>6. CASE HandleHere(m)
  BY <1>1, <1>6, ArrivesKeeps DEF HandleHere, Live
<1>7. QED
  BY <1>2, <1>3, <1>4, <1>5, <1>6 DEF Handle

LEMMA JobsInvInductive == JobsInv /\ [Next]_vars => JobsInv'
<1> SUFFICES ASSUME JobsInv, [Next]_vars PROVE JobsInv'
  OBVIOUS
<1>1. CASE Start
  BY <1>1, StartKeeps
<1>2. CASE User
  BY <1>2, UserCancelKeeps, SwitchKeeps, CloseKeeps DEF User
<1>3. CASE Forget
  <2> USE DEF JobsInv
  <2>1. /\ UNCHANGED <<phase, tabs, opened, here, last_id, kind, stamp, task,
                       run, sent, aborted, channel, active, batches, callbacks,
                       tab_of, busy, shown, called, gave_up, dropped>>
        /\ cancelled' \subseteq cancelled
    BY <1>3 DEF Forget, tabVars, jobVars, taskVars, seenVars
  <2>2. TypeOK'
    BY <2>1 DEF TypeOK
  <2>3. Numbered' /\ Room' /\ Recorded' /\ ResultsStayHome'
    BY <2>1 DEF Numbered, Room, Recorded, ResultsStayHome
  <2>4. QED
    BY <2>2, <2>3
<1>4. CASE StartFrame
  BY <1>4, CloseKeeps
<1>5. CASE Drained
  <2> USE DEF JobsInv
  <2>1. TypeOK'
    BY <1>5 DEF Drained, TypeOK, tabVars, jobVars, taskVars, mapVars, seenVars
  <2>2. Numbered' /\ Room' /\ Recorded' /\ ResultsStayHome'
    BY <1>5 DEF Drained, Numbered, Room, Recorded, ResultsStayHome, tabVars,
                jobVars, taskVars, mapVars, seenVars
  <2>3. QED
    BY <2>1, <2>2
<1>6. ASSUME NEW m \in Messages, Handle(m) PROVE JobsInv'
  BY <1>6, HandleKeeps
<1>7. ASSUME NEW j \in Jobs, Task(j) PROVE JobsInv'
  BY <1>7, AnswerKeeps, SendKeeps DEF Task
<1>8. CASE UNCHANGED vars
  <2> USE DEF JobsInv
  <2>1. TypeOK'
    BY <1>8 DEF vars, TypeOK, tabVars, jobVars, taskVars, mapVars, seenVars
  <2>2. Numbered' /\ Room' /\ Recorded' /\ ResultsStayHome'
    BY <1>8 DEF vars, Numbered, Room, Recorded, ResultsStayHome, tabVars,
                jobVars, taskVars, mapVars, seenVars
  <2>3. QED
    BY <2>1, <2>2
<1>9. QED
  BY <1>1, <1>2, <1>3, <1>4, <1>5, <1>6, <1>7, <1>8 DEF Next, Frame

LEMMA JobsInvHolds == Spec => []JobsInv
BY JobsInitially, JobsInvInductive, PTL DEF Spec

(* The job maps, the tasks and the tabs keep their types.                  *)
THEOREM JobsTypeCorrect == Spec => []TypeOK
<1>1. JobsInv => TypeOK
  BY DEF JobsInv
<1>2. QED
  BY <1>1, JobsInvHolds, PTL

(* handle_query_result_message shows a result in the tab the job was       *)
(* started in or nowhere, whatever was switched, closed and cancelled while *)
(* it ran.                                                                 *)
THEOREM ResultsAlwaysHome == Spec => []ResultsStayHome
<1>1. JobsInv => ResultsStayHome
  BY DEF JobsInv
<1>2. QED
  BY <1>1, JobsInvHolds, PTL

(* If every change of the active tab goes through sync_job_tabs, jobs.tab_of *)
(* never names another tab than the one the job was started in.            *)
THEOREM TabsAreRecorded == ~BareSwitch /\ Spec => []JobsKnowTheirTab
<1> SUFFICES ASSUME ~BareSwitch PROVE Spec => []JobsKnowTheirTab
  OBVIOUS
<1>1. JobsInv => JobsKnowTheirTab
  BY DEF JobsInv, Recorded, JobsKnowTheirTab
<1>2. QED
  BY <1>1, JobsInvHolds, PTL

(* What cancel_jobs_of_tab picks from jobs.tab_of is exactly the jobs      *)
(* started in the tabs that go and still running, callbacks excepted.      *)
PicksItsOwn ==
    \A gone \in SUBSET Tabs :
        JobsOf(gone) = {j \in active : stamp[j] \in gone /\ j \notin callbacks}

(* So closing a tab cancels all of its own jobs and no job of another tab, *)
(* in every frame and however late the jobs were recorded.                 *)
THEOREM CloseCancelsItsOwn == ~BareSwitch /\ Spec => []PicksItsOwn
<1> SUFFICES ASSUME ~BareSwitch PROVE Spec => []PicksItsOwn
  OBVIOUS
<1>1. JobsInv => PicksItsOwn
  <2> SUFFICES ASSUME JobsInv PROVE PicksItsOwn
    OBVIOUS
  <2>1. NoTab \notin Tabs /\ active \subseteq Jobs
    BY JobsAssumption DEF JobsInv, TypeOK, Tabs, NoTab
  <2>2. \A j \in active : Synced[j] = stamp[j]
    BY SyncedTyped
  <2>3. \A j \in Jobs \ active : Synced[j] = NoTab
    BY DEF Synced
  <2>4. QED
    BY <2>1, <2>2, <2>3 DEF PicksItsOwn, JobsOf
<1>2. QED
  BY <1>1, JobsInvHolds, PTL
-----------------------------------------------------------------------------
(* A task runs jobs of one kind, named after one that has been handed out; *)
(* only the statements of a script wait for each other.                    *)
TasksInv ==
    /\ \A j \in Jobs : kind[j] # "session" /\ task[j] <= last_id
    /\ \A j \in Jobs : run[j] \notin {"none", "ended"} => task[j] # 0
    /\ \A j \in Jobs : run[j] = "queued" => kind[j] = "batch"
    /\ \A i, j \in Jobs : task[i] = task[j] /\ task[i] # 0 => kind[i] = kind[j]
    /\ \A j \in Jobs : j > last_id => kind[j] = "none" /\ task[j] = 0
    /\ \A j \in callbacks : kind[j] = "callback"

(* What runs can be cancelled, and its tab is open; what waits, too, or    *)
(* the abort of its task is on the way.  What has sent runs no more.       *)
RunsInv ==
    /\ \A j \in Jobs : run[j] = "running" =>
          /\ j \in active
          /\ kind[j] # "callback" => stamp[j] \in tabs
    /\ \A j \in Jobs : run[j] = "queued" =>
          \/ task[j] \in aborted
          \/ j \in active /\ stamp[j] \in tabs
    /\ \A k \in 1..Len(channel) : run[channel[k].job] \notin {"running", "queued"}

(* Every job is recorded with its tab and has a handle to abort.          *)
AllStoppable == ~BareSwitch /\ "session" \notin Kinds

TabsInv == JobsInv /\ TasksInv /\ RunsInv

LEMMA TabsInitially == Init => TabsInv
<1> SUFFICES ASSUME Init PROVE TabsInv
  OBVIOUS
<1>1. JobsInv
  BY JobsInitially
<1>2. TasksInv /\ RunsInv
  BY DEF Init, TasksInv, RunsInv
<1>3. QED
  BY <1>1, <1>2 DEF TabsInv
-----------------------------------------------------------------------------
(* Jobs that are started.                                                  *)
LEMMA LaunchRuns ==
    ASSUME TabsInv, AllStoppable, NEW ids, NEW k, Launch(ids, k, Fresh, FALSE),
           ids = {Fresh} \/ (ids = {Fresh, Fresh + 1} /\ k = "batch"),
           callbacks' = callbacks \/ (callbacks' = callbacks \cup ids /\ k = "callback")
    PROVE  TasksInv' /\ RunsInv'
<1> USE DEF TabsInv, JobsInv
<1>1. /\ \A j \in ids : last_id < j /\ j <= last_id'
      /\ last_id <= last_id'
      /\ Fresh \in Jobs /\ Fresh = last_id + 1
      /\ ids \subseteq Jobs
      /\ Fresh \in ids
  BY Allocated DEF Launch, New, Fresh
<1>2. last_id \in Nat /\ last_id' \in Nat /\ Jobs \subseteq Nat
  <2>1. last_id' \in 0..MaxJobs
    BY Allocated DEF Launch, New
  <2>2. QED
    BY <2>1, JobsAssumption DEF TypeOK, Jobs
<1>3. k \in Kinds /\ k # "session" /\ here \in tabs
  BY DEF Launch, AllStoppable, TypeOK
<1>4. /\ kind' = [j \in Jobs |-> IF j \in ids THEN k ELSE kind[j]]
      /\ stamp' = [j \in Jobs |-> IF j \in ids THEN here ELSE stamp[j]]
      /\ task' = [j \in Jobs |-> IF j \in ids THEN Fresh ELSE task[j]]
      /\ run' = [j \in Jobs |-> IF j \notin ids THEN run[j]
                                ELSE IF j # Fresh THEN "queued" ELSE "running"]
      /\ active' = active \cup ids
      /\ tabs' = tabs /\ channel' = channel /\ aborted' = aborted
  BY <1>1 DEF Launch, New, tabVars
<1>5. \A j \in Jobs : task[j] \in Nat
  BY JobsAssumption DEF TypeOK
<1>6. \A j \in Jobs : task[j] <= last_id /\ task[j] # Fresh
  BY <1>1, <1>2, <1>5 DEF TasksInv
<1>7. TasksInv'
  <2>1. \A j \in Jobs : kind'[j] # "session" /\ task'[j] <= last_id'
    BY <1>1, <1>2, <1>3, <1>4, <1>5, <1>6 DEF TasksInv
  <2>2. \A j \in Jobs : run'[j] \notin {"none", "ended"} => task'[j] # 0
    BY <1>1, <1>2, <1>4 DEF TasksInv
  <2>3. \A j \in Jobs : run'[j] = "queued" => kind'[j] = "batch"
    BY <1>4 DEF TasksInv
  <2>4. \A i, j \in Jobs : task'[i] = task'[j] /\ task'[i] # 0 => kind'[i] = kind'[j]
    BY <1>4, <1>6 DEF TasksInv
  <2>5. \A j \in callbacks' : kind'[j] = "callback"
    <3>1. \A j \in callbacks : j \in Jobs /\ j \notin ids
      BY <1>1, <1>2 DEF TasksInv, TypeOK
    <3>2. QED
      BY <1>1, <1>4, <3>1 DEF TasksInv
  <2>6. \A j \in Jobs : j > last_id' => kind'[j] = "none" /\ task'[j] = 0
    BY <1>1, <1>2, <1>4 DEF TasksInv
  <2>7. QED
    BY <2>1, <2>2, <2>3, <2>4, <2>5, <2>6 DEF TasksInv
<1>8. RunsInv'
  <2>1. \A j \in Jobs : run'[j] = "running" =>
          /\ j \in active'
          /\ kind'[j] # "callback" => stamp'[j] \in tabs'
    BY <1>3, <1>4 DEF RunsInv
  <2>2. \A j \in Jobs : run'[j] = "queued" =>
          \/ task'[j] \in aborted'
          \/ j \in active' /\ stamp'[j] \in tabs'
    BY <1>3, <1>4 DEF RunsInv
  <2>3. \A n \in 1..Len(channel') : run'[channel'[n].job] \notin {"running", "queued"}
    <3>1. \A n \in 1..Len(channel) : channel[n].job \in Jobs /\ channel[n].job <= last_id
      BY MessagesOfJobs DEF Numbered
    <3>2. \A n \in 1..Len(channel) : channel[n].job \notin ids
      BY <1>1, <1>2, <3>1
    <3>3. QED
      BY <1>4, <3>1, <3>2 DEF RunsInv
  <2>4. QED
    BY <2>1, <2>2, <2>3 DEF RunsInv
<1>9. QED
  BY <1>7, <1>8

LEMMA FailsRuns ==
    ASSUME TabsInv, StatementStartFails \/ CallbackStartFails
    PROVE  TasksInv' /\ RunsInv'
<1> USE DEF TabsInv, JobsInv
<1> DEFINE k == IF StatementStartFails THEN "failed" ELSE "callback"
<1>1. /\ New({Fresh}, k)
      /\ UNCHANGED <<task, run, active, callbacks>>
  BY DEF StatementStartFails, CallbackStartFails
<1>2. /\ Fresh > last_id /\ Fresh <= last_id' /\ last_id <= last_id'
      /\ Fresh \in Jobs
      /\ last_id' \in 0..MaxJobs
  <2>1. /\ last_id' = last_id + Cardinality({Fresh})
        /\ {Fresh} \subseteq Jobs
    BY <1>1 DEF New
  <2>2. QED
    BY <2>1, Allocated
<1>3. last_id \in Nat /\ last_id' \in Nat /\ Jobs \subseteq Nat
  BY <1>2, JobsAssumption DEF TypeOK, Jobs
<1>4. /\ kind' = [j \in Jobs |-> IF j = Fresh THEN k ELSE kind[j]]
      /\ stamp' = [j \in Jobs |-> IF j = Fresh THEN here ELSE stamp[j]]
      /\ tabs' = tabs /\ channel' = channel /\ aborted' = aborted
  BY <1>1 DEF New, tabVars
<1>5. k \in {"failed", "callback"}
  OBVIOUS
<1> HIDE DEF k
<1>6. run[Fresh] = "none" /\ Fresh \notin callbacks
  BY <1>2, <1>3 DEF Numbered, TasksInv
<1>7. task[Fresh] = 0
  BY <1>2 DEF TasksInv
<1>8. TasksInv'
  <2>1. \A j \in Jobs : kind'[j] # "session" /\ task'[j] <= last_id'
    <3>1. \A j \in Jobs : task[j] \in Nat
      BY JobsAssumption DEF TypeOK
    <3>2. QED
      BY <1>1, <1>2, <1>3, <1>4, <1>5, <3>1 DEF TasksInv
  <2>2. /\ \A j \in Jobs : run'[j] \notin {"none", "ended"} => task'[j] # 0
        /\ \A j \in Jobs : run'[j] = "queued" => kind'[j] = "batch"
    BY <1>1, <1>4, <1>6 DEF TasksInv
  <2>3. \A i, j \in Jobs : task'[i] = task'[j] /\ task'[i] # 0 => kind'[i] = kind'[j]
    BY <1>1, <1>4, <1>7 DEF TasksInv
  <2>4. \A j \in callbacks' : kind'[j] = "callback"
    BY <1>1, <1>4, <1>6 DEF TasksInv, TypeOK
  <2>5. \A j \in Jobs : j > last_id' => kind'[j] = "none" /\ task'[j] = 0
    BY <1>1, <1>2, <1>3, <1>4 DEF TasksInv
  <2>6. QED
    BY <2>1, <2>2, <2>3, <2>4, <2>5 DEF TasksInv
<1>9. RunsInv'
  <2>1. \A j \in Jobs : run'[j] = "running" =>
          /\ j \in active'
          /\ kind'[j] # "callback" => stamp'[j] \in tabs'
    BY <1>1, <1>4, <1>6 DEF RunsInv
  <2>2. \A j \in Jobs : run'[j] = "queued" =>
          \/ task'[j] \in aborted'
          \/ j \in active' /\ stamp'[j] \in tabs'
    BY <1>1, <1>4, <1>6 DEF RunsInv
  <2>3. \A n \in 1..Len(channel') : run'[channel'[n].job] \notin {"running", "queued"}
    BY <1>1, <1>4 DEF RunsInv
  <2>4. QED
    BY <2>1, <2>2, <2>3 DEF RunsInv
<1>10. QED
  BY <1>8, <1>9
-----------------------------------------------------------------------------
(* Jobs that are cancelled.                                                *)
LEMMA CancelRuns ==
    ASSUME TabsInv, NEW ids, ids \subseteq Jobs, Cancel(ids)
    PROVE  /\ ids \subseteq Together(ids)
           /\ aborted \subseteq aborted'
           /\ \A j \in Jobs : run'[j] = run[j] \/ run'[j] = "ended"
           /\ \A j \in Jobs : run'[j] = "running" =>
                 run[j] = "running" /\ j \in active' /\ j \notin Together(ids)
           /\ \A j \in Jobs : run'[j] = "queued" =>
                 /\ run[j] = "queued"
                 /\ task[j] \in aborted' \/ j \notin Together(ids)
           /\ active' = active \ Together(ids)
<1> USE DEF TabsInv, JobsInv
<1> DEFINE all == Together(ids)
           tasks == {task[j] : j \in all} \ {0}
<1>1. /\ active' = active \ all
      /\ all \subseteq Jobs
      /\ \A j \in Jobs : run'[j] = run[j] \/ (run[j] # "none" /\ run'[j] = "ended")
  BY CancelOnlyEnds
<1>2. ids \subseteq all
  BY DEF Together
<1>3. Abort(all)
  BY DEF Cancel
<1>4. /\ aborted' = aborted \cup tasks
      /\ \A j \in Jobs : task[j] \in tasks /\ run[j] = "running" => run'[j] = "ended"
  BY <1>3 DEF Abort
<1> HIDE DEF all
<1>5. \A j \in all : task[j] # 0 => task[j] \in tasks
  OBVIOUS
<1> HIDE DEF tasks
<1>6. ASSUME NEW j \in Jobs, run'[j] = "running"
      PROVE  run[j] = "running" /\ j \in active' /\ j \notin all
  <2>1. run[j] = "running" /\ task[j] # 0 /\ j \in active
    BY <1>1, <1>6 DEF TasksInv, RunsInv
  <2>2. task[j] \notin tasks
    BY <1>4, <1>6, <2>1
  <2>3. j \notin all
    BY <1>5, <2>1, <2>2
  <2>4. QED
    BY <1>1, <2>1, <2>3
<1>7. ASSUME NEW j \in Jobs, run'[j] = "queued"
      PROVE  run[j] = "queued" /\ (task[j] \in aborted' \/ j \notin all)
  <2>1. run[j] = "queued" /\ task[j] # 0
    BY <1>1, <1>7 DEF TasksInv
  <2>2. QED
    BY <1>4, <1>5, <2>1
<1>8. QED
  BY <1>1, <1>2, <1>4, <1>6, <1>7 DEF all

(* The parts of the invariant a cancel leaves alone.                       *)
LEMMA CancelTasks ==
    ASSUME TabsInv, NEW ids, ids \subseteq Jobs, Cancel(ids),
           UNCHANGED <<jobVars, channel, callbacks>>
    PROVE  /\ TasksInv'
           /\ \A n \in 1..Len(channel') : run'[channel'[n].job] \notin {"running", "queued"}
<1> USE DEF TabsInv, JobsInv
<1>1. \A j \in Jobs : run'[j] = run[j] \/ run'[j] = "ended"
  BY CancelRuns
<1>2. kind' = kind /\ stamp' = stamp /\ task' = task /\ last_id' = last_id
  BY DEF jobVars
<1>3. TasksInv'
  BY <1>1, <1>2 DEF TasksInv
<1>4. \A n \in 1..Len(channel) : channel[n].job \in Jobs
  BY MessagesOfJobs
<1>5. QED
  BY <1>1, <1>3, <1>4 DEF RunsInv

LEMMA UserCancelRuns ==
    ASSUME TabsInv, CancelJob \/ CancelAll
    PROVE  TasksInv' /\ RunsInv'
<1> USE DEF TabsInv, JobsInv
<1>1. PICK ids \in SUBSET Jobs : Cancel(ids)
  <2>1. active \subseteq Jobs
    BY DEF TypeOK
  <2>2. QED
    BY <2>1 DEF CancelJob, CancelAll
<1>2. UNCHANGED <<tabVars, jobVars, channel, callbacks>>
  BY DEF CancelJob, CancelAll
<1>3. kind' = kind /\ stamp' = stamp /\ task' = task /\ tabs' = tabs
  BY <1>2 DEF jobVars, tabVars
<1>4. \A j \in Jobs : run'[j] = "running" =>
          /\ j \in active'
          /\ kind'[j] # "callback" => stamp'[j] \in tabs'
  BY <1>1, <1>3, CancelRuns DEF RunsInv
<1>5. \A j \in Jobs : run'[j] = "queued" =>
          \/ task'[j] \in aborted'
          \/ j \in active' /\ stamp'[j] \in tabs'
  BY <1>1, <1>3, CancelRuns DEF RunsInv
<1>6. QED
  BY <1>1, <1>2, <1>4, <1>5, CancelTasks DEF RunsInv

(* Closing tabs cancels what runs in them.                                 *)
LEMMA CancelJobsOfRuns ==
    ASSUME TabsInv, ~BareSwitch, NEW gone, CancelJobsOf(gone),
           UNCHANGED <<jobVars, channel, callbacks>>, tabs \ tabs' \subseteq gone
    PROVE  TasksInv' /\ RunsInv'
<1> USE DEF TabsInv, JobsInv
<1>1. JobsOf(gone) \subseteq Jobs /\ Cancel(JobsOf(gone))
  BY DEF JobsOf, CancelJobsOf
<1>2. kind' = kind /\ stamp' = stamp /\ task' = task
  BY DEF jobVars
<1>3. \A j \in active : stamp[j] \in gone /\ j \notin callbacks => j \in JobsOf(gone)
  <2>1. active \subseteq Jobs
    BY DEF TypeOK
  <2>2. QED
    BY <2>1, SyncedTyped DEF JobsOf
<1>4. ASSUME NEW j \in Jobs, run'[j] = "running"
      PROVE  j \in active' /\ (kind'[j] # "callback" => stamp'[j] \in tabs')
  <2>1. run[j] = "running" /\ j \in active' /\ j \notin JobsOf(gone) /\ j \in active
    BY <1>1, <1>4, CancelRuns
  <2>2. kind[j] # "callback" => stamp[j] \in tabs /\ j \notin callbacks
    BY <2>1 DEF RunsInv, TasksInv
  <2>3. kind[j] # "callback" => stamp[j] \notin gone
    BY <1>3, <2>1, <2>2
  <2>4. QED
    BY <1>2, <2>1, <2>2, <2>3
<1>5. ASSUME NEW j \in Jobs, run'[j] = "queued"
      PROVE  task'[j] \in aborted' \/ (j \in active' /\ stamp'[j] \in tabs')
  <2>1. SUFFICES ASSUME task[j] \notin aborted'
                 PROVE  j \in active' /\ stamp[j] \in tabs'
    BY <1>2
  <2>2. run[j] = "queued" /\ task[j] \notin aborted /\ j \notin Together(JobsOf(gone))
    BY <1>1, <1>5, <2>1, CancelRuns
  <2>3. j \in active /\ stamp[j] \in tabs /\ j \notin callbacks
    BY <2>2 DEF RunsInv, TasksInv
  <2>4. j \in active' /\ j \notin JobsOf(gone)
    BY <1>1, <2>2, <2>3, CancelRuns
  <2>5. QED
    BY <1>3, <2>3, <2>4
<1>6. QED
  BY <1>1, <1>4, <1>5, CancelTasks DEF RunsInv

LEMMA CloseRuns ==
    ASSUME TabsInv, ~BareSwitch, CloseTabs \/ StartFrame
    PROVE  TasksInv' /\ RunsInv'
<1> USE DEF TabsInv, JobsInv
<1>1. tabs \subseteq Tabs
  BY DEF TypeOK
<1>2. CASE CloseTabs
  <2>1. PICK gone : CancelJobsOf(gone) /\ tabs \ tabs' \subseteq gone
    BY <1>1, <1>2 DEF CloseTabs
  <2>2. UNCHANGED <<jobVars, channel, callbacks>>
    BY <1>2 DEF CloseTabs
  <2>3. QED
    BY <2>1, <2>2, CancelJobsOfRuns
<1>3. CASE StartFrame
  <2>1. CancelJobsOf(Tabs \ tabs) /\ tabs' = tabs
    BY <1>3 DEF StartFrame, tabVars
  <2>2. UNCHANGED <<jobVars, channel, callbacks>>
    BY <1>3 DEF StartFrame
  <2>3. QED
    BY <2>1, <2>2, CancelJobsOfRuns
<1>4. QED
  BY <1>2, <1>3

LEMMA StartRuns == TabsInv /\ AllStoppable /\ Start => TasksInv' /\ RunsInv'
<1> SUFFICES ASSUME TabsInv, AllStoppable, Start PROVE TasksInv' /\ RunsInv'
  OBVIOUS
<1>1. CASE RunStatement
  BY <1>1, LaunchRuns DEF RunStatement
<1>2. CASE RunPage
  BY <1>2, LaunchRuns DEF RunPage
<1>3. CASE RunScript
  BY <1>3, LaunchRuns DEF RunScript
<1>4. CASE RunInSession
  BY <1>4 DEF RunInSession, Launch, AllStoppable
<1>5. CASE RunWithCallback
  BY <1>5, LaunchRuns DEF RunWithCallback
<1>6. CASE AutoRefresh
  BY <1>6, LaunchRuns DEF AutoRefresh
<1>7. CASE StatementStartFails \/ CallbackStartFails
  BY <1>7, FailsRuns
<1>8. QED
  BY <1>1, <1>2, <1>3, <1>4, <1>5, <1>6, <1>7 DEF Start
-----------------------------------------------------------------------------
(* Steps that neither start nor end a job, and never close a tab.          *)
LEMMA CalmRuns ==
    ASSUME TabsInv, UNCHANGED <<jobVars, run, aborted, channel, active, callbacks>>,
           tabs \subseteq tabs'
    PROVE  TasksInv' /\ RunsInv'
<1> USE DEF TabsInv
<1>1. kind' = kind /\ stamp' = stamp /\ task' = task /\ last_id' = last_id
  BY DEF jobVars
<1>2. TasksInv'
  BY <1>1 DEF TasksInv
<1>3. RunsInv'
  BY <1>1 DEF RunsInv
<1>4. QED
  BY <1>2, <1>3

(* A message takes its job out of jobs.active: a job that runs no more.    *)
LEMMA HandleRuns ==
    ASSUME TabsInv, NEW m \in Messages, Handle(m)
    PROVE  TasksInv' /\ RunsInv'
<1> USE DEF TabsInv, JobsInv
<1>1. Arrives(m) /\ callbacks' \subseteq callbacks
  BY DEF Handle, HandleCancelled, HandleCallback, HandleForClosedTab,
         HandleElsewhere, HandleHere
<1>2. /\ m = Head(channel) /\ channel # <<>> /\ channel' = Tail(channel)
      /\ active' = active \ {m.job}
      /\ UNCHANGED <<tabVars, jobVars, run, aborted>>
  BY <1>1 DEF Arrives
<1>3. /\ kind' = kind /\ stamp' = stamp /\ task' = task /\ last_id' = last_id
      /\ tabs' = tabs /\ run' = run /\ aborted' = aborted
  BY <1>2 DEF jobVars, tabVars
<1>4. channel \in Seq(Messages)
  BY DEF TypeOK
<1>5. /\ m.job = channel[1].job /\ 1 \in 1..Len(channel)
      /\ \A n \in 1..Len(channel') : n + 1 \in 1..Len(channel) /\ channel'[n] = channel[n + 1]
  BY <1>2, <1>4
<1>6. run[m.job] \notin {"running", "queued"}
  BY <1>5 DEF RunsInv
<1>7. TasksInv'
  BY <1>1, <1>3 DEF TasksInv
<1>8. \A j \in Jobs : run'[j] = "running" =>
          /\ j \in active'
          /\ kind'[j] # "callback" => stamp'[j] \in tabs'
  BY <1>2, <1>3, <1>6 DEF RunsInv
<1>9. \A j \in Jobs : run'[j] = "queued" =>
          \/ task'[j] \in aborted'
          \/ j \in active' /\ stamp'[j] \in tabs'
  BY <1>2, <1>3, <1>6 DEF RunsInv
<1>10. \A n \in 1..Len(channel') : run'[channel'[n].job] \notin {"running", "queued"}
  BY <1>3, <1>5 DEF RunsInv
<1>11. QED
  BY <1>7, <1>8, <1>9, <1>10 DEF RunsInv
-----------------------------------------------------------------------------
(* What the tasks do.                                                      *)
LEMMA AnswerRuns ==
    ASSUME TabsInv, NEW j \in Jobs, Answer(j)
    PROVE  TasksInv' /\ RunsInv'
<1> USE DEF TabsInv, JobsInv
<1>1. UNCHANGED <<tabVars, jobVars, aborted, channel, mapVars>>
  BY DEF Answer
<1>2. /\ kind' = kind /\ stamp' = stamp /\ task' = task /\ last_id' = last_id
      /\ tabs' = tabs /\ aborted' = aborted /\ channel' = channel
      /\ active' = active /\ callbacks' = callbacks
  BY <1>1 DEF jobVars, tabVars, mapVars
<1>3. /\ run[j] = "running" /\ run'[j] \in {"sending", "failing"}
      /\ \A i \in Jobs : i # j => run'[i] = run[i]
  BY DEF Answer, TypeOK
<1>4. TasksInv'
  BY <1>2, <1>3 DEF TasksInv
<1>5. \A n \in 1..Len(channel) : channel[n].job \in Jobs
  BY MessagesOfJobs
<1>6. RunsInv'
  BY <1>2, <1>3, <1>5 DEF RunsInv
<1>7. QED
  BY <1>4, <1>6

(* The next statement of a script runs only when no abort is on the way.   *)
LEMMA SendStarts ==
    ASSUME TabsInv, NEW j \in Jobs, Send(j)
    PROVE  /\ run'[j] = run[j] \/ run'[j] = "ended"
           /\ \A i \in Jobs \ {j} :
                 \/ run'[i] = run[i]
                 \/ run[i] = "queued" /\ run'[i] \in {"ended", "failing"}
                 \/ /\ run[i] = "queued" /\ run'[i] = "running"
                    /\ i \in active /\ stamp[i] \in tabs
<1> USE DEF TabsInv, JobsInv
<1>1. run[j] \in {"sending", "failing"} /\ (run' = run \/ Proceed(j))
  BY DEF Send
<1>2. CASE run' = run
  BY <1>2
<1>3. CASE Proceed(j)
  <2>1. run'[j] = "ended" /\ \A i \in Jobs \ {j} : run'[i] = AfterIt(i, j)
    BY <1>3 DEF Proceed
  <2>2. SUFFICES ASSUME NEW i \in Jobs \ {j}, AfterIt(i, j) = "running",
                        run[i] # "running"
                 PROVE  i \in active /\ stamp[i] \in tabs /\ run[i] = "queued"
    BY <2>1 DEF AfterIt, Waiting
  <2>3. /\ run[i] = "queued" /\ task[i] = task[j]
        /\ ~(task[j] \in aborted /\ run[j] = "sending")
        /\ ~(kind[j] = "batch" /\ run[j] = "failing")
    BY <2>2 DEF AfterIt, Waiting
  <2>4. kind[j] = "batch"
    BY <2>3 DEF TasksInv
  <2>5. task[i] \notin aborted
    BY <1>1, <2>3, <2>4
  <2>6. QED
    BY <2>3, <2>5 DEF RunsInv
<1>4. QED
  BY <1>1, <1>2, <1>3

LEMMA SendRuns ==
    ASSUME TabsInv, NEW j \in Jobs, Send(j)
    PROVE  TasksInv' /\ RunsInv'
<1> USE DEF TabsInv, JobsInv
<1>1. UNCHANGED <<tabVars, jobVars, aborted, mapVars>>
  BY DEF Send
<1>2. /\ kind' = kind /\ stamp' = stamp /\ task' = task /\ last_id' = last_id
      /\ tabs' = tabs /\ aborted' = aborted
      /\ active' = active /\ callbacks' = callbacks
  BY <1>1 DEF jobVars, tabVars, mapVars
<1>3. run[j] \in {"sending", "failing"}
  BY DEF Send
<1>4. /\ run'[j] = run[j] \/ run'[j] = "ended"
      /\ \A i \in Jobs \ {j} :
            \/ run'[i] = run[i]
            \/ run[i] = "queued" /\ run'[i] \in {"ended", "failing"}
            \/ /\ run[i] = "queued" /\ run'[i] = "running"
               /\ i \in active /\ stamp[i] \in tabs
  BY SendStarts
<1>5. TasksInv'
  BY <1>2, <1>3, <1>4 DEF TasksInv
<1>6. \A n \in 1..Len(channel') : run'[channel'[n].job] \notin {"running", "queued"}
  <2>1. channel \in Seq(Messages) /\ [job |-> j, ok |-> run[j] = "sending"] \in Messages
    BY DEF TypeOK, Messages
  <2>2. \A n \in 1..Len(channel') : \/ n \in 1..Len(channel) /\ channel'[n] = channel[n]
                                    \/ channel'[n].job = j
    BY <2>1 DEF Send
  <2>3. \A n \in 1..Len(channel) : channel[n].job \in Jobs
    BY MessagesOfJobs
  <2>4. QED
    BY <1>3, <1>4, <2>2, <2>3 DEF RunsInv
<1>7. \A i \in Jobs : run'[i] = "running" =>
          /\ i \in active'
          /\ kind'[i] # "callback" => stamp'[i] \in tabs'
  BY <1>2, <1>3, <1>4 DEF RunsInv
<1>8. \A i \in Jobs : run'[i] = "queued" =>
          \/ task'[i] \in aborted'
          \/ i \in active' /\ stamp'[i] \in tabs'
  BY <1>2, <1>3, <1>4 DEF RunsInv
<1>9. QED
  BY <1>5, <1>6, <1>7, <1>8 DEF RunsInv
-----------------------------------------------------------------------------
LEMMA TabsStep == TabsInv /\ AllStoppable /\ [Next]_vars => TabsInv'
<1> SUFFICES ASSUME TabsInv, AllStoppable, [Next]_vars PROVE TabsInv'
  OBVIOUS
<1>1. JobsInv'
  BY JobsInvInductive DEF TabsInv
<1>2. TasksInv' /\ RunsInv'
  <2>1. CASE Start
    BY <2>1, StartRuns
  <2>2. CASE CancelJob \/ CancelAll
    BY <2>2, UserCancelRuns
  <2>3. CASE NewTab \/ SwitchTab
    BY <2>3, CalmRuns DEF NewTab, SwitchTab, taskVars
  <2>4. CASE SwitchBarely
    BY <2>4 DEF SwitchBarely, AllStoppable
  <2>5. CASE CloseTabs \/ StartFrame
    BY <2>5, CloseRuns DEF AllStoppable
  <2>6. CASE Forget \/ Drained
    BY <2>6, CalmRuns DEF Forget, Drained, tabVars, taskVars, mapVars
  <2>7. ASSUME NEW m \in Messages, Handle(m) PROVE TasksInv' /\ RunsInv'
    BY <2>7, HandleRuns
  <2>8. ASSUME NEW j \in Jobs, Task(j) PROVE TasksInv' /\ RunsInv'
    BY <2>8, AnswerRuns, SendRuns DEF Task
  <2>9. CASE UNCHANGED vars
    BY <2>9, CalmRuns DEF vars, tabVars, taskVars, mapVars
  <2>10. QED
    BY <2>1, <2>2, <2>3, <2>4, <2>5, <2>6, <2>7, <2>8, <2>9 DEF Next, User, Frame
<1>3. QED
  BY <1>1, <1>2 DEF TabsInv

LEMMA TabsInvHolds == AllStoppable /\ Spec => []TabsInv
<1> SUFFICES ASSUME AllStoppable PROVE Spec => []TabsInv
  OBVIOUS
<1>1. TabsInv /\ [Next]_vars => TabsInv'
  BY TabsStep
<1>2. QED
  BY <1>1, TabsInitially, PTL DEF Spec

(* When every switch of tabs records the jobs, what runs in the background *)
(* belongs to an open tab or to somebody's callback.                       *)
THEOREM ClosedRunsNothing == AllStoppable /\ Spec => []ClosedTabRunsNothing
<1> SUFFICES ASSUME AllStoppable PROVE Spec => []ClosedTabRunsNothing
  OBVIOUS
<1>1. TabsInv => ClosedTabRunsNothing
  BY DEF TabsInv, RunsInv, ClosedTabRunsNothing
<1>2. QED
  BY <1>1, TabsInvHolds, PTL

(* And no statement of a closed tab's script starts, however the abort and *)
(* the end of the statement before it fall.                                *)
THEOREM ClosedStartsNothing == AllStoppable /\ Spec => ClosedTabStartsNothing
<1> SUFFICES ASSUME AllStoppable PROVE Spec => ClosedTabStartsNothing
  OBVIOUS
<1> DEFINE StartsHere == \A j \in Jobs : run[j] = "queued" /\ run'[j] = "running"
                                             => stamp[j] \in tabs
<1>1. TabsInv /\ [Next]_vars => [StartsHere]_vars
  <2> SUFFICES ASSUME TabsInv, Next PROVE StartsHere
    OBVIOUS
  <2> USE DEF TabsInv, JobsInv
  <2>1. CASE Start
    <3>1. ASSUME NEW ids, NEW k, NEW first, NEW waits, Launch(ids, k, first, waits),
                 ids = {Fresh} \/ ids = {Fresh, Fresh + 1}
          PROVE  StartsHere
      <4>1. /\ \A j \in ids : last_id < j
            /\ ids \subseteq Jobs
        BY <3>1, Allocated DEF Launch, New
      <4>2. last_id \in Nat /\ Jobs \subseteq Nat
        BY JobsAssumption DEF TypeOK, Jobs
      <4>3. \A j \in ids : run[j] = "none"
        BY <4>1, <4>2 DEF Numbered
      <4>4. \A j \in Jobs \ ids : run'[j] = run[j]
        BY <3>1 DEF Launch
      <4>5. QED
        BY <4>3, <4>4
    <3>2. CASE StatementStartFails \/ CallbackStartFails
      BY <3>2 DEF StatementStartFails, CallbackStartFails
    <3>3. QED
      BY <2>1, <3>1, <3>2 DEF Start, RunStatement, RunPage, RunScript,
         RunInSession, RunWithCallback, AutoRefresh
  <2>2. CASE CancelJob \/ CancelAll \/ CloseTabs \/ StartFrame
    <3>1. PICK ids \in SUBSET Jobs : Cancel(ids)
      <4>1. active \subseteq Jobs /\ \A gone : JobsOf(gone) \subseteq Jobs
        BY DEF TypeOK, JobsOf
      <4>2. QED
        BY <2>2, <4>1 DEF CancelJob, CancelAll, CloseTabs, StartFrame, CancelJobsOf
    <3>2. QED
      BY <3>1, CancelRuns
  <2>3. CASE NewTab \/ SwitchTab \/ SwitchBarely \/ Forget \/ Drained
    BY <2>3 DEF NewTab, SwitchTab, SwitchBarely, Forget, Drained, taskVars
  <2>4. ASSUME NEW m \in Messages, Handle(m) PROVE StartsHere
    BY <2>4 DEF Handle, HandleCancelled, HandleCallback, HandleForClosedTab,
         HandleElsewhere, HandleHere, Arrives
  <2>5. ASSUME NEW j \in Jobs, Task(j) PROVE StartsHere
    <3>1. CASE Answer(j)
      BY <3>1 DEF Answer, TypeOK
    <3>2. CASE Send(j)
      <4>1. run[j] # "queued"
        BY <3>2 DEF Send
      <4>2. QED
        BY <3>2, <4>1, SendStarts
    <3>3. QED
      BY <2>5, <3>1, <3>2 DEF Task
  <2>6. QED
    BY <2>1, <2>2, <2>3, <2>4, <2>5 DEF Next, User, Frame
<1>2. QED
  BY <1>1, TabsInvHolds, PTL DEF Spec, ClosedTabStartsNothing
-----------------------------------------------------------------------------
(* The spinner.  A result that loads page by page leaves it as it was; all *)
(* other ends of a job, the last one's at least, lower it.                 *)
Unpaged == Kinds \cap {"paged", "refresh"} = {}

SpinnerInv ==
    /\ TypeOK
    /\ \A j \in Jobs : kind[j] \notin {"paged", "refresh"}
    /\ busy => active # {}

LEMMA StartSpins ==
    ASSUME SpinnerInv, Unpaged, Start
    PROVE  /\ \A j \in Jobs : kind'[j] \notin {"paged", "refresh"}
           /\ busy' => active' # {}
<1> USE DEF SpinnerInv
<1>1. ASSUME NEW ids, NEW k, NEW first, NEW waits, Launch(ids, k, first, waits),
             Fresh \in ids
      PROVE  /\ \A j \in Jobs : kind'[j] \notin {"paged", "refresh"}
             /\ active' # {}
  BY <1>1 DEF Launch, New, Unpaged
<1>2. CASE StatementStartFails
  <2>1. \A j \in Jobs : kind'[j] \notin {"paged", "refresh"}
    BY <1>2 DEF StatementStartFails, New
  <2>2. QED
    BY <1>2, <2>1 DEF StatementStartFails
<1>3. CASE CallbackStartFails
  <2>1. \A j \in Jobs : kind'[j] \notin {"paged", "refresh"}
    BY <1>3 DEF CallbackStartFails, New
  <2>2. QED
    BY <1>3, <2>1 DEF CallbackStartFails
<1>4. QED
  BY <1>1, <1>2, <1>3 DEF Start, RunStatement, RunPage, RunScript,
     RunInSession, RunWithCallback, AutoRefresh

(* Only what was picked, and the rest of its scripts, leaves jobs.active.  *)
LEMMA ClosingSpins ==
    ASSUME busy => active # {}, NEW gone, CancelJobsOf(gone)
    PROVE  busy' => active' # {}
<1>1. CASE JobsOf(gone) = {}
  <2>1. Together(JobsOf(gone)) = {}
    BY <1>1 DEF Together
  <2>2. QED
    BY <2>1 DEF CancelJobsOf, Cancel
<1>2. CASE JobsOf(gone) # {}
  BY <1>2 DEF CancelJobsOf
<1>3. QED
  BY <1>1, <1>2

LEMMA SpinnerStep ==
    ASSUME SpinnerInv, Unpaged, TypeOK', [Next]_vars
    PROVE  SpinnerInv'
<1> SUFFICES /\ \A j \in Jobs : kind'[j] \notin {"paged", "refresh"}
             /\ busy' => active' # {}
  BY DEF SpinnerInv
<1> USE DEF SpinnerInv
<1>1. CASE Start
  BY <1>1, StartSpins
<1>2. CASE CancelJob \/ CancelAll
  <2>1. kind' = kind
    BY <1>2 DEF CancelJob, CancelAll, jobVars
  <2>2. QED
    BY <1>2, <2>1 DEF CancelJob, CancelAll
<1>3. CASE CloseTabs \/ StartFrame
  <2>1. kind' = kind
    BY <1>3 DEF CloseTabs, StartFrame, jobVars
  <2>2. QED
    BY <1>3, <2>1, ClosingSpins DEF CloseTabs, StartFrame
<1>4. ASSUME NEW m \in Messages, Handle(m)
      PROVE  /\ \A j \in Jobs : kind'[j] \notin {"paged", "refresh"}
             /\ busy' => active' # {}
  <2>1. kind' = kind /\ m.job \in Jobs
    BY <1>4 DEF Handle, HandleCancelled, HandleCallback, HandleForClosedTab,
       HandleElsewhere, HandleHere, Arrives, jobVars, Messages
  <2>2. CASE Idles
    BY <2>1, <2>2 DEF Idles
  <2>3. CASE HandleHere(m)
    BY <2>1, <2>3 DEF HandleHere
  <2>4. QED
    BY <1>4, <2>2, <2>3 DEF Handle, HandleCancelled, HandleCallback,
       HandleForClosedTab, HandleElsewhere
<1>5. CASE NewTab \/ SwitchTab \/ SwitchBarely \/ Forget \/ Drained
  BY <1>5 DEF NewTab, SwitchTab, SwitchBarely, Forget, Drained, jobVars, mapVars
<1>6. ASSUME NEW j \in Jobs, Task(j)
      PROVE  /\ \A i \in Jobs : kind'[i] \notin {"paged", "refresh"}
             /\ busy' => active' # {}
  BY <1>6 DEF Task, Answer, Send, jobVars, mapVars
<1>7. CASE UNCHANGED vars
  BY <1>7 DEF vars, jobVars, mapVars
<1>8. QED
  BY <1>1, <1>2, <1>3, <1>4, <1>5, <1>6, <1>7 DEF Next, User, Frame

(* As long as no result comes page by page, the spinner stands for a job   *)
(* that is being executed: even while the channel is drained.              *)
THEOREM SpinnerIsTrue == Unpaged /\ Spec => []SpinnerMeansRunning
<1> SUFFICES ASSUME Unpaged PROVE Spec => []SpinnerMeansRunning
  OBVIOUS
<1>1. Init => SpinnerInv
  <2>1. Init => TypeOK
    BY JobsInitially DEF JobsInv
  <2>2. QED
    BY <2>1 DEF Init, SpinnerInv
<1>2. SpinnerInv /\ TypeOK' /\ [Next]_vars => SpinnerInv'
  BY SpinnerStep
<1>3. SpinnerInv => SpinnerMeansRunning
  BY DEF SpinnerInv, SpinnerMeansRunning
<1>4. QED
  BY <1>1, <1>2, <1>3, JobsTypeCorrect, PTL DEF Spec
-----------------------------------------------------------------------------
(* What becomes of each job, when a job sends one message.  A job that may *)
(* still report has a message in the channel, or its task is not done with *)
(* it.                                                                     *)
OneSet == MaxSets = 1

InChannel(j) == \E n \in 1..Len(channel) : channel[n].job = j
Pending(j) == run[j] \notin {"none", "ended"} \/ InChannel(j)
Begun(j) == run[j] \in {"running", "sending", "failing"}
Withdrawn == gave_up \cup dropped
Untold(j) == shown[j] = {} /\ j \notin called /\ kind[j] \notin {"none", "failed"}

(* A job that may still report is active, or will be ignored.  A statement *)
(* that waits although it was cancelled waits for one that is reporting.   *)
FateInv ==
    /\ cancelled \subseteq Withdrawn
    /\ active \cap Withdrawn = {}
    /\ \A j \in active \cup Withdrawn : Untold(j)
    /\ \A j \in called : j <= last_id
    /\ \A j \in Jobs : Pending(j) => j \in active \cup cancelled
    /\ \A j \in Jobs : run[j] = "queued" /\ j \notin active =>
          \E i \in Jobs : task[i] = task[j] /\ run[i] \in {"sending", "failing"}
    /\ \A n \in 1..Len(channel) : run[channel[n].job] = "ended"
    /\ \A n, m \in 1..Len(channel) : channel[n].job = channel[m].job => n = m
    /\ \A b \in batches : b \subseteq active
    /\ \A b, c \in batches : b \cap c # {} => b = c

Mates(i, j) == i # j /\ task[i] = task[j] /\ task[i] # 0

(* Statement i of a script comes before statement j.                       *)
InTurn(i, j) ==
    /\ Begun(j) \/ InChannel(j) => run[i] = "ended"
    /\ \A n, m \in 1..Len(channel) :
          channel[m].job = i /\ channel[n].job = j => m < n
    /\ j \in active /\ Pending(j) /\ ~Pending(i) /\ stamp[j] \in tabs
          => shown[i] # {}
    /\ shown[j] # {} => shown[i] # {}

(* The statements of a script are started in one tab, cancelled together,  *)
(* and take their turns.                                                   *)
TurnsInv ==
    /\ tabs \subseteq 1..opened
    /\ \A j \in Jobs : /\ stamp[j] <= opened
                       /\ task[j] # 0 => run[j] # "none"
                       /\ kind[j] = "batch" => task[j] # 0
    /\ \A i, j \in Jobs : Mates(i, j) =>
          /\ stamp[i] = stamp[j] /\ kind[i] = "batch"
          /\ i \in active /\ j \in active => \E b \in batches : {i, j} \subseteq b
          /\ ~(i \in Withdrawn /\ j \in active)
          /\ i < j => InTurn(i, j)

FatesInv == TabsInv /\ FateInv /\ TurnsInv

LEMMA FatesInitially == Init => FatesInv
<1> SUFFICES ASSUME Init PROVE FatesInv
  OBVIOUS
<1>1. TabsInv
  BY TabsInitially
<1>2. FateInv
  BY DEF Init, FateInv, Pending, InChannel, Withdrawn
<1>3. TurnsInv
  BY JobsAssumption DEF Init, TurnsInv, Mates, Tabs, NoTab
<1>4. QED
  BY <1>1, <1>2, <1>3 DEF FatesInv

(* What the types say of the jobs.                                         *)
LEMMA JobsTyped ==
    ASSUME FatesInv
    PROVE  /\ last_id \in Nat /\ Jobs \subseteq Nat
           /\ active \subseteq Jobs /\ Withdrawn \subseteq Jobs
           /\ cancelled \subseteq Jobs
           /\ channel \in Seq(Messages) /\ Len(channel) \in Nat
           /\ \A n \in 1..Len(channel) : channel[n].job \in Jobs
           /\ \A j \in Jobs : /\ task[j] \in Nat /\ task[j] <= last_id
                              /\ shown[j] \subseteq Tabs
                              /\ stamp[j] \in Nat
           /\ opened \in Nat /\ here \in tabs /\ here \in Nat /\ opened \in Tabs
<1>1. TypeOK /\ Numbered
  BY DEF FatesInv, TabsInv, JobsInv
<1>2. /\ active \subseteq Jobs /\ Withdrawn \subseteq Jobs
      /\ cancelled \subseteq Jobs
      /\ channel \in Seq(Messages) /\ here \in tabs
  BY <1>1 DEF TypeOK, Withdrawn
<1>3. /\ Len(channel) \in Nat /\ \A n \in 1..Len(channel) : channel[n].job \in Jobs
  BY <1>1, MessagesOfJobs
<1>4. last_id \in Nat /\ Jobs \subseteq Nat /\ opened \in Nat /\ here \in Nat /\ opened \in Tabs
  BY <1>1, JobsAssumption DEF TypeOK, Jobs, Tabs
<1>5. \A j \in Jobs : task[j] \in Nat /\ shown[j] \subseteq Tabs /\ stamp[j] \in Nat
  BY <1>1, JobsAssumption DEF TypeOK, Tabs, NoTab
<1>6. \A j \in Jobs : task[j] <= last_id
  BY DEF FatesInv, TabsInv, TasksInv
<1>7. QED
  BY <1>2, <1>3, <1>4, <1>5, <1>6

(* Steps that change no job: tabs may be opened, and entries forgotten     *)
(* that no message will ask for.                                           *)
LEMMA CalmFates ==
    ASSUME FatesInv,
           UNCHANGED <<jobVars, run, channel, active, batches, shown, called,
                       gave_up, dropped>>,
           \/ cancelled' = cancelled
           \/ /\ cancelled' \subseteq cancelled /\ channel = <<>>
              /\ \A j \in Jobs : run[j] \notin {"sending", "failing"},
           \/ tabs' = tabs /\ opened' = opened
           \/ tabs' = tabs \cup {opened + 1} /\ opened' = opened + 1
    PROVE  FateInv' /\ TurnsInv'
<1> USE JobsTyped DEF FatesInv
<1>1. /\ last_id' = last_id /\ kind' = kind /\ stamp' = stamp /\ task' = task
  BY DEF jobVars
<1>2. /\ Withdrawn' = Withdrawn
      /\ \A j : /\ Pending(j)' = Pending(j) /\ Begun(j)' = Begun(j)
                /\ InChannel(j)' = InChannel(j) /\ Untold(j)' = Untold(j)
  BY <1>1 DEF Withdrawn, Pending, Begun, InChannel, Untold
<1>3. ASSUME NEW j \in Jobs, Pending(j)
      PROVE  j \in active \cup cancelled'
  <2>1. CASE cancelled' = cancelled
    BY <1>3, <2>1 DEF FateInv
  <2>2. CASE /\ channel = <<>>
             /\ \A i \in Jobs : run[i] \notin {"sending", "failing"}
    <3>1. run[j] \notin {"none", "ended", "sending", "failing"}
      BY <1>3, <2>2 DEF Pending, InChannel
    <3>2. run[j] \in {"running", "queued"}
      BY <3>1 DEF TabsInv, JobsInv, TypeOK
    <3>3. run[j] = "running" => j \in active
      BY DEF TabsInv, RunsInv
    <3>4. run[j] = "queued" => j \in active
      BY <2>2 DEF FateInv
    <3>5. QED
      BY <3>2, <3>3, <3>4
  <2>3. QED
    BY <2>1, <2>2
<1>4. FateInv'
  <2>1. cancelled' \subseteq Withdrawn
    BY DEF FateInv
  <2>2. QED
    BY <1>1, <1>2, <1>3, <2>1 DEF FateInv
<1>5. tabs' \subseteq 1..opened'
  <2>1. \A t \in tabs : t \in Nat /\ 1 <= t /\ t <= opened
    BY DEF TurnsInv
  <2>2. \A t \in tabs' : t \in Nat /\ 1 <= t /\ t <= opened'
    BY <2>1
  <2>3. opened' \in Nat
    OBVIOUS
  <2>4. QED
    BY <2>2, <2>3
<1>6. \A j \in Jobs : stamp[j] \in tabs' => stamp[j] \in tabs
  <2>1. \A j \in Jobs : stamp[j] <= opened /\ stamp[j] # opened + 1
    BY DEF TurnsInv, TabsInv, JobsInv, TypeOK, Tabs, NoTab
  <2>2. QED
    BY <2>1
<1>7. \A j \in Jobs : stamp[j] <= opened'
  BY DEF TurnsInv, TabsInv, JobsInv, TypeOK, Tabs, NoTab
<1>8. ASSUME NEW i \in Jobs, NEW j \in Jobs, Mates(i, j), i < j
      PROVE  InTurn(i, j)'
  <2>1. InTurn(i, j)
    BY <1>8 DEF TurnsInv
  <2>2. QED
    BY <1>1, <1>2, <1>6, <2>1 DEF InTurn
<1>9. TurnsInv'
  BY <1>1, <1>2, <1>5, <1>7, <1>8 DEF TurnsInv, Mates
<1>10. QED
  BY <1>4, <1>9

(* Jobs that are started.                                                  *)
LEMMA LaunchFates ==
    ASSUME FatesInv, AllStoppable, NEW ids, NEW k, Launch(ids, k, Fresh, FALSE),
           \/ ids = {Fresh} /\ batches' = batches
           \/ /\ ids = {Fresh, Fresh + 1} /\ k = "batch"
              /\ batches' = batches \cup {ids}
    PROVE  FateInv' /\ TurnsInv'
<1> USE JobsTyped DEF FatesInv
<1>1. /\ \A j \in ids : last_id < j /\ j <= last_id'
      /\ last_id <= last_id' /\ last_id' \in Nat
      /\ Fresh \in ids /\ Fresh = last_id + 1 /\ Fresh \in Nat
      /\ ids \subseteq Jobs
  <2>1. /\ \A j \in ids : last_id < j /\ j <= last_id'
        /\ last_id <= last_id' /\ last_id' \in 0..MaxJobs /\ ids \subseteq Jobs
    BY Allocated DEF Launch, New, TabsInv, JobsInv
  <2>2. QED
    BY <2>1 DEF Fresh
<1>2. /\ k \in AllKinds /\ k # "none" /\ k # "failed"
  BY JobsAssumption DEF Launch, AllKinds
<1>3. /\ kind' = [j \in Jobs |-> IF j \in ids THEN k ELSE kind[j]]
      /\ stamp' = [j \in Jobs |-> IF j \in ids THEN here ELSE stamp[j]]
      /\ task' = [j \in Jobs |-> IF j \in ids THEN Fresh ELSE task[j]]
      /\ run' = [j \in Jobs |-> IF j \notin ids THEN run[j]
                                ELSE IF j # Fresh THEN "queued" ELSE "running"]
      /\ active' = active \cup ids
      /\ UNCHANGED <<tabs, opened, channel, cancelled, shown, called, gave_up,
                     dropped>>
  BY <1>1 DEF Launch, New, tabVars
<1>4. \A j \in ids : /\ shown[j] = {} /\ run[j] = "none" /\ kind[j] = "none"
                     /\ j \notin active /\ j \notin called /\ j \notin Withdrawn
                     /\ ~InChannel(j)
  <2>1. \A j \in ids : j > last_id /\ j \in Jobs /\ ~(j <= last_id)
    BY <1>1
  <2>2. \A j \in ids : shown[j] = {} /\ run[j] = "none" /\ j \notin active
    BY <2>1 DEF TabsInv, JobsInv, Numbered
  <2>3. \A j \in ids : kind[j] = "none"
    BY <2>1 DEF TabsInv, TasksInv
  <2>4. \A j \in ids : j \notin called /\ j \notin Withdrawn
    BY <2>1, <2>3 DEF FateInv, Untold
  <2>5. \A j \in ids : ~InChannel(j)
    BY <2>1 DEF InChannel, TabsInv, JobsInv, Numbered
  <2>6. QED
    BY <2>2, <2>3, <2>4, <2>5
<1>5. /\ Withdrawn' = Withdrawn
      /\ \A j : InChannel(j)' = InChannel(j)
      /\ \A j \in Jobs \ ids : /\ Pending(j)' = Pending(j) /\ Begun(j)' = Begun(j)
                               /\ Untold(j)' = Untold(j)
                               /\ task'[j] = task[j] /\ run'[j] = run[j]
      /\ \A j \in ids : Untold(j)' /\ task'[j] = Fresh
      /\ \A j \in Jobs : task[j] # Fresh
  BY <1>1, <1>2, <1>3, <1>4 DEF Withdrawn, Pending, Begun, InChannel, Untold
<1>6. FateInv'
  <2>1. cancelled' \subseteq Withdrawn' /\ active' \cap Withdrawn' = {}
    BY <1>3, <1>4, <1>5 DEF FateInv
  <2>2. \A j \in active' \cup Withdrawn' : Untold(j)'
    BY <1>3, <1>5 DEF FateInv
  <2>3. \A j \in called' : j <= last_id'
    <3>1. called \subseteq Jobs
      BY DEF TabsInv, JobsInv, TypeOK
    <3>2. QED
      BY <1>1, <1>3, <3>1 DEF FateInv
  <2>4. \A j \in Jobs : Pending(j)' => j \in active' \cup cancelled'
    BY <1>3, <1>5 DEF FateInv
  <2>5. ASSUME NEW j \in Jobs, run'[j] = "queued", j \notin active'
        PROVE  \E i \in Jobs : task'[i] = task'[j] /\ run'[i] \in {"sending", "failing"}
    <3>1. j \notin ids /\ run[j] = "queued" /\ j \notin active
      BY <1>3, <2>5
    <3>2. PICK i \in Jobs : task[i] = task[j] /\ run[i] \in {"sending", "failing"}
      BY <3>1 DEF FateInv
    <3>3. i \notin ids
      BY <1>4, <3>2
    <3>4. QED
      BY <1>5, <3>1, <3>2, <3>3
  <2>6. \A n \in 1..Len(channel') : run'[channel'[n].job] = "ended"
    <3>1. \A n \in 1..Len(channel) : channel[n].job \notin ids
      BY <1>4 DEF InChannel
    <3>2. QED
      BY <1>3, <1>5, <3>1 DEF FateInv
  <2>7. \A n, m \in 1..Len(channel') : channel'[n].job = channel'[m].job => n = m
    BY <1>3 DEF FateInv
  <2>8. /\ \A b \in batches' : b \subseteq active'
        /\ \A b, c \in batches' : b \cap c # {} => b = c
    <3>1. \A b \in batches : b \subseteq active /\ b \cap ids = {}
      BY <1>4 DEF FateInv
    <3>2. ids \subseteq active' /\ active \subseteq active' /\ batches' \subseteq batches \cup {ids}
      BY <1>3
    <3>3. \A b \in batches' : b \subseteq active'
      BY <3>1, <3>2
    <3>4. \A b, c \in batches : b \cap c # {} => b = c
      BY DEF FateInv
    <3>5. ASSUME NEW b \in batches', NEW c \in batches', b \cap c # {}
          PROVE  b = c
      <4>1. (b \in batches \/ b = ids) /\ (c \in batches \/ c = ids)
        BY <3>2
      <4>2. QED
        BY <3>1, <3>4, <3>5, <4>1
    <3>6. QED
      BY <3>3, <3>5
  <2>9. QED
    BY <2>1, <2>2, <2>3, <2>4, <2>5, <2>6, <2>7, <2>8 DEF FateInv
<1>7. TurnsInv'
  <2>1. tabs' \subseteq 1..opened' /\ here <= opened
    BY <1>3 DEF TurnsInv
  <2>2. \A j \in Jobs : /\ stamp'[j] <= opened'
                        /\ task'[j] # 0 => run'[j] # "none"
                        /\ kind'[j] = "batch" => task'[j] # 0
    BY <1>1, <1>3, <2>1 DEF TurnsInv
  <2>3. ASSUME NEW i \in Jobs, NEW j \in Jobs, Mates(i, j)'
        PROVE  /\ stamp'[i] = stamp'[j] /\ kind'[i] = "batch"
               /\ i \in active' /\ j \in active' =>
                     \E b \in batches' : {i, j} \subseteq b
               /\ ~(i \in Withdrawn' /\ j \in active')
               /\ i < j => InTurn(i, j)'
    <3>1. i # j /\ task'[i] = task'[j] /\ task'[i] # 0
      BY <2>3 DEF Mates
    <3>2. CASE i \in ids
      <4>1. j \in ids
        BY <1>5, <3>1, <3>2
      <4>2. ids = {Fresh, Fresh + 1} /\ k = "batch" /\ batches' = batches \cup {ids}
        BY <3>1, <3>2, <4>1
      <4>3. \E b \in batches' : {i, j} \subseteq b
        BY <3>2, <4>1, <4>2
      <4>4. i < j => InTurn(i, j)'
        <5>1. ASSUME i < j PROVE i = Fresh /\ j = Fresh + 1
          BY <1>1, <3>2, <4>1, <4>2, <5>1
        <5>2. ASSUME i < j PROVE run'[i] = "running" /\ run'[j] = "queued"
          BY <1>1, <1>3, <3>2, <4>1, <5>1, <5>2
        <5>3. /\ ~InChannel(i)' /\ ~InChannel(j)' /\ shown'[j] = {}
          BY <1>3, <1>4, <1>5, <3>2, <4>1
        <5>4. QED
          BY <5>2, <5>3 DEF InTurn, Begun, Pending, InChannel
      <4>5. stamp'[i] = stamp'[j] /\ kind'[i] = "batch" /\ i \notin Withdrawn'
        BY <1>3, <1>4, <1>5, <3>2, <4>1, <4>2
      <4>6. QED
        BY <4>3, <4>4, <4>5
    <3>3. CASE i \notin ids
      <4>1. j \notin ids
        BY <1>5, <3>1, <3>3
      <4>2. Mates(i, j)
        BY <1>5, <3>1, <3>3, <4>1 DEF Mates
      <4>3. /\ stamp[i] = stamp[j] /\ kind[i] = "batch"
            /\ i \in active /\ j \in active => \E b \in batches : {i, j} \subseteq b
            /\ ~(i \in Withdrawn /\ j \in active)
            /\ i < j => InTurn(i, j)
        BY <4>2 DEF TurnsInv
      <4>4. i < j => InTurn(i, j)'
        BY <1>3, <1>5, <3>3, <4>1, <4>3 DEF InTurn
      <4>5. /\ stamp'[i] = stamp'[j] /\ kind'[i] = "batch"
            /\ i \in active' => i \in active
            /\ j \in active' => j \in active
        BY <1>3, <3>3, <4>1, <4>3
      <4>6. batches \subseteq batches'
        OBVIOUS
      <4>7. QED
        BY <1>5, <4>3, <4>4, <4>5, <4>6
    <3>4. QED
      BY <3>2, <3>3
  <2>4. QED
    BY <2>1, <2>2, <2>3 DEF TurnsInv
<1>8. QED
  BY <1>6, <1>7

(* A job that could not be started: it has no task, and nothing waits.     *)
LEMMA FailsFates ==
    ASSUME FatesInv, StatementStartFails \/ CallbackStartFails
    PROVE  FateInv' /\ TurnsInv'
<1> USE JobsTyped DEF FatesInv
<1>1. PICK k \in {"failed", "callback"} : New({Fresh}, k)
  BY DEF StatementStartFails, CallbackStartFails
<1>2. /\ UNCHANGED <<task, run, active, batches>>
      /\ called' = called \/ called' = called \cup {Fresh}
  BY DEF StatementStartFails, CallbackStartFails
<1>3. /\ last_id < Fresh /\ Fresh <= last_id' /\ last_id <= last_id'
      /\ Fresh \in Jobs /\ last_id' \in Nat /\ Fresh \in Nat
  <2>1. last_id' = last_id + Cardinality({Fresh}) /\ {Fresh} \subseteq Jobs
    BY <1>1 DEF New
  <2>2. /\ last_id' \in 0..MaxJobs /\ last_id < Fresh /\ Fresh <= last_id'
        /\ last_id <= last_id' /\ Fresh \in Jobs
    BY <2>1, Allocated DEF TabsInv, JobsInv
  <2>3. QED
    BY <2>2
<1>4. /\ kind' = [j \in Jobs |-> IF j = Fresh THEN k ELSE kind[j]]
      /\ stamp' = [j \in Jobs |-> IF j = Fresh THEN here ELSE stamp[j]]
      /\ UNCHANGED <<tabs, opened, channel, cancelled, shown, gave_up, dropped>>
  BY <1>1 DEF New, tabVars
<1>5. /\ run[Fresh] = "none" /\ Fresh \notin active /\ kind[Fresh] = "none"
      /\ task[Fresh] = 0
  BY <1>3 DEF TabsInv, JobsInv, Numbered, TasksInv
<1>6. Fresh \notin active \cup Withdrawn
  BY <1>5 DEF FateInv, Untold
<1>7. /\ Withdrawn' = Withdrawn
      /\ \A j : Pending(j)' = Pending(j) /\ Begun(j)' = Begun(j)
                /\ InChannel(j)' = InChannel(j)
      /\ \A j \in active \cup Withdrawn : Untold(j)'
  <2>1. Withdrawn' = Withdrawn
    BY <1>4 DEF Withdrawn
  <2>2. \A j : Pending(j)' = Pending(j) /\ Begun(j)' = Begun(j)
               /\ InChannel(j)' = InChannel(j)
    BY <1>2, <1>4 DEF Pending, Begun, InChannel
  <2>3. \A j \in active \cup Withdrawn : Untold(j) /\ j \in Jobs /\ j # Fresh
    BY <1>6 DEF FateInv
  <2>4. \A j \in active \cup Withdrawn : Untold(j)'
    BY <1>2, <1>4, <2>3 DEF Untold
  <2>5. QED
    BY <2>1, <2>2, <2>4
<1>8. FateInv'
  <2>1. /\ cancelled' \subseteq Withdrawn' /\ active' \cap Withdrawn' = {}
        /\ \A j \in active' \cup Withdrawn' : Untold(j)'
    BY <1>2, <1>4, <1>7 DEF FateInv
  <2>2. \A j \in called' : j <= last_id'
    <3>1. called \subseteq Jobs
      BY DEF TabsInv, JobsInv, TypeOK
    <3>2. \A j \in called : j \in Nat /\ j <= last_id
      BY <3>1 DEF FateInv
    <3>3. \A j \in called : j <= last_id'
      BY <1>3, <3>2
    <3>4. QED
      BY <1>2, <1>3, <3>3
  <2>3. \A j \in Jobs : Pending(j)' => j \in active' \cup cancelled'
    BY <1>2, <1>4, <1>7 DEF FateInv
  <2>4. \A j \in Jobs : run'[j] = "queued" /\ j \notin active' =>
           \E i \in Jobs : task'[i] = task'[j] /\ run'[i] \in {"sending", "failing"}
    BY <1>2 DEF FateInv
  <2>5. /\ \A n \in 1..Len(channel') : run'[channel'[n].job] = "ended"
        /\ \A n, m \in 1..Len(channel') : channel'[n].job = channel'[m].job => n = m
    BY <1>2, <1>4 DEF FateInv
  <2>6. /\ \A b \in batches' : b \subseteq active'
        /\ \A b, c \in batches' : b \cap c # {} => b = c
    BY <1>2 DEF FateInv
  <2>7. QED
    BY <2>1, <2>2, <2>3, <2>4, <2>5, <2>6 DEF FateInv
<1>9. TurnsInv'
  <2>1. tabs' \subseteq 1..opened' /\ here <= opened
    BY <1>4 DEF TurnsInv
  <2>2. \A j \in Jobs : /\ stamp'[j] <= opened'
                        /\ task'[j] # 0 => run'[j] # "none"
                        /\ kind'[j] = "batch" => task'[j] # 0
    BY <1>2, <1>4, <2>1 DEF TurnsInv
  <2>3. ASSUME NEW i \in Jobs, NEW j \in Jobs, Mates(i, j)'
        PROVE  /\ stamp'[i] = stamp'[j] /\ kind'[i] = "batch"
               /\ i \in active' /\ j \in active' =>
                     \E b \in batches' : {i, j} \subseteq b
               /\ ~(i \in Withdrawn' /\ j \in active')
               /\ i < j => InTurn(i, j)'
    <3>1. Mates(i, j) /\ i # Fresh /\ j # Fresh
      BY <1>2, <1>5, <2>3 DEF Mates
    <3>2. /\ stamp[i] = stamp[j] /\ kind[i] = "batch"
          /\ i \in active /\ j \in active => \E b \in batches : {i, j} \subseteq b
          /\ ~(i \in Withdrawn /\ j \in active)
          /\ i < j => InTurn(i, j)
      BY <3>1 DEF TurnsInv
    <3>3. i < j => InTurn(i, j)'
      BY <1>2, <1>4, <1>7, <3>1, <3>2 DEF InTurn
    <3>4. stamp'[i] = stamp'[j] /\ kind'[i] = "batch"
      BY <1>4, <3>1, <3>2
    <3>5. QED
      BY <1>2, <1>7, <3>2, <3>3, <3>4
  <2>4. QED
    BY <2>1, <2>2, <2>3 DEF TurnsInv
<1>10. QED
  BY <1>8, <1>9

(* Jobs that are withdrawn, with all of their scripts; their tabs may      *)
(* close.  Nobody withdraws a part of a script, so the statements that are *)
(* left have lost none that came before them.                              *)
LEMMA CancelFates ==
    ASSUME FatesInv, NEW ids, ids \subseteq active, Cancel(ids),
           Withdrawn' = Withdrawn \cup Together(ids),
           UNCHANGED <<jobVars, channel, shown, called, opened>>,
           tabs' \subseteq tabs
    PROVE  FateInv' /\ TurnsInv'
<1> USE JobsTyped DEF FatesInv
<1> DEFINE all == Together(ids)
           tasks == {task[j] : j \in all} \ {0}
           Stuck(j) == \E i \in Jobs : task[i] = task[j] /\ run[i] \in {"sending", "failing"}
<1>1. /\ active' = active \ all /\ cancelled' = cancelled \cup all
      /\ batches' = {b \in batches : b \cap ids = {}}
      /\ Withdrawn' = Withdrawn \cup all
      /\ Abort(all)
  BY DEF Cancel
<1>2. /\ ids \subseteq all /\ all \subseteq active
      /\ \A b \in batches : b \cap all # {} => b \subseteq all
  <2>1. \A b \in batches : b \subseteq active
    BY DEF FateInv
  <2>2. \A b, c \in batches : b \cap c # {} => b = c
    BY DEF FateInv
  <2>3. ids \subseteq all /\ all \subseteq active
    BY <2>1 DEF Together
  <2>4. ASSUME NEW b \in batches, b \cap all # {}
        PROVE  b \subseteq all
    <3>1. PICK x \in b : x \in ids \/ \E c \in batches : c \cap ids # {} /\ x \in c
      BY <2>4 DEF Together
    <3>2. b \cap ids # {}
      BY <2>2, <3>1
    <3>3. QED
      BY <3>2 DEF Together
  <2>5. QED
    BY <2>3, <2>4
<1>3. \A j \in all : task[j] # 0 => task[j] \in tasks
  OBVIOUS
<1>4. \A t \in tasks : \E j \in all : task[j] = t
  OBVIOUS
<1>5. /\ \A j \in Jobs : \/ run'[j] = run[j]
                         \/ /\ run[j] \in {"running", "queued"} /\ run'[j] = "ended"
                            /\ task[j] \in tasks
      /\ \A j \in Jobs : run[j] = "queued" /\ task[j] \in tasks /\ ~Stuck(j)
                             => run'[j] = "ended"
  BY <1>1 DEF Abort
<1> HIDE DEF all, tasks, Stuck
<1>6. /\ kind' = kind /\ stamp' = stamp /\ task' = task /\ last_id' = last_id
      /\ channel' = channel /\ shown' = shown /\ called' = called
      /\ opened' = opened
  BY DEF jobVars
<1>7. \A j : InChannel(j)' = InChannel(j) /\ Untold(j)' = Untold(j)
  BY <1>6 DEF InChannel, Untold
<1>8. \A j \in Jobs : /\ Pending(j)' => Pending(j)
                      /\ Begun(j)' => Begun(j)
                      /\ run[j] = "ended" => run'[j] = "ended"
  <2>1. TAKE j \in Jobs
  <2>2. run'[j] = run[j] \/ (run[j] \in {"running", "queued"} /\ run'[j] = "ended")
    BY <1>5
  <2>3. Pending(j)' => Pending(j)
    BY <1>7, <2>2 DEF Pending
  <2>4. Begun(j)' => Begun(j)
    BY <2>2 DEF Begun
  <2>5. QED
    BY <2>2, <2>3, <2>4
<1>9. FateInv'
  <2>1. cancelled' \subseteq Withdrawn' /\ active' \cap Withdrawn' = {}
    BY <1>1 DEF FateInv
  <2>2. \A j \in active' \cup Withdrawn' : Untold(j)'
    BY <1>1, <1>2, <1>7 DEF FateInv
  <2>3. \A j \in called' : j <= last_id'
    BY <1>6 DEF FateInv
  <2>4. \A j \in Jobs : Pending(j)' => j \in active' \cup cancelled'
    BY <1>1, <1>8 DEF FateInv
  <2>5. ASSUME NEW j \in Jobs, run'[j] = "queued", j \notin active'
        PROVE  \E i \in Jobs : task'[i] = task'[j] /\ run'[i] \in {"sending", "failing"}
    <3>1. run[j] = "queued"
      BY <1>5, <2>5
    <3>2. Stuck(j)
      <4>1. CASE j \notin active
        BY <3>1, <4>1 DEF FateInv, Stuck
      <4>2. CASE j \in all
        <5>1. task[j] \in tasks
          BY <1>3, <3>1, <4>2 DEF TabsInv, TasksInv
        <5>2. QED
          BY <1>5, <2>5, <3>1, <5>1
      <4>3. QED
        BY <1>1, <2>5, <4>1, <4>2
    <3>3. PICK i \in Jobs : task[i] = task[j] /\ run[i] \in {"sending", "failing"}
      BY <3>2 DEF Stuck
    <3>4. run'[i] = run[i]
      BY <1>5, <3>3
    <3>5. QED
      BY <1>6, <3>3, <3>4
  <2>6. \A n \in 1..Len(channel') : run'[channel'[n].job] = "ended"
    BY <1>6, <1>8 DEF FateInv
  <2>7. \A n, m \in 1..Len(channel') : channel'[n].job = channel'[m].job => n = m
    BY <1>6 DEF FateInv
  <2>8. \A b \in batches' : b \subseteq active'
    <3>1. TAKE b \in batches'
    <3>2. b \in batches /\ b \cap ids = {}
      BY <1>1
    <3>3. b \cap all = {}
      <4>1. SUFFICES ASSUME b \cap all # {} PROVE FALSE
        OBVIOUS
      <4>2. PICK x \in b : x \in all
        BY <4>1
      <4>3. PICK c \in batches : c \cap ids # {} /\ x \in c
        BY <3>2, <4>2 DEF all, Together
      <4>4. b = c
        BY <3>2, <4>2, <4>3 DEF FateInv
      <4>5. QED
        BY <3>2, <4>3, <4>4
    <3>4. QED
      BY <1>1, <3>2, <3>3 DEF FateInv
  <2>9. \A b, c \in batches' : b \cap c # {} => b = c
    BY <1>1 DEF FateInv
  <2>10. QED
    BY <2>1, <2>2, <2>3, <2>4, <2>5, <2>6, <2>7, <2>8, <2>9 DEF FateInv
<1>10. TurnsInv'
  <2>1. tabs' \subseteq 1..opened'
    BY <1>6 DEF TurnsInv
  <2>2. \A j \in Jobs : /\ stamp'[j] <= opened'
                        /\ task'[j] # 0 => run'[j] # "none"
                        /\ kind'[j] = "batch" => task'[j] # 0
    BY <1>5, <1>6 DEF TurnsInv
  <2>3. ASSUME NEW i \in Jobs, NEW j \in Jobs, Mates(i, j), i \in all, j \in active
        PROVE  j \in all
    <3>1. PICK b \in batches : {i, j} \subseteq b
      BY <1>2, <2>3 DEF TurnsInv
    <3>2. QED
      BY <1>2, <2>3, <3>1
  <2>4. ASSUME NEW i \in Jobs, NEW j \in Jobs, Mates(i, j)'
        PROVE  /\ stamp'[i] = stamp'[j] /\ kind'[i] = "batch"
               /\ i \in active' /\ j \in active' =>
                     \E b \in batches' : {i, j} \subseteq b
               /\ ~(i \in Withdrawn' /\ j \in active')
               /\ i < j => InTurn(i, j)'
    <3>1. Mates(i, j)
      BY <1>6, <2>4 DEF Mates
    <3>2. /\ stamp[i] = stamp[j] /\ kind[i] = "batch"
          /\ i \in active /\ j \in active => \E b \in batches : {i, j} \subseteq b
          /\ ~(i \in Withdrawn /\ j \in active)
          /\ i < j => InTurn(i, j)
      BY <3>1 DEF TurnsInv
    <3>3. ~(i \in Withdrawn' /\ j \in active')
      BY <1>1, <2>3, <3>1, <3>2
    <3>4. ASSUME i \in active', j \in active'
          PROVE  \E b \in batches' : {i, j} \subseteq b
      <4>1. PICK b \in batches : {i, j} \subseteq b
        BY <1>1, <3>2, <3>4
      <4>2. b \cap all = {}
        BY <1>1, <1>2, <3>4, <4>1
      <4>3. b \cap ids = {}
        BY <1>2, <4>2
      <4>4. QED
        BY <1>1, <4>1, <4>3
    <3>5. ASSUME i < j PROVE InTurn(i, j)'
      <4>1. InTurn(i, j)
        BY <3>2, <3>5
      <4>2. Begun(j)' \/ InChannel(j)' => run'[i] = "ended"
        BY <1>7, <1>8, <4>1 DEF InTurn
      <4>3. \A n, m \in 1..Len(channel') :
               channel'[m].job = i /\ channel'[n].job = j => m < n
        BY <1>6, <4>1 DEF InTurn
      <4>4. ASSUME j \in active', Pending(j)', ~Pending(i)', stamp'[j] \in tabs'
            PROVE  shown'[i] # {}
        <5>1. j \in active /\ j \notin all /\ Pending(j) /\ stamp[j] \in tabs
          BY <1>1, <1>6, <1>8, <4>4
        <5>2. run'[i] = run[i]
          <6>1. SUFFICES ASSUME task[i] \in tasks PROVE FALSE
            BY <1>5
          <6>2. PICK l \in all : task[l] = task[i]
            BY <1>4, <6>1
          <6>3. l \in Jobs /\ l # j /\ Mates(l, j)
            BY <1>2, <3>1, <5>1, <6>2 DEF Mates
          <6>4. QED
            BY <2>3, <5>1, <6>3
        <5>3. ~Pending(i)
          BY <1>7, <4>4, <5>2 DEF Pending
        <5>4. QED
          BY <1>6, <4>1, <5>1, <5>3 DEF InTurn
      <4>5. shown'[j] # {} => shown'[i] # {}
        BY <1>6, <4>1 DEF InTurn
      <4>6. QED
        BY <4>2, <4>3, <4>4, <4>5 DEF InTurn
    <3>6. QED
      BY <1>6, <3>2, <3>3, <3>4, <3>5
  <2>5. QED
    BY <2>1, <2>2, <2>4 DEF TurnsInv
<1>11. QED
  BY <1>9, <1>10

(* The withdrawals the user makes, and those of closed tabs.               *)
LEMMA WithdrawsWhole ==
    ASSUME FatesInv, CancelJob \/ CancelAll \/ CloseTabs \/ StartFrame
    PROVE  \E ids \in SUBSET active :
              /\ Cancel(ids)
              /\ Withdrawn' = Withdrawn \cup Together(ids)
              /\ tabs' \subseteq tabs
<1> USE DEF FatesInv, TabsInv, JobsInv
<1>1. CASE CancelJob
  <2>1. PICK j \in active : Cancel({j}) /\ gave_up' = gave_up \cup Together({j})
    BY <1>1 DEF CancelJob
  <2>2. dropped' = dropped /\ tabs' = tabs
    BY <1>1 DEF CancelJob, tabVars
  <2>3. Withdrawn' = Withdrawn \cup Together({j})
    BY <2>1, <2>2 DEF Withdrawn
  <2>4. QED
    BY <2>1, <2>2, <2>3
<1>2. CASE CancelAll
  <2>1. /\ Cancel(active) /\ gave_up' = gave_up \cup active
        /\ dropped' = dropped /\ tabs' = tabs
    BY <1>2 DEF CancelAll, tabVars
  <2>2. Together(active) = active
    BY DEF Together, FateInv
  <2>3. Withdrawn' = Withdrawn \cup Together(active)
    BY <2>1, <2>2 DEF Withdrawn
  <2>4. QED
    BY <2>1, <2>3
<1>3. ASSUME NEW gone, gone \subseteq Tabs, CancelJobsOf(gone), gave_up' = gave_up,
             tabs' \subseteq tabs
      PROVE  \E ids \in SUBSET active :
                /\ Cancel(ids)
                /\ Withdrawn' = Withdrawn \cup Together(ids)
                /\ tabs' \subseteq tabs
  <2>1. NoTab \notin Tabs
    BY DEF Tabs, NoTab
  <2>2. JobsOf(gone) \subseteq active
    BY <1>3, <2>1 DEF JobsOf, Synced
  <2>3. Cancel(JobsOf(gone)) /\ dropped' = dropped \cup Together(JobsOf(gone))
    BY <1>3 DEF CancelJobsOf
  <2>4. Withdrawn' = Withdrawn \cup Together(JobsOf(gone))
    BY <1>3, <2>3 DEF Withdrawn
  <2>5. QED
    BY <1>3, <2>2, <2>3, <2>4
<1>4. CASE CloseTabs
  <2>1. PICK gone \in SUBSET tabs :
           /\ tabs' = IF gone = tabs THEN tabs ELSE tabs \ gone
           /\ CancelJobsOf(IF gone = tabs THEN gone ELSE Tabs \ tabs')
    BY <1>4 DEF CloseTabs
  <2>2. tabs \subseteq Tabs /\ gave_up' = gave_up
    BY <1>4 DEF CloseTabs, TypeOK
  <2>3. QED
    BY <1>3, <2>1, <2>2
<1>5. CASE StartFrame
  BY <1>3, <1>5 DEF StartFrame, tabVars
<1>6. QED
  BY <1>1, <1>2, <1>4, <1>5

(* A message is taken from the channel: the only one of its job, and its   *)
(* script's earlier ones have been taken before.                           *)
LEMMA HandleFates ==
    ASSUME FatesInv, NEW m \in Messages, Handle(m)
    PROVE  FateInv' /\ TurnsInv'
<1> USE JobsTyped DEF FatesInv
<1> DEFINE o == m.job
<1>1. /\ Arrives(m) /\ cancelled' \subseteq cancelled
      /\ m.job \in cancelled => shown' = shown /\ called' = called
      /\ m.job \notin cancelled => cancelled' = cancelled
      /\ called' = called \/ called' = called \cup {m.job}
      /\ \A j \in Jobs : j # m.job => shown'[j] = shown[j]
      /\ shown[m.job] \subseteq shown'[m.job]
      /\ \A j \in cancelled : j = m.job \/ j \in cancelled'
  <2>1. m.job \in Jobs /\ shown = [j \in Jobs |-> shown[j]]
    BY DEF Messages, TabsInv, JobsInv, TypeOK
  <2>2. CASE HandleCancelled(m)
    BY <2>2 DEF HandleCancelled
  <2>3. CASE HandleCallback(m)
    BY <2>3 DEF HandleCallback, Live
  <2>4. CASE HandleForClosedTab(m)
    BY <2>4 DEF HandleForClosedTab, Live
  <2>5. CASE HandleElsewhere(m)
    BY <2>1, <2>5 DEF HandleElsewhere, Live, Show
  <2>6. CASE HandleHere(m)
    BY <2>1, <2>6 DEF HandleHere, Live, Show
  <2>7. QED
    BY <2>2, <2>3, <2>4, <2>5, <2>6 DEF Handle
<1>2. /\ channel # <<>> /\ m = Head(channel) /\ channel' = Tail(channel)
      /\ batches' = {b \ {o} : b \in batches} \ {{}}
      /\ active' = active \ {o}
      /\ UNCHANGED <<tabVars, jobVars, run, gave_up, dropped>>
  BY <1>1 DEF Arrives
<1>3. /\ kind' = kind /\ stamp' = stamp /\ task' = task /\ last_id' = last_id
      /\ tabs' = tabs /\ opened' = opened /\ run' = run
      /\ Withdrawn' = Withdrawn
  BY <1>2 DEF jobVars, tabVars, Withdrawn
<1>4. /\ 1 \in 1..Len(channel) /\ channel[1].job = o
      /\ \A n \in 1..Len(channel') : /\ n \in Nat /\ n + 1 \in 1..Len(channel)
                                     /\ channel'[n] = channel[n + 1]
      /\ \A n \in 1..Len(channel) : n # 1 => /\ n - 1 \in 1..Len(channel')
                                             /\ channel'[n - 1] = channel[n]
  <2>1. channel \in Seq(Messages) /\ channel # <<>>
    BY <1>2
  <2>2. m = channel[1] /\ Len(channel') = Len(channel) - 1 /\ Len(channel) > 0
    BY <1>2, <2>1
  <2>3. \A n \in 1..Len(channel') : channel'[n] = channel[n + 1]
    BY <1>2, <2>1, <2>2
  <2>4. \A n \in 1..Len(channel) : n # 1 => channel'[n - 1] = channel[n]
    BY <2>2, <2>3
  <2>5. /\ Len(channel') \in Nat /\ 1 \in 1..Len(channel)
        /\ Len(channel) = Len(channel') + 1
    BY <2>2
  <2>6. \A n \in 1..Len(channel') : n \in Nat /\ n + 1 \in 1..Len(channel)
    BY <2>5
  <2>7. \A n \in 1..Len(channel) : n # 1 => n - 1 \in 1..Len(channel')
    BY <2>5
  <2>8. channel[1].job = o
    BY <2>2
  <2>9. QED
    BY <2>3, <2>4, <2>5, <2>6, <2>7, <2>8
<1>5. /\ o \in Jobs /\ run[o] = "ended" /\ o <= last_id
      /\ InChannel(o) /\ Pending(o) /\ o \in active \cup cancelled
  <2>1. o \in Jobs /\ InChannel(o)
    BY <1>4 DEF InChannel
  <2>2. run[o] = "ended" /\ Pending(o)
    BY <1>4, <2>1 DEF FateInv, Pending
  <2>3. o <= last_id
    BY <1>4 DEF TabsInv, JobsInv, Numbered
  <2>4. QED
    BY <2>1, <2>2, <2>3 DEF FateInv
<1>6. /\ \A j : InChannel(j)' <=> (InChannel(j) /\ j # o)
      /\ \A j : Begun(j)' <=> Begun(j)
  <2>1. ASSUME NEW j, InChannel(j)'
        PROVE  InChannel(j) /\ j # o
    <3>1. PICK n \in 1..Len(channel') : channel'[n].job = j
      BY <2>1 DEF InChannel
    <3>2. n + 1 \in 1..Len(channel) /\ n + 1 # 1 /\ channel[n + 1].job = j
      BY <1>4, <3>1
    <3>3. j # o
      BY <1>4, <3>2 DEF FateInv
    <3>4. QED
      BY <3>2, <3>3 DEF InChannel
  <2>2. ASSUME NEW j, InChannel(j), j # o
        PROVE  InChannel(j)'
    <3>1. PICK n \in 1..Len(channel) : channel[n].job = j
      BY <2>2 DEF InChannel
    <3>2. n # 1
      BY <1>4, <2>2, <3>1
    <3>3. QED
      BY <1>4, <3>1, <3>2 DEF InChannel
  <2>3. \A j : Begun(j)' <=> Begun(j)
    BY <1>3 DEF Begun
  <2>4. QED
    BY <2>1, <2>2, <2>3
<1>7. \A j \in Jobs : Pending(j)' <=> (Pending(j) /\ j # o)
  BY <1>3, <1>5, <1>6 DEF Pending
<1>8. \A j \in Withdrawn : j = o => o \in cancelled
  BY <1>5 DEF FateInv
<1> HIDE DEF o
<1>9. FateInv'
  <2>1. cancelled' \subseteq Withdrawn' /\ active' \cap Withdrawn' = {}
    BY <1>1, <1>2, <1>3 DEF FateInv
  <2>2. ASSUME NEW j \in active' \cup Withdrawn'
        PROVE  Untold(j)'
    <3>1. Untold(j) /\ j \in Jobs
      BY <1>2, <1>3, <2>2 DEF FateInv
    <3>2. j # o \/ o \in cancelled
      BY <1>2, <1>3, <1>8, <2>2
    <3>3. shown'[j] = shown[j] /\ (j \in called' <=> j \in called)
      BY <1>1, <3>1, <3>2 DEF o
    <3>4. QED
      BY <1>3, <3>1, <3>3 DEF Untold
  <2>3. \A j \in called' : j <= last_id'
    <3>1. \A j \in called : j <= last_id
      BY DEF FateInv
    <3>2. \A j \in called' : j \in called \/ j = o
      BY <1>1 DEF o
    <3>3. QED
      BY <1>3, <1>5, <3>1, <3>2
  <2>4. \A j \in Jobs : Pending(j)' => j \in active' \cup cancelled'
    BY <1>1, <1>2, <1>7 DEF FateInv, o
  <2>5. \A j \in Jobs : run'[j] = "queued" /\ j \notin active' =>
           \E i \in Jobs : task'[i] = task'[j] /\ run'[i] \in {"sending", "failing"}
    BY <1>2, <1>3, <1>5 DEF FateInv
  <2>6. \A n \in 1..Len(channel') : run'[channel'[n].job] = "ended"
    BY <1>3, <1>4 DEF FateInv
  <2>7. ASSUME NEW n \in 1..Len(channel'), NEW l \in 1..Len(channel'),
               channel'[n].job = channel'[l].job
        PROVE  n = l
    <3>1. n + 1 = l + 1
      BY <1>4, <2>7 DEF FateInv
    <3>2. QED
      BY <1>4, <3>1
  <2>8. \A b \in batches' : b \subseteq active'
    BY <1>2 DEF FateInv
  <2>9. ASSUME NEW b \in batches', NEW c \in batches', b \cap c # {}
        PROVE  b = c
    <3>1. PICK d \in batches, e \in batches : b = d \ {o} /\ c = e \ {o}
      BY <1>2
    <3>2. d \cap e # {}
      BY <2>9, <3>1
    <3>3. QED
      BY <3>1, <3>2 DEF FateInv
  <2>10. QED
    BY <2>1, <2>2, <2>3, <2>4, <2>5, <2>6, <2>7, <2>8, <2>9 DEF FateInv
<1>10. TurnsInv'
  <2>1. tabs' \subseteq 1..opened'
    BY <1>3 DEF TurnsInv
  <2>2. \A j \in Jobs : /\ stamp'[j] <= opened'
                        /\ task'[j] # 0 => run'[j] # "none"
                        /\ kind'[j] = "batch" => task'[j] # 0
    BY <1>3 DEF TurnsInv
  <2>3. ASSUME NEW i \in Jobs, NEW j \in Jobs, Mates(i, j)'
        PROVE  /\ stamp'[i] = stamp'[j] /\ kind'[i] = "batch"
               /\ i \in active' /\ j \in active' =>
                     \E b \in batches' : {i, j} \subseteq b
               /\ ~(i \in Withdrawn' /\ j \in active')
               /\ i < j => InTurn(i, j)'
    <3>1. Mates(i, j)
      BY <1>3, <2>3 DEF Mates
    <3>2. /\ stamp[i] = stamp[j] /\ kind[i] = "batch"
          /\ i \in active /\ j \in active => \E b \in batches : {i, j} \subseteq b
          /\ ~(i \in Withdrawn /\ j \in active)
          /\ i < j => InTurn(i, j)
      BY <3>1 DEF TurnsInv
    <3>3. ASSUME i \in active', j \in active'
          PROVE  \E b \in batches' : {i, j} \subseteq b
      <4>1. PICK b \in batches : {i, j} \subseteq b
        BY <1>2, <3>2, <3>3
      <4>2. {i, j} \subseteq b \ {o}
        BY <1>2, <3>3, <4>1
      <4>3. b \ {o} \in batches'
        BY <1>2, <4>1, <4>2
      <4>4. QED
        BY <4>2, <4>3
    <3>4. ASSUME i < j PROVE InTurn(i, j)'
      <4>1. InTurn(i, j)
        BY <3>2, <3>4
      <4>2. Begun(j)' \/ InChannel(j)' => run'[i] = "ended"
        BY <1>3, <1>6, <4>1 DEF InTurn
      <4>3. ASSUME NEW n \in 1..Len(channel'), NEW l \in 1..Len(channel'),
                   channel'[l].job = i, channel'[n].job = j
            PROVE  l < n
        <5>1. l + 1 < n + 1
          BY <1>4, <4>1, <4>3 DEF InTurn
        <5>2. QED
          BY <1>4, <5>1
      <4>4. ASSUME j \in active', Pending(j)', ~Pending(i)', stamp'[j] \in tabs'
            PROVE  shown'[i] # {}
        <5>1. j \in active /\ j # o /\ Pending(j) /\ stamp[j] \in tabs
          BY <1>2, <1>3, <1>7, <4>4
        <5>2. CASE ~Pending(i)
          <6>1. shown[i] # {}
            BY <4>1, <5>1, <5>2 DEF InTurn
          <6>2. QED
            BY <1>1, <6>1 DEF o
        <5>3. CASE i = o
          <6>1. i \notin cancelled
            BY <3>2, <5>1 DEF FateInv
          <6>2. i \notin callbacks
            BY <3>2 DEF TabsInv, TasksInv
          <6>3. stamp[i] \in tabs
            BY <3>2, <5>1
          <6>4. HandleElsewhere(m) \/ HandleHere(m)
            BY <5>3, <6>1, <6>2, <6>3 DEF Handle, HandleCancelled, HandleCallback,
               HandleForClosedTab, o
          <6>5. shown = [l \in Jobs |-> shown[l]]
            BY DEF TabsInv, JobsInv, TypeOK
          <6>6. PICK tab : shown' = [shown EXCEPT ![i] = @ \cup {tab}]
            BY <5>3, <6>4 DEF HandleElsewhere, HandleHere, Show, o
          <6>7. shown'[i] = shown[i] \cup {tab}
            BY <6>5, <6>6
          <6>8. QED
            BY <6>7
        <5>4. QED
          BY <1>7, <4>4, <5>2, <5>3
      <4>5. ASSUME shown'[j] # {} PROVE shown'[i] # {}
        <5>1. CASE shown[j] # {}
          <6>1. shown[i] # {}
            BY <4>1, <5>1 DEF InTurn
          <6>2. QED
            BY <1>1, <6>1 DEF o
        <5>2. CASE shown[j] = {}
          <6>1. j = o /\ shown'[o] # shown[o]
            BY <1>1, <4>5, <5>2 DEF o
          <6>2. j \in active /\ stamp[j] \in tabs
            <7>1. HandleElsewhere(m) \/ HandleHere(m)
              BY <6>1 DEF Handle, HandleCancelled, HandleCallback, HandleForClosedTab
            <7>2. j \notin cancelled /\ stamp[j] \in tabs
              BY <6>1, <7>1 DEF HandleElsewhere, HandleHere, Live, o
            <7>3. QED
              BY <1>5, <6>1, <7>2
          <6>3. run[i] = "ended"
            BY <1>5, <4>1, <6>1 DEF InTurn
          <6>4. ~InChannel(i)
            <7>1. SUFFICES ASSUME NEW l \in 1..Len(channel), channel[l].job = i
                           PROVE  FALSE
              BY DEF InChannel
            <7>2. l < 1
              BY <1>4, <4>1, <6>1, <7>1 DEF InTurn
            <7>3. QED
              BY <7>1, <7>2
          <6>5. ~Pending(i)
            BY <6>3, <6>4 DEF Pending
          <6>6. shown[i] # {}
            BY <1>5, <4>1, <6>1, <6>2, <6>5 DEF InTurn
          <6>7. QED
            BY <1>1, <6>6 DEF o
        <5>3. QED
          BY <5>1, <5>2
      <4>6. QED
        BY <4>2, <4>3, <4>4, <4>5 DEF InTurn
    <3>5. QED
      BY <1>2, <1>3, <3>2, <3>3, <3>4
  <2>4. QED
    BY <2>1, <2>2, <2>3 DEF TurnsInv
<1>11. QED
  BY <1>9, <1>10

(* The server answers: the task has something to report.                   *)
LEMMA AnswerFates ==
    ASSUME FatesInv, NEW o \in Jobs, Answer(o)
    PROVE  FateInv' /\ TurnsInv'
<1> USE JobsTyped DEF FatesInv
<1>1. /\ run[o] = "running" /\ run'[o] \in {"sending", "failing"}
      /\ \A j \in Jobs : j # o => run'[j] = run[j]
  BY DEF Answer, TabsInv, JobsInv, TypeOK
<1>2. /\ UNCHANGED <<tabs, opened, channel, active, batches, cancelled, shown,
                     called, gave_up, dropped>>
      /\ kind' = kind /\ stamp' = stamp /\ task' = task /\ last_id' = last_id
  BY DEF Answer, tabVars, jobVars, mapVars, seenVars
<1>3. /\ Withdrawn' = Withdrawn
      /\ \A j : InChannel(j)' = InChannel(j) /\ Untold(j)' = Untold(j)
  BY <1>2 DEF Withdrawn, InChannel, Untold
<1>4. /\ \A j \in Jobs : Pending(j)' <=> Pending(j)
      /\ \A j \in Jobs : Begun(j)' <=> Begun(j)
      /\ \A j \in Jobs : run'[j] = "ended" <=> run[j] = "ended"
      /\ \A j \in Jobs : run'[j] = "none" <=> run[j] = "none"
  BY <1>1, <1>3 DEF Pending, Begun
<1>5. FateInv'
  <2>1. /\ cancelled' \subseteq Withdrawn' /\ active' \cap Withdrawn' = {}
        /\ \A j \in active' \cup Withdrawn' : Untold(j)'
        /\ \A j \in called' : j <= last_id'
    BY <1>2, <1>3 DEF FateInv
  <2>2. \A j \in Jobs : Pending(j)' => j \in active' \cup cancelled'
    BY <1>2, <1>4 DEF FateInv
  <2>3. ASSUME NEW j \in Jobs, run'[j] = "queued", j \notin active'
        PROVE  \E i \in Jobs : task'[i] = task'[j] /\ run'[i] \in {"sending", "failing"}
    <3>1. run[j] = "queued" /\ j \notin active
      BY <1>1, <1>2, <2>3
    <3>2. PICK i \in Jobs : task[i] = task[j] /\ run[i] \in {"sending", "failing"}
      BY <3>1 DEF FateInv
    <3>3. QED
      BY <1>1, <1>2, <3>2
  <2>4. /\ \A n \in 1..Len(channel') : run'[channel'[n].job] = "ended"
        /\ \A n, m \in 1..Len(channel') : channel'[n].job = channel'[m].job => n = m
        /\ \A b \in batches' : b \subseteq active'
        /\ \A b, c \in batches' : b \cap c # {} => b = c
    BY <1>2, <1>4 DEF FateInv
  <2>5. QED
    BY <2>1, <2>2, <2>3, <2>4 DEF FateInv
<1>6. TurnsInv'
  <2>1. /\ tabs' \subseteq 1..opened'
        /\ \A j \in Jobs : /\ stamp'[j] <= opened'
                           /\ task'[j] # 0 => run'[j] # "none"
                           /\ kind'[j] = "batch" => task'[j] # 0
    BY <1>2, <1>4 DEF TurnsInv
  <2>2. ASSUME NEW i \in Jobs, NEW j \in Jobs, Mates(i, j)'
        PROVE  /\ stamp'[i] = stamp'[j] /\ kind'[i] = "batch"
               /\ i \in active' /\ j \in active' =>
                     \E b \in batches' : {i, j} \subseteq b
               /\ ~(i \in Withdrawn' /\ j \in active')
               /\ i < j => InTurn(i, j)'
    <3>1. Mates(i, j)
      BY <1>2, <2>2 DEF Mates
    <3>2. i < j => InTurn(i, j)'
      BY <1>2, <1>3, <1>4, <3>1 DEF TurnsInv, InTurn
    <3>3. QED
      BY <1>2, <1>3, <3>1, <3>2 DEF TurnsInv
  <2>3. QED
    BY <2>1, <2>2 DEF TurnsInv
<1>7. QED
  BY <1>5, <1>6

(* What comes after a statement that has reported.                         *)
LEMMA NextInScript ==
    ASSUME FatesInv, NEW j \in Jobs, NEW l \in Waiting(j)
    PROVE  \E i \in Jobs : IsNext(i, j)
<1> USE JobsTyped
<1>1. Waiting(j) \subseteq Nat
  BY DEF Waiting
<1>2. PICK i \in Waiting(j) : \A k \in Waiting(j) : ~(<<k, i>> \in OpToRel(<, Nat))
  BY <1>1, WFMin, NatLessThanWellFounded
<1>3. \A k \in Waiting(j) : ~(<<k, i>> \in OpToRel(<, Nat)) => ~(k < i)
  BY <1>1 DEF OpToRel
<1>4. \A k \in Waiting(j) : i <= k
  <2>1. \A k \in Waiting(j) : ~(k < i)
    BY <1>2, <1>3
  <2>2. QED
    BY <1>1, <2>1
<1>5. i \in Jobs
  BY DEF Waiting
<1>6. QED
  BY <1>4, <1>5 DEF IsNext

LEMMA SendSteps ==
    ASSUME FatesInv, OneSet, NEW o \in Jobs, Send(o)
    PROVE  /\ run[o] \in {"sending", "failing"} /\ run'[o] = "ended"
           /\ \A j \in Jobs \ {o} :
                 \/ run'[j] = run[j] /\ (j \in Waiting(o) => ~IsNext(j, o))
                 \/ /\ j \in Waiting(o) /\ run'[j] = "ended"
                    /\ task[o] \in aborted /\ run[o] = "sending"
                 \/ /\ IsNext(j, o) /\ run'[j] \in {"running", "failing"}
                    /\ ~(task[o] \in aborted /\ run[o] = "sending")
           /\ task[o] \in aborted /\ run[o] = "sending" =>
                 \A j \in Waiting(o) : run'[j] = "ended"
           /\ run[o] = "failing" /\ kind[o] = "batch" =>
                 \A j \in Jobs : IsNext(j, o) => run'[j] = "failing"
           /\ \A j \in Jobs : j \in Waiting(o) <=> run[j] = "queued" /\ task[j] = task[o]
           /\ o \notin Waiting(o)
<1> USE JobsTyped DEF FatesInv
<1>1. run[o] \in {"sending", "failing"} /\ sent' = [sent EXCEPT ![o] = @ + 1]
  BY DEF Send
<1>2. Proceed(o)
  <2>1. sent[o] \in Nat /\ sent'[o] = sent[o] + 1
    BY <1>1, JobsAssumption DEF TabsInv, JobsInv, TypeOK
  <2>2. ~(sent'[o] < MaxSets)
    BY <2>1 DEF OneSet
  <2>3. QED
    BY <2>2 DEF Send
<1>3. run'[o] = "ended" /\ \A j \in Jobs \ {o} : run'[j] = AfterIt(j, o)
  BY <1>2 DEF Proceed
<1>4. task[o] # 0
  BY <1>1 DEF TabsInv, TasksInv
<1>5. \A j \in Jobs : j \in Waiting(o) <=> run[j] = "queued" /\ task[j] = task[o]
  BY <1>4 DEF Waiting
<1>6. o \notin Waiting(o)
  BY <1>1, <1>5
<1>7. \A j : IsNext(j, o) => j \in Waiting(o)
  BY DEF IsNext
<1>8. \A j \in Jobs \ {o} :
         \/ run'[j] = run[j] /\ (j \in Waiting(o) => ~IsNext(j, o))
         \/ /\ j \in Waiting(o) /\ run'[j] = "ended"
            /\ task[o] \in aborted /\ run[o] = "sending"
         \/ /\ IsNext(j, o) /\ run'[j] \in {"running", "failing"}
            /\ ~(task[o] \in aborted /\ run[o] = "sending")
  BY <1>3, <1>7 DEF AfterIt
<1>9. task[o] \in aborted /\ run[o] = "sending" =>
         \A j \in Waiting(o) : run'[j] = "ended"
  BY <1>3, <1>5, <1>6 DEF AfterIt, Waiting
<1>10. run[o] = "failing" /\ kind[o] = "batch" =>
         \A j \in Jobs : IsNext(j, o) => run'[j] = "failing"
  BY <1>3, <1>6, <1>7 DEF AfterIt
<1>11. QED
  BY <1>1, <1>3, <1>5, <1>6, <1>8, <1>9, <1>10

(* A statement reports, and the next one of its script takes its turn.     *)
LEMMA SendFates ==
    ASSUME FatesInv, OneSet, NEW o \in Jobs, Send(o)
    PROVE  FateInv' /\ TurnsInv'
<1> USE JobsTyped DEF FatesInv
<1>1. /\ run[o] \in {"sending", "failing"} /\ run'[o] = "ended"
      /\ \A j \in Jobs \ {o} :
            \/ run'[j] = run[j] /\ (j \in Waiting(o) => ~IsNext(j, o))
            \/ /\ j \in Waiting(o) /\ run'[j] = "ended"
               /\ task[o] \in aborted /\ run[o] = "sending"
            \/ /\ IsNext(j, o) /\ run'[j] \in {"running", "failing"}
               /\ ~(task[o] \in aborted /\ run[o] = "sending")
      /\ task[o] \in aborted /\ run[o] = "sending" =>
            \A j \in Waiting(o) : run'[j] = "ended"
      /\ run[o] = "failing" /\ kind[o] = "batch" =>
            \A j \in Jobs : IsNext(j, o) => run'[j] = "failing"
      /\ \A j \in Jobs : j \in Waiting(o) <=> run[j] = "queued" /\ task[j] = task[o]
      /\ o \notin Waiting(o)
  BY SendSteps
<1>2. \A j : IsNext(j, o) => j \in Waiting(o) /\ \A k \in Waiting(o) : j <= k
  BY DEF IsNext
<1>3. /\ UNCHANGED <<tabs, opened, active, batches, cancelled, shown,
                     called, gave_up, dropped>>
      /\ kind' = kind /\ stamp' = stamp /\ task' = task /\ last_id' = last_id
  BY DEF Send, tabVars, jobVars, mapVars, seenVars
<1>4. /\ Len(channel') = Len(channel) + 1
      /\ channel'[Len(channel) + 1].job = o
      /\ \A n \in 1..Len(channel) : channel'[n] = channel[n]
  <2>1. channel' = Append(channel, [job |-> o, ok |-> run[o] = "sending"])
    BY DEF Send
  <2>2. [job |-> o, ok |-> run[o] = "sending"] \in Messages
    BY DEF Messages
  <2>3. QED
    BY <2>1, <2>2
<1>5. \A n \in 1..Len(channel') : \/ n = Len(channel) + 1 /\ channel'[n].job = o
                                  \/ n \in 1..Len(channel) /\ channel'[n] = channel[n]
  <2>1. \A n \in 1..Len(channel') : n = Len(channel) + 1 \/ n \in 1..Len(channel)
    BY <1>4
  <2>2. QED
    BY <1>4, <2>1
<1>6. /\ Withdrawn' = Withdrawn
      /\ \A j : Untold(j)' = Untold(j)
      /\ \A j : InChannel(j)' <=> (InChannel(j) \/ j = o)
  <2>1. Withdrawn' = Withdrawn /\ \A j : Untold(j)' = Untold(j)
    BY <1>3 DEF Withdrawn, Untold
  <2>2. ASSUME NEW j, InChannel(j)' PROVE InChannel(j) \/ j = o
    BY <1>5, <2>2 DEF InChannel
  <2>3. ASSUME NEW j, InChannel(j) PROVE InChannel(j)'
    <3>1. PICK n \in 1..Len(channel) : channel[n].job = j
      BY <2>3 DEF InChannel
    <3>2. n \in 1..Len(channel') /\ channel'[n].job = j
      BY <1>4, <3>1
    <3>3. QED
      BY <3>2 DEF InChannel
  <2>4. InChannel(o)'
    <3>1. Len(channel) + 1 \in 1..Len(channel')
      BY <1>4
    <3>2. QED
      BY <1>4, <3>1 DEF InChannel
  <2>5. QED
    BY <2>1, <2>2, <2>3, <2>4
<1>7. \A j \in Jobs : InChannel(j) => run[j] = "ended" /\ j # o
  BY <1>1 DEF FateInv, InChannel
<1>8. /\ \A j \in Jobs : Pending(j)' => Pending(j)
      /\ \A j \in Jobs : run[j] = "ended" => run'[j] = "ended"
      /\ \A j \in Jobs : run[j] # "none" => run'[j] # "none"
      /\ Pending(o) /\ Pending(o)' /\ Begun(o)
  <2>1. \A j \in Jobs : run[j] = "ended" => run'[j] = "ended"
    BY <1>1, <1>2
  <2>2. \A j \in Jobs : run[j] # "none" => run'[j] # "none"
    BY <1>1
  <2>3. ASSUME NEW j \in Jobs, Pending(j)' PROVE Pending(j)
    <3>1. CASE j = o
      BY <1>1, <3>1 DEF Pending
    <3>2. CASE j # o
      BY <1>1, <1>2, <1>6, <2>3, <3>2 DEF Pending
    <3>3. QED
      BY <3>1, <3>2
  <2>4. Pending(o) /\ Pending(o)' /\ Begun(o)
    BY <1>1, <1>6 DEF Pending, Begun
  <2>5. QED
    BY <2>1, <2>2, <2>3, <2>4
<1>9. FateInv'
  <2>1. /\ cancelled' \subseteq Withdrawn' /\ active' \cap Withdrawn' = {}
        /\ \A j \in active' \cup Withdrawn' : Untold(j)'
        /\ \A j \in called' : j <= last_id'
    BY <1>3, <1>6 DEF FateInv
  <2>2. \A j \in Jobs : Pending(j)' => j \in active' \cup cancelled'
    BY <1>3, <1>8 DEF FateInv
  <2>3. ASSUME NEW j \in Jobs, run'[j] = "queued", j \notin active'
        PROVE  \E i \in Jobs : task'[i] = task'[j] /\ run'[i] \in {"sending", "failing"}
    <3>1. run[j] = "queued" /\ j \notin active /\ j # o
      BY <1>1, <1>3, <2>3
    <3>2. PICK i \in Jobs : task[i] = task[j] /\ run[i] \in {"sending", "failing"}
      BY <3>1 DEF FateInv
    <3>3. CASE i # o
      <4>1. i \notin Waiting(o)
        BY <1>1, <3>2
      <4>2. run'[i] = run[i]
        BY <1>1, <1>2, <3>3, <4>1
      <4>3. QED
        BY <1>3, <3>2, <4>2
    <3>4. CASE i = o
      <4>1. j \in Waiting(o)
        BY <1>1, <3>1, <3>2, <3>4
      <4>2. task[o] \in aborted /\ kind[j] = "batch" /\ task[j] # 0
        BY <3>1, <3>2, <3>4 DEF TabsInv, RunsInv, TasksInv
      <4>3. run[o] = "failing"
        BY <1>1, <2>3, <4>1, <4>2
      <4>4. kind[o] = "batch"
        BY <3>2, <3>4, <4>2 DEF TabsInv, TasksInv
      <4>5. PICK l \in Jobs : IsNext(l, o)
        BY <4>1, NextInScript
      <4>6. run'[l] = "failing" /\ task[l] = task[j]
        BY <1>1, <1>2, <3>2, <3>4, <4>3, <4>4, <4>5
      <4>7. QED
        BY <1>3, <4>6
    <3>5. QED
      BY <3>3, <3>4
  <2>4. \A n \in 1..Len(channel') : run'[channel'[n].job] = "ended"
    BY <1>1, <1>5, <1>8 DEF FateInv
  <2>5. ASSUME NEW n \in 1..Len(channel'), NEW m \in 1..Len(channel'),
               channel'[n].job = channel'[m].job
        PROVE  n = m
    <3>1. \A l \in 1..Len(channel) : channel[l].job # o
      BY <1>7 DEF InChannel
    <3>2. QED
      BY <1>5, <2>5, <3>1 DEF FateInv
  <2>6. /\ \A b \in batches' : b \subseteq active'
        /\ \A b, c \in batches' : b \cap c # {} => b = c
    BY <1>3 DEF FateInv
  <2>7. QED
    BY <2>1, <2>2, <2>3, <2>4, <2>5, <2>6 DEF FateInv
<1>10. TurnsInv'
  <2>1. /\ tabs' \subseteq 1..opened'
        /\ \A j \in Jobs : /\ stamp'[j] <= opened'
                           /\ task'[j] # 0 => run'[j] # "none"
                           /\ kind'[j] = "batch" => task'[j] # 0
    BY <1>3, <1>8 DEF TurnsInv
  <2>2. ASSUME NEW i \in Jobs, NEW j \in Jobs, Mates(i, j), i < j
        PROVE  InTurn(i, j)'
    <3>1. InTurn(i, j)
      BY <2>2 DEF TurnsInv
    <3>2. task[i] = task[j] /\ task[i] # 0 /\ i # j
      BY <2>2 DEF Mates
    <3>3. ASSUME Begun(j)' \/ InChannel(j)'
          PROVE  run'[i] = "ended"
      <4>1. CASE Begun(j) \/ InChannel(j)
        BY <1>8, <3>1, <4>1 DEF InTurn
      <4>2. CASE ~(Begun(j) \/ InChannel(j))
        <5>1. j # o /\ Begun(j)' /\ ~Begun(j)
          BY <1>6, <1>8, <3>3, <4>2
        <5>2. IsNext(j, o)
          BY <1>1, <1>2, <5>1 DEF Begun
        <5>3. task[j] = task[o] /\ \A k \in Waiting(o) : j <= k
          BY <1>1, <1>2, <5>2
        <5>4. CASE i = o
          BY <1>1, <5>4
        <5>5. CASE i # o
          <6>1. Mates(i, o) /\ Mates(o, i)
            BY <3>2, <5>3, <5>5 DEF Mates
          <6>2. i \notin Waiting(o)
            BY <2>2, <5>3
          <6>3. run[i] # "queued" /\ run[i] # "none"
            BY <1>1, <3>2, <5>3, <6>2 DEF TurnsInv
          <6>4. CASE run[i] = "ended"
            BY <1>8, <6>4
          <6>5. CASE Begun(i)
            <7>1. i < o \/ o < i
              BY <5>5
            <7>2. CASE i < o
              BY <1>8, <6>1, <7>2 DEF TurnsInv, InTurn
            <7>3. CASE o < i
              BY <1>1, <6>1, <6>5, <7>3 DEF TurnsInv, InTurn
            <7>4. QED
              BY <7>1, <7>2, <7>3
          <6>6. QED
            BY <6>3, <6>4, <6>5 DEF Begun, TabsInv, JobsInv, TypeOK
        <5>6. QED
          BY <5>4, <5>5
      <4>3. QED
        BY <4>1, <4>2
    <3>4. ASSUME NEW n \in 1..Len(channel'), NEW m \in 1..Len(channel'),
                 channel'[m].job = i, channel'[n].job = j
          PROVE  m < n
      <4>1. CASE n \in 1..Len(channel) /\ m \in 1..Len(channel)
        BY <1>4, <3>1, <3>4, <4>1 DEF InTurn
      <4>2. CASE n = Len(channel) + 1
        BY <1>4, <1>5, <3>2, <3>4, <4>2
      <4>3. CASE n \in 1..Len(channel) /\ m = Len(channel) + 1
        <5>1. i = o /\ InChannel(j)
          BY <1>4, <3>4, <4>3 DEF InChannel
        <5>2. QED
          BY <1>1, <3>1, <5>1 DEF InTurn
      <4>4. QED
        BY <1>5, <4>1, <4>2, <4>3
    <3>5. ASSUME j \in active', Pending(j)', ~Pending(i)', stamp'[j] \in tabs'
          PROVE  shown'[i] # {}
      <4>1. j \in active /\ Pending(j) /\ stamp[j] \in tabs /\ i # o
        BY <1>3, <1>8, <3>5
      <4>2. CASE ~Pending(i)
        BY <1>3, <3>1, <4>1, <4>2 DEF InTurn
      <4>3. CASE Pending(i)
        <5>1. ~InChannel(i) /\ run'[i] # run[i] /\ run'[i] \in {"none", "ended"}
          BY <1>6, <3>5, <4>3 DEF Pending
        <5>2. /\ run[i] = "queued" /\ task[i] = task[o]
              /\ task[o] \in aborted /\ run[o] = "sending"
          BY <1>1, <4>1, <5>1
        <5>3. j # o
          BY <1>8, <3>1, <5>2 DEF InTurn
        <5>4. ~(Begun(j) \/ InChannel(j))
          BY <3>1, <5>2 DEF InTurn
        <5>5. run[j] = "queued"
          BY <4>1, <5>4 DEF Pending, Begun, TabsInv, JobsInv, TypeOK
        <5>6. run'[j] = "ended"
          BY <1>1, <3>2, <5>2, <5>5
        <5>7. QED
          BY <1>6, <3>5, <5>3, <5>4, <5>6 DEF Pending
      <4>4. QED
        BY <4>2, <4>3
    <3>6. shown'[j] # {} => shown'[i] # {}
      BY <1>3, <3>1 DEF InTurn
    <3>7. QED
      BY <3>3, <3>4, <3>5, <3>6 DEF InTurn
  <2>3. ASSUME NEW i \in Jobs, NEW j \in Jobs, Mates(i, j)'
        PROVE  /\ stamp'[i] = stamp'[j] /\ kind'[i] = "batch"
               /\ i \in active' /\ j \in active' =>
                     \E b \in batches' : {i, j} \subseteq b
               /\ ~(i \in Withdrawn' /\ j \in active')
               /\ i < j => InTurn(i, j)'
    <3>1. Mates(i, j)
      BY <1>3, <2>3 DEF Mates
    <3>2. QED
      BY <1>3, <1>6, <2>2, <3>1 DEF TurnsInv
  <2>4. QED
    BY <2>1, <2>3 DEF TurnsInv
<1>11. QED
  BY <1>9, <1>10
-----------------------------------------------------------------------------
LEMMA FatesStep ==
    FatesInv /\ AllStoppable /\ OneSet /\ [Next]_vars => FatesInv'
<1> SUFFICES ASSUME FatesInv, AllStoppable, OneSet, [Next]_vars PROVE FatesInv'
  OBVIOUS
<1>1. TabsInv'
  BY TabsStep DEF FatesInv
<1>2. CASE Start
  <2> SUFFICES FateInv' /\ TurnsInv'
    BY <1>1 DEF FatesInv
  <2>1. CASE RunStatement
    BY <2>1, LaunchFates DEF RunStatement
  <2>2. CASE RunPage
    BY <2>2, LaunchFates DEF RunPage
  <2>3. CASE RunScript
    BY <2>3, LaunchFates DEF RunScript
  <2>4. CASE RunInSession
    BY <2>4 DEF RunInSession, Launch, AllStoppable
  <2>5. CASE RunWithCallback
    BY <2>5, LaunchFates DEF RunWithCallback
  <2>6. CASE AutoRefresh
    BY <2>6, LaunchFates DEF AutoRefresh
  <2>7. CASE StatementStartFails \/ CallbackStartFails
    BY <2>7, FailsFates
  <2>8. QED
    BY <1>2, <2>1, <2>2, <2>3, <2>4, <2>5, <2>6, <2>7 DEF Start
<1>3. CASE CancelJob \/ CancelAll \/ CloseTabs \/ StartFrame
  <2>1. PICK ids \in SUBSET active :
           /\ Cancel(ids)
           /\ Withdrawn' = Withdrawn \cup Together(ids)
           /\ tabs' \subseteq tabs
    BY <1>3, WithdrawsWhole
  <2>2. UNCHANGED <<jobVars, channel, shown, called, opened>>
    BY <1>3 DEF CancelJob, CancelAll, CloseTabs, StartFrame, tabVars
  <2>3. FateInv' /\ TurnsInv'
    BY <2>1, <2>2, CancelFates
  <2>4. QED
    BY <1>1, <2>3 DEF FatesInv
<1>4. CASE NewTab \/ SwitchTab \/ Forget \/ Drained \/ UNCHANGED vars
  <2>1. UNCHANGED <<jobVars, run, channel, active, batches, shown, called,
                    gave_up, dropped>>
    BY <1>4 DEF NewTab, SwitchTab, Forget, Drained, vars, taskVars, mapVars, seenVars
  <2>2. \/ cancelled' = cancelled
        \/ /\ cancelled' \subseteq cancelled /\ channel = <<>>
           /\ \A j \in Jobs : run[j] \notin {"sending", "failing"}
    BY <1>4 DEF NewTab, SwitchTab, Forget, Drained, vars, mapVars
  <2>3. \/ tabs' = tabs /\ opened' = opened
        \/ tabs' = tabs \cup {opened + 1} /\ opened' = opened + 1
    BY <1>4 DEF NewTab, SwitchTab, Forget, Drained, vars, tabVars
  <2>4. FateInv' /\ TurnsInv'
    BY <2>1, <2>2, <2>3, CalmFates
  <2>5. QED
    BY <1>1, <2>4 DEF FatesInv
<1>5. ASSUME NEW m \in Messages, Handle(m) PROVE FatesInv'
  BY <1>1, <1>5, HandleFates DEF FatesInv
<1>6. ASSUME NEW j \in Jobs, Task(j) PROVE FatesInv'
  <2>1. FateInv' /\ TurnsInv'
    BY <1>6, AnswerFates, SendFates DEF Task
  <2>2. QED
    BY <1>1, <2>1 DEF FatesInv
<1>7. ~SwitchBarely
  BY DEF SwitchBarely, AllStoppable
<1>8. QED
  BY <1>2, <1>3, <1>4, <1>5, <1>6, <1>7 DEF Next, User, Frame

LEMMA FatesInvHolds == AllStoppable /\ OneSet /\ Spec => []FatesInv
<1> SUFFICES ASSUME AllStoppable, OneSet PROVE Spec => []FatesInv
  OBVIOUS
<1>1. FatesInv /\ [Next]_vars => FatesInv'
  BY FatesStep
<1>2. QED
  BY <1>1, FatesInitially, PTL DEF Spec

(* However cancels, aborts and reports fall, the results of a script that  *)
(* are shown are those of its first statements: when each statement has    *)
(* one result set, none is shown before the statement in front of it.      *)
THEOREM ScriptsInOrder == AllStoppable /\ OneSet /\ Spec => []ResultsInOrder
<1> SUFFICES ASSUME AllStoppable, OneSet PROVE Spec => []ResultsInOrder
  OBVIOUS
<1>1. FatesInv => ResultsInOrder
  <2> SUFFICES ASSUME FatesInv, NEW i \in Jobs, NEW j \in Jobs, kind[i] = "batch",
                      task[i] = task[j], i < j, shown[j] # {}
               PROVE  shown[i] # {}
    BY DEF ResultsInOrder
  <2>1. i # j
    BY JobsTyped
  <2>2. Mates(i, j)
    BY <2>1 DEF FatesInv, TurnsInv, Mates
  <2>3. QED
    BY <2>2 DEF FatesInv, TurnsInv, InTurn
<1>2. QED
  BY <1>1, FatesInvHolds, PTL
-----------------------------------------------------------------------------
(* The board.  An id that was not handed out is on it as unborn, a job     *)
(* that is active as waiting.                                              *)
LEMMA FatesOfJobs ==
    ASSUME FatesInv
    PROVE  /\ \A j \in Jobs : j > last_id => /\ Fate(j) = "unborn" /\ shown[j] = {}
                                             /\ j \notin Withdrawn /\ j \notin called
           /\ \A j \in active : j \in Jobs /\ Fate(j) = "waiting"
<1> USE JobsTyped DEF FatesInv
<1>1. \A j \in Jobs : j > last_id => kind[j] = "none" /\ shown[j] = {} /\ ~(j <= last_id)
  BY DEF TabsInv, TasksInv, JobsInv, Numbered
<1>2. \A j \in Jobs : j > last_id => j \notin Withdrawn /\ j \notin called
  BY <1>1 DEF FateInv, Untold
<1>3. \A j \in Jobs : j > last_id => Fate(j) = "unborn"
  BY <1>1 DEF Fate
<1>4. \A j \in active : j \in Jobs /\ j \notin gave_up \cup dropped /\ Untold(j)
  BY DEF FateInv, Withdrawn
<1>5. \A j \in active : Fate(j) = "waiting"
  BY <1>4 DEF Fate, Untold
<1>6. QED
  BY <1>1, <1>2, <1>3, <1>4, <1>5

(* A start writes a new row on the board.                                  *)
LEMMA StartOnBoard ==
    ASSUME FatesInv, AllStoppable, Start
    PROVE  Board!Next
<1> USE JobsTyped DEF FatesInv
<1>0. here \in Tabs /\ Fresh > last_id
  BY DEF TabsInv, JobsInv, TypeOK, Fresh
<1>1. ASSUME NEW new \in SUBSET Jobs, NEW k, NEW f \in {"waiting", "delivered"},
             Fresh \in new, New(new, k), \A j \in new : j > last_id,
             k # "none",
             k # "failed" /\ called' = called => f = "waiting",
             k = "failed" \/ new \subseteq called' => f = "delivered",
             called' = called \/ called' = called \cup new
      PROVE  Board!Next
  <2>1. /\ kind' = [j \in Jobs |-> IF j \in new THEN k ELSE kind[j]]
        /\ stamp' = [j \in Jobs |-> IF j \in new THEN here ELSE stamp[j]]
        /\ UNCHANGED <<shown, gave_up, dropped>>
    BY <1>1 DEF New
  <2>2. \A j \in new : /\ Fate(j) = "unborn" /\ shown[j] = {}
                       /\ j \notin gave_up \cup dropped /\ j \notin called
    BY <1>1, FatesOfJobs DEF Withdrawn
  <2>3. \A j \in Jobs \ new : Fate(j)' = Fate(j)
    BY <1>1, <2>1 DEF Fate
  <2>4. \A j \in new : Fate(j)' = f
    <3>1. CASE called' = called
      BY <1>1, <2>1, <2>2, <3>1 DEF Fate
    <3>2. CASE called' = called \cup new
      BY <1>1, <2>1, <2>2, <3>2 DEF Fate
    <3>3. QED
      BY <1>1, <3>1, <3>2
  <2>5. [j \in Jobs |-> Fate(j)]' = [j \in Jobs |-> IF j \in new THEN f ELSE Fate(j)]
    BY <2>3, <2>4
  <2>6. Board!Begin(new, here, f)
    BY <1>1, <2>1, <2>2, <2>5 DEF Board!Begin
  <2>7. QED
    BY <1>0, <1>1, <2>6 DEF Board!Next
<1>2. ASSUME NEW new, NEW k, Launch(new, k, Fresh, FALSE),
             new = {Fresh} \/ new = {Fresh, Fresh + 1}
      PROVE  Board!Next
  <2>1. New(new, k) /\ new \in SUBSET Jobs /\ called' = called
    BY <1>2 DEF Launch, New
  <2>2. k # "none" /\ k # "failed"
    BY <1>2, JobsAssumption DEF Launch, AllKinds
  <2>3. Fresh \in new /\ \A j \in new : j > last_id
    BY <1>0, <1>2, <2>1 DEF Fresh
  <2>4. ~(new \subseteq called')
    BY <1>0, <2>1, <2>3, FatesOfJobs
  <2>5. QED
    BY <1>1, <2>1, <2>2, <2>3, <2>4
<1>3. CASE StatementStartFails
  <2>1. New({Fresh}, "failed") /\ called' = called /\ {Fresh} \in SUBSET Jobs
    BY <1>3 DEF StatementStartFails, New
  <2>2. QED
    BY <1>0, <1>1, <2>1
<1>4. CASE CallbackStartFails
  <2>1. /\ New({Fresh}, "callback") /\ called' = called \cup {Fresh}
        /\ {Fresh} \in SUBSET Jobs
    BY <1>4 DEF CallbackStartFails, New
  <2>2. called' # called
    BY <1>0, <2>1, FatesOfJobs
  <2>3. QED
    BY <1>0, <1>1, <2>1, <2>2
<1>5. ~RunInSession
  BY DEF RunInSession, Launch, AllStoppable
<1>6. QED
  BY <1>2, <1>3, <1>4, <1>5 DEF Start, RunStatement, RunPage, RunScript,
     RunWithCallback, AutoRefresh

(* A message that is not ignored delivers its job.                         *)
LEMMA HandleOnBoard ==
    ASSUME FatesInv, NEW m \in Messages, Handle(m)
    PROVE  [Board!Next]_(Board!vars)
<1> USE JobsTyped DEF FatesInv
<1> DEFINE o == m.job
<1>1. Arrives(m)
  BY DEF Handle, HandleCancelled, HandleCallback, HandleForClosedTab,
         HandleElsewhere, HandleHere
<1>2. /\ kind' = kind /\ stamp' = stamp /\ gave_up' = gave_up /\ dropped' = dropped
      /\ o \in Jobs
  BY <1>1 DEF Arrives, jobVars, Messages
<1>3. InChannel(o)
  <2>1. 1 \in 1..Len(channel) /\ channel[1] = m
    BY <1>1 DEF Arrives
  <2>2. QED
    BY <2>1 DEF InChannel
<1>4. o \notin cancelled => o \in active
  BY <1>2, <1>3 DEF FateInv, Pending
<1>5. o \notin cancelled => Fate(o) = "waiting" /\ shown[o] = {}
  BY <1>4, FatesOfJobs DEF FateInv, Untold
<1>6. CASE shown' = shown /\ called' = called
  <2>1. \A j \in Jobs : Fate(j)' = Fate(j)
    BY <1>2, <1>6 DEF Fate
  <2>2. [j \in Jobs |-> Fate(j)]' = [j \in Jobs |-> Fate(j)]
    BY <2>1
  <2>3. QED
    BY <1>2, <1>6, <2>2 DEF Board!vars
<1>7. ASSUME o \notin cancelled,
             \/ shown' = shown /\ called' = called \cup {o}
             \/ shown' = [shown EXCEPT ![o] = @ \cup {stamp[o]}] /\ called' = called
      PROVE  Board!Next
  <2>1. shown \in [Jobs -> SUBSET Tabs]
    BY DEF TabsInv, JobsInv, TypeOK
  <2>2. \A j \in Jobs \ {o} : shown'[j] = shown[j] /\ (j \in called' <=> j \in called)
    BY <1>7, <2>1
  <2>3. \A j \in Jobs \ {o} : Fate(j)' = Fate(j)
    BY <1>2, <2>2 DEF Fate
  <2>4. o \in called' \/ shown'[o] # {}
    BY <1>2, <1>7, <2>1
  <2>5. kind[o] # "none" /\ o \notin gave_up \cup dropped
    BY <1>4, <1>7 DEF FateInv, Untold, Withdrawn
  <2>6. Fate(o)' = "delivered"
    BY <1>2, <2>4, <2>5 DEF Fate
  <2>7. [j \in Jobs |-> Fate(j)]' = [[j \in Jobs |-> Fate(j)] EXCEPT ![o] = "delivered"]
    BY <2>3, <2>6
  <2>8. shown' \in {shown, [shown EXCEPT ![o] = {stamp[o]}]}
    BY <1>5, <1>7
  <2>9. Board!Deliver(o)
    BY <1>2, <1>5, <1>7, <2>7, <2>8 DEF Board!Deliver
  <2>10. QED
    BY <1>2, <2>9 DEF Board!Next
<1>8. CASE HandleCancelled(m) \/ HandleForClosedTab(m)
  BY <1>6, <1>8 DEF HandleCancelled, HandleForClosedTab
<1>9. CASE HandleCallback(m)
  BY <1>7, <1>9 DEF HandleCallback, Live
<1>10. CASE HandleElsewhere(m) \/ HandleHere(m)
  BY <1>7, <1>10 DEF HandleElsewhere, HandleHere, Live, Show
<1>11. QED
  BY <1>8, <1>9, <1>10 DEF Handle

(* A cancel withdraws what waits.                                          *)
LEMMA CancelOnBoard ==
    ASSUME FatesInv, CancelJob \/ CancelAll \/ CloseTabs \/ StartFrame
    PROVE  [Board!Next]_(Board!vars)
<1> USE JobsTyped DEF FatesInv
<1>1. PICK ids \in SUBSET active :
         /\ Cancel(ids)
         /\ Withdrawn' = Withdrawn \cup Together(ids)
  BY WithdrawsWhole
<1>2. UNCHANGED <<kind, stamp, shown, called>>
  BY DEF CancelJob, CancelAll, CloseTabs, StartFrame, jobVars
<1>3. Together(ids) \subseteq active
  BY DEF Together, FateInv
<1>4. \A j \in Together(ids) : Fate(j) = "waiting" /\ kind[j] # "none" /\ j \in Jobs
  BY <1>3, FatesOfJobs DEF FateInv, Untold
<1>5. \A j \in Jobs : Fate(j)' = IF j \in Together(ids) THEN "withdrawn" ELSE Fate(j)
  BY <1>1, <1>2, <1>4 DEF Fate, Withdrawn
<1>6. [j \in Jobs |-> Fate(j)]'
         = [j \in Jobs |-> IF j \in Together(ids) THEN "withdrawn" ELSE Fate(j)]
  BY <1>5
<1>7. CASE Together(ids) = {}
  <2>1. [j \in Jobs |-> Fate(j)]' = [j \in Jobs |-> Fate(j)]
    BY <1>6, <1>7
  <2>2. QED
    BY <1>2, <2>1 DEF Board!vars
<1>8. CASE Together(ids) # {}
  <2>1. Together(ids) \in SUBSET Jobs
    BY <1>4
  <2>2. Board!Withdraw(Together(ids))
    BY <1>2, <1>4, <1>6, <1>8 DEF Board!Withdraw
  <2>3. QED
    BY <2>1, <2>2 DEF Board!Next
<1>9. QED
  BY <1>7, <1>8

LEMMA BoardStep ==
    FatesInv /\ AllStoppable /\ [Next]_vars => [Board!Next]_(Board!vars)
<1> SUFFICES ASSUME FatesInv, AllStoppable, [Next]_vars
             PROVE  [Board!Next]_(Board!vars)
  OBVIOUS
<1>1. CASE Start
  BY <1>1, StartOnBoard
<1>2. CASE CancelJob \/ CancelAll \/ CloseTabs \/ StartFrame
  BY <1>2, CancelOnBoard
<1>3. ASSUME NEW m \in Messages, Handle(m) PROVE [Board!Next]_(Board!vars)
  BY <1>3, HandleOnBoard
<1>4. ASSUME UNCHANGED <<kind, stamp, shown, called, gave_up, dropped>>
      PROVE  [Board!Next]_(Board!vars)
  <2>1. \A j \in Jobs : Fate(j)' = Fate(j)
    BY <1>4 DEF Fate
  <2>2. [j \in Jobs |-> Fate(j)]' = [j \in Jobs |-> Fate(j)]
    BY <2>1
  <2>3. QED
    BY <1>4, <2>2 DEF Board!vars
<1>5. CASE NewTab \/ SwitchTab \/ SwitchBarely \/ Forget \/ Drained \/ UNCHANGED vars
  BY <1>4, <1>5 DEF NewTab, SwitchTab, SwitchBarely, Forget, Drained, vars,
     jobVars, seenVars
<1>6. ASSUME NEW j \in Jobs, Task(j) PROVE [Board!Next]_(Board!vars)
  BY <1>4, <1>6 DEF Task, Answer, Send, jobVars, seenVars
<1>7. QED
  BY <1>1, <1>2, <1>3, <1>5, <1>6 DEF Next, User, Frame

(* Step by step the jobs do what the board promises: a job is delivered    *)
(* once and to the tab it was started in, what was withdrawn is never      *)
(* delivered, what was delivered is never withdrawn.                       *)
THEOREM JobsKeepTheBoard ==
    AllStoppable /\ OneSet /\ Spec => Board!Init /\ [][Board!Next]_(Board!vars)
<1> SUFFICES ASSUME AllStoppable, OneSet
             PROVE  Spec => Board!Init /\ [][Board!Next]_(Board!vars)
  OBVIOUS
<1>1. Init => Board!Init
  BY DEF Init, Board!Init, Fate
<1>2. FatesInv /\ [Next]_vars => [Board!Next]_(Board!vars)
  BY BoardStep
<1>3. QED
  BY <1>1, <1>2, FatesInvHolds, PTL DEF Spec
=============================================================================
