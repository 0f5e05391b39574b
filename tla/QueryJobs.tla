------------------------------ MODULE QueryJobs ------------------------------
(***************************************************************************)
(* Background query jobs and the tabs they belong to: QueryJobsState       *)
(* (window_egui/mod.rs) with its handlers in window_egui/query_jobs.rs.    *)
(* tokio tasks run the statements and send QueryResultMessages into one    *)
(* channel; the UI thread drains it at the start of a frame and only then  *)
(* lets the user act, so a job can finish, be cancelled and lose its tab   *)
(* between two drains.                                                     *)
(***************************************************************************)
EXTENDS Naturals, Sequences, FiniteSets

CONSTANTS MaxJobs,     \* bound on the jobs allocate_id hands out
          MaxTabs,     \* bound on the tabs next_tab_id hands out
          MaxSets,     \* bound on the result sets of one SQL Server batch
          Kinds,       \* the kinds of job the user starts
          BareSwitch   \* tabs are also switched by code without sync_job_tabs

AllKinds == {"query", "paged", "refresh", "batch", "callback", "session"}

ASSUME JobsAssumption ==
    /\ MaxJobs \in Nat \ {0}
    /\ MaxTabs \in Nat \ {0}
    /\ MaxSets \in Nat \ {0}
    /\ Kinds \subseteq AllKinds
    /\ BareSwitch \in BOOLEAN

Jobs == 1..MaxJobs
Tabs == 1..MaxTabs
NoTab == 0

VARIABLES phase,      \* the UI thread drains the channel, or renders
          tabs,       \* QueryTab::id of query_tabs
          opened,     \* next_tab_id - 1
          here,       \* the active tab
          last_id,    \* QueryJobsState::last_id
          kind,       \* what each job is
          stamp,      \* QueryJob::tab_id
          task,       \* the first job of the task that runs this one; 0: a session's
          run,        \* how far the task is with the job
          sent,       \* messages it has sent for the job
          aborted,    \* tasks whose handle was aborted
          channel,    \* query_result_receiver
          active, batches, callbacks, cancelled, tab_of,
          busy,       \* query_execution_in_progress
          shown,      \* history: the tabs that were given the job's result
          called,     \* history: jobs whose callback was called
          gave_up,    \* history: jobs cancelled by the user
          dropped     \* history: jobs cancelled with their tab

jobVars == <<last_id, kind, stamp, task>>
taskVars == <<run, sent, aborted, channel>>
tabVars == <<tabs, opened, here>>
mapVars == <<active, batches, callbacks, cancelled, tab_of, busy>>
seenVars == <<shown, called, gave_up, dropped>>
vars == <<phase, tabVars, jobVars, taskVars, mapVars, seenVars>>

Messages == [job : Jobs, ok : BOOLEAN]

TypeOK ==
    /\ phase \in {"drain", "render"}
    /\ tabs \subseteq Tabs
    /\ opened \in Tabs
    /\ here \in tabs
    /\ last_id \in 0..MaxJobs
    /\ kind \in [Jobs -> AllKinds \cup {"none", "failed"}]
    /\ stamp \in [Jobs -> Tabs \cup {NoTab}]
    /\ task \in [Jobs -> 0..MaxJobs]
    /\ run \in [Jobs -> {"none", "queued", "running", "sending", "failing", "ended"}]
    /\ sent \in [Jobs -> 0..MaxSets]
    /\ aborted \subseteq Jobs
    /\ channel \in Seq(Messages)
    /\ active \subseteq Jobs
    /\ batches \subseteq (SUBSET Jobs) \ {{}}
    /\ callbacks \subseteq Jobs
    /\ cancelled \subseteq Jobs
    /\ tab_of \in [Jobs -> Tabs \cup {NoTab}]
    /\ busy \in BOOLEAN
    /\ shown \in [Jobs -> SUBSET Tabs]
    /\ called \subseteq Jobs
    /\ gave_up \subseteq Jobs
    /\ dropped \subseteq Jobs

Init ==
    /\ phase = "render"
    /\ tabs = {1}
    /\ opened = 1
    /\ here = 1
    /\ last_id = 0
    /\ kind = [j \in Jobs |-> "none"]
    /\ stamp = [j \in Jobs |-> NoTab]
    /\ task = [j \in Jobs |-> 0]
    /\ run = [j \in Jobs |-> "none"]
    /\ sent = [j \in Jobs |-> 0]
    /\ aborted = {}
    /\ channel = <<>>
    /\ active = {}
    /\ batches = {}
    /\ callbacks = {}
    /\ cancelled = {}
    /\ tab_of = [j \in Jobs |-> NoTab]
    /\ busy = FALSE
    /\ shown = [j \in Jobs |-> {}]
    /\ called = {}
    /\ gave_up = {}
    /\ dropped = {}
-----------------------------------------------------------------------------
(* Starting jobs.  A statement has a task of its own, a script one task    *)
(* for all its statements, the statements of a manual-commit tab go to the *)
(* task of the tab's session, which no handle can abort.  prepare_query_job *)
(* stamps the active tab on the job.                                       *)
New(ids, k) ==
    /\ phase = "render"
    /\ ids \subseteq Jobs
    /\ last_id' = last_id + Cardinality(ids)
    /\ kind' = [j \in Jobs |-> IF j \in ids THEN k ELSE kind[j]]
    /\ stamp' = [j \in Jobs |-> IF j \in ids THEN here ELSE stamp[j]]
    /\ UNCHANGED <<phase, tabVars, sent, aborted, channel, cancelled, tab_of,
                   shown, gave_up, dropped>>

(* Faulty: the statements of a script race, each on a connection of its    *)
(* own.                                                                    *)
LaunchRacing(ids, k, first, waits) ==
    /\ k \in Kinds
    /\ New(ids, k)
    /\ task' = [j \in Jobs |-> IF j \in ids THEN first ELSE task[j]]
    /\ run' = [j \in Jobs |-> IF j \in ids THEN "running" ELSE run[j]]
    /\ active' = active \cup ids
    /\ UNCHANGED called

(* The tasks take up the least of ids; first is the task's name.           *)
Launch(ids, k, first, waits) ==
    /\ k \in Kinds
    /\ New(ids, k)
    /\ task' = [j \in Jobs |-> IF j \in ids THEN first ELSE task[j]]
    /\ run' = [j \in Jobs |-> IF j \notin ids THEN run[j]
                              ELSE IF waits \/ j # last_id + 1 THEN "queued"
                              ELSE "running"]
    /\ active' = active \cup ids
    /\ UNCHANGED called

Fresh == last_id + 1

RunStatement ==
    /\ Launch({Fresh}, "query", Fresh, FALSE)
    /\ busy' = TRUE
    /\ UNCHANGED <<batches, callbacks>>

(* execute_paginated_query: one page of a SELECT without a LIMIT.          *)
RunPage ==
    /\ Launch({Fresh}, "paged", Fresh, FALSE)
    /\ busy' = TRUE
    /\ UNCHANGED <<batches, callbacks>>

RunScript ==
    LET ids == {Fresh, Fresh + 1} IN
    /\ Launch(ids, "batch", Fresh, FALSE)
    /\ batches' = batches \cup {ids}
    /\ busy' = TRUE
    /\ UNCHANGED callbacks

(* Jobs of the active tab's session that it has not answered yet.          *)
InSession(tab) == {j \in Jobs : /\ kind[j] = "session"
                                /\ stamp[j] = tab
                                /\ run[j] # "ended"}

RunInSession ==
    /\ Launch({Fresh}, "session", 0, InSession(here) # {})
    /\ busy' = TRUE
    /\ UNCHANGED <<batches, callbacks>>

(* A lookup (run_lookup_query) leaves query_execution_in_progress as it was. *)
RunWithCallback ==
    /\ Launch({Fresh}, "callback", Fresh, FALSE)
    /\ callbacks' = callbacks \cup {Fresh}
    /\ busy' \in {TRUE, busy}
    /\ UNCHANGED batches

(* The auto-refresh loop runs its query page by page, when nothing is      *)
(* being executed.                                                         *)
AutoRefresh ==
    /\ ~busy
    /\ Launch({Fresh}, "refresh", Fresh, FALSE)
    /\ busy' = TRUE
    /\ UNCHANGED <<batches, callbacks>>

(* prepare_query_job or spawn_query_job fails: nothing runs; a callback is *)
(* told at once.                                                           *)
StatementStartFails ==
    /\ "query" \in Kinds
    /\ New({Fresh}, "failed")
    /\ busy' \in {active # {}, busy /\ active # {}}
    /\ UNCHANGED <<task, run, active, batches, callbacks, called>>

CallbackStartFails ==
    /\ "callback" \in Kinds
    /\ New({Fresh}, "callback")
    /\ called' = called \cup {Fresh}
    /\ UNCHANGED <<task, run, active, batches, callbacks, busy>>
-----------------------------------------------------------------------------
(* The tasks.  A task awaits the server ("running"); once answered it sends *)
(* what it has without another await, so an abort takes effect only at the *)
(* next one.                                                               *)
Answer(j) ==
    /\ run[j] = "running"
    /\ \E outcome \in {"sending", "failing"} : run' = [run EXCEPT ![j] = outcome]
    /\ UNCHANGED <<phase, tabVars, jobVars, sent, aborted, channel, mapVars,
                   seenVars>>

(* The statements behind j in its script or session, and what becomes of   *)
(* them when j has reported: the next one runs; in a script it is reported *)
(* as skipped when j failed, and an abort ends them all.                   *)
Waiting(j) == {i \in Jobs : /\ run[i] = "queued"
                            /\ task[i] = task[j]
                            /\ task[j] = 0 => stamp[i] = stamp[j]}

IsNext(i, j) == i \in Waiting(j) /\ \A k \in Waiting(j) : i <= k

(* Faulty: the statements after one that failed are not reported.          *)
AfterItSilent(i, j) ==
    IF i \notin Waiting(j) THEN run[i]
    ELSE IF task[j] \in aborted \/ run[j] = "failing" THEN "ended"
    ELSE IF ~IsNext(i, j) THEN run[i]
    ELSE "running"

(* Faulty: the abort of a script's task is not noticed between statements. *)
AfterItRelentless(i, j) ==
    IF ~IsNext(i, j) THEN run[i]
    ELSE IF kind[j] = "batch" /\ run[j] = "failing" THEN "failing"
    ELSE "running"

AfterIt(i, j) ==
    IF i \notin Waiting(j) THEN run[i]
    ELSE IF task[j] \in aborted /\ run[j] = "sending" THEN "ended"
    ELSE IF ~IsNext(i, j) THEN run[i]
    ELSE IF kind[j] = "batch" /\ run[j] = "failing" THEN "failing"
    ELSE "running"

Proceed(j) ==
    run' = [i \in Jobs |-> IF i = j THEN "ended" ELSE AfterIt(i, j)]

(* One message.  A SQL Server statement may have further result sets, each *)
(* a message of its own with the same job id.                              *)
Send(j) ==
    /\ run[j] \in {"sending", "failing"}
    /\ channel' = Append(channel, [job |-> j, ok |-> run[j] = "sending"])
    /\ sent' = [sent EXCEPT ![j] = @ + 1]
    /\ \/ /\ run[j] = "sending"
          /\ kind[j] \in {"query", "batch"}
          /\ sent'[j] < MaxSets
          /\ UNCHANGED run
       \/ Proceed(j)
    /\ UNCHANGED <<phase, tabVars, jobVars, aborted, mapVars, seenVars>>

(* JoinHandle::abort on the tasks of these jobs.  A session's task has no  *)
(* handle here.                                                            *)
Abort(ids) ==
    LET tasks == {task[j] : j \in ids} \ {0}
        unstoppable == {task[j] : j \in {i \in Jobs : run[i] \in {"sending", "failing"}}}
    IN  /\ aborted' = aborted \cup tasks
        /\ run' = [j \in Jobs |->
                     IF /\ task[j] \in tasks
                        /\ \/ run[j] = "running"
                           \/ run[j] = "queued" /\ task[j] \notin unstoppable
                     THEN "ended" ELSE run[j]]
-----------------------------------------------------------------------------
(* cancel_query_job for each of ids: any member of a script cancels all of *)
(* it.  The entries of jobs.cancelled make their late results ignored.     *)
Together(ids) == ids \cup UNION {b \in batches : b \cap ids # {}}

(* Faulty: the result of a statement cancelled with its script is not      *)
(* ignored when it comes.                                                  *)
CancelForgetful(ids) ==
    LET all == Together(ids) IN
    /\ active' = active \ all
    /\ batches' = {b \in batches : b \cap ids = {}}
    /\ cancelled' = cancelled \cup ids
    /\ Abort(all)

Cancel(ids) ==
    LET all == Together(ids) IN
    /\ active' = active \ all
    /\ batches' = {b \in batches : b \cap ids = {}}
    /\ cancelled' = cancelled \cup all
    /\ Abort(all)

(* The Cancel button of one job.                                           *)
CancelJob ==
    /\ phase = "render"
    /\ \E j \in active : Cancel({j}) /\ gave_up' = gave_up \cup Together({j})
    /\ busy' = (busy /\ active' # {})
    /\ UNCHANGED <<phase, tabVars, jobVars, sent, channel, callbacks, tab_of,
                   shown, called, dropped>>

CancelAll ==
    /\ phase = "render"
    /\ busy
    /\ Cancel(active)
    /\ gave_up' = gave_up \cup active
    /\ busy' = FALSE
    /\ UNCHANGED <<phase, tabVars, jobVars, sent, channel, callbacks, tab_of,
                   shown, called, dropped>>

(* prune_cancelled_jobs: an entry older than 30 seconds is forgotten.  A   *)
(* frame drains the channel, and a task that is sending is done, in less   *)
(* time than that.                                                         *)
Forget ==
    /\ channel = <<>>
    /\ \A j \in Jobs : run[j] \notin {"sending", "failing"}
    /\ \E old \in (SUBSET cancelled) \ {{}} : cancelled' = cancelled \ old
    /\ UNCHANGED <<phase, tabVars, jobVars, taskVars, active, batches,
                   callbacks, tab_of, busy, seenVars>>
-----------------------------------------------------------------------------
(* sync_job_tabs: a job without a tab is taken to be the active tab's.     *)
Synced == [j \in Jobs |-> IF j \notin active THEN NoTab
                          ELSE IF tab_of[j] = NoTab THEN here
                          ELSE tab_of[j]]

(* The jobs that cancel_jobs_of_tab cancels for these tabs.                *)
(* Faulty: only the jobs an earlier frame has seen.                        *)
JobsOfSeen(gone) == {j \in Jobs : /\ tab_of[j] \in gone
                                  /\ j \in active
                                  /\ j \notin callbacks}

JobsOf(gone) == {j \in Jobs : Synced[j] \in gone /\ j \notin callbacks}

CancelJobsOf(gone) ==
    /\ Cancel(JobsOf(gone))
    /\ dropped' = dropped \cup Together(JobsOf(gone))
    /\ tab_of' = [j \in Jobs |-> IF j \in JobsOf(gone) THEN NoTab ELSE Synced[j]]
    /\ busy' = (busy /\ (JobsOf(gone) = {} \/ active' # {}))

NewTab ==
    /\ phase = "render"
    /\ opened < MaxTabs
    /\ tab_of' = Synced
    /\ opened' = opened + 1
    /\ tabs' = tabs \cup {opened'}
    /\ here' = opened'
    /\ UNCHANGED <<phase, jobVars, taskVars, active, batches, callbacks,
                   cancelled, busy, seenVars>>

SwitchTab ==
    /\ phase = "render"
    /\ here' \in tabs \ {here}
    /\ tab_of' = Synced
    /\ UNCHANGED <<phase, tabs, opened, jobVars, taskVars, active, batches,
                   callbacks, cancelled, busy, seenVars>>

(* Code that sets active_tab_index itself: opening a saved query in a new  *)
(* tab, going to a table or an HTTP request that is already open.          *)
SwitchBarely ==
    /\ BareSwitch
    /\ phase = "render"
    /\ \/ here' \in tabs \ {here} /\ UNCHANGED <<tabs, opened>>
       \/ /\ opened < MaxTabs
          /\ opened' = opened + 1
          /\ tabs' = tabs \cup {opened'}
          /\ here' = opened'
    /\ UNCHANGED <<phase, jobVars, taskVars, mapVars, seenVars>>

(* close_tab: the last tab is only emptied.  The pages of close_other_tabs *)
(* and close_tabs_to_the_right differ only in the tabs they take.          *)
CloseTabs ==
    /\ phase = "render"
    /\ \E gone \in SUBSET tabs :
          /\ gone # {}
          /\ tabs' = IF gone = tabs THEN tabs ELSE tabs \ gone
          /\ gone = tabs => Cardinality(tabs) = 1
          /\ here' \in tabs'
          /\ here \in tabs' => here' = here
          /\ CancelJobsOf(IF gone = tabs THEN gone ELSE Tabs \ tabs')
    /\ UNCHANGED <<phase, opened, jobVars, sent, channel, callbacks, shown,
                   called, gave_up>>
-----------------------------------------------------------------------------
(* The start of a frame, before the channel is drained.                    *)
StartFrame ==
    /\ phase = "render"
    /\ phase' = "drain"
    /\ CancelJobsOf(Tabs \ tabs)
    /\ UNCHANGED <<tabVars, jobVars, sent, channel, callbacks, shown, called,
                   gave_up>>

Drained ==
    /\ phase = "drain"
    /\ channel = <<>>
    /\ phase' = "render"
    /\ UNCHANGED <<tabVars, jobVars, taskVars, mapVars, seenVars>>

(* handle_query_result_message: what every message does to the job maps.   *)
Arrives(m) ==
    /\ phase = "drain"
    /\ channel # <<>>
    /\ m = Head(channel)
    /\ channel' = Tail(channel)
    /\ batches' = {b \ {m.job} : b \in batches} \ {{}}
    /\ tab_of' = [tab_of EXCEPT ![m.job] = NoTab]
    /\ active' = active \ {m.job}
    /\ UNCHANGED <<phase, tabVars, jobVars, run, sent, aborted, gave_up,
                   dropped>>

Live(m) == m.job \notin cancelled /\ UNCHANGED cancelled

(* Faulty: the last job does not lower query_execution_in_progress.        *)
IdlesNever == busy' = busy

Idles == busy' = (busy /\ active' # {})

HandleCancelled(m) ==
    /\ Arrives(m)
    /\ m.job \in cancelled
    /\ cancelled' = cancelled \ {m.job}
    /\ Idles
    /\ UNCHANGED <<callbacks, shown, called>>

HandleCallback(m) ==
    /\ Arrives(m)
    /\ Live(m)
    /\ m.job \in callbacks
    /\ callbacks' = callbacks \ {m.job}
    /\ called' = called \cup {m.job}
    /\ Idles
    /\ UNCHANGED shown

(* Faulty: a result whose tab is closed falls into the active tab.         *)
HandleForClosedTabHere(m) ==
    /\ Arrives(m)
    /\ Live(m)
    /\ m.job \notin callbacks
    /\ stamp[m.job] \notin tabs
    /\ shown' = [shown EXCEPT ![m.job] = @ \cup {here}]
    /\ Idles
    /\ UNCHANGED <<callbacks, called>>

HandleForClosedTab(m) ==
    /\ Arrives(m)
    /\ Live(m)
    /\ m.job \notin callbacks
    /\ stamp[m.job] \notin tabs
    /\ Idles
    /\ UNCHANGED <<callbacks, shown, called>>

Show(m, tab) == shown' = [shown EXCEPT ![m.job] = @ \cup {tab}]

HandleElsewhere(m) ==
    /\ Arrives(m)
    /\ Live(m)
    /\ m.job \notin callbacks
    /\ stamp[m.job] \in tabs \ {here}
    /\ Show(m, stamp[m.job])
    /\ Idles
    /\ UNCHANGED <<callbacks, called>>


(* The result of the active tab.  A page that loads returns early and      *)
(* leaves query_execution_in_progress as it was; all else lowers it.       *)
HandleHere(m) ==
    /\ Arrives(m)
    /\ Live(m)
    /\ m.job \notin callbacks
    /\ stamp[m.job] = here
    /\ Show(m, here)
    /\ busy' = (busy /\ kind[m.job] \in {"paged", "refresh"} /\ m.ok)
    /\ UNCHANGED <<callbacks, called>>

Handle(m) == \/ HandleCancelled(m) \/ HandleCallback(m)
             \/ HandleForClosedTab(m) \/ HandleElsewhere(m) \/ HandleHere(m)
-----------------------------------------------------------------------------
Start == \/ RunStatement \/ RunPage \/ RunScript \/ RunInSession
         \/ RunWithCallback \/ AutoRefresh
         \/ StatementStartFails \/ CallbackStartFails

User == \/ CancelJob \/ CancelAll
        \/ NewTab \/ SwitchTab \/ SwitchBarely \/ CloseTabs

Frame == StartFrame \/ Drained \/ \E m \in Messages : Handle(m)

Task(j) == Answer(j) \/ Send(j)

Next == Start \/ User \/ Forget \/ Frame \/ \E j \in Jobs : Task(j)

(* egui runs frames (a message wakes it), tokio runs ready tasks; that the *)
(* server answers, within the statement timeout or not, is assumed.        *)
Fairness == WF_vars(Frame) /\ \A j \in Jobs : WF_vars(Task(j))

Spec == Init /\ [][Next]_vars /\ Fairness
-----------------------------------------------------------------------------
(* Properties.                                                             *)

(* A result is shown in the tab it was started in, or nowhere: not in the  *)
(* tab the user has switched to, nor in the one left when it was closed.   *)
ResultsStayHome == \A j \in Jobs : shown[j] \subseteq {stamp[j]}

(* jobs.tab_of, filled in a frame late from whatever tab is active then,   *)
(* agrees with the tab prepare_query_job stamped on the job: closing a tab *)
(* cancels its own jobs and no other's.                                    *)
JobsKnowTheirTab ==
    \A j \in active : tab_of[j] # NoTab => tab_of[j] = stamp[j]

(* When the UI renders, no statement of a closed tab is running, the ones  *)
(* a callback waits for excepted.                                          *)
ClosedTabRunsNothing ==
    phase = "render" =>
        \A j \in Jobs : run[j] = "running" /\ kind[j] # "callback"
                            => stamp[j] \in tabs

(* A statement that waited behind another does not start once its tab is   *)
(* closed, even when the abort finds the task between two statements.      *)
ClosedTabStartsNothing ==
    [][\A j \in Jobs : run[j] = "queued" /\ run'[j] = "running"
                           => stamp[j] \in tabs]_vars

(* "Results arrive per statement, in statement order": a later statement   *)
(* of a script is not shown before an earlier one.                         *)
ResultsInOrder ==
    \A i, j \in Jobs :
        /\ kind[i] = "batch"
        /\ task[i] = task[j]
        /\ i < j
        /\ shown[j] # {}
        => shown[i] # {}

(* While the spinner replaces the results, something is being executed.    *)
SpinnerMeansRunning == phase = "render" /\ busy => active # {}

(* "Hasil yang datang terlambat diabaikan": nothing of a cancelled job is  *)
(* shown or handed to a callback any more.                                 *)
CancelledStaysHidden ==
    [][\A j \in gave_up \cup dropped :
           shown'[j] = shown[j] /\ (j \in called' => j \in called)]_vars

(* The jobs implement the board: started in a tab, delivered to that tab   *)
(* or to their callback, withdrawn by a cancel or by closing the tab, and  *)
(* never both, and every job ends.                                         *)
Fate(j) == IF kind[j] = "none" THEN "unborn"
           ELSE IF j \in gave_up \cup dropped THEN "withdrawn"
           ELSE IF kind[j] = "failed" \/ shown[j] # {} \/ j \in called
                THEN "delivered"
           ELSE "waiting"

Board == INSTANCE JobBoard WITH home <- stamp, fate <- [j \in Jobs |-> Fate(j)],
                                seen <- shown

KeepsTheBoard == Board!Spec

(* Every entry of jobs.active goes: answered, or cancelled.                *)
JobsEnd == \A j \in Jobs : j \in active ~> j \notin active

(* "Called exactly once, success or failure".                              *)
CallbackAlwaysCalled == \A j \in Jobs : j \in callbacks ~> j \in called
=============================================================================
