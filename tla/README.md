# TLA+ models of Tabular

Tabular is a desktop database client written in Rust (egui, tokio, sqlx, tiberius). This directory
holds TLA+ modules of the parts of it whose correctness depends on the order in which things happen:
what runs on which thread, task or process, what they share, and what is left when one of them fails
or goes away. The modules are checked with TLC on small instances, and what matters most is proved
with TLAPS for every instance. Paths below are relative to the repository; most code is under
`src/`.

- [1. Inventory](#1-inventory)
- [2. Modules, and how they correspond to the code](#2-modules-and-how-they-correspond-to-the-code)
- [3. Runs](#3-runs)
- [4. Fairness](#4-fairness)
- [5. Proofs](#5-proofs)
- [6. Disagreements between the code and what it says](#6-disagreements-between-the-code-and-what-it-says)
- [7. Not modelled](#7-not-modelled)
- [8. Plan](#8-plan)

## 1. Inventory

Tabular is one GUI process with an immediate-mode UI thread and a tokio runtime, and optionally one
or more `tabular mcp` processes that serve AI agents over stdio. The processes share SQLite files.
In the GUI nearly all state belongs to the struct `Tabular`, which only the UI thread touches;
background work is handed to tokio tasks and threads that answer through channels, and the UI
drains the channels at the start of a frame.

| Component (code) | State | Operations | Hard behaviour | Correct when |
|---|---|---|---|---|
| **Manual-commit session** (`connection/session.rs`) | command channel, connection, `tx_open`, `tx_aborted`, the shared flag | execute, commit, rollback, close; one task per tab | statement timeouts, errors that end the transaction, a lost connection, a flag read by another thread | nothing is committed before Commit, all or nothing, no transaction left in the pool, every job answered |
| **Query jobs and query tabs** (`window_egui/query_jobs.rs`, `window_egui/mod.rs`, `connection/execute.rs`, `editor.rs`, `window_egui/pagination.rs`) | `QueryJobsState` (active, handles, batches, callbacks, cancelled, tab_of), the result channel, the tabs, `query_execution_in_progress` | start (statement, page, script, session statement, lookup, auto refresh), cancel, close/switch tabs, handle a result | a result, a cancel and the end of a tab race; one cancelled entry against several messages; the tab of a job is recorded late | results go to their own tab or nowhere, closing a tab ends its jobs, nothing is listed as running for ever, callbacks are called |
| **Tab strip and display** (`editor.rs`, `window_egui/query_jobs.rs`, `sidebar_query.rs`) | the order of the tabs, pins, the active one; one global set of display fields and a copy of rows and filter in each tab | open, switch, move, pin, close; run, receive a result, edit a cell | the display is exchanged on every path that changes the active tab, or forgotten on one | pinned tabs stay in front; rows and filters stay with their tab |
| **Tabs, sessions and closing** (`editor.rs`, `render_dialogs.rs`, `db_context_bar.rs`, `app_impl.rs`) | each tab's target, session, `tx_mode`, `tx_active`; the slot of the query that waits for a pool | run, commit, roll back, toggle the mode, pick a target, close, close others, sync the flags | five ways out of a transaction, one of which asks; a flag stored later than it is read; a query that waits is run in the state of a later moment | nothing is committed unasked, nothing rolled back comes back, no open transaction is dropped without a question |
| **Grid state and cell editing** (`spreadsheet.rs`, `data_table/`) | rows, queue of pending edits, undo, redo, the open cell | edit, add, duplicate, delete, undo, redo, discard, save, reload | positions move under queued edits while a save or a reload is under way | an edit hits the row the user saw; undo restores; what is shown as saved is stored |
| **Atomic grid writes** (`connection/atomic.rs`) | a connection of its own | BEGIN, statements with expected row counts, COMMIT or ROLLBACK | a failure, a timeout or an abort in the middle, a lost COMMIT answer | all statements or none; the pool gets no connection in a transaction from a save that fails or runs out of time |
| **Connection pools** (`connection/pool.rs`, `connection_mgr.rs`, `window_egui/init.rs`) | two maps of pools, the pending mark, errors, a registry of cancel flags, attempts on other threads | get or create, start in the background, cancel, disconnect, edit, sync in the background, evict, the watchdog | attempts overlap; a flag is looked at before it is raised; the mark outlives the attempt | a connection called off stays off, a new attempt is never hit by an old cancel, nothing is pending for ever, no pool over a dead tunnel is served |
| **SSH tunnels** (`ssh_tunnel.rs`) | process-wide table of tunnels, a lock per key | spawn or share, reap, shut down | spawn and shutdown from different threads, callers that nobody waits for any more | one tunnel per connection, none running unregistered |
| **Live diagnostics** (`window_egui/diagnostics_jobs.rs`, `query_diagnostics/`) | local findings, a cache of server verdicts, validations on their way (at most two), debounces | tick: drain, rebase, analyse, validate, merge | answers to text that has changed since, a cache shared by tabs | a mark stands on the word it was found at; the marks catch up when the user pauses |
| **Agent approval queue** (`agent/access.rs`, `agent/mcp.rs`, `agent/ops.rs`, `window_egui/agent_access_ui.rs`) | table `agent_approvals`, the poll loop's locals, the GUI's list of requests and its background read | plan, queue, poll, give up, ask the client, execute; show, approve, deny | two processes write one row; time limits; either process dies; outdated lists | nothing risky runs without the user, a denial holds, the agent gets an answer |
| **Project sync** (`sync/sync_projects.rs`, `window_egui/project_ui.rs`, `project.rs`) | the projects on disk and on the screen, `pending_remote_deletes`, the dialog's copy, `sync_trigger`, the tasks on their way; the server's rows | create, edit, delete, sync, push, pull, erase, restart | two devices write rows keyed by name; three tasks of one sync run side by side; requests fail | the newest edit is kept, no sync forgets what was asked for during it, names stay apart |
| **Rest of the cloud sync, vault** (`sync/`, `window_egui/sync_tick.rs`) | versions, keys, shared documents | push, pull, unlock, edit together | lost answers, conflicting edits | no change lost, no change applied twice |
| **Query routing** (`connection/execute.rs`, `connection/sql.rs`) | none | prepare a job, split a script, classify transaction verbs | text classification | a manual-commit tab never leaves its session |
| **Background tasks** (`window_egui/background_tasks.rs`, `background_dock.rs`) | list of tasks, progress, cancel flags | start, report, cancel, finish | the finished list is capped | a running task is never dropped from the list |
| **Query planner** (`query_ast/`) | LRU plan cache | parse, rewrite, emit | the cache's key must determine the plan | cached and fresh plans agree |
| **Git, repository setup, tests, transfer, HTTP client** (`window_egui/git_jobs.rs`, `repo_setup_jobs.rs`, `integration_test_jobs.rs`, `data_transfer/`, `http_*.rs`) | job maps as in the query jobs | spawn, report, cancel | as in the query jobs | as in the query jobs |
| **Everything else** | | | pure rendering, text, parsing, cryptography, operating-system I/O | see [section 7](#7-not-modelled) |

How they interact: the editor decides whether a statement becomes a job of its own, a script, or a
command for the tab's session. Jobs and sessions send the same `QueryResultMessage` into one channel,
so a session's statement is a query job to everything above the channel. A result is shown or kept by
the tab display, and the grid edits rows the display holds. Pools hand connections to jobs, sessions
and grid saves; a session's connection goes back to the pool when its task returns. A pool may stand
on a tunnel that other threads replace. Diagnostics read the text, the schema cache and, if allowed,
the server. The agent's process shares nothing with the GUI but tables in `connections.db`.

`PROJECT.json` lists every component with its files and status, and the hazards, each at its line
with the properties that cover it or the reason why none does.

## 2. Modules, and how they correspond to the code

| Module | What it is | Extends / uses |
|---|---|---|
| `DbServer` | the server as one session connection sees it (external code) | |
| `TxSession` | the session task of a manual-commit tab | extends `DbServer` |
| `ManualCommit` | abstract: what manual-commit mode promises | refined by `TxSession` |
| `QueryJobs` | background jobs, the result channel, the tabs | |
| `JobBoard` | abstract: what a background job promises | refined by `QueryJobs` |
| `TabStrip` | moving, pinning and removing tabs, as operators | |
| `TabDisplay` | what the grid shows while tabs come, move and go | extends `TabStrip` |
| `TabSessions` | tabs in manual-commit mode with their sessions | |
| `GridSheet` | rows, pending edits, undo and redo as values; the statements of a save | |
| `GridTable` | the table under these statements (external code) | |
| `AtomicSave` | the jobs of grid saves and their transactions | extends `GridTable` |
| `AtomicWrite` | abstract: what a grid save promises | refined by `AtomicSave` |
| `GridEdits` | editing, saving and reloading a grid | extends `GridSheet`, `AtomicSave` |
| `SshTunnel` | the registry entry of one connection and the calls for it | |
| `PoolConnect` | the pool of one connection and the attempts to make it | extends `SshTunnel` |
| `LiveMarks` | analysis, rebasing and merging of diagnostics, as operators | |
| `Diagnostics` | the frames, tasks and caches around these | extends `LiveMarks` |
| `AgentApproval` | approval of an agent's statements, across two processes | |
| `ProjectSync` | projects on several devices, and the sync server's rows | |
| `MC...` | constants for TLC | extend the module they are named after |
| `...Proofs` | theorems, see [section 5](#5-proofs) | extend a module, and `TLAPS`; `SharedRowsProofs` extends two, `AgentApproval` and `ProjectSync` |

Definitions whose comment starts with "Faulty" are the code with one plausible mistake (a dropped
guard, swapped order, missing reset). They are not part of any specification; each shows that a
property notices that mistake.

Several modules have a constant `Quirks`. It names circumstances in which **the code as it is** does
not keep a promise (in `DbServer`: in which the server does more than it is told). The steps that
bring such a circumstance about are always in the model; they are enabled if their quirk is in
`Quirks`, and a history variable (`broken`, in `Diagnostics` and `GridEdits` a flag of its own)
remembers that it has happened. A property is stated twice: the promise itself, and the promise
unless the circumstances that are known to break it have happened. The second one holds and is what
the runs check with all quirks enabled; the first one is violated with any single one of them
([section 6](#6-disagreements-between-the-code-and-what-it-says)). So nothing is excluded from the
state space, and the circumstances in the conditions are exact: leave one out and TLC finds it.

### DbServer and TxSession

`run_session` is one tokio task per tab. It suspends at five places: receiving a command, acquiring a
connection, BEGIN, the statement, and COMMIT or ROLLBACK. **A step of `TxSession` runs from one of
these awaits to the next**, `pc` names the place, and everything else (the tab submitting commands,
the server, a reader of the flag) interleaves there.

| Code | Model |
|---|---|
| `SessionHandle::tx` (unbounded channel), `close` | `queue`, `held`, `CloseHandle` |
| locals `conn`, `tx_open`, `tx_aborted` | variables of the same names |
| `SessionHandle::tx_open` (AtomicBool) | `tx_flag`, stored at the top of the loop by `StoreFlag` |
| `execute_statements_in_session`, `send_session_tx_command` | `SubmitNew` |
| lazy acquire, with its error path | `Acquire` |
| verb dispatch, BEGIN on demand, "Skipped" answers | `DispatchBegin`, `DispatchRun`, `DispatchFinish`, `DispatchAnswer`, `DispatchClose` |
| `run_statement` and its timeout | `Run`, `Timeout` |
| `finish_tx` | `Finish` |
| the rollback after the loop, and dropping the connection | `Closing`, `Leave` |

`answer` is the `QueryResultMessage` of each job. `promised` is a history variable: the statements
whose success has been reported and whose transaction no answer has ended.

`DbServer` is not in the repository. It is modelled from what the session sends and from what the
engines may answer, and what the server may do beyond the plain protocol is a parameter: `Quirks`
names implicit commits (MySQL DDL), errors that roll the whole transaction back, refused COMMITs, and
lost connections. With `Quirks = {}` the session is alone responsible; with all of them only what it
can guarantee on its own is left. Statement text, rows and messages are left out: a statement is the
job that carries it.

### QueryJobs and JobBoard

The UI thread alternates between draining the channel (`phase = "drain"`, actions `HandleCancelled`,
`HandleCallback`, `HandleForClosedTab`, `HandleElsewhere`, `HandleHere`, the branches of
`handle_query_result_message`) and rendering (`phase = "render"`, where the user starts jobs,
cancels, opens, switches and closes tabs). The tasks run all the time: `Answer` is the server's
answer to a running statement, `Send` what the task sends for it, up to its next await.

| Code | Model |
|---|---|
| `jobs.active`, `batches`, `callbacks`, `cancelled`, `tab_of`, `allocate_id` | `active`, `batches`, `callbacks`, `cancelled`, `tab_of`, `last_id` |
| `jobs.handles` and `JoinHandle::abort` | `task`, `aborted`, `Abort` |
| `QueryJob::tab_id`, stamped by `prepare_query_job` | `stamp` |
| `spawn_query_job`, `spawn_query_job_batch`, session, page, callback, auto refresh | `RunStatement`, `RunScript`, `RunInSession`, `RunPage`, `RunWithCallback`, `AutoRefresh` over `Launch` |
| `sync_job_tabs`, `cancel_jobs_of_tab`, `cancel_jobs_of_closed_tabs` | `Synced`, `JobsOf`, `CancelJobsOf`, part of every action that calls them |
| `cancel_query_job`, `cancel_all_active_query_jobs`, `prune_cancelled_jobs` | `Cancel`, `CancelJob`, `CancelAll`, `Forget` |
| code that sets `active_tab_index` without `sync_job_tabs` | `SwitchBarely`, enabled by `BareSwitch` |

An abort takes effect at the task's next await. A task that has its answer still sends it (`Abort`
leaves "sending" and "failing" jobs alone); a script's task stops between two statements (`AfterIt`).
`shown`, `called`, `gave_up` and `dropped` are history: where a result was shown, which callbacks
were called, and what was cancelled by the user or with its tab.

`Forget` (the 30 second lifetime of a `cancelled` entry) assumes that a frame drains the channel, and
a task that is sending is done, within that time. `kind = "failed"` is a job that could not be
started. `MaxJobs`, `MaxTabs` and `MaxSets` (result sets of one SQL Server batch) bound counters.

### TabStrip and TabDisplay

The display state of the editor (rows, filter, pending edits) is one global set of fields, and each
tab keeps a copy of rows and filter. `TabDisplay` has one action for each operation that touches
either: `NewTab`, `OpenFile`, `SwitchTo`, `CloseTab`, `CloseOthers`, `CloseRight`, `Reorder`,
`TogglePin`, `SetFilter`, `RunQuery`, `ResultArrives` (for the tab on the screen or one in the
background, paged or not), `EditCell`, `FlushEdits`. `AfterSwitch` is the exchange of
`switch_to_tab`. Rows are the number of the query they came from, so that `home[shown]` says whose
they are. `strayed` records that rows were left on the screen for another tab (closing the active
tab, and opening a saved query, do so).

`TabStrip` holds the index arithmetic as operators on a sequence of ids: what `Vec::remove` and
`insert` do, where the active index goes, which slot a dragged tab takes, where pinning moves a tab.
An index of the code is one less than a position here.

### TabSessions

A tab has a target (connection and database), `tx_mode`, `tx_active` and possibly a session; a
session is a channel and a task that does one command per step (`DoExecute`, `DoCommit`,
`DoRollback`, `DoClose`, and how each may fail). What happens inside such a step is `TxSession`.
**The user acts at most once in a frame** (`acted`), because one egui frame handles one event of this
kind, and `Frame` is the part of `update` that comes first in the next one: `sync_tab_tx_state`, then
the results, then the query that waits for a pool. While the dialog of a tab to be closed or the overlay
of a pending connection is shown, nothing else can be clicked (`Free`).

| Code | Model |
|---|---|
| `execute_query_bypass_checks`, `execute_statements_in_session`, `spawn_session` | `Run` with `RunInSession`, `NoSession`; `Serving` is `needs_new` |
| `pool_wait_query` and its frame | `slot`, `PoolReady`, `WaitEnds`, `Frame` |
| `send_session_tx_command` | `PressCommit`, `PressRollback` |
| the box, and the shortcut or palette, for manual commit | `TurnOn`, `BoxOff`, `PaletteOff` |
| the pickers of `db_context_bar` | `PickTarget` |
| `close_tab`, its dialog, `close_other_tabs` | `CloseTab`, `ConfirmClose`, `KeepTab`, `CloseOthers` |
| the shared flag of a session, stored at the top of its loop | `flag`, `Store` |

History: where a statement was meant to run (`meant`), which ran in manual-commit mode (`manual`),
which Commit or Rollback was pressed for (`asked`, `unwanted`), and what became of each
(`committed`, `done`, `gone`).

### GridSheet, GridTable, AtomicSave, GridEdits

`GridSheet` is the grid as a value, with one operator for each operation of `spreadsheet.rs` and
`grid_state.rs`: `Finished` (a cell is edited), rows added, duplicated and marked as deleted,
`Undone` and `Redone` with the two stacks and `UNDO_LIMIT`, `Unwound` (Esc), and `Statements` (what a
save makes of the queue: UPDATEs merged per row with the original values in the WHERE, INSERTs
and DELETEs). A row has an id that the code does not have: it says which row a position was meant to
name, and `PositionsStayHome` is about it. Two columns suffice, a key and a value; 0 is `DEFAULT`.

`AtomicSave` is `execute_in_transaction` for sqlx's engines and for SQL Server, one step per await:
`Begin`, `Run` (with the check of `rows_affected`), `Refuse`, `Commit`, `CommitFails` (the answer is
lost, written or not), `TimeOut` and `Cancel` at any await. An aborted SQL
Server save never comes to its `detach`: its connection is `dropped` in its transaction, with the table locked, until that is rolled back at last
(`LeftoverEnds`, an assumption about the pool and the server, which are not in `src/`). It implements `AtomicWrite`: all of the
statements at once, at most once, and "saved" only after that. `GridEdits` puts both together with
the callback of the save (`SaveSucceeded`, `SaveFailed`), and the reload that follows (`Reload`).

`loaded` is the last set of rows that came from the table or was saved; `replaced` and `disturbed`
record a reload over edits, and a user who did not wait.

### SshTunnel and PoolConnect

One saved connection, its tunnel and its pool. The UI thread keeps two maps (`local`, and `shared`
with other threads), the `pending` mark, the error that is shown, and the registry of cancel flags.
Attempts run on threads of their own and come in three kinds: background creation, the half second
in which the UI thread tries itself (`Fetch`, "quick"), and background syncs. An attempt goes through
the stages queued (thread started), dialing (its flag is taken and the tunnel asked for), made (a pool
exists), passed (the flag has been looked at for the last time), reading, ended; **every look at a flag
or map by another thread is a step of its own**. `CleanUp` is what each frame does first
(`cleanup_completed_background_pools` and the watchdog of `cleanup_stuck_pending_connections`).

`Cancel`, `Disconnect` and `Drop` (edit, delete, or the age of a pool) are the three ways to call a
connection off, `CallOff` what they share. `Look` begins a handler that wants a pool (a query, a
picture of the tree, data for the tree), and `Evict` is `evict_unusable_pool`. `Stall` makes an
attempt outlive the watchdog, `Die` ends a tunnel, and `Expire` is the age of a raised flag.

`SshTunnel` is the registry entry of the connection's key: the lock of the key is held while a tunnel
is spawned (`Ensure`, `Spawned`, `SpawnFails`), and a shutdown happens at once or, when the registry
is in use, later on a thread (`ShutNow`, `ShutLater`, `ShutAtLast`). Callers of it run on blocking
threads and go on when their attempt has given up.

History: `calledoff` (the attempts begun before the connection was last called off), and in each attempt
`exposed`: a sync that began while a raised flag was still registered. A sync registers no flag of its
own, so that the old one stops it, although the user may have asked for it since.

### LiveMarks and Diagnostics

A text is a sequence of tokens, so that an edit never splits a word; `Statements`, `Findings` (what an
analysis marks), `Rebased` (`Edit::between` and `Edit::map`) and `Merged` are the pure functions.
`Diagnostics` puts them in time: `Tick` is one frame, in the order of the code (`Drained`, `Noticed`,
`Rechecked`, `Started`, the validations picked for the free slots, `Drawn`), `Analysed` and `Answered`
are the thread and the server, `Unanswered` a validation that finds no idle connection or fails. Time
is three facts: how long the editor has been quiet (local debounce, server debounce), whether the
half-second look at the schema cache is due, and whether the busy retry is over. The texts, the schema
cache, the table catalogue, the preference and the context change at any time; `WriteUnseen` changes a
text without `tick` noticing, as a rename of the same length does, and sets `blind` if it goes
unnoticed. Tabs without a SQL editor are left out.

### AgentApproval

**The two processes share one table, and every SQL statement on it is one step.** `Call` plans a batch
with the access level of that moment (any level: the user can change it at any time) and refuses,
runs or queues it. `PollDecided`, `PollPending`, `PollFails`, `GiveUp`, `Withdraw` and `ClientAnswers`
are `obtain_approval`: between the read that finds the time up and the write of `expired` the GUI may
decide, and the result of that write is ignored, as in the code. `Refresh`, `FetchExpire`,
`FetchSelect`, `FetchMark` and `Apply` are the GUI's background read (three statements without a
transaction) and what a frame does with it; `Choose` is a click. `Die` and `CloseGui` end a process at
any step. `age` counts the three time limits (8 s, 180 s, 200 s) that a request passes; the clocks of
the two processes are taken as one, but a process may be late by any amount. `risky` stands for the
three risks of `access::decide`.

### ProjectSync

Two devices of one user and the sync server, whose rows are keyed by the project's name (external
code: a POST creates or overwrites the row of that name, a DELETE is by the row's number). What a
project holds besides its name and id is `at`, the number of the save: `updated_at` and the checksum
both stand for it, as every save changes something. Saves are numbered across devices, as if their
clocks agreed.

| Code | Model |
|---|---|
| the files of the projects and `collab_projects` of the screen (always written together) | `list` |
| `pending_remote_deletes` | `doomed` |
| the copy of the project in the edit dialog | `dialog` |
| `create_project`, `open_edit_dialog`, `save_project`, `delete_project` | `Create`, `Open`, `Save`, `Delete` |
| `persist`, with the sync it asks for | `Persist` |
| `sync_trigger`, the button | `trigger`, `SyncNow` |
| `start_sync`, with a vault that is locked | `StartSync` |
| `push_projects_to_server` | `PushReads`, `PushWrites` |
| `pull_projects_from_server`, `apply_pulled`, `merge_action` | `PullLists`, `TakePull`, `Merged` |
| the task that erases rows, which nobody waits for | `EraseLists`, `EraseDeletes` |

Every request is a step. `PushReads` joins the read of the disk with the request for the rows, as what
differs depends on both and another order of the two is another order of an edit and the read. The
merged rows come in any order, as the server does not promise one. A fault is a request that fails,
a vault that is locked, or the end of the application at any moment (`Restart`), which forgets the
tasks, the trigger and the dialog, and keeps the files.

History: `newest` (when a project that stands was last saved), `arrived` (the saves that have reached the
server), `hit` (the devices with a fault since their last sync began), and `gone`: the names deleted or
renamed away on a device whose rows the server has still to lose. A name enters `gone` when the user
deletes or renames (`Remember`), whatever the code notes of it, and leaves when the row is gone and not
about to be pushed, when the name is in use on the device again (`Owed`), or when a fault hits the task
that was to erase its row (`Lost`): what the code keeps in `doomed` and `erase` is not asked otherwise.
`Push`, `Pull`, `Erase`, `Tick`, `User` and `Faulty` join this to the actions above.

## 3. Runs

| Run | Constants | Checks | States |
|---|---|---|---|
| `session_plain` | 3 jobs, all engines, no quirk, statement timeout | `FlagTellsTheTruth`, refinement `KeepsThePromise` | 28 k |
| `session_quirks` | 3 jobs, all engines, all quirks | `OpenTxIsTracked`, `AnswersInOrder`, liveness `EveryJobAnswered` | 57 k |
| `jobs_all` | 2 jobs, 2 tabs, 2 result sets, every kind, bare switches | `ResultsStayHome` | 1.0 M |
| `jobs_board` | 2 jobs, 2 tabs; statements, scripts, callbacks | `ClosedTabRunsNothing`, `ResultsInOrder`, `SpinnerMeansRunning`, action property `ClosedTabStartsNothing`, refinement `KeepsTheBoard`, liveness `JobsEnd` | 69 k |
| `tabs_display` | 3 tabs, 2 results | `StripIsOrdered`, `DisplayStaysHome` | 510 k |
| `tab_sessions` | 2 tabs, 3 targets, 2 jobs, 3 other steps, all quirks | `OnlyAskedIsCommitted`, `RolledBackStaysBack`, `NothingLostUnasked`, `RunsWhereFirstShown`, liveness `SessionsEnd` | 460 k |
| `grid_edits` | 2 rows, 3 edits, `UNDO_LIMIT` 2, one save | `PositionsStayHome`, `UndoRestores`, `QueueExplainsGrid`, `LoadedIsStored`, `PoolIsClean`, refinement `AllOrNothing` | 995 k |
| `pool_connect` | 2 attempts, 1 dead tunnel, 1 step of the user that calls off or looks, all quirks | `NoTunnelIsLost`, `NewAttemptsStand`, `StaysOff`, `ServedPoolsWork`, liveness `PendingEnds` | 477 k |
| `diagnostics` | 2 tabs, 2 contexts (one server checks no names), 8 texts, cache of 2, 2 steps | action property `MarksStayOnTheirWords`, liveness `MarksCatchUp` | 71 k |
| `approval` | 1 call, five batches, every level, with and without elicitation | `RiskyNeedsConsent`, `DeniedNeverRuns`, liveness `CallsEnd`, `DialogEmpties` | 41 k |
| `project_sync` | 2 devices, 2 projects, 2 names, 4 steps of users and faults, at most 2 of them faults | `NewestIsKept`, action property `OnlyRenamesClash`, liveness `EditsArrive`, `DeletionsArrive` | 149 k |
| `grid_delete` | one row that is edited and deleted before a save | `SavedIsShown`, **violated**: see [section 6](#6-disagreements-between-the-code-and-what-it-says) | |

What the passing runs show:

- *session_plain*: against a server that only does what it is told, the session keeps the promise of
  manual-commit mode on MySQL, PostgreSQL, SQLite and SQL Server, through timeouts that discard the
  connection, PostgreSQL's aborted transactions, and closing at any moment. `KeepsThePromise` says it
  as refinement: `tx_open`, `promised` and the server's `durable` behave as `ManualCommit`.
- *session_quirks*: whatever the server does, a transaction that is open on the session's connection
  is one the session knows of, results come in order, and every job is answered. That nothing is run
  in an aborted transaction and that a finished session holds none is proved
  ([section 5](#5-proofs)) and not part of a run.
- *jobs_all*: for every kind of job and every way of switching tabs, a result is shown in the tab its
  job was started in or nowhere.
- *jobs_board*: closing a tab ends exactly what runs for it, even when the abort falls between two
  statements of a script or the job was started in the same frame; scripts report in order; the
  spinner means that something runs. Seen from the user the jobs are `JobBoard`: delivered at home, or
  withdrawn, never both. This holds for these kinds of job and with tabs
  switched by `switch_to_tab`; section 6 names the kinds for which it does not.
- *tabs_display*: whatever is dragged, pinned, opened and closed, pinned tabs stand in front, ids stay
  apart, and a filter is on the screen, or kept, for the tab it was typed in and no other. Rows stay
  with their tab until one is opened or closed over rows that are not its own.
- *tab_sessions*: what is run in manual-commit mode becomes durable only by a Commit pressed for it,
  what the user was told is rolled back stays so, nothing is lost without a question, and statements
  run where the tab showed they would; each but for the acts its condition names. Sessions that
  their tab gave up end.
- *grid_edits*: through copies, deletions, undo, redo and a save that fails, times out, is cancelled or
  loses its answer, each pending edit still names the row it was made on, undo leads back to what was
  loaded, the queue is the difference between what was loaded and what is shown, the table changes by
  whole saves, and a save that fails or runs out of time leaves no connection in a transaction.
- *pool_connect*: an old cancellation hits no new attempt, but for a sync that begins in the 20 seconds
  in which the raised flag is kept; a connection called off stays off, and
  pools over dead tunnels are not handed out, but for the named circumstances; no ssh process runs
  unregistered; nothing is pending for ever.
- *diagnostics*: no interleaving of typing, switching tabs or context, toggling, a refreshed schema
  cache, analyses and validations makes a frame draw a mark on another word or of another context,
  and when the user pauses the marks become those of the text that is shown.
- *approval*: over every interleaving of the two processes, statements that must wait for the user at
  every level run only with consent, what was denied stays denied, the agent is always answered, and
  the dialog goes away even when the MCP process has died.
- *project_sync*: however edits, syncs and faults of two devices cross, the newest edit of a project
  that nobody deleted stays on some device; a device gets two projects of one name only by a rename
  elsewhere; what is saved while a sync is under way is not forgotten by it; and a row whose project
  was deleted or renamed away on a device goes, unless a fault hits the task that has to erase it.
  It does **not** show that devices agree, or that deleted projects stay away: section 6.

Bounds, and why they are enough:

- Three session commands are the least that shows the session's hazards: one statement to open the
  transaction, one that goes wrong, one behind it.
- Two tabs are needed for "another tab", two jobs for a script; more jobs repeat these, as a job
  interacts with others only through its task, its script and the maps (an instance with three jobs,
  scripts and callbacks was checked too: 1.0 M states). The second result set is the first
  one that arrives after an entry of `cancelled` has been used up. For `TabStrip`, three tabs have a
  first, a middle and a last; the theorems of `TabDisplayProofs` cover any number.
- `tab_sessions`: two jobs are a statement and its Commit, or a statement in each tab; three
  steps are what the longest of the quirks needs (run, switch or pick, close). With any quirk removed from
  `Unless` the run fails, so each is reached.
- `grid_edits`: `UNDO_LIMIT` 2 makes the third edit push one off the stack; three rows give an edit a
  neighbour on both sides of an insertion. Edits stop when every save has been handled or a reload
  has replaced the rows under them. The user then has nothing left to do, which is why this run and
  `grid_delete` switch deadlock checking off; so does `project_sync`, where users may stop at any time
  and all tasks are then idle. The others leave it on.
- `pool_connect`: two attempts are the least that overlap; a second step of the user was checked
  without the liveness property (1.95 M states).
- `diagnostics`: two places in the cache make it overflow with the texts given; two steps are an edit
  and a switch, or two edits, while both kinds of task are out. Three steps were checked without
  the liveness property (1.05 M states).
- `project_sync`: two devices are the least that disagree, two names the least for a rename, two
  projects the least for a clash; a project edited on one device and pushed over by the other takes
  two saves and two syncs, of which a save's own are free. Five steps were checked without the
  liveness properties (1.92 M states).
- `approval`: the race is over a single row; calls meet only in the GUI's list, and the proofs cover
  any number of them (two calls with the batches `{Write}` and `{Read, Risky}`: 23 million states,
  checked, too slow to keep).

## 4. Fairness

- `TxSession`: `WF(LocalStep)`: tokio runs a ready task, and the pool's acquire has a timeout.
  `WF(StatementStep)` only if a statement timeout is configured. `WF(ControlStep)`: that the server
  answers BEGIN, COMMIT and ROLLBACK is an assumption; the code sets no limit there, and without the
  assumption one silent server blocks the session and everything queued behind it. The user owes
  nothing: commands and closing need no fairness.
- `QueryJobs`: `WF(Frame)`, as a message wakes the event loop and egui runs frames; `WF(Task(j))` for
  each job, with the server's answer again an assumption where no timeout is set. Nothing is assumed
  of the user or of `Forget`.
- `TabSessions`: frames, each session's task, jobs on pool connections, and the end of the wait for a
  pool (30 seconds at most). Nothing of the user or of `PoolReady`.
- `PoolConnect`: `WF(CleanUp)`, as every frame does it, `WF(UI)`, and each attempt that does not stall.
  Attempts in `slow`, the threads of the tunnel and the user owe nothing; a stalled attempt is what
  the watchdog is for.
- `Diagnostics`: frames are drawn (the blinking cursor asks for them), the thread ends, the validations
  end (`VALIDATE_TIMEOUT`), and time passes. Nothing of the user, the schema cache or `Unanswered`.
- `AgentApproval`: the clock runs, the poll loop wakes every 500 ms while its process lives, the
  elicitation has a timeout, the watcher runs every second. Strong fairness is assumed of a due frame
  and of each read of the queue: both come back every second, so that some frame is due and some
  read finds `connections.db` unlocked. Processes need not start, stop, or survive.
- `ProjectSync`: on each device the push, the pull and the erasing go on, as their requests are answered
  or fail, and frames are drawn (a running sync asks for repaints). Nothing of users, faults or other
  devices; a liveness property excuses a device that a fault hits, as nothing is retried there
  before the next sync.
- `TabDisplay` and `GridEdits` state safety only.

## 5. Proofs

All theorems hold for every value of the constants that satisfies the modules' named assumptions
(`ServerAssumption`, `SessionAssumption`, `JobsAssumption`, `DisplayAssumption`, `TabsAssumption`,
`SheetAssumption`, `SaveAssumption`, `GridAssumption`, `DiagnosticsAssumption`, `ApprovalAssumption`,
`SyncAssumption`, `PoolsAssumption`, `CallersAssumption`: bounds are naturals, the sets are subsets of what the code
knows, and the rows of the first table are rows with a value in every column: `Default` is the grid's
mark of a value that the server has yet to choose, which no stored row has). A condition in front of `Spec`, or inside the box,
is part of the theorem.

**`TxSessionProofs`**: `TypeCorrect`, `NoHiddenTransaction` (`OpenTxIsTracked`, and that BEGIN is never
sent inside a transaction), `NothingRunsAborted` (`AbortedTxRunsNothing`), `EndedIsClean`
(`EndedHoldsNoTx`), `AnswersAreOrdered` (`AnswersInOrder`), with any number of commands and every quirk; and
with `Quirks = {}`, `FlagIsTrue` (`FlagTellsTheTruth`) and the refinement `PromiseIsKept`
(`KeepsThePromise`). None of these is inductive. That a transaction of the server is known to the
session depends on where the task stands: while BEGIN is under way there must be none, while a
statement runs `tx_open` must be set, after the ROLLBACK of `Closing` there must be none although
`tx_open` stays set. `SessionInv` says for each place what the server may hold there, and that
commands are well formed. `OrderInv` says where the numbers of the jobs in the answers, in hand, and in the queue lie
relative to each other; `PlainInv` ties `promised` to what the server's transaction holds. Each action
is then a lemma.

**`QueryJobsProofs`**: `JobsTypeCorrect`, `ResultsAlwaysHome` (`ResultsStayHome`), `TabsAreRecorded`
(`jobs.tab_of` agrees with the tab stamped on the job, if every switch of the tab synchronises first),
and `CloseCancelsItsOwn` (closing tabs cancels exactly the active jobs started in them, those with a
callback excepted). `JobsInv` adds to the types: `Numbered` (an id that was not allocated is in no map
and in no message), `Room` (an unfinished job has sent fewer than `MaxSets` messages), and `Recorded`
(a job without a recorded tab was started in the tab that is active now; a recorded tab is the stamped
one). `Recorded` is the reason why recording a frame late is correct, and the place where a bare
switch of the active tab breaks it.

Its second part: `ClosedRunsNothing` (`ClosedTabRunsNothing`) and `ClosedStartsNothing`
(`ClosedTabStartsNothing`) for jobs that can be stopped (`AllStoppable`: no session statements, tabs
switched with synchronisation), and `SpinnerIsTrue` (`SpinnerMeansRunning`) without paged results.
`TasksInv` says which jobs share a task, `RunsInv` that a running job is active and its tab open, and
that a waiting one is too or has the abort of its task on the way; `SpinnerInv` adds to the flag that
no job is paged.

Its third part follows each job to its end: `ScriptsInOrder` (`ResultsInOrder`), and `JobsKeepTheBoard`,
that every step is a step of `JobBoard` or none at all (the safety half of `KeepsTheBoard`). `FateInv`
says that a job that may still report is active or will be ignored, so that no job is finished twice,
and that the jobs of a script are started together; `TurnsInv` that the statements of one script take
turns (`InTurn`): while one of them is under way or has messages in the channel, those after it have
sent nothing. Both theorems assume `AllStoppable` and `OneSet` (one result set per statement): with a
second result set the code shows what a cancelled job still sends, so that a board on which a
cancelled job shows nothing is not what it implements.

**`TabDisplayProofs`**: `DraggingKeepsOrder` and `PinningKeepsOrder`: moving a tab to any slot, and
pinning or unpinning it, keeps `StripIsOrdered` and the active tab, for every length of the strip. The
lemmas say what `Moved` does to a sequence and that the pinned tabs form its front. Then the whole
display: `DisplayTypeCorrect`, `StripStaysOrdered` (`StripIsOrdered`) and `ShowsItsOwn`
(`DisplayStaysHome`), through closing of any set of tabs as well. When tabs close, a tab that stays
stands at its `Place`, its position less the number of tabs closed in front of it, and `Place` keeps the
order of those that stay; so the pinned tabs stay in front and the active index still names its tab.
`ShowInv` is what makes `DisplayStaysHome` inductive: the ids of tabs grow and are never given twice,
the stash of the active tab is empty, and no result has a number that was not given out, so that what
is loaded, stashed or answered later cannot be taken for another tab's.

**`TabSessionsProofs`**: `CommitsAreAsked` (`OnlyAskedIsCommitted`) and `RunsInItsPlace`
(`RunsWhereFirstShown`). The invariant says of each session (`Proper`) that Commit was pressed for
all that a queued Commit will find (`Asks`: the work it holds, and the statements queued before that
Commit), and that whatever it holds or has queued was meant for its target; `TabsInv` that a tab's
session serves the tab's target unless the user picked another; `CommitInv` that what runs on a pool
connection was not run in manual-commit mode. `Asks` survives because what is sent later stands
behind the Commit.

`RollbackHolds` (`RolledBackStaysBack`) and `NothingIsLost` (`NothingLostUnasked`) need to know where
every job is, and `Fates` says it. A job is in one place only: no session holds what another one holds,
what runs on the pool, waits to be sent or is committed (`ApartInv`); what was committed, what commits
itself and what is gone are apart likewise (`BooksInv`). A session is held by one open tab, which
started all that is queued in it, and is not told to close before that tab has given it up (`HeldInv`).
On these rest the two halves that the theorems are about. Unless the last tab was closed or the mode was
switched off without its box (from the command palette), what was rolled back is not committed, is in no
session that a tab holds, and no Commit was pressed for what other sessions still have of it
(`GoneInv`). Unless the other tabs were closed, a tab with a session ran on another connection or a flag
was stored a frame late, the user knows what became of everything in the sessions no tab holds, and the
flag of a tab is set if its session holds anything else (`LostInv`). These circumstances are those the
two properties themselves name. Without `ApartInv` a job rolled back in one session might be committed
by another; without `HeldInv` the flag of one tab would have to speak for the work of a second.

**`GridEditsProofs`**: `PoolStaysClean` (`PoolIsClean`) and the refinement `SavesAreAtomic`
(`AllOrNothing`). `WorkInv` says that what a transaction sees is the committed table with the
statements it has run, and that only one transaction is open. Both theorems count the abort of an SQL
Server save in its transaction: `PoolIsClean` leaves that connection out, and `AllOrNothing` rests on the
assumption that its transaction is rolled back before anybody else uses the connection (`LeftoverEnds`).
The comment of `run_mssql_transaction` fears the opposite of a timeout and a ROLLBACK that fails; an abort
is neither.

The other four theorems are about the grid: `UndoLeadsBack` (`UndoRestores`), `PositionsHold`
(`PositionsStayHome`), `QueueExplains` (`QueueExplainsGrid`) and `SavesAreShown` (`LoadedIsStored`), for
every table, every number of edits, saves and reloads and any `UNDO_LIMIT`. None is inductive, because
an undo may bring back any earlier state of the grid: one has to know something of all the states it
can return to. So the history is described as one chain of states (rows and queue), from the oldest that can be undone to
the newest that can be redone, each of them reached from the one before by the changes of its entry,
and left by the same changes backwards (`Chain`; `Path`). `Known(s, G)` says that the sheet has such a
chain and that all of it lies in the set `G`. If no edit leads out of `G` (`Stable`: editing a cell,
adding or copying a row, toggling a deletion), then no operation does, undo and redo included
(`RecordedKnown`, `KnownUndone`, `KnownRedone`, `ToggleRuns`), and the theorems differ in the `G` they take:

- *All states* gives `UndoRestores`: unwinding walks the chain back to its first state. Its second half,
  that Esc restores what was loaded if no step was lost, needs `WaitInv`: a user who waits finds the
  queue of the save under way unchanged.
- *`Homely`*: every operation names the row its values came from, and nothing in the queue follows the
  deletion of its row (`DeletesLast`). The second part is needed when a save's answer takes the rows
  it deleted off the grid: an operation left in the queue must not name one of them. An open cell
  breaks it if the row under it is marked for deletion, hence `CellHome`. The theorem has the condition
  `OneSave \/ ~disturbed`: at most one save, or a user who waits for each. For more at once the code
  does not keep it: the open cell is not moved when an answer drops rows, so it may come to stand in a row
  marked for deletion, what is entered then follows the deletion of its row, and the answer of another save
  that has sent an equal deletion drops the row and leaves the edit to the row below. (TLC was led there
  along a trace of 34 steps with four saves, one cancelled after its COMMIT; such an instance is too
  large to explore, and no run does.)
- *`Explains(l)`*: taking the edits back gives the rows `l`. Each edit preserves it for every `l`, as it
  leaves the rows that are not new in their order (`InOrder`), and their first old values too
  (`MovedOld`, `AppendedOld`, `PickedOld`); a save's answer sets `loaded` to what the new queue explains.
  There is no condition on the number of saves.
- *`Honest`*: the queue tells the truth of the rows. A new row has one operation, no row is deleted
  twice, what an operation noted of its row is what the row shows except in columns edited since
  (`KnowsRow`), and the last edit of a cell is what the cell shows (`LastIsShown`).

`SavesAreShown` relates the grid to the database. A table `Agrees` with some rows of the grid if they
can be paired so that each pair fits: the ids are equal, and so is every value the grid does not leave to the
server. `StoreInv` follows the pairing through a save: before the save has written, the table agrees
with what was loaded; in its transaction, what the first n statements have made of the table agrees
with what the grid shows of the rows they are about (`Shown`, `Present`); after a COMMIT that was answered,
the table agrees with all rows but those deleted; and the answer takes just these off the grid
(`DroppedThins`). The step for one statement (`StatementAgrees`) is where everything is needed: the
queue explains the rows loaded, so that the WHERE fits the partner of its row; one row was matched
(`check_expected`), so that the partner is the row that changes (`FoundRow`); and the queue is `Honest`,
so that what is written is what is shown. It needs that no row is edited and deleted in one
save (`Crossed`), else the second statement about the row no longer has its values: the case of
section 6. All this is for a user who waits for saves and reloads, as the property says.

**`DiagnosticsProofs`**: `MarksAreWhereTheyWereFound` (`MarksStayOnTheirWords`) for every set of texts,
tabs, contexts and tables. The invariant speaks of everything that may become a mark: `Sound(d)` (the
local findings stand on their words in the text last seen, statements too; a cached verdict points into
its statement's words at the word it names), `TextsInv` (what was seen is the text, or the change is
noticed before the next mark is drawn) and `TasksInv` (an analysis or answer under way is right about the
text it was made for, and its generation tells whether that is still the text). The lemmas
`RebasedFits` and `RebasedStand` are the heart: a range that an edit has not touched has the same
words where `Edit::map` puts it. The answers of one frame are taken one by one, by induction over the
channel.

**`SharedRowsProofs`** holds the proofs of two components whose processes share rows of a database and
no lock. Of the approval queue: `ApprovalTypeCorrect`, `NoRiskWithoutConsent` (`RiskyNeedsConsent`),
`DenialHolds` (`DeniedNeverRuns`) and the action property `DecisionsAreFinal`, for any number of
concurrent calls. `ApprovalInv` ties the row to what the user said (`Recorded`) and a running
statement to its reason (`Reasons`): it was never queued, its row says approved, or the client's user
said yes. The lemma `NothingSlipsThrough` is the policy: `access::decide` and `ops::aggregate` allow no
batch that holds an admin command or a risky write, at any level.

Of project sync, for any number of devices, names, saves and faults: `SyncTypeCorrect`, `NewestStays`
(`NewestIsKept`), `ClashesAreRenames` (the action property `OnlyRenamesClash`) and `NumbersStay`: the
number of a row is never another name's, so that what a task erases by number is the row it listed.
`NewestIsKept` is not inductive: a push could bring to the server, and a pull to a device, a project
that claims to be newer than the newest. `NoneNewer` says that there is none, on any device, in any
task under way and in any row. A pull merges what the server lists, in any order; what one merge
keeps (`MergedKeeps`), all keep, one after the other (`PulledKeeps`; by induction along the pull,
`EveryNumber`, over a set and not over a predicate): of each id, whatever is there is not replaced by
something older. In the same way a pull makes no two projects of one name unless a project is renamed
(`MergedClash`, `PulledClash`). That there is at least one device (`SyncAssumption`) is needed for the
project that is there at the start.

**`PoolConnectProofs`**: `PoolsTypeCorrect`, `NoTunnelLost` (`NoTunnelIsLost`), `NewOnesStand`
(`NewAttemptsStand`), `ClosedStays` (`StaysOff`) and `ServedOverLive` (`ServedPoolsWork`), for any number of
attempts, callers and faults. `TunnelInv` says that one caller spawns at a time, as the registry's entry
is locked, and that the entry is empty meanwhile. `Numbers` and `Attempts` bound everything by the
attempts begun; `FlagInv` is the reason why a cancellation cannot hit a later attempt: raised are only
flags of attempts begun before the last cancellation, and the flag an attempt looks at is its own or
a later one's. It speaks of every kind of attempt, but not of a sync that begins while a raised flag
is still registered (`exposed`), which is stopped by it. `OffInv` follows a connection that was called
off through each stage an attempt may be in, and `ServedInv` says that nobody asks for a tunnel while there is a pool, so that the tunnel under
the pool is still the registry's.

`AbortedTxRunsNothing` and `EndedHoldsNoTx` are proved only: no run lists them, although the
proofs' invariants were checked with TLC first.

Only model-checked: liveness (`EveryJobAnswered`, `JobsEnd`, `SessionsEnd`, `PendingEnds`,
`MarksCatchUp`, `CallsEnd`, `DialogEmpties`, `EditsArrive`, `DeletionsArrive`, and the fairness of the board
in `KeepsTheBoard`), as TLAPS does not handle fairness and ENABLED here. Every invariant and every
action property without fairness that a passing run checks has a theorem.

## 6. Disagreements between the code and what it says

One run is kept to show a disagreement; TLC's trace is the scenario. (Quotes from Indonesian comments
are translated.)

| Run | The code says | What happens |
|---|---|---|
| `grid_delete` | the WHERE made of the original values "keeps matching after the first column has changed" (`spreadsheet.rs:1311`) | a row that is edited and deleted before one save gets an UPDATE and then a DELETE with its original values (`spreadsheet.rs:1559`): the save is refused, or, when the edit frees the key for another row, that row is deleted |

Further ones are found by checking the property named, which is stated in the module, with the
constants given (everything else as in the run of that module).

| Module, property, constants | The code says | What happens |
|---|---|---|
| `MCTxSession`, `NothingCommittedUntilCommit`; `Engines <- JustMySql`, `Quirks <- Autocommits` | "nothing is committed until you press Commit" | a MySQL DDL statement commits the open transaction; `tx_open` stays set, and the next statement is autocommitted (`session.rs:323`). With `Quirks = {"TxEndingError"}`: a deadlock victim loses its transaction, and later statements are autocommitted |
| `MCTxSession`, `FlagTellsTheTruth`; `JustPostgres`, `Refuses` | `SessionHandle::tx_open` is the real state of the transaction on the connection (`session.rs:41`) | a COMMIT that PostgreSQL refuses ends the transaction and leaves the flag set (`session.rs:445`) |
| `MCQueryJobs`, `CancelledStaysHidden`; 1 job, 1 tab, 2 sets, `JustStatements` | late results of a cancelled job are ignored (`window_egui/mod.rs:106`) | the first result set of a SQL Server batch uses the `cancelled` entry up; the second is shown (`query_jobs.rs:25`). With `Kinds = {"session"}`: a statement that answers after 30 seconds is shown (`query_jobs.rs:1013`) |
| `MCQueryJobs`, `CallbackAlwaysCalled`; `Callbacks`, 1 set | a callback is called exactly once, on success or failure (`window_egui/mod.rs:86`) | cancelling the job drops the callback uncalled (`query_jobs.rs:920`) |
| `MCQueryJobs`, `SpinnerMeansRunning`; `Pages` | the spinner shows that a query is being executed (`render_data.rs:15`) | a page that loads returns before `query_execution_in_progress` is lowered (`query_jobs.rs:188`). The other way round, with scripts and auto refresh, the first result of a script lowers the flag while the rest still runs |
| `MCQueryJobs`, `ClosedTabStartsNothing`; `Kinds = {"session"}` | closing a tab stops its work | statements queued in a session start after its tab was closed (`editor.rs:337`) |
| `MCQueryJobs`, `JobsKnowTheirTab`; `BareSwitch = TRUE` | a job is recorded for the tab it was started in | a job started just before a saved query is opened is recorded under the new tab (`sidebar_query.rs:589`), and closing that tab cancels it |
| `TabDisplay`, `OwnRows`; 3 tabs, 2 results | the display holds the result of the active tab, other tabs hold theirs (`query_jobs.rs:87`) | opening a saved query leaves the rows of the old tab under the new one (`sidebar_query.rs:587`), and closing the active tab those of the closed one |
| `TabDisplay`, `EditsMatchRows`; the same | pending edits and the rows they are made on belong together (`grid_state.rs:489`) | switching tabs exchanges the rows and keeps the edits (`editor.rs:126`) |
| `MCGridEdits`, `LateEditsSurvive`; as `grid_edits` | edits made while a save runs must not be removed when it succeeds (`spreadsheet.rs:650`) | if the queue no longer begins with what was sent, all of it is cleared (`spreadsheet.rs:677`) |
| `MCTabSessions`, `NothingCommittedUnasked`; 1 tab, `OneTarget`, 1 job, 1 step, `Quirks = {"pool wait"}` | "nothing is committed until you press Commit" (`render_dialogs.rs:1135`) | a statement run in manual-commit mode while the pool is still being made waits in `pool_wait_query` and is then run outside the session, autocommitted (`editor.rs:10088`, `app_impl.rs:4884`) |
| `MCTabSessions`, `RunsWhereShown`; 1 tab, `Databases`, 2 steps, `Quirks = {"database"}` | the picker is labelled "Active database" (`db_context_bar.rs:170`) | a session goes on in the database it was made for; only the connection is compared (`editor.rs:10326`) |
| `MCTabSessions`; one quirk at a time | | "pool wait" breaks only `NothingCommittedUnasked`, "database" only `RunsWhereShown`; "reconnect", "close others" and "lag" let a transaction go without a question; "palette" and "last tab" let what was rolled back be committed later |
| `MCPoolConnect`, `ClosedStaysClosed`; `Quirks = {"shown"}` | a connection just disconnected must not come back to life (`pool.rs:1374`) | Cancel records an error, the next frame forgets the raised flag on its account (`pool.rs:170`), and the attempt connects |
| the same; `"race"`, `"sync"` | the same | the flag is raised between the worker's last look and the insertion (`init.rs:1553`); a background sync inserts its pool without a look at any flag |
| the same; `"unmarked"` (2 steps), `"stall"`, `"overlap"` | the same | a retry whose error is still shown is no longer marked a frame later, so that nothing is signalled; an attempt outlives flag and watchdog; one of two attempts cleans up for both |
| `MCPoolConnect`, the invariant `served`; `"busy"`, `"renew"`, `"overlap"` | `evict_unusable_pool` drops a pool whose tunnel is gone | it looks at the tunnel of the key, not at the one below the pool (`pool.rs:1026`), and skips the look while the registry is in use |
| `MCDiagnostics`, `EveryMarkFits` | every change of the text is noticed | a rename to a name of the same length and a peer's edit leave revision and length alone (`editor.rs:9485`, `sync_tick.rs:223`); marks stay where they were, and a verdict is cached under the wrong words |
| `MCDiagnostics`, `ServerCorrects` | the server corrects marks made from an old schema (`QUERY_DIAGNOSTICS.md`, ADR 0009) | a verdict is cached and never asked for again: after CREATE TABLE the mark stays |
| `MCDiagnostics`, `MarksCatchUp`; `CacheLimit = 1` | | a text with more different statements than `SERVER_CACHE_LIMIT` (512) is validated for ever |
| `MCDiagnostics`, `AtMostTwoAtOnce`; `FirstTexts <- TheTwice` | at most `MAX_SERVER_IN_FLIGHT` validations | statements that stand twice in a text are asked for twice under one entry (`diagnostics_jobs.rs:512`) |
| `MCAgentApproval`, `ToastIsTrue`; `OneWrite`, `NoElicits` | "the agent was told it was not approved" (`agent_access_ui.rs:242`) | a list read before the click shows the approved request again; the next click reports it as not approved while it runs |
| `MCProjectSync`, `DeletedStaysAway`; `Devices = {1}`, `MaxFaults = 0` | a deleted project is gone: what the dialog says before, and the toast after (`project_ui.rs:1526`) | the pull of the sync that erases its row runs beside the erasing: it lists the row first and brings the project back (`project_ui.rs:1775`) |
| `MCProjectSync`, `NewerRowStands` | "the same id: the newer `updated_at` wins" (`sync_projects.rs:7`) | so it does in a pull; a push writes what differs from the row without looking at `updated_at`, and overwrites a newer one (`sync_projects.rs:150`) |
| `MCProjectSync`, `NamesDiffer` | a name is used once (`project.rs:448`), and another project of the same name is not touched (`sync_projects.rs:8`) | a project known by its id is replaced without a look at names: one created here and one renamed elsewhere end up with the same |

Seen while modelling and not stated as a property: the names of rows to erase are forgotten, on disk
too, before they are erased (`project_ui.rs:1729`), so that a failed request or a restart leaves the
rows, and the next pull brings the projects back; a rename saved
from a dialog that was opened before a pull renamed the project leaves the row of the pulled name, as only
the name in the dialog is noted (`project_ui.rs:1486`); cancelling aborts an SQL Server save without the
`detach` (`query_jobs.rs:942`), so that what `atomic.rs:92` says of a timeout may happen to it; a
refresh that the user asks for within 20 seconds of a disconnect or cancel is cancelled by the old flag
(`pool.rs:284`); disconnecting while an attempt runs shows
"Connection failed" later, although "disconnecting is not a failure worth surfacing"
(`connection_mgr.rs:703`); a click on a failed connection starts two attempts; disconnecting a
connected one leaves its ssh process, as `cleanup_idle_tunnels` is called by nothing; the server
debounce of the diagnostics asks for no repaint (`diagnostics_jobs.rs:365`) and relies on the
blinking cursor; the schema's fingerprint is only a count; an analyzer that panics leaves
`local_in_flight` set.

## 7. Not modelled

- *Inside the modelled components*: row conversion, wording and layout. Of the query jobs, deferred
  callbacks and the server-side cancel. Of the tabs, quitting, drafts and their dialog, COMMIT and ROLLBACK typed as
  statements, and cancelled jobs in `TabSessions`. Of the grid, the review dialog, data rewind, joins,
  binary columns, sorting, filters, find and several pages. Of atomic writes, what the
  external pool does with the connection of an SQL Server save that is aborted half way: that its transaction is rolled back before anybody else uses it is
  assumed. Of the pools, pools that are closed, their own keep-alive, quitting, the path without a background
  worker (the application always has one), plugin and Redis pools. Of the tunnels, ssh's arguments,
  host-key prompts, and the shutdown of all at exit. Of the diagnostics, the mark of the last run, MongoDB collections,
  the columns an analysis asks for, quick fixes and the parsers' rules. Of the agent side, the
  per-client allowlist, the activity log and the pruning of rows decided a week ago.
- *Hazards without a property*: BEGIN, COMMIT and ROLLBACK run without the statement timeout, so that
  a silent server blocks a session for ever (`session.rs:239`; the fairness of section 4 assumes it
  away); cancelling a queued job of a session kills whatever statement its backend runs at that moment
  (`query_jobs.rs:776`), because the cancel goes by a pid that was read earlier (`query_jobs.rs:782`). The
  callback of a cancelled job is dropped uncalled (`query_jobs.rs:920`), and the pull of a sync may
  bring back what the same sync erases (`project_ui.rs:1775`): both are stated (`CallbackAlwaysCalled`,
  `DeletedStaysAway`), and fail.
- *Of project sync*: projects of other users and of teams, sharing, memory entries (which leave
  `updated_at` alone, so that an older pull replaces them), repository setup, which saves a project
  too, signing out, disks that fail, saves within the same second (`updated_at` counts seconds) and
  devices whose clocks differ, and the case of names. *Of the rest of the cloud sync*: connections,
  queries, HTTP collections, history, and the collaborative editor.
- *Pure I/O and external tools*: metadata queries and their cache, keychain, updates, single instance
  socket, git and the programs that repository setup and integration tests drive, HTTP.
- *Content*: prompts and model providers, EXPLAIN parsers, autocomplete and editor text, diagrams,
  rendering and styling. Their control is trivial or their data is the point.
- *Cryptography* of the vault.
- *Generated or vendored*: `patches/`, launcher integrations, packaging.

## 8. Plan

Modelled, checked and proved so far: manual-commit sessions, query jobs, the tab strip and its display,
tabs with their sessions, the grid with its atomic saves, pools with their tunnels, live diagnostics,
the agent approval queue, and project sync. Next, in this order:

1. `ServerCancel`: backend pids, the task that sends the cancel, and connections that have moved on.
   Property: a cancel hits the statement it was meant for.
2. Sharing in `ProjectSync`: members of a team who pull and do not own the row, and memory entries.
   Property: a member's pull never replaces the owner's newer project, and leaving a team takes its
   projects away.
3. Background tasks (the cap on the list must not drop a running one), the plan cache's key, and
   `transaction_verb` with script splitting against a reference definition.
