----------------------------- MODULE TabSessions -----------------------------
(***************************************************************************)
(* Query tabs in manual-commit mode: the toggles, the session each tab     *)
(* holds, the buttons, the flag tx_active that warns before a tab is       *)
(* closed, and the frame that keeps it (sync_tab_tx_state).  Each session  *)
(* is a channel and a task that does one command per step; what happens    *)
(* inside such a step is TxSession.  Statements are jobs; a statement run  *)
(* while the pool is still being created waits in one slot.                *)
(*                                                                         *)
(* Left out: COMMIT and ROLLBACK typed as statements, cancelled jobs,      *)
(* drafts (which have a dialog of their own), and quitting.                *)
(***************************************************************************)
EXTENDS Integers, Sequences, FiniteSets

CONSTANTS Tabs,      \* ids of tabs
          Targets,   \* [conn, db]: what the pickers above the editor choose
          MaxJobs,   \* statements, commits and rollbacks
          MaxSteps,  \* other steps of the user
          Quirks     \* acts of the user the code answers by breaking a
                     \* promise; "lag": a session stores its flag late

ASSUME TabsAssumption ==
    /\ Tabs \subseteq Nat \ {0} /\ 1 \in Tabs
    /\ Targets \subseteq [conn : Nat, db : Nat] /\ Targets # {}
    /\ MaxJobs \in Nat /\ MaxSteps \in Nat
    /\ Quirks \subseteq {"pool wait", "database", "reconnect", "palette",
                         "last tab", "close others", "lag"}

VARIABLES tabs,      \* the tabs; those not open have no target
          current,   \* the active tab
          asking,    \* pending_close_tx_tab, 0 for none
          sessions,  \* the sessions spawned so far
          jobs,      \* number of jobs so far
          owner,     \* jobs.tab_of: the tab of each
          running,   \* jobs.active
          auto,      \* those of them that run on a pool connection
          results,   \* jobs whose result waits in the channel
          pools,     \* connections whose pool is ready
          slot,      \* pool_wait_query and pool_wait_connection_id
          acted,     \* the user has acted in this frame
          steps

uiVars == <<tabs, current, asking, acted, steps>>
jobVars == <<jobs, owner, running, auto, results, slot>>

(* History.  What the user did: where a statement was meant to run, those  *)
(* run by a tab in manual-commit mode, those Commit was pressed for, those *)
(* Rollback was pressed for.  What became of them: committed, executed in  *)
(* a session, rolled back as the user was told or by a timeout.            *)
VARIABLES meant, manual, asked, unwanted, committed, done, gone

VARIABLE broken    \* history: the Quirks that have happened

wishes == <<meant, manual, asked, unwanted>>
fates  == <<committed, done, gone>>
history == <<wishes, fates, broken>>

(* The user, or the scheduler, does q: only if q is among the Quirks.      *)
Quirk(q) == q \in Quirks /\ broken' = broken \cup {q}
NoQuirk == UNCHANGED broken
vars == <<uiVars, jobVars, sessions, pools, history>>

NoTarget == [conn |-> 0, db |-> 0]
NoQuery  == [job |-> 0, conn |-> 0]
Closed   == [open |-> FALSE, target |-> NoTarget, tx_mode |-> FALSE,
             tx_active |-> FALSE, session |-> 0]
Fresh(target) == [Closed EXCEPT !.open = TRUE, !.target = target]

(* spawn_session: tx is the transaction open on the server, work what it   *)
(* holds, flag the shared tx_open.                                         *)
NewSession(target) == [target |-> target, queue |-> <<>>, tx |-> FALSE,
                       work |-> {}, flag |-> FALSE, ended |-> FALSE]

Execute(j)  == [op |-> "Execute", job |-> j]
Commit(j)   == [op |-> "Commit", job |-> j]
Rollback(j) == [op |-> "Rollback", job |-> j]
Close       == [op |-> "Close", job |-> 0]

Open == {t \in Tabs : tabs[t].open}

Init ==
    /\ \E target \in Targets :
          tabs = [t \in Tabs |-> IF t = 1 THEN Fresh(target) ELSE Closed]
    /\ current = 1
    /\ asking = 0
    /\ sessions = <<>>
    /\ jobs = 0
    /\ owner = [j \in 1..MaxJobs |-> 0]
    /\ running = {} /\ auto = {} /\ results = {}
    /\ LET all == {g.conn : g \in Targets}
       IN pools \in {all, IF "pool wait" \in Quirks THEN {} ELSE all}
    /\ slot = NoQuery
    /\ acted = FALSE
    /\ steps = 0
    /\ meant = [j \in 1..MaxJobs |-> NoTarget]
    /\ manual = {} /\ asked = {} /\ unwanted = {}
    /\ committed = {} /\ done = {} /\ gone = {} /\ broken = {}
-----------------------------------------------------------------------------
(* Statements sent to the session of tab t and not yet committed or rolled *)
(* back.                                                                   *)
Queued(s) == {s.queue[k].job : k \in {i \in DOMAIN s.queue :
                                         s.queue[i].op = "Execute"}}
Pending(t) == IF tabs[t].session = 0 THEN {}
              ELSE LET s == sessions[tabs[t].session] IN s.work \cup Queued(s)

Sent(ss, s, c) == [ss EXCEPT ![s].queue = Append(@, c)]

(* SessionHandle::close of the sessions of tabs T.                         *)
Released(T) ==
    [s \in DOMAIN sessions |->
        IF \E t \in T : tabs[t].session = s
        THEN [sessions[s] EXCEPT !.queue = Append(@, Close)] ELSE sessions[s]]

(* The user acts once in a frame, and not while a dialog or the overlay of *)
(* a connection covers the tabs.                                           *)
Acts ==
    /\ ~acted
    /\ acted' = TRUE

Steps ==
    /\ Acts
    /\ steps < MaxSteps
    /\ steps' = steps + 1
    /\ UNCHANGED pools

Free == asking = 0 /\ slot = NoQuery

NewTab ==
    /\ Free /\ Steps
    /\ \E t \in Tabs \ Open :
          /\ tabs' = [tabs EXCEPT ![t] = Fresh(tabs[current].target)]
          /\ current' = t
    /\ UNCHANGED <<asking, jobVars, sessions, history>>

SwitchTab ==
    /\ Free /\ Steps
    /\ current' \in Open \ {current}
    /\ UNCHANGED <<tabs, asking, jobVars, sessions, history>>

(* The pickers of db_context_bar, which leave the session alone.           *)
PickTarget ==
    /\ Free /\ Steps
    /\ \E target \in Targets :
          LET s == tabs[current].session IN
          /\ target # tabs[current].target
          /\ IF s = 0 THEN NoQuirk
             ELSE IF sessions[s].target = target THEN NoQuirk
             ELSE Quirk(IF target.conn = sessions[s].target.conn
                        THEN "database" ELSE "reconnect")
          /\ tabs' = [tabs EXCEPT ![current].target = target]
    /\ UNCHANGED <<current, asking, jobVars, sessions, wishes, fates>>

TurnOn ==
    /\ Free /\ Steps
    /\ ~tabs[current].tx_mode
    /\ tabs' = [tabs EXCEPT ![current].tx_mode = TRUE]
    /\ UNCHANGED <<current, asking, jobVars, sessions, history>>

(* The shortcut and the command palette only toggle the mode.              *)
PaletteOff ==
    /\ Free /\ Steps
    /\ tabs[current].tx_mode
    /\ IF tabs[current].session = 0 THEN NoQuirk ELSE Quirk("palette")
    /\ tabs' = [tabs EXCEPT ![current].tx_mode = FALSE]
    /\ gone' = gone \cup (Pending(current) \ asked)
    /\ UNCHANGED <<current, asking, jobVars, sessions, wishes, committed,
                   done>>

(* Faulty: the box leaves the session alone, as the palette does.          *)
BoxOffOnly ==
    /\ Free /\ Steps
    /\ tabs[current].tx_mode
    /\ tabs' = [tabs EXCEPT ![current].tx_mode = FALSE]
    /\ gone' = gone \cup (Pending(current) \ asked)
    /\ UNCHANGED <<current, asking, jobVars, sessions, wishes, committed,
                   done, broken>>

(* The box, which is shown in manual-commit mode, closes the session.      *)
BoxOff ==
    /\ Free /\ Steps
    /\ tabs[current].tx_mode
    /\ tabs' = [tabs EXCEPT ![current].tx_mode = FALSE, ![current].session = 0,
                            ![current].tx_active = FALSE]
    /\ sessions' = Released({current})
    /\ gone' = gone \cup (Pending(current) \ asked)
    /\ UNCHANGED <<current, asking, jobVars, wishes, committed, done, broken>>
-----------------------------------------------------------------------------
(* A new job of the user.                                                  *)
Starts ==
    /\ Acts
    /\ jobs < MaxJobs
    /\ jobs' = jobs + 1
    /\ owner' = [owner EXCEPT ![jobs'] = current]
    /\ UNCHANGED <<current, asking, results, pools, steps>>

(* Faulty: any session the tab holds will do.                              *)
ServingHeld(t) == tabs[t].session

(* The session of tab t if it can still be used (needs_new): only the      *)
(* connection is compared.                                                 *)
Serving(t) ==
    LET s == tabs[t].session
    IN IF s # 0 /\ sessions[s].target.conn = tabs[t].target.conn THEN s ELSE 0

(* execute_statements_in_session *)
RunInSession(j) ==
    /\ IF Serving(current) # 0
       THEN LET s == Serving(current) IN
            /\ sessions' = Sent(sessions, s, Execute(j))
            /\ tabs' = [tabs EXCEPT ![current].session = s,
                                    ![current].tx_active = TRUE]
       ELSE LET s == Len(sessions) + 1
                new == NewSession(tabs[current].target)
            IN /\ sessions' = Append(Released({current}),
                                     [new EXCEPT !.queue = <<Execute(j)>>])
               /\ tabs' = [tabs EXCEPT ![current].session = s,
                                       ![current].tx_active = TRUE]
    /\ running' = running \cup {j}
    /\ UNCHANGED <<auto, slot>>

(* spawn_session finds no pool it can use: the tab is left without one.    *)
NoSession ==
    /\ Serving(current) = 0
    /\ sessions' = Released({current})
    /\ tabs' = [tabs EXCEPT ![current].session = 0,
                  ![current].tx_active = @ /\ tabs[current].session = 0]
    /\ UNCHANGED <<running, auto, slot>>

(* execute_query_bypass_checks: the pool is looked at before the mode.     *)
Run ==
    LET j == jobs + 1
        t == tabs[current]
    IN /\ Free /\ Starts
       /\ t.target # NoTarget
       /\ meant' = [meant EXCEPT ![j] = t.target]
       /\ manual' = IF t.tx_mode THEN manual \cup {j} ELSE manual
       /\ IF t.tx_mode /\ t.target.conn \notin pools THEN Quirk("pool wait") ELSE NoQuirk
       /\ IF t.target.conn \notin pools
          THEN /\ slot' = [job |-> j, conn |-> t.target.conn]
               /\ UNCHANGED <<tabs, sessions, running, auto>>
          ELSE IF t.tx_mode THEN RunInSession(j) \/ NoSession
          ELSE /\ running' = running \cup {j}
               /\ auto' = auto \cup {j}
               /\ UNCHANGED <<tabs, sessions, slot>>
       /\ UNCHANGED <<asked, unwanted, fates>>

(* send_session_tx_command: the buttons are shown for an open transaction, *)
(* the commands of the palette always.                                     *)
Send(command) ==
    /\ Free /\ Starts
    /\ tabs[current].session # 0
    /\ sessions' = Sent(sessions, tabs[current].session, command)
    /\ running' = running \cup {jobs'}
    /\ tabs' = [tabs EXCEPT ![current].tx_active = FALSE]
    /\ UNCHANGED <<auto, slot, meant, manual, fates, broken>>

PressCommit == /\ Send(Commit(jobs + 1))
               /\ asked' = asked \cup Pending(current)
               /\ UNCHANGED unwanted
PressRollback == /\ Send(Rollback(jobs + 1))
                 /\ unwanted' = unwanted \cup Pending(current)
                 /\ UNCHANGED asked
-----------------------------------------------------------------------------
(* Closing tabs T: their sessions are closed, their jobs cancelled, and    *)
(* another tab is shown if the active one goes.                            *)
Leaving(T) ==
    /\ sessions' = Released(T)
    /\ tabs' = [t \in Tabs |-> IF t \in T THEN Closed ELSE tabs[t]]
    /\ IF current \in T THEN current' \in Open \ T ELSE UNCHANGED current
    /\ running' = {j \in running : owner[j] \notin T}
    /\ UNCHANGED <<auto, results, slot, jobs, owner>>

(* The last tab is emptied; its session stays where it is.                 *)
Emptied(t) ==
    /\ IF tabs[t].session = 0 THEN NoQuirk ELSE Quirk("last tab")
    /\ tabs' = [tabs EXCEPT ![t].target = NoTarget]
    /\ running' = {j \in running : owner[j] # t}
    /\ UNCHANGED <<current, sessions, auto, results, slot, jobs, owner>>

CloseNow(t) == IF Open = {t} THEN Emptied(t) ELSE Leaving({t}) /\ NoQuirk

CloseTab ==
    /\ Free /\ Steps
    /\ \E t \in Open :
          IF tabs[t].tx_active
          THEN /\ asking' = t
               /\ UNCHANGED <<tabs, current, sessions, jobVars, broken>>
          ELSE CloseNow(t) /\ UNCHANGED asking
    /\ UNCHANGED <<wishes, fates>>

(* render_close_tx_tab_dialog: "Roll Back and Close", or Cancel.           *)
ConfirmClose ==
    /\ asking # 0 /\ Acts
    /\ CloseNow(asking)
    /\ asking' = 0
    /\ gone' = gone \cup (Pending(asking) \ asked)
    /\ UNCHANGED <<steps, pools, wishes, committed, done>>

KeepTab ==
    /\ asking # 0 /\ Acts
    /\ asking' = 0
    /\ UNCHANGED <<tabs, current, sessions, jobVars, steps, pools, history>>

(* close_other_tabs; tabs to the right are a part of them.  Nobody asks.   *)
CloseOthers ==
    /\ Free /\ Steps
    /\ \E T \in SUBSET Open \ {{}, Open} :
          /\ IF \A t \in T : ~tabs[t].tx_active THEN NoQuirk
             ELSE Quirk("close others")
          /\ Leaving(T)
    /\ UNCHANGED <<asking, wishes, fates>>
-----------------------------------------------------------------------------
(* Faulty: the flag is believed even while jobs run.                       *)
SyncedAlways(t) ==
    [t EXCEPT !.tx_active = t.session # 0 /\ sessions[t.session].flag]

(* sync_tab_tx_state *)
Synced(t) ==
    LET open == t.session # 0 /\ sessions[t.session].flag
    IN [t EXCEPT !.tx_active = IF running = {} THEN open ELSE @ \/ open]

(* update: flags first, then the results, then the query that waits for    *)
(* its pool, which runs as any query outside a session.                    *)
Frame ==
    /\ IF \A s \in DOMAIN sessions : sessions[s].flag = sessions[s].tx
       THEN NoQuirk ELSE Quirk("lag")
    /\ tabs' = [t \in Tabs |-> Synced(tabs[t])]
    /\ results' = {}
    /\ IF slot # NoQuery /\ slot.conn \in pools
       THEN /\ auto' = auto \cup {slot.job}
            /\ running' = (running \ results) \cup {slot.job}
            /\ slot' = NoQuery
       ELSE running' = running \ results /\ UNCHANGED <<auto, slot>>
    /\ acted' = FALSE
    /\ UNCHANGED <<current, asking, jobs, owner, steps, sessions, pools, wishes,
                   fates>>

(* A pool is ready; or Esc, an error or 30 seconds end the wait.           *)
PoolReady ==
    /\ slot # NoQuery /\ slot.conn \notin pools
    /\ pools' = pools \cup {slot.conn}
    /\ UNCHANGED <<uiVars, jobVars, sessions, history>>

WaitEnds ==
    /\ slot # NoQuery
    /\ slot' = NoQuery
    /\ UNCHANGED <<uiVars, jobs, owner, running, auto, results, pools, sessions,
                   history>>

(* A job on a pool connection: autocommitted, or failed.                   *)
AutoEnds ==
    /\ \E j \in auto :
          /\ auto' = auto \ {j}
          /\ results' = results \cup {j}
          /\ committed' \in {committed, committed \cup {j}}
    /\ UNCHANGED <<uiVars, jobs, owner, running, slot, pools, sessions, wishes,
                   done, gone, broken>>
-----------------------------------------------------------------------------
(* The task of session s.                                                  *)
Store(s) ==
    /\ sessions[s].flag # sessions[s].tx
    /\ sessions' = [sessions EXCEPT ![s].flag = sessions[s].tx]
    /\ UNCHANGED <<uiVars, jobVars, pools, history>>

(* s receives a command, becomes n, and answers it.                        *)
Does(s, op, n) ==
    /\ sessions[s].flag = sessions[s].tx
    /\ sessions[s].queue # <<>>
    /\ Head(sessions[s].queue).op = op
    /\ ~sessions[s].ended
    /\ sessions' = [sessions EXCEPT ![s] = [n EXCEPT !.queue = Tail(@)]]
    /\ results' = results \cup ({Head(sessions[s].queue).job} \ {0})
    /\ UNCHANGED <<uiVars, jobs, owner, running, auto, slot, pools, wishes,
                   broken>>

NoTx(s) == [sessions[s] EXCEPT !.tx = FALSE, !.work = {}]

DoExecute(s) ==
    LET j == Head(sessions[s].queue).job IN
    /\ Does(s, "Execute", [sessions[s] EXCEPT !.tx = TRUE, !.work = @ \cup {j}])
    /\ done' = done \cup {j}
    /\ UNCHANGED <<committed, gone>>

(* It fails, before BEGIN or after it.                                     *)
ExecuteFails(s) ==
    /\ \E tx \in {sessions[s].tx, TRUE} :
          Does(s, "Execute", [sessions[s] EXCEPT !.tx = tx])
    /\ UNCHANGED <<committed, done, gone>>

(* It times out: the connection and its transaction are gone.              *)
ExecuteTimesOut(s) ==
    /\ Does(s, "Execute", NoTx(s))
    /\ gone' = gone \cup sessions[s].work
    /\ UNCHANGED <<committed, done>>

DoCommit(s) ==
    /\ Does(s, "Commit", NoTx(s))
    /\ committed' = committed \cup sessions[s].work
    /\ UNCHANGED <<done, gone>>

DoRollback(s) ==
    /\ Does(s, "Rollback", NoTx(s))
    /\ gone' = gone \cup sessions[s].work
    /\ UNCHANGED <<committed, done>>

FinishFails(s) ==
    /\ Does(s, "Commit", sessions[s]) \/ Does(s, "Rollback", sessions[s])
    /\ UNCHANGED <<committed, done, gone>>

(* Faulty: a session with an open transaction ignores Close.               *)
DoCloseIdle(s) ==
    /\ Does(s, "Close", [NoTx(s) EXCEPT !.ended = TRUE])
    /\ ~sessions[s].tx
    /\ UNCHANGED <<committed, done, gone>>

(* Faulty: a session commits what it holds when it is closed.              *)
DoCloseCommits(s) ==
    /\ Does(s, "Close", [NoTx(s) EXCEPT !.ended = TRUE])
    /\ committed' = committed \cup sessions[s].work
    /\ UNCHANGED <<done, gone>>

(* ROLLBACK if needed, and the task ends.                                  *)
DoClose(s) ==
    /\ Does(s, "Close", [NoTx(s) EXCEPT !.ended = TRUE])
    /\ UNCHANGED <<committed, done, gone>>

Task(s) ==
    \/ Store(s) \/ DoExecute(s) \/ ExecuteFails(s) \/ ExecuteTimesOut(s)
    \/ DoCommit(s) \/ DoRollback(s) \/ FinishFails(s) \/ DoClose(s)
-----------------------------------------------------------------------------
User ==
    \/ NewTab \/ SwitchTab \/ PickTarget \/ TurnOn \/ PaletteOff \/ BoxOff
    \/ Run \/ PressCommit \/ PressRollback
    \/ CloseTab \/ ConfirmClose \/ KeepTab \/ CloseOthers

Next ==
    \/ User \/ Frame \/ PoolReady \/ WaitEnds \/ AutoEnds
    \/ \E s \in DOMAIN sessions : Task(s)

Fairness ==
    /\ WF_vars(Frame) /\ WF_vars(AutoEnds) /\ WF_vars(WaitEnds)
    /\ \A s \in 1..MaxJobs : WF_vars(s \in DOMAIN sessions /\ Task(s))

Spec == Init /\ [][Next]_vars /\ Fairness
-----------------------------------------------------------------------------
TypeOK ==
    /\ \A t \in Open : tabs[t].target \in Targets \cup {NoTarget}
                       /\ tabs[t].session \in 0..Len(sessions)
    /\ current \in Open
    /\ asking \in Tabs \cup {0}
    /\ running \cup auto \cup results \subseteq 1..jobs

Unless(quirks) == broken \cap quirks # {}

(* "nothing is committed until you press Commit" (render_dialogs.rs): what *)
(* a tab in manual-commit mode runs becomes durable only if the user       *)
(* pressed Commit for it, in that tab and after running it.                *)
NothingCommittedUnasked == committed \cap manual \subseteq asked

(* The same as long as nothing had to wait for a pool.                     *)
OnlyAskedIsCommitted == Unless({"pool wait"}) \/ NothingCommittedUnasked

(* What the user was told is rolled back, by the dialog that closes a tab  *)
(* or by switching the mode off, is never committed afterwards; but for a  *)
(* last tab, and the mode switched off without its box.                    *)
RolledBackStaysBack ==
    Unless({"last tab", "palette"}) \/ committed \cap gone = {}

(* A change that was made in manual-commit mode has been decided on (its   *)
(* answer is reported), was rolled back as the user was told, or is still  *)
(* in the transaction of a session that a tab holds: closing a tab never   *)
(* takes it silently (close_tab).  Other ways do: closing the other tabs,  *)
(* running on another connection, a flag stored later than a frame.        *)
InReach == UNION {sessions[tabs[t].session].work : t \in
                     {u \in Open : tabs[u].session # 0}}
NothingLostUnasked ==
    \/ Unless({"close others", "reconnect", "lag"})
    \/ done \subseteq committed \cup asked \cup unwanted \cup gone \cup InReach

(* The "Active database" picker (db_context_bar.rs): a statement run in    *)
(* manual-commit mode runs where its tab showed that it would.             *)
RunsWhereShown ==
    \A s \in DOMAIN sessions : \A j \in sessions[s].work \cup Queued(sessions[s]) :
        meant[j] = sessions[s].target

(* The same if no other database is picked while a session exists.         *)
RunsWhereFirstShown == Unless({"database"}) \/ RunsWhereShown

(* A session that its tab has given up ends, whatever it holds, so that    *)
(* its locks go.                                                           *)
Held(s) == \E t \in Open : tabs[t].session = s
SessionsEnd ==
    \A s \in 1..MaxJobs :
        (s \in DOMAIN sessions /\ ~Held(s)) ~> (s \in DOMAIN sessions /\ sessions[s].ended)

=============================================================================
