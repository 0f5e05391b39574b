---------------------------- MODULE AgentApproval ----------------------------
(***************************************************************************)
(* Statements an agent wants to run, and the user's approval of them.  The *)
(* MCP process (agent/mcp.rs) decides what a statement needs, queues a row *)
(* in the table agent_approvals (agent/access.rs) and polls it; the GUI,   *)
(* another process (window_egui/agent_access_ui.rs), reads the rows in the *)
(* background, shows a dialog and writes the decision.  The two share only *)
(* the table: every SQL statement on it is one step, and either process    *)
(* may stop or die between two of them.                                    *)
(***************************************************************************)
EXTENDS Naturals, FiniteSets

CONSTANTS MaxCalls,  \* bound on the tool calls of a behaviour
          Batches,   \* the batches of statements the agent may send
          Elicits    \* whether the MCP client may offer elicitation

(* What classify::StatementKind tells apart; Unknown is treated as admin.  *)
Kinds == {"read", "write", "ddl", "admin"}
Statements == [kind : Kinds, risky : BOOLEAN]

ASSUME ApprovalAssumption ==
    /\ MaxCalls \in Nat \ {0}
    /\ Batches \subseteq (SUBSET Statements) \ {{}}
    /\ Elicits \subseteq BOOLEAN

Calls == 1..MaxCalls
Decisions == {"approved", "denied", "expired"}

VARIABLES elicits,      \* the client supports elicitation
          calls,        \* tool calls so far; a queued one has its number as row id
          batch,        \* what each call wants to run
          call,         \* where its handler is
          seen_by_gui,  \* the poll loop's local of that name
          age,          \* time since created_at: 1 beyond GUI_PICKUP, 2 beyond
                        \* APPROVAL_TIMEOUT, 3 beyond 200 seconds
          row,          \* agent_approvals.status
          seen,         \* rows with seen_at
          up,           \* the GUI runs
          wake,
          fetch,        \* where the GUI's background read of the queue is
          fetched,      \* what it has selected
          pending,      \* AgentAccessState::pending, the requests shown
          yes, no,      \* history: calls the user has approved, has denied
          told          \* history: calls the user was told had expired

callVars == <<elicits, calls, batch, call, seen_by_gui, age>>
rowVars == <<row, seen>>
guiVars == <<up, wake, fetch, fetched, pending>>
saidVars == <<yes, no, told>>
queueVars == <<callVars, rowVars, guiVars, saidVars>>

QueueTypes ==
    /\ elicits \in BOOLEAN
    /\ calls \in 0..MaxCalls
    /\ batch \in [Calls -> SUBSET Statements]
    /\ call \in [Calls -> {"none", "waiting", "giving_up", "asking",
                           "running", "ran", "refused", "dead"}]
    /\ seen_by_gui \subseteq Calls
    /\ age \in [Calls -> 0..3]
    /\ row \in [Calls -> Decisions \cup {"none", "pending"}]
    /\ seen \subseteq Calls
    /\ up \in BOOLEAN
    /\ wake \in BOOLEAN
    /\ fetch \in {"none", "expire", "select", "mark", "done", "failed"}
    /\ fetched \subseteq Calls
    /\ pending \subseteq Calls
    /\ yes \subseteq Calls
    /\ no \subseteq Calls
    /\ told \subseteq Calls

QueueInit ==
    /\ elicits \in Elicits
    /\ calls = 0
    /\ batch = [c \in Calls |-> {}]
    /\ call = [c \in Calls |-> "none"]
    /\ seen_by_gui = {}
    /\ age = [c \in Calls |-> 0]
    /\ row = [c \in Calls |-> "none"]
    /\ seen = {}
    /\ up \in BOOLEAN
    /\ wake = FALSE
    /\ fetch = "none"
    /\ fetched = {}
    /\ pending = {}
    /\ yes = {}
    /\ no = {}
    /\ told = {}

Pending == {c \in Calls : row[c] = "pending"}
-----------------------------------------------------------------------------
(* access::decide and ops::aggregate.  risky stands for a write without    *)
(* WHERE, a DROP or TRUNCATE, or a Production connection.                  *)
Levels == {"blocked", "read_only", "ask", "edit", "agent"}

Direct(level, kind) == \/ level = "edit" /\ kind = "write"
                       \/ level = "agent" /\ kind \in {"write", "ddl"}

(* Faulty: the level is looked at before the risks.                        *)
DecideByLevel(level, s) ==
    IF level = "blocked" THEN "deny"
    ELSE IF s.kind = "read" \/ Direct(level, s.kind) THEN "allow"
    ELSE IF level = "read_only" THEN "deny"
    ELSE "ask"

Decide(level, s) ==
    IF level = "blocked" THEN "deny"
    ELSE IF s.kind = "read" THEN "allow"
    ELSE IF level = "read_only" THEN "deny"
    ELSE IF s.risky \/ ~Direct(level, s.kind) THEN "ask"
    ELSE "allow"

Aggregate(decisions) == IF "deny" \in decisions THEN "deny"
                        ELSE IF "ask" \in decisions THEN "ask"
                        ELSE "allow"
-----------------------------------------------------------------------------
(* The MCP process.  A call is planned with the level of that moment, and  *)
(* refused, run, or queued.                                                *)
Goes(c, place) == call' = [call EXCEPT ![c] = place]

Call ==
    /\ calls < MaxCalls
    /\ calls' = calls + 1
    /\ \E b \in Batches, level \in Levels :
          LET decision == Aggregate({Decide(level, s) : s \in b}) IN
          /\ batch' = [batch EXCEPT ![calls'] = b]
          /\ \/ decision = "deny" /\ Goes(calls', "refused") /\ UNCHANGED row
             \/ decision = "allow" /\ Goes(calls', "running") /\ UNCHANGED row
             \/ /\ decision = "ask"
                /\ Goes(calls', "waiting")
                /\ row' = [row EXCEPT ![calls'] = "pending"]
             \/ /\ decision = "ask"        \* it could not be queued
                /\ Goes(calls', "refused")
                /\ UNCHANGED row
    /\ UNCHANGED <<elicits, seen_by_gui, age, seen, guiVars, saidVars>>

(* Faulty: decide_approval does not ask for a row that is still pending.   *)
DecideApprovalAnyway(c, status) == row' = [row EXCEPT ![c] = status]

(* decide_approval: a row that is no longer pending stays as it is.        *)
DecideApproval(c, status) ==
    row' = IF row[c] = "pending" THEN [row EXCEPT ![c] = status] ELSE row

(* The reads of the poll loop that end it: a decision, or an error.        *)
PollDecided(c) ==
    /\ call[c] = "waiting"
    /\ row[c] \in Decisions
    /\ Goes(c, IF row[c] = "approved" THEN "running" ELSE "refused")
    /\ UNCHANGED <<elicits, calls, batch, seen_by_gui, age, rowVars, guiVars,
                   saidVars>>

PollFails(c) ==
    /\ call[c] = "waiting"
    /\ Goes(c, "refused")
    /\ UNCHANGED <<elicits, calls, batch, seen_by_gui, age, rowVars, guiVars,
                   saidVars>>

(* Faulty: once the GUI has seen the request, the wait has no end.         *)
TimeIsUpUnseen(c, known) == ~known /\ age[c] >= 1

TimeIsUp(c, known) == (~known /\ age[c] >= 1) \/ age[c] >= 2

(* A read that finds the row pending.                                      *)
PollPending(c) ==
    /\ call[c] = "waiting"
    /\ row[c] = "pending"
    /\ seen_by_gui' = IF c \in seen THEN seen_by_gui \cup {c} ELSE seen_by_gui
    /\ Goes(c, IF TimeIsUp(c, c \in seen_by_gui') THEN "giving_up" ELSE "waiting")
    /\ UNCHANGED <<elicits, calls, batch, age, rowVars, guiVars, saidVars>>


(* Its time is up: the request is written off, whether or not the write    *)
(* took effect, and the client is asked when the GUI never showed it.      *)
GiveUp(c) ==
    /\ call[c] = "giving_up"
    /\ DecideApproval(c, "expired") \/ UNCHANGED row
    /\ Goes(c, IF c \notin seen_by_gui /\ elicits THEN "asking" ELSE "refused")
    /\ UNCHANGED <<elicits, calls, batch, seen_by_gui, age, seen, guiVars,
                   saidVars>>

(* notifications/cancelled.                                                *)
Withdraw(c) ==
    /\ call[c] \in {"waiting", "asking"}
    /\ Goes(c, "refused")
    /\ \/ UNCHANGED row
       \/ call[c] = "waiting" /\ DecideApproval(c, "expired")
    /\ UNCHANGED <<elicits, calls, batch, seen_by_gui, age, seen, guiVars,
                   saidVars>>

(* The answer to the elicitation; none, in time, is a refusal.             *)
ClientAnswers(c) ==
    /\ call[c] = "asking"
    /\ \/ Goes(c, "running") /\ yes' = yes \cup {c}
       \/ Goes(c, "refused") /\ UNCHANGED yes
    /\ UNCHANGED <<elicits, calls, batch, seen_by_gui, age, rowVars, guiVars,
                   no, told>>

(* execute_plan: the plan is not looked at again.                          *)
Execute(c) ==
    /\ call[c] = "running"
    /\ Goes(c, "ran")
    /\ UNCHANGED <<elicits, calls, batch, seen_by_gui, age, rowVars, guiVars,
                   saidVars>>

(* The process dies with the call; its row stays.                          *)
Die(c) ==
    /\ call[c] \in {"waiting", "giving_up", "asking", "running"}
    /\ Goes(c, "dead")
    /\ UNCHANGED <<elicits, calls, batch, seen_by_gui, age, rowVars, guiVars,
                   saidVars>>

TimePasses(c) ==
    /\ row[c] = "pending"
    /\ age[c] < 3
    /\ age' = [age EXCEPT ![c] = @ + 1]
    /\ UNCHANGED <<elicits, calls, batch, call, seen_by_gui, rowVars, guiVars,
                   saidVars>>
-----------------------------------------------------------------------------
(* The GUI.  The watcher sees that something is pending; a frame that is   *)
(* due then starts the background read, one that is not forgets the wake.  *)
Watch ==
    /\ up
    /\ Pending # {}
    /\ wake' = TRUE
    /\ UNCHANGED <<callVars, rowVars, up, fetch, fetched, pending, saidVars>>

Refresh ==
    /\ up
    /\ wake \/ pending # {}
    /\ fetch = "none"
    /\ fetch' = "expire"
    /\ fetched' = {}
    /\ wake' = FALSE
    /\ UNCHANGED <<callVars, rowVars, up, pending, saidVars>>

NotDue ==
    /\ wake
    /\ wake' = FALSE
    /\ UNCHANGED <<callVars, rowVars, up, fetch, fetched, pending, saidVars>>

(* pending_approvals: rows nobody can be waiting for any more expire, ...  *)
(* Faulty: they do not.                                                    *)
FetchExpireNothing ==
    /\ fetch = "expire"
    /\ fetch' = "select"
    /\ UNCHANGED <<callVars, rowVars, up, wake, fetched, pending, saidVars>>

FetchExpire ==
    /\ fetch = "expire"
    /\ fetch' = "select"
    /\ row' = [c \in Calls |-> IF c \in Pending /\ age[c] = 3 THEN "expired"
                               ELSE row[c]]
    /\ UNCHANGED <<callVars, seen, up, wake, fetched, pending, saidVars>>

(* ... the others are read, ...                                            *)
FetchSelect ==
    /\ fetch = "select"
    /\ fetched' = Pending
    /\ fetch' = IF fetched' = {} THEN "done" ELSE "mark"
    /\ UNCHANGED <<callVars, rowVars, up, wake, pending, saidVars>>

(* ... and all that are pending now are marked as seen.                    *)
FetchMark ==
    /\ fetch = "mark"
    /\ seen' = seen \cup Pending
    /\ fetch' = "done"
    /\ UNCHANGED <<callVars, row, up, wake, fetched, pending, saidVars>>

FetchFails ==
    /\ fetch \in {"expire", "select", "mark"}
    /\ fetch' = "failed"
    /\ UNCHANGED <<callVars, rowVars, up, wake, fetched, pending, saidVars>>

(* apply_pending_approvals.                                                *)
Apply ==
    /\ fetch \in {"done", "failed"}
    /\ fetch' = "none"
    /\ fetched' = {}
    /\ pending' = IF fetch = "done" THEN fetched ELSE pending
    /\ UNCHANGED <<callVars, rowVars, up, wake, saidVars>>

Shown(c) == up /\ c \in pending /\ \A d \in pending : c <= d

(* "Approve & Run" or "Deny" for the request shown.                        *)
Choose(c, status) ==
    /\ Shown(c)
    /\ DecideApproval(c, status)
    /\ IF row' = row
       THEN told' = told \cup {c} /\ UNCHANGED <<yes, no>>
       ELSE /\ yes' = IF status = "approved" THEN yes \cup {c} ELSE yes
            /\ no' = IF status = "denied" THEN no \cup {c} ELSE no
            /\ UNCHANGED told
    /\ pending' = pending \ {c}
    /\ UNCHANGED <<callVars, seen, up, wake, fetch, fetched>>

(* The decision cannot be recorded; the user is told so.                   *)
ChooseFails(c) ==
    /\ Shown(c)
    /\ pending' = pending \ {c}
    /\ UNCHANGED <<callVars, rowVars, up, wake, fetch, fetched, saidVars>>

OpenGui ==
    /\ ~up
    /\ up' = TRUE
    /\ UNCHANGED <<callVars, rowVars, wake, fetch, fetched, pending, saidVars>>

CloseGui ==
    /\ up
    /\ up' = FALSE
    /\ wake' = FALSE
    /\ fetch' = "none"
    /\ fetched' = {}
    /\ pending' = {}
    /\ UNCHANGED <<callVars, rowVars, saidVars>>
-----------------------------------------------------------------------------
Poll(c) == PollDecided(c) \/ PollPending(c) \/ GiveUp(c)

Server == \/ Call
          \/ \E c \in Calls : \/ Poll(c) \/ PollFails(c) \/ Withdraw(c)
                              \/ ClientAnswers(c) \/ Execute(c) \/ Die(c)

Fetch == FetchExpire \/ FetchSelect \/ FetchMark \/ FetchFails

Gui == \/ Watch \/ Refresh \/ NotDue \/ Fetch \/ Apply
       \/ \E c \in Calls : ChooseFails(c)
              \/ \E status \in {"approved", "denied"} : Choose(c, status)
       \/ OpenGui \/ CloseGui

QueueNext == Server \/ Gui \/ \E c \in Calls : TimePasses(c)

(* The clock runs; the MCP process polls every 500 ms as long as it lives; *)
(* the client's answer has a timeout; the server answers.  The watcher and *)
(* the frames of a GUI that stays up come back every second, so that some  *)
(* frame is due and some read of the queue finds the file unlocked.  The   *)
(* user owes nothing.                                                      *)
QueueFairness ==
    /\ \A c \in Calls : /\ WF_queueVars(TimePasses(c))
                        /\ WF_queueVars(Poll(c))
                        /\ WF_queueVars(ClientAnswers(c))
                        /\ WF_queueVars(Execute(c))
    /\ WF_queueVars(Watch)
    /\ SF_queueVars(Refresh)
    /\ SF_queueVars(FetchExpire)
    /\ SF_queueVars(FetchSelect)
    /\ SF_queueVars(FetchMark)
    /\ WF_queueVars(Apply)

QueueSpec == QueueInit /\ [][QueueNext]_queueVars /\ QueueFairness
-----------------------------------------------------------------------------
(* Properties.                                                             *)

Runs(c) == call[c] \in {"running", "ran"}

(* "Whatever the level, these always wait for approval": statements on     *)
(* every row, destructive ones, writes in production, and admin commands   *)
(* run only after the user has approved the batch they are in.             *)
RiskyNeedsConsent ==
    \A c \in Calls :
        Runs(c) /\ (\E s \in batch[c] : s.kind = "admin"
                                          \/ (s.risky /\ s.kind # "read"))
            => c \in yes

(* What the user has denied is not run, whichever of the dialog, the poll  *)
(* loop's timeout and an outdated list of requests comes last.  A client   *)
(* that is asked as well may still approve it.                             *)
DeniedNeverRuns == \A c \in no : Runs(c) => elicits /\ c \in yes

(* "This request already expired; the agent was told it was not approved." *)
ToastIsTrue == \A c \in told : ~Runs(c)

(* The agent gets an answer to every call, whatever the user and the GUI   *)
(* do or leave undone.                                                     *)
CallsEnd == \A c \in Calls : call[c] \in {"waiting", "giving_up", "asking"}
                                ~> call[c] \in {"running", "ran", "refused", "dead"}

(* A request nobody waits for any more goes from the dialog of a GUI that  *)
(* stays up, even when its MCP process has died and left the row behind.   *)
DialogEmpties == \A c \in Calls : c \in pending ~> c \notin pending
=============================================================================
