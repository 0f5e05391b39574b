----------------------------- MODULE PoolConnect -----------------------------
(***************************************************************************)
(* The pool of one saved connection behind an ssh tunnel: the maps of the  *)
(* UI thread, the registry of cancel flags, and the attempts to connect    *)
(* that run on threads of their own and put a pool where everybody finds   *)
(* it.  Attempts are numbered, and so are the flags and the pools they     *)
(* make.  A connection without a tunnel is one whose tunnel never dies.    *)
(*                                                                         *)
(* Left out: the path without a background worker (the application always  *)
(* has one), closed pools, quitting, and the query that waits for a pool   *)
(* (TabSessions).                                                          *)
(*                                                                         *)
(* Quirks are the circumstances in which the code does not do what its     *)
(* comments promise.  The connection comes back to life when it is called  *)
(* off                                                                     *)
(*   shown     while an error is shown, for which the next frame drops the *)
(*             raised flag                                                 *)
(*   sync      during a background sync, which looks at no flag once it    *)
(*             has connected                                               *)
(*   race      after the worker's last look at the flag                    *)
(*   unmarked  during an attempt that is not marked as pending any more    *)
(*   overlap   after attempts that overlapped, for one cleans up for both  *)
(*   stall     after an attempt that outlived the watchdog and the flag.   *)
(* A pool over a dead tunnel is handed out                                 *)
(*   overlap   after attempts that overlapped                              *)
(*   renew     when a new attempt has renewed the tunnel, not the pool     *)
(*   busy      when the registry of tunnels was in use.                    *)
(***************************************************************************)
EXTENDS SshTunnel, Sequences

CONSTANTS MaxAttempts,  \* attempts of all kinds
          MaxSteps,     \* times it is called off or its pool looked for
          MaxFaults,    \* tunnels that die
          Quirks        \* circumstances in which the code breaks a promise

ASSUME PoolsAssumption ==
    /\ MaxAttempts \in Nat /\ Callers = 1..MaxAttempts
    /\ MaxSteps \in Nat /\ MaxFaults \in Nat
    /\ Quirks \subseteq {"shown", "overlap", "sync", "race", "unmarked",
                         "stall", "busy", "renew"}

VARIABLES conn,      \* what the UI thread knows, and the registry of flags
          begun,     \* number of attempts so far
          attempts,
          slow,      \* attempts that take longer than the watchdog waits
          answers,   \* the background results that wait for the UI thread
          looking,   \* the handler that looks for a pool, if one does
          acted,     \* the user has acted in this frame
          steps, faults

VARIABLES off,       \* history: called off since a connect was last asked for
          calledoff, \* history: attempts begun before the last such call
          stands,    \* history: no attempt was stopped that should not be
          served,    \* history: the last pool handed out could be used
          broken     \* history: the promises the Quirks have broken

bounds == <<steps, faults>>
uiVars == <<looking, acted, bounds>>
history == <<off, calledoff, stands, served, broken>>
vars == <<conn, begun, attempts, slow, answers, uiVars, history, tunnelVars>>

Reviving == {"shown", "sync", "race", "unmarked", "overlap", "stall"}
Wearing  == {"overlap", "renew", "busy"}

(* Some of the Quirks happen.                                              *)
Happen(quirks) ==
    /\ quirks \subseteq Quirks
    /\ broken' = broken \cup (IF quirks \cap Reviving # {} THEN {"off"} ELSE {})
                       \cup (IF quirks \cap Wearing # {} THEN {"served"} ELSE {})
If(condition, quirk) == IF condition THEN {quirk} ELSE {}

Ids == 1..MaxAttempts
NoLook == [for |-> "nothing", stale |-> 0]
NoAttempt == [kind |-> "none", stage |-> "none", flag |-> 0,
              exposed |-> FALSE]

(* local and shared are connection_pools and shared_connection_pools, flag *)
(* is the entry of CANCEL_FLAGS, raised the flags that have been raised.   *)
Init ==
    /\ conn = [local |-> 0, shared |-> 0, pending |-> FALSE, error |-> FALSE,
               flag |-> 0, raised |-> {}]
    /\ begun = 0
    /\ attempts = [a \in Ids |-> NoAttempt]
    /\ slow = {} /\ answers = <<>>
    /\ looking = NoLook /\ acted = FALSE
    /\ steps = 0 /\ faults = 0
    /\ off = TRUE /\ calledoff = 0 /\ stands = TRUE /\ served = TRUE
    /\ broken = {}
    /\ TunnelInit

At(stages) == {a \in 1..begun : attempts[a].stage \in stages}
UnderWay == {a \in 1..begun : attempts[a].stage # "ended"}
OfKind(kind) == {a \in UnderWay : attempts[a].kind = kind}
HasPool(c) == c.local # 0 \/ c.shared # 0
PoolOf(c) == IF c.local # 0 THEN c.local ELSE c.shared
Cancelled(c) == c.flag \in c.raised

(* Faulty: a flag that is there is used again.                             *)
MarkedAgain(c, a) == [c EXCEPT !.pending = TRUE,
                               !.flag = IF c.flag = 0 THEN a ELSE @]

(* begin_connect_attempt, signal_connect_cancel, end_connect_attempt,      *)
(* clear_pending_state                                                     *)
Marked(c, a)  == [c EXCEPT !.pending = TRUE, !.flag = a]

Signalled(c)  == IF c.flag = 0 THEN c ELSE [c EXCEPT !.raised = @ \cup {c.flag}]
Forgotten(c)  == [c EXCEPT !.flag = 0]
Unmarked(c)   == [c EXCEPT !.pending = FALSE]
NoPools(c)    == [c EXCEPT !.local = 0, !.shared = 0]
-----------------------------------------------------------------------------
(* Attempts i+1 to i+n of a kind begin, which the user or the tree asked   *)
(* for.  A sync registers no flag.  exposed is history: a raised flag is   *)
(* still registered, for 20 seconds at most, and may stop this sync too.   *)
Begin(n, kind) ==
    /\ begun + n <= MaxAttempts
    /\ begun' = begun + n
    /\ attempts' = [a \in Ids |->
          IF a \in begun + 1..begun + n
          THEN [NoAttempt EXCEPT !.kind = kind, !.stage = "queued",
                                 !.exposed = kind = "sync" /\ Cancelled(conn)]
          ELSE attempts[a]]
    /\ off' = FALSE
    /\ UNCHANGED <<slow, answers, calledoff, stands>>

Nothing == UNCHANGED <<begun, attempts, slow, answers, off, calledoff,
                       stands>>

(* Another attempt, or a call for its tunnel, is not over yet, or its      *)
(* answer not read.                                                        *)
Calling == {c \in Callers : caller[c] \in {"waiting", "spawning"}}
Overlapping == If(UnderWay \cup Calling # {} \/ answers # <<>>, "overlap")

(* start_background_pool_creation, n times; c is what is known by then.    *)
Start(c, n) ==
    /\ Begin(n, "pool")
    /\ conn' = Marked(c, begun')
    /\ Happen(Overlapping \cup If(n > 1, "overlap")
              \cup If(HasPool(c), "renew"))

(* ensure_background_pool_creation                                         *)
Startable(c) == ~HasPool(c) /\ ~c.pending
EnsurePool(c) ==
    IF Startable(c) THEN Start(c, 1)
    ELSE conn' = c /\ Nothing /\ Happen({})
-----------------------------------------------------------------------------
(* cleanup_completed_background_pools and then what                        *)
(* cleanup_stuck_pending_connections does about a pool that exists.        *)
Settled(c) ==
    IF c.shared # 0 \/ c.error THEN Forgotten(Unmarked(c))
    ELSE IF c.local # 0 THEN Unmarked(c) ELSE c

(* Its watchdog: 20 seconds have passed, more than an attempt may take.    *)
Overdue == UnderWay \subseteq slow /\ answers = <<>>
Released(c) == [c EXCEPT !.pending = FALSE, !.error = TRUE]

(* Faulty: without the watchdog.                                           *)
Unwatched == {Settled(conn)}

Tidied ==
    LET c == Settled(conn)
    IN {c} \cup (IF c.pending /\ ~HasPool(c) /\ Overdue THEN {Released(c)}
                 ELSE {})

Idle == looking = NoLook

(* The user acts once in a frame.                                          *)
Acts ==
    /\ Idle /\ ~acted
    /\ acted' = TRUE
    /\ UNCHANGED <<looking, faults>>

Steps == steps < MaxSteps /\ steps' = steps + 1

(* The start of every frame.                                               *)
CleanUp ==
    /\ Idle
    /\ conn' \in Tidied
    /\ acted' = FALSE
    /\ UNCHANGED <<begun, attempts, slow, answers, looking, bounds,
                   history, tunnelVars>>

(* process_background_results: RefreshComplete and DatabasesFetched, or    *)
(* ConnectionFailed and a refresh that failed.                             *)
Receive ==
    /\ Idle /\ answers # <<>>
    /\ conn' = [conn EXCEPT !.pending = FALSE, !.error = ~Head(answers)]
    /\ answers' = Tail(answers)
    /\ UNCHANGED <<begun, attempts, slow, uiVars, history, tunnelVars>>
-----------------------------------------------------------------------------
(* A query on a connection without a pool, a connection picked for a tab,  *)
(* or its node expanded in the tree, which clears the error.               *)
Want ==
    /\ Acts /\ UNCHANGED steps
    /\ \E c \in {conn, [conn EXCEPT !.error = FALSE]} :
          Startable(c) /\ EnsurePool(c)
    /\ UNCHANGED <<served, tunnelVars>>

(* Its node is clicked: after a failure the tables are loaded, which       *)
(* starts an attempt, and then one is started in any case.                 *)
Click ==
    /\ Acts /\ UNCHANGED steps
    /\ conn.local = 0
    /\ LET c == [conn EXCEPT !.error = FALSE]
       IN Start(c, IF conn.error /\ Startable(c) THEN 2 ELSE 1)
    /\ UNCHANGED <<served, tunnelVars>>

(* refresh_connection, or the tree and the idle application, which do not  *)
(* ask for what failed or is under way.                                    *)
Sync ==
    /\ Acts /\ UNCHANGED steps
    /\ Begin(1, "sync")
    /\ \/ conn' = [conn EXCEPT !.error = FALSE]
       \/ /\ ~conn.error \/ ~conn.pending
          /\ conn' = conn
    /\ Happen(Overlapping \cup If(conn.local # 0 /\ conn.shared = 0, "renew"))
    /\ UNCHANGED <<served, tunnelVars>>
-----------------------------------------------------------------------------
Shut == ShutNow \/ ShutLater
Busy == If(closing' /\ ~closing, "busy")

(* The user calls the connection off.                                      *)
CallOff ==
    /\ Acts /\ Steps
    /\ off' = TRUE
    /\ calledoff' = begun
    /\ Happen(If(conn'.error /\ UnderWay # {}, "shown")
              \cup If(OfKind("sync") # {}, "sync")
              \cup If(At({"passed"}) # {} \/ HasPool(conn'), "race")
              \cup If(~conn.pending /\ OfKind("pool") # {}, "unmarked")
              \cup Busy)
    /\ UNCHANGED <<begun, attempts, slow, answers, stands, served>>

(* cancel_connection_attempt, behind its button.                           *)
Cancel ==
    /\ conn.pending
    /\ conn' = [Unmarked(Signalled(conn)) EXCEPT !.error = TRUE]
    /\ Shut
    /\ CallOff

(* disconnect_connection: without an attempt there is nothing to signal,   *)
(* and the tunnel stays.                                                   *)
Disconnect ==
    /\ IF conn.pending
       THEN /\ conn' = [NoPools(Unmarked(Signalled(conn))) EXCEPT !.error = FALSE]
            /\ Shut
       ELSE conn' = NoPools(conn) /\ UNCHANGED tunnelVars
    /\ CallOff

(* cleanup_connection_pool: the connection was edited, or deleted, or its  *)
(* pool is ten minutes old.                                                *)
Drop ==
    /\ LET c == NoPools(Unmarked(Signalled(conn)))
       IN conn' = IF conn.pending THEN c ELSE Forgotten(c)
    /\ Shut
    /\ CallOff
-----------------------------------------------------------------------------
(* pool_uses_ssh_tunnel and tunnel_state_by_id: the tunnel of now, not the *)
(* one below the pool.                                                     *)
Unusable(c) == HasPool(c) /\ ~c.pending /\ ~Up(entry)

(* Faulty: a pool is never thrown away.                                    *)
KeepAll(c) ==
    /\ conn' = c
    /\ Happen({})
    /\ UNCHANGED tunnelVars

(* evict_unusable_pool.  The registry may be busy when it is asked for the *)
(* tunnel, or told to shut it down.                                        *)
Evict(c) ==
    IF Unusable(c)
    THEN \/ /\ conn' = NoPools(c)
            /\ entry' = 0 /\ closing' \in {closing, TRUE}
            /\ Happen(Busy)
            /\ UNCHANGED <<alive, caller, port>>
         \/ /\ conn' = c
            /\ Happen({"busy"})
            /\ UNCHANGED tunnelVars
    ELSE conn' = c /\ Happen({}) /\ UNCHANGED tunnelVars

(* The tunnel below the pool is up.                                        *)
Works(c) == HasPool(c) => Up(port[PoolOf(c)])

(* The handler will find a pool, wait for one, or has attempts left.       *)
Affords(for) ==
    \/ HasPool(conn') \/ conn'.pending
    \/ begun + (IF for = "data" THEN 2 ELSE 1) <= MaxAttempts

(* The start of pool_if_connected_or_start and of                          *)
(* get_or_create_connection_pool, and of prepare_query_job and             *)
(* spawn_session, which only evict.                                        *)
Look(for) ==
    /\ Idle /\ Steps
    /\ \E c \in IF for = "query" THEN {conn} ELSE Tidied :
          /\ Evict(c)
          /\ Affords(for)
          /\ looking' = [for |-> IF for = "query" /\ HasPool(c) /\ ~HasPool(conn')
                                THEN "another pool" ELSE for,
                         stale |-> IF c.pending \/ Works(c) THEN 0
                                   ELSE PoolOf(c)]
    /\ UNCHANGED <<begun, attempts, slow, answers, acted, faults, off,
                   calledoff, stands, served>>

Looked(for) ==
    /\ looking.for = for
    /\ looking' = NoLook
    /\ UNCHANGED <<acted, bounds, tunnelVars>>

(* A pool is handed out.                                                   *)
Hand(c) ==
    /\ served' = (PoolOf(c) # looking.stale)
    /\ Nothing
    /\ Happen({})

HandNothing == conn' = conn /\ Nothing /\ Happen({}) /\ UNCHANGED served

(* The rest of prepare_query_job and spawn_session.                        *)
Query ==
    /\ Looked("query")
    /\ IF HasPool(conn) THEN Hand(conn) /\ conn' = conn ELSE HandNothing

Requery ==
    /\ Looked("another pool")
    /\ EnsurePool(conn)
    /\ UNCHANGED served

(* The rest of pool_if_connected_or_start.                                 *)
Render ==
    /\ Looked("picture")
    /\ IF conn.local # 0 THEN Hand(conn) /\ conn' = conn
       ELSE IF conn.shared # 0
       THEN /\ Hand(conn)
            /\ conn' = [Forgotten(Unmarked(conn)) EXCEPT !.local = conn.shared]
       ELSE IF conn.error THEN HandNothing
       ELSE EnsurePool(conn) /\ UNCHANGED served

(* The rest of get_or_create_connection_pool: the UI thread connects       *)
(* itself for half a second.                                               *)
Fetch ==
    /\ looking.for = "data"
    /\ UNCHANGED <<acted, bounds, tunnelVars>>
    /\ IF HasPool(conn)
       THEN /\ looking' = NoLook
            /\ Hand(conn)
            /\ conn' = IF conn.local # 0 THEN conn
                       ELSE [Unmarked(conn) EXCEPT !.local = conn.shared]
       ELSE IF conn.pending THEN looking' = NoLook /\ HandNothing
       ELSE /\ looking' = [looking EXCEPT !.for = "quick"]
            /\ Begin(1, "quick")
            /\ conn' = Marked(conn, begun')
            /\ Happen(Overlapping)
            /\ UNCHANGED served
-----------------------------------------------------------------------------
(* Attempt a goes on to a stage; or ends.                                  *)
Goes(a, stage) ==
    /\ attempts' = [attempts EXCEPT ![a].stage = stage]
    /\ UNCHANGED <<begun, slow, uiVars, off, calledoff, served>>

Ended == [NoAttempt EXCEPT !.stage = "ended"]
Ends(a, reply) ==
    /\ attempts' = [attempts EXCEPT ![a] = Ended]
    /\ slow' = slow \ {a}
    /\ answers' = answers \o reply
    /\ UNCHANGED <<begun, uiVars, off, calledoff, served>>

Failed == <<FALSE>>

(* The connection cannot be read from the store, or its thread panics.     *)
Refused(a) ==
    /\ attempts[a].stage = "queued" /\ attempts[a].kind # "quick"
    /\ Ends(a, Failed)
    /\ UNCHANGED <<conn, stands, tunnelVars>>

(* It has been read, create_connection_pool_for_config looks for a flag    *)
(* and the tunnel is asked for.  A background sync takes a pool that is    *)
(* there.                                                                  *)
Dial(a) ==
    /\ attempts[a].stage = "queued"
    /\ IF attempts[a].kind = "sync" /\ conn.shared # 0
       THEN Goes(a, "reading") /\ UNCHANGED tunnelVars
       ELSE /\ attempts' = [attempts EXCEPT ![a].stage = "dialing",
                                            ![a].flag = conn.flag]
            /\ Calls(a)
            /\ UNCHANGED <<entry, alive, port, closing, begun, slow, uiVars,
                           off, calledoff, served>>
    /\ UNCHANGED <<conn, answers, stands>>

(* The server accepts through the tunnel.                                  *)
Connect(a) ==
    /\ attempts[a].stage = "dialing"
    /\ caller[a] = "ready" /\ Up(port[a])
    /\ Goes(a, IF attempts[a].kind = "sync" THEN "passed" ELSE "made")
    /\ UNCHANGED <<conn, answers, stands, tunnelVars>>

Stopped(a) == attempts[a].flag \in conn.raised

(* Nobody has called the connection off since a began.                     *)
Unaware(a) == a > calledoff /\ ~attempts[a].exposed

(* It fails, times out, or its flag is raised: then the tunnel it waits    *)
(* for goes on.                                                            *)
GiveUp(a) ==
    /\ attempts[a].stage = "dialing" /\ attempts[a].kind # "quick"
    /\ conn' = IF attempts[a].kind = "pool" /\ Cancelled(conn)
               THEN Forgotten(conn) ELSE conn
    /\ stands' = (stands /\ ~(Stopped(a) /\ Unaware(a)))
    /\ Ends(a, Failed)
    /\ UNCHANGED tunnelVars

(* Faulty: the pool is handed over whatever the flag says.                 *)
CheckNothing(a) ==
    /\ attempts[a].stage = "made" /\ attempts[a].kind = "pool"
    /\ Goes(a, "passed")
    /\ UNCHANGED <<conn, answers, stands, tunnelVars>>

(* The flag is read twice: create_connection_pool_by_id throws the pool of *)
(* a cancelled attempt away and reports; EnsureConnectionPool, when it was *)
(* cancelled in between, says nothing.                                     *)
Check(a) ==
    /\ attempts[a].stage = "made" /\ attempts[a].kind = "pool"
    /\ IF Cancelled(conn)
       THEN /\ stands' = (stands /\ ~Unaware(a))
            /\ \/ Ends(a, Failed) /\ conn' = Forgotten(conn) /\ Shut
               \/ Ends(a, <<>>) /\ UNCHANGED <<conn, tunnelVars>>
       ELSE /\ Goes(a, "passed")
            /\ UNCHANGED <<conn, answers, stands, tunnelVars>>

(* The pool is put where everybody finds it; a sync reads through it.      *)
Land(a) ==
    /\ attempts[a].stage = "passed"
    /\ conn' = [conn EXCEPT !.shared = a]
    /\ IF attempts[a].kind = "sync"
       THEN Goes(a, "reading") /\ UNCHANGED answers
       ELSE Ends(a, <<>>)
    /\ UNCHANGED <<stands, tunnelVars>>

Read(a) ==
    /\ attempts[a].stage = "reading"
    /\ \E ok \in BOOLEAN : Ends(a, <<ok>>)
    /\ UNCHANGED <<conn, stands, tunnelVars>>

(* The rest of get_or_create_connection_pool once the UI thread has been   *)
(* served, or has not, within half a second.                               *)
QuickMade(a) ==
    /\ attempts[a].stage = "made" /\ attempts[a].kind = "quick"
    /\ attempts' = [attempts EXCEPT ![a] = Ended]
    /\ conn' = [Forgotten(Unmarked(conn)) EXCEPT !.local = a]
    /\ looking' = NoLook
    /\ served' = TRUE
    /\ UNCHANGED <<begun, slow, answers, acted, bounds, off, calledoff,
                   stands, tunnelVars>>

QuickFails(a) ==
    /\ attempts[a].stage \in {"queued", "dialing"}
    /\ attempts[a].kind = "quick"
    /\ looking' = NoLook
    /\ begun < MaxAttempts
    /\ begun' = begun + 1
    /\ attempts' = [attempts EXCEPT ![a] = Ended,
                        ![begun'] = [NoAttempt EXCEPT !.kind = "pool",
                                                     !.stage = "queued"]]
    /\ conn' = Marked(conn, begun')
    /\ stands' = (stands /\ ~(Stopped(a) /\ Unaware(a)))
    /\ UNCHANGED <<slow, answers, acted, bounds, off, calledoff,
                   served, tunnelVars>>
-----------------------------------------------------------------------------
(* An attempt that outlives the watchdog.                                  *)
Stall(a) ==
    /\ attempts[a].kind = "pool" /\ a \in UnderWay \ slow
    /\ slow' = slow \cup {a}
    /\ Happen({"stall"})
    /\ UNCHANGED <<conn, begun, attempts, answers, uiVars, off, calledoff,
                   stands, served, tunnelVars>>

(* current_cancel_flag forgets a flag 20 seconds after it was raised, when *)
(* every attempt it was raised for has ended or stalls.                    *)
Expire ==
    /\ conn.flag # 0 /\ Cancelled(conn) /\ UnderWay \subseteq slow
    /\ conn' = Forgotten(conn)
    /\ UNCHANGED <<begun, attempts, slow, answers, uiVars, history, tunnelVars>>

Die ==
    /\ faults < MaxFaults
    /\ faults' = faults + 1
    /\ TunnelDies
    /\ UNCHANGED <<conn, begun, attempts, slow, answers, looking, acted, steps,
                   history>>

Threads ==
    /\ ShutAtLast \/ \E c \in Callers : Thread(c)
    /\ UNCHANGED <<conn, begun, attempts, slow, answers, uiVars, history>>

Worker(a) ==
    /\ \/ Refused(a) \/ Dial(a) \/ Connect(a) \/ GiveUp(a) \/ Check(a)
       \/ Land(a) \/ Read(a) \/ QuickMade(a) \/ QuickFails(a)
    /\ Happen(Busy \cup If(begun' > begun /\ Calling # {}, "overlap"))

UI ==
    \/ CleanUp \/ Receive
    \/ Query \/ Requery \/ Render \/ Fetch

User ==
    \/ Want \/ Click \/ Sync \/ Cancel \/ Disconnect \/ Drop
    \/ \E for \in {"query", "picture", "data"} : Look(for)

Next ==
    \/ User \/ UI \/ Threads \/ Expire \/ Die
    \/ \E a \in 1..begun : Worker(a) \/ Stall(a)

(* Frames are drawn and threads run; nobody waits for the user, for slow   *)
(* attempts, for tunnels to die, or for the threads of the tunnel.         *)
Fairness ==
    /\ WF_vars(CleanUp) /\ WF_vars(UI)
    /\ \A a \in Ids : WF_vars(a \in UnderWay \ slow /\ Worker(a))

Spec == Init /\ [][Next]_vars /\ Fairness
-----------------------------------------------------------------------------
Stages == {"none", "queued", "dialing", "made", "passed", "reading", "ended"}

TypeOK ==
    /\ conn \in [local : 0..begun, shared : 0..begun, pending : BOOLEAN,
                  error : BOOLEAN, flag : 0..begun, raised : SUBSET (1..begun)]
    /\ attempts \in [Ids -> [kind : {"none", "pool", "quick", "sync"},
                             stage : Stages, flag : 0..begun,
                             exposed : BOOLEAN]]
    /\ entry \in 0..begun /\ alive \subseteq 1..begun

(* "A connection the user has just closed must not come back to life"      *)
(* (create_connection_pool_by_id, cleanup_connection_pool): after it is    *)
(* disconnected or edited no attempt puts a pool, unless one is asked for. *)
ClosedStaysClosed == off => ~HasPool(conn)
StaysOff == "off" \in broken \/ ClosedStaysClosed

(* A cancellation is for the attempts under way when the connection was    *)
(* called off, whichever flag they find (begin_connect_attempt,            *)
(* current_cancel_flag): it stops none that begins afterwards, whatever    *)
(* its kind, but for a sync that begins while the raised flag is still     *)
(* registered (exposed).  Such a sync is stopped by a flag that was raised *)
(* before it, though the user may have asked for it since.                 *)
NewAttemptsStand == stands

(* A pool is never handed out over a tunnel that had died by then.         *)
ServedPoolsWork == "served" \in broken \/ served

(* An attempt that never reports does not leave the connection pending for *)
(* ever, for a pending connection is not connected again.                  *)
PendingEnds == conn.pending ~> ~conn.pending
=============================================================================
