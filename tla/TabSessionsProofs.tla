-------------------------- MODULE TabSessionsProofs --------------------------
(***************************************************************************)
(* What a tab in manual-commit mode runs is committed only when Commit was *)
(* pressed for it, runs where its tab showed that it would, is not         *)
(* committed once the user was told that it is rolled back, and is not     *)
(* lost unasked: for every set of tabs and targets, every number of        *)
(* statements and all the Quirks.  The first part proves what sessions     *)
(* hold and where (Inv), the second what becomes of it (Fates).            *)
(***************************************************************************)
EXTENDS TabSessions, TLAPS

AnyTarget == Targets \cup {NoTarget}

Tab == [open : BOOLEAN, target : AnyTarget, tx_mode : BOOLEAN,
        tx_active : BOOLEAN, session : Nat]

Command == [op : {"Execute", "Commit", "Rollback", "Close"}, job : Nat]

Session == [target : AnyTarget, queue : Seq(Command), tx : BOOLEAN,
            work : SUBSET Nat, flag : BOOLEAN, ended : BOOLEAN]

(* What a session holds or is yet to execute.                              *)
Has(s) == s.work \cup Queued(s)

(* Commit was pressed for all a queued Commit will find.                   *)
Asks(s, wanted) ==
    \A k \in 1..Len(s.queue) :
        s.queue[k].op = "Commit" =>
            /\ s.work \subseteq wanted
            /\ \A i \in 1..(k - 1) :
                  s.queue[i].op = "Execute" => s.queue[i].job \in wanted

(* A session of n jobs: wanted are those of Commit, place is where each is *)
(* meant to run, unless free.                                              *)
Proper(s, n, wanted, place, free) ==
    /\ s \in Session
    /\ Has(s) \subseteq 1..n
    /\ Asks(s, wanted)
    /\ free \/ \A j \in Has(s) : place[j] = s.target

LEMMA ProperLater ==
    ASSUME NEW s, NEW n \in Nat, NEW wanted, NEW place, NEW free \in BOOLEAN,
           NEW n2 \in Nat, NEW wanted2, NEW place2, NEW free2 \in BOOLEAN,
           Proper(s, n, wanted, place, free),
           n <= n2, wanted \subseteq wanted2, free => free2,
           free2 \/ \A j \in 1..n : place2[j] = place[j]
    PROVE  Proper(s, n2, wanted2, place2, free2)
<1>1. Asks(s, wanted2)
  BY DEF Proper, Asks
<1>2. free2 \/ \A j \in Has(s) : place2[j] = s.target
  BY DEF Proper
<1>3. Has(s) \subseteq 1..n2
  BY DEF Proper
<1>4. QED
  BY <1>1, <1>2, <1>3 DEF Proper

LEMMA InQueue ==
    ASSUME NEW s, s.queue \in Seq(Command), NEW j
    PROVE  j \in Queued(s) <=> \E i \in 1..Len(s.queue) :
                 s.queue[i].op = "Execute" /\ j = s.queue[i].job
<1>1. DOMAIN s.queue = 1..Len(s.queue)
  OBVIOUS
<1>2. QED
  BY <1>1, Zenon DEF Queued

(* A command is sent.                                                      *)
LEMMA ProperSent ==
    ASSUME NEW s, NEW n \in Nat, NEW wanted, NEW place, NEW free \in BOOLEAN,
           Proper(s, n, wanted, place, free),
           NEW c \in Command,
           c.op = "Execute" => /\ c.job \in 1..n
                               /\ free \/ place[c.job] = s.target,
           c.op = "Commit" => Has(s) \subseteq wanted
    PROVE  Proper([s EXCEPT !.queue = Append(@, c)], n, wanted, place, free)
<1> DEFINE q == s.queue
           p == Append(q, c)
           u == [s EXCEPT !.queue = p]
<1>1. /\ s \in Session /\ q \in Seq(Command) /\ p \in Seq(Command)
      /\ Len(q) \in Nat /\ Len(p) = Len(q) + 1
      /\ \A i \in 1..Len(q) : p[i] = q[i]
      /\ p[Len(q) + 1] = c
  BY DEF Proper, Session
<1> HIDE DEF p
<1>2. \A i \in 1..Len(p) : i \in 1..Len(q) \/ i = Len(q) + 1
  BY <1>1
<1>3. u \in Session /\ u.queue = p /\ u.work = s.work /\ u.target = s.target
  BY <1>1 DEF Session
<1> HIDE DEF u
<1>4. \A j \in Has(u) : j \in Has(s) \/ (c.op = "Execute" /\ j = c.job)
  <2> SUFFICES ASSUME NEW j \in Queued(u)
               PROVE  j \in Has(s) \/ (c.op = "Execute" /\ j = c.job)
    BY <1>3 DEF Has
  <2>1. PICK i \in 1..Len(p) : p[i].op = "Execute" /\ j = p[i].job
    BY <1>1, <1>3, InQueue
  <2>2. CASE i \in 1..Len(q)
    BY <2>1, <2>2, <1>1, InQueue DEF Has
  <2>3. QED
    BY <2>1, <2>2, <1>1, <1>2
<1>5. Asks(u, wanted)
  <2>1. \A i \in 1..Len(q) : q[i].op = "Execute" => q[i].job \in Has(s)
    BY <1>1, InQueue DEF Has
  <2>2. s.work \subseteq Has(s)
    BY DEF Has
  <2> SUFFICES ASSUME NEW k \in 1..Len(p), p[k].op = "Commit"
               PROVE  /\ s.work \subseteq wanted
                      /\ \A i \in 1..(k - 1) :
                            p[i].op = "Execute" => p[i].job \in wanted
    BY <1>3 DEF Asks
  <2>3. CASE k \in 1..Len(q)
    <3>1. q[k].op = "Commit"
      BY <2>3, <1>1
    <3>2. /\ s.work \subseteq wanted
          /\ \A i \in 1..(k - 1) : q[i].op = "Execute" => q[i].job \in wanted
      BY <2>3, <3>1 DEF Proper, Asks
    <3>3. \A i \in 1..(k - 1) : p[i] = q[i]
      BY <2>3, <1>1
    <3>4. QED
      BY <3>2, <3>3
  <2>4. CASE k = Len(q) + 1
    BY <2>1, <2>2, <2>4, <1>1
  <2>5. QED
    BY <2>3, <2>4, <1>2
<1>6. Has(u) \subseteq 1..n
  BY <1>4 DEF Proper
<1>7. free \/ \A j \in Has(u) : place[j] = u.target
  BY <1>3, <1>4 DEF Proper
<1>8. QED
  BY <1>3, <1>5, <1>6, <1>7 DEF Proper, p, u

(* The first command is done with.                                         *)
LEMMA ProperDone ==
    ASSUME NEW s, NEW n \in Nat, NEW wanted, NEW place, NEW free \in BOOLEAN,
           Proper(s, n, wanted, place, free),
           s.queue # <<>>,
           NEW u \in Session, u.queue = Tail(s.queue), u.target = s.target,
           \/ u.work \subseteq s.work
           \/ /\ Head(s.queue).op = "Execute"
              /\ u.work \subseteq s.work \cup {Head(s.queue).job}
    PROVE  Proper(u, n, wanted, place, free)
<1> DEFINE q == s.queue
           p == Tail(q)
<1>1. /\ q \in Seq(Command) /\ p \in Seq(Command) /\ u.queue = p
      /\ Len(q) \in Nat /\ Len(q) >= 1 /\ Len(p) = Len(q) - 1
      /\ Head(q) = q[1]
      /\ \A i \in 1..Len(p) : p[i] = q[i + 1] /\ i + 1 \in 1..Len(q)
  BY DEF Proper, Session
<1> HIDE DEF p
<1>2. 1 \in 1..Len(q)
  BY <1>1
<1>3. \A i \in 1..Len(q) : q[i].op = "Execute" => q[i].job \in Has(s)
  BY <1>1, InQueue DEF Has
<1>4. u.work \subseteq Has(s)
  BY <1>1, <1>2, <1>3 DEF Has
<1>5. Queued(u) \subseteq Has(s)
  <2> SUFFICES ASSUME NEW j \in Queued(u)
               PROVE  j \in Has(s)
    OBVIOUS
  <2>1. PICK i \in 1..Len(p) : p[i].op = "Execute" /\ j = p[i].job
    BY <1>1, InQueue, SMTT(40)
  <2>2. QED
    BY <2>1, <1>1, <1>3
<1>6. Has(u) \subseteq Has(s)
  BY <1>4, <1>5 DEF Has
<1>7. Asks(u, wanted)
  <2> SUFFICES ASSUME NEW k \in 1..Len(p), p[k].op = "Commit"
               PROVE  /\ u.work \subseteq wanted
                      /\ \A i \in 1..(k - 1) :
                            p[i].op = "Execute" => p[i].job \in wanted
    BY <1>1 DEF Asks
  <2>1. k + 1 \in 1..Len(q) /\ q[k + 1].op = "Commit" /\ k \in Nat
    BY <1>1
  <2>2. /\ s.work \subseteq wanted
        /\ \A i \in 1..k : q[i].op = "Execute" => q[i].job \in wanted
    <3>1. Asks(s, wanted)
      BY DEF Proper
    <3>2. /\ s.work \subseteq wanted
          /\ \A i \in 1..((k + 1) - 1) :
                q[i].op = "Execute" => q[i].job \in wanted
      BY <2>1, <3>1, Zenon DEF Asks
    <3>3. (k + 1) - 1 = k
      BY <2>1
    <3>4. QED
      BY <3>2, <3>3
  <2>3. u.work \subseteq wanted
    BY <2>1, <2>2, <1>1
  <2>4. \A i \in 1..(k - 1) : i \in 1..Len(p) /\ i + 1 \in 1..k /\ p[i] = q[i + 1]
    BY <1>1
  <2>5. QED
    BY <2>2, <2>3, <2>4
<1>8. QED
  BY <1>6, <1>7 DEF Proper
-----------------------------------------------------------------------------
(* All sessions, and the tabs that hold them.                              *)
AllProper(ss, n, wanted, place, free) ==
    /\ ss \in Seq(Session)
    /\ \A s \in 1..Len(ss) : Proper(ss[s], n, wanted, place, free)

(* A tab shows the target of a session that it will use again.             *)
TabProper(tab, ss, free) ==
    /\ tab \in Tab
    /\ tab.session \in 0..Len(ss)
    /\ \/ free
       \/ tab.session = 0
       \/ tab.target = NoTarget
       \/ ss[tab.session].target.conn = tab.target.conn
             => ss[tab.session].target = tab.target

TabsProper(tt, ss, free) ==
    /\ tt \in [Tabs -> Tab]
    /\ \A t \in Tabs : TabProper(tt[t], ss, free)

Grows(ss, ss2) ==
    /\ Len(ss) <= Len(ss2)
    /\ \A s \in 1..Len(ss) : ss2[s].target = ss[s].target

LEMMA TabLater ==
    ASSUME NEW ss \in Seq(Session), NEW ss2 \in Seq(Session), Grows(ss, ss2),
           NEW free \in BOOLEAN, NEW free2 \in BOOLEAN, free => free2,
           NEW tab, TabProper(tab, ss, free)
    PROVE  TabProper(tab, ss2, free2)
<1>1. tab.session # 0 => tab.session \in 1..Len(ss)
  BY DEF TabProper, Tab
<1>2. tab.session \in 0..Len(ss2)
  BY DEF TabProper, Grows
<1>3. QED
  BY <1>1, <1>2 DEF TabProper, Grows

(* One session becomes u.                                                  *)
LEMMA OneChanged ==
    ASSUME NEW ss, NEW n, NEW wanted, NEW place, NEW free,
           AllProper(ss, n, wanted, place, free),
           NEW s \in 1..Len(ss), NEW u, Proper(u, n, wanted, place, free),
           u.target = ss[s].target
    PROVE  /\ AllProper([ss EXCEPT ![s] = u], n, wanted, place, free)
           /\ Grows(ss, [ss EXCEPT ![s] = u])
<1> DEFINE ss2 == [ss EXCEPT ![s] = u]
<1>1. u \in Session /\ ss \in Seq(Session)
  BY DEF AllProper, Proper
<1>2. /\ ss2 \in Seq(Session) /\ Len(ss2) = Len(ss) /\ Len(ss) \in Nat
      /\ \A i \in 1..Len(ss) : ss2[i] = IF i = s THEN u ELSE ss[i]
  BY <1>1
<1> HIDE DEF ss2
<1>3. AllProper(ss2, n, wanted, place, free)
  BY <1>2 DEF AllProper
<1>4. Grows(ss, ss2)
  BY <1>2 DEF Grows
<1>5. QED
  BY <1>3, <1>4 DEF ss2

LEMMA OneAdded ==
    ASSUME NEW ss, NEW n, NEW wanted, NEW place, NEW free,
           AllProper(ss, n, wanted, place, free),
           NEW u, Proper(u, n, wanted, place, free)
    PROVE  /\ AllProper(Append(ss, u), n, wanted, place, free)
           /\ Grows(ss, Append(ss, u))
           /\ Append(ss, u)[Len(ss) + 1] = u
           /\ Len(Append(ss, u)) = Len(ss) + 1
<1> DEFINE ss2 == Append(ss, u)
<1>1. u \in Session /\ ss \in Seq(Session)
  BY DEF AllProper, Proper
<1>2. /\ ss2 \in Seq(Session) /\ Len(ss2) = Len(ss) + 1 /\ Len(ss) \in Nat
      /\ \A i \in 1..Len(ss) : ss2[i] = ss[i]
      /\ ss2[Len(ss) + 1] = u
  BY <1>1
<1> HIDE DEF ss2
<1>3. AllProper(ss2, n, wanted, place, free)
  <2>1. \A i \in 1..Len(ss2) : i \in 1..Len(ss) \/ i = Len(ss) + 1
    BY <1>2
  <2>2. QED
    BY <1>2, <2>1 DEF AllProper
<1>4. Grows(ss, ss2)
  BY <1>2 DEF Grows
<1>5. QED
  BY <1>2, <1>3, <1>4 DEF ss2

(* Closing the sessions of some tabs.                                      *)
LEMMA ReleasedProper ==
    ASSUME NEW n \in Nat, NEW wanted, NEW place, NEW free \in BOOLEAN,
           AllProper(sessions, n, wanted, place, free), NEW T
    PROVE  /\ AllProper(Released(T), n, wanted, place, free)
           /\ Grows(sessions, Released(T))
           /\ Len(Released(T)) = Len(sessions)
<1> DEFINE ss == Released(T)
           Shut(s) == [sessions[s] EXCEPT !.queue = Append(@, Close)]
<1>1. sessions \in Seq(Session) /\ Len(sessions) \in Nat
      /\ DOMAIN sessions = 1..Len(sessions)
  BY DEF AllProper
<1>2. ASSUME NEW s \in 1..Len(sessions)
      PROVE  /\ Proper(Shut(s), n, wanted, place, free)
             /\ Shut(s).target = sessions[s].target
  <2>1. sessions[s] \in Session
    BY <1>1
  <2>2. Close \in Command /\ Close.op = "Close"
    BY DEF Close, Command
  <2>3. Proper(sessions[s], n, wanted, place, free)
    BY DEF AllProper
  <2>4. Proper(Shut(s), n, wanted, place, free)
    BY <2>2, <2>3, ProperSent, ZenonT(60)
  <2>5. Shut(s).target = sessions[s].target
    BY <2>1 DEF Session
  <2>6. QED
    BY <2>4, <2>5
<1>3. /\ DOMAIN ss = 1..Len(sessions)
      /\ \A s \in 1..Len(sessions) : ss[s] \in {sessions[s], Shut(s)}
  BY <1>1 DEF Released
<1>4. \A s \in 1..Len(sessions) : ss[s] \in Session
  BY <1>1, <1>2, <1>3, SMTT(40) DEF Proper
<1>5. ss \in Seq(Session) /\ Len(ss) = Len(sessions)
  <2>1. ss = [s \in 1..Len(sessions) |-> ss[s]]
    BY <1>1 DEF Released
  <2> HIDE DEF ss
  <2>2. QED
    BY <1>1, <1>4, <2>1
<1>6. \A s \in 1..Len(ss) : /\ Proper(ss[s], n, wanted, place, free)
                            /\ ss[s].target = sessions[s].target
  BY <1>2, <1>3, <1>5 DEF AllProper
<1> HIDE DEF ss
<1>7. QED
  BY <1>1, <1>5, <1>6 DEF AllProper, Grows, ss
-----------------------------------------------------------------------------
DatabasePicked == Unless({"database"})

JobsInv ==
    /\ jobs \in 0..MaxJobs
    /\ auto \subseteq 1..jobs
    /\ manual \subseteq 1..jobs
    /\ slot \in [job : 0..jobs, conn : Nat]
    /\ slot # NoQuery => slot.job # 0
    /\ committed \subseteq 1..jobs
    /\ meant \in [1..MaxJobs -> AnyTarget]

SessionsInv == AllProper(sessions, jobs, asked, meant, DatabasePicked)

TabsInv == /\ TabsProper(tabs, sessions, DatabasePicked)
           /\ current \in Tabs
           /\ asking \in Tabs \cup {0}

(* What a pool connection commits was run in a tab without manual commit.  *)
CommitInv ==
    \/ Unless({"pool wait"})
    \/ /\ auto \cap manual = {}
       /\ slot.job \notin manual
       /\ NothingCommittedUnasked

Inv == JobsInv /\ SessionsInv /\ TabsInv /\ CommitInv
LEMMA JobsBounded == MaxJobs \in Nat
BY TabsAssumption, Zenon

LEMMA InvInitially == Init => Inv
<1> SUFFICES ASSUME Init PROVE Inv
  OBVIOUS
<1>1. sessions = <<>> /\ Len(sessions) = 0
  BY DEF Init
<1>2. JobsInv
  <2>1. meant \in [1..MaxJobs -> AnyTarget]
    BY DEF Init, AnyTarget
  <2>2. jobs \in 0..MaxJobs /\ slot \in [job : 0..jobs, conn : Nat]
    <3>1. jobs = 0 /\ slot = NoQuery
      BY DEF Init
    <3>2. QED
      BY <3>1, JobsBounded DEF NoQuery
  <2>3. QED
    BY <2>1, <2>2 DEF Init, JobsInv
<1>3. SessionsInv
  BY <1>1 DEF SessionsInv, AllProper
<1>4. TabsInv
  <2>1. PICK target \in Targets :
           tabs = [t \in Tabs |-> IF t = 1 THEN Fresh(target) ELSE Closed]
    BY DEF Init
  <2>2. Fresh(target) \in Tab /\ Fresh(target).session = 0
    BY DEF Fresh, Closed, Tab, AnyTarget
  <2>3. Closed \in Tab /\ Closed.session = 0
    BY DEF Closed, Tab, AnyTarget
  <2>4. \A t \in Tabs : TabProper(tabs[t], sessions, DatabasePicked)
    BY <1>1, <2>1, <2>2, <2>3 DEF TabProper
  <2>5. QED
    BY <2>1, <2>2, <2>3, <2>4, TabsAssumption DEF Init, TabsInv, TabsProper
<1>5. CommitInv
  BY DEF Init, CommitInv, NothingCommittedUnasked
<1>6. QED
  BY <1>2, <1>3, <1>4, <1>5 DEF Inv

LEMMA ClosedTab == Closed \in Tab /\ Closed.session = 0 /\ Closed.target = NoTarget
BY DEF Closed, Tab, AnyTarget

(* What the steps that leave something alone need.                         *)
LEMMA SessionsIdle ==
    ASSUME Inv, broken \subseteq broken', asked \subseteq asked',
           UNCHANGED <<sessions, jobs, meant>>
    PROVE  SessionsInv' /\ Grows(sessions, sessions')
<1>1. jobs \in Nat
  BY JobsBounded DEF Inv, JobsInv
<1>2. /\ DatabasePicked \in BOOLEAN /\ DatabasePicked' \in BOOLEAN
      /\ DatabasePicked => DatabasePicked'
  BY DEF DatabasePicked, Unless
<1>3. \A s \in 1..Len(sessions) :
         Proper(sessions[s], jobs, asked', meant, DatabasePicked')
  BY <1>1, <1>2, ProperLater DEF Inv, SessionsInv, AllProper
<1>4. QED
  BY <1>3 DEF Inv, SessionsInv, AllProper, Grows

LEMMA TabsIdle ==
    ASSUME Inv, broken \subseteq broken',
           sessions' \in Seq(Session), Grows(sessions, sessions'),
           NEW t \in Tabs
    PROVE  /\ TabProper(tabs[t], sessions', DatabasePicked')
           /\ tabs[t] \in Tab
<1>1. /\ DatabasePicked \in BOOLEAN /\ DatabasePicked' \in BOOLEAN
      /\ DatabasePicked => DatabasePicked'
  BY DEF DatabasePicked, Unless
<1>2. sessions \in Seq(Session) /\ TabProper(tabs[t], sessions, DatabasePicked)
  BY DEF Inv, SessionsInv, AllProper, TabsInv, TabsProper
<1>3. QED
  BY <1>1, <1>2, TabLater DEF TabProper

LEMMA CommitsIdle ==
    ASSUME Inv, broken \subseteq broken', asked \subseteq asked',
           manual' = manual,
           auto' \subseteq auto \cup ({slot.job} \ {0}),
           slot' \in {slot, NoQuery},
           committed' \subseteq committed \cup auto
    PROVE  CommitInv'
<1>1. CASE Unless({"pool wait"})
  BY <1>1 DEF CommitInv, Unless
<1>2. CASE ~Unless({"pool wait"})
  <2>1. /\ auto \cap manual = {}
        /\ slot.job \notin manual
        /\ committed \cap manual \subseteq asked
    BY <1>2 DEF Inv, CommitInv, NothingCommittedUnasked
  <2>2. manual \subseteq 1..jobs /\ jobs \in Int
    BY DEF Inv, JobsInv
  <2>3. 0 \notin manual
    BY <2>2
  <2>4. slot'.job \notin manual
    BY <2>1, <2>3 DEF NoQuery
  <2>5. /\ auto' \cap manual = {}
        /\ committed' \cap manual \subseteq asked'
    BY <2>1
  <2>6. QED
    BY <2>4, <2>5 DEF CommitInv, NothingCommittedUnasked
<1>3. QED
  BY <1>1, <1>2

(* The marks of the tabs change, and nothing a session has to do with.     *)
LEMMA MarksKeep ==
    ASSUME Inv, broken \subseteq broken',
           UNCHANGED <<sessions, jobs, meant, manual, asked>>,
           auto' \subseteq auto \cup ({slot.job} \ {0}),
           slot' \in {slot, NoQuery},
           committed' \subseteq committed \cup auto,
           current' \in Tabs, asking' \in Tabs \cup {0},
           tabs' \in [Tabs -> Tab],
           \A t \in Tabs :
              \/ /\ tabs'[t].session = tabs[t].session
                 /\ tabs'[t].target \in {tabs[t].target, NoTarget}
              \/ tabs'[t].session = 0
    PROVE  Inv'
<1>1. SessionsInv' /\ Grows(sessions, sessions')
  BY SessionsIdle
<1>2. JobsInv'
  BY DEF Inv, JobsInv, NoQuery
<1>3. CommitInv'
  BY CommitsIdle
<1>4. TabsInv'
  <2>1. ASSUME NEW t \in Tabs
        PROVE  TabProper(tabs'[t], sessions', DatabasePicked')
    <3>1. sessions' \in Seq(Session) /\ Len(sessions') \in Nat
      BY <1>1 DEF SessionsInv, AllProper
    <3>2. TabProper(tabs[t], sessions', DatabasePicked')
      BY <1>1, <3>1, TabsIdle
    <3>3. QED
      BY <3>1, <3>2 DEF TabProper
  <2>2. QED
    BY <2>1 DEF TabsInv, TabsProper
<1>5. QED
  BY <1>1, <1>2, <1>3, <1>4 DEF Inv

LEMMA BrokenGrows == [Next]_vars => broken \subseteq broken'
BY DEF Next, vars, User, NewTab, SwitchTab, PickTarget, TurnOn, PaletteOff,
       BoxOff, Run, PressCommit, PressRollback, Send, CloseTab, ConfirmClose,
       KeepTab, CloseOthers, CloseNow, Emptied, Leaving, Frame, PoolReady,
       WaitEnds, AutoEnds, Task, Store, Does, DoExecute, ExecuteFails,
       ExecuteTimesOut, DoCommit, DoRollback, FinishFails, DoClose, history,
       Quirk, NoQuirk
(* The steps of the tabs that send nothing to a session.                   *)
LEMMA TabsTyped ==
    ASSUME Inv
    PROVE  /\ tabs \in [Tabs -> Tab] /\ current \in Tabs
           /\ asking \in Tabs \cup {0}
           /\ sessions \in Seq(Session)
           /\ \A t \in Tabs : tabs[t].session \in Nat
BY DEF Inv, TabsInv, TabsProper, SessionsInv, AllProper, Tab

LEMMA TogglesKeep ==
    ASSUME Inv, broken \subseteq broken',
           NewTab \/ SwitchTab \/ TurnOn \/ PaletteOff \/ KeepTab
    PROVE  Inv'
<1> USE TabsTyped DEF jobVars, wishes, fates, history
<1>1. CASE NewTab
  <2>1. PICK t \in Tabs :
           tabs' = [tabs EXCEPT ![t] = Fresh(tabs[current].target)]
    BY <1>1 DEF NewTab, Open
  <2>2. /\ Fresh(tabs[current].target) \in Tab
        /\ Fresh(tabs[current].target).session = 0
    BY DEF Fresh, Closed, Tab
  <2>3. current' \in Tabs /\ asking' = asking
    BY <1>1 DEF NewTab, Open
  <2>4. UNCHANGED <<jobVars, sessions, history>>
    BY <1>1 DEF NewTab
  <2>5. /\ tabs' \in [Tabs -> Tab]
        /\ \A u \in Tabs : \/ tabs'[u] = tabs[u]
                           \/ tabs'[u].session = 0
    BY <2>1, <2>2
  <2>6. QED
    BY <2>3, <2>4, <2>5, MarksKeep
<1>2. CASE SwitchTab \/ KeepTab
  <2>1. /\ UNCHANGED <<tabs, jobVars, sessions, history>>
        /\ current' \in Tabs /\ asking' \in Tabs \cup {0}
    BY <1>2 DEF SwitchTab, KeepTab, Open
  <2>2. QED
    BY <2>1, MarksKeep
<1>3. CASE TurnOn \/ PaletteOff
  <2>1. PICK b \in BOOLEAN : tabs' = [tabs EXCEPT ![current].tx_mode = b]
    BY <1>3 DEF TurnOn, PaletteOff
  <2>2. /\ tabs' \in [Tabs -> Tab]
        /\ \A u \in Tabs : /\ tabs'[u].session = tabs[u].session
                           /\ tabs'[u].target = tabs[u].target
    BY <2>1 DEF Tab
  <2>3. UNCHANGED <<current, asking, jobVars, sessions, wishes, committed>>
    BY <1>3 DEF TurnOn, PaletteOff
  <2>4. QED
    BY <2>2, <2>3, MarksKeep
<1>4. QED
  BY <1>1, <1>2, <1>3

(* Another target: the session is left alone, and used again only if the   *)
(* connection is the same.                                                 *)
LEMMA PickKeeps ==
    ASSUME Inv, broken \subseteq broken', PickTarget
    PROVE  Inv'
<1> USE TabsTyped DEF jobVars, wishes, fates
<1>1. PICK target \in Targets :
         LET s == tabs[current].session IN
         /\ IF s = 0 THEN NoQuirk
            ELSE IF sessions[s].target = target THEN NoQuirk
            ELSE Quirk(IF target.conn = sessions[s].target.conn
                       THEN "database" ELSE "reconnect")
         /\ tabs' = [tabs EXCEPT ![current].target = target]
  BY DEF PickTarget
<1>2. UNCHANGED <<current, asking, jobVars, sessions, wishes, fates>>
  BY DEF PickTarget
<1>3. SessionsInv' /\ Grows(sessions, sessions')
  BY <1>2, SessionsIdle
<1>4. JobsInv'
  BY <1>2 DEF Inv, JobsInv
<1>5. CommitInv'
  BY <1>2, CommitsIdle
<1>6. tabs' \in [Tabs -> Tab]
  BY <1>1 DEF Tab, AnyTarget
<1>7. ASSUME NEW t \in Tabs
      PROVE  TabProper(tabs'[t], sessions', DatabasePicked')
  <2>1. TabProper(tabs[t], sessions', DatabasePicked')
    BY <1>2, <1>3, TabsIdle
  <2>2. CASE t # current
    BY <1>1, <2>1, <2>2
  <2>3. CASE t = current
    <3> DEFINE s == tabs[t].session
    <3>1. tabs'[t].session = s /\ tabs'[t].target = target /\ tabs'[t] \in Tab
      BY <1>1, <1>6, <2>3
    <3>2. s \in 0..Len(sessions')
      BY <2>1 DEF TabProper
    <3>3. CASE s = 0 \/ sessions[s].target = target
      BY <1>2, <3>1, <3>2, <3>3 DEF TabProper
    <3>4. CASE s # 0 /\ sessions[s].target # target
      <4>1. \/ target.conn # sessions[s].target.conn
            \/ "database" \in broken'
        BY <1>1, <2>3, <3>4 DEF Quirk
      <4>2. target.conn # sessions[s].target.conn \/ DatabasePicked'
        BY <4>1 DEF DatabasePicked, Unless
      <4>3. QED
        BY <1>2, <3>1, <3>2, <4>2 DEF TabProper
    <3>5. QED
      BY <3>3, <3>4
  <2>4. QED
    BY <2>2, <2>3
<1>8. TabsInv'
  BY <1>2, <1>6, <1>7 DEF TabsInv, TabsProper
<1>9. QED
  BY <1>3, <1>4, <1>5, <1>8 DEF Inv
(* The frame moves the marks, and the query that waited to a pool.         *)
LEMMA FrameKeeps ==
    ASSUME Inv, broken \subseteq broken',
           Frame \/ PoolReady \/ WaitEnds \/ AutoEnds
    PROVE  Inv'
<1> USE TabsTyped DEF jobVars, wishes, fates, history, uiVars
<1>1. CASE Frame
  <2>1. /\ tabs' = [t \in Tabs |-> Synced(tabs[t])]
        /\ UNCHANGED <<current, asking, sessions, jobs, meant, manual, asked,
                       committed>>
    BY <1>1 DEF Frame
  <2>2. /\ auto' \subseteq auto \cup ({slot.job} \ {0})
        /\ slot' \in {slot, NoQuery}
    <3>1. CASE slot # NoQuery /\ slot.conn \in pools
      <4>1. auto' = auto \cup {slot.job} /\ slot' = NoQuery
        BY <1>1, <3>1 DEF Frame
      <4>2. slot.job # 0
        BY <3>1 DEF Inv, JobsInv
      <4>3. QED
        BY <4>1, <4>2
    <3>2. CASE ~(slot # NoQuery /\ slot.conn \in pools)
      BY <1>1, <3>2 DEF Frame
    <3>3. QED
      BY <3>1, <3>2
  <2>3. ASSUME NEW t \in Tabs
        PROVE  /\ Synced(tabs[t]) \in Tab
               /\ Synced(tabs[t]).session = tabs[t].session
               /\ Synced(tabs[t]).target = tabs[t].target
    <3>1. PICK b : Synced(tabs[t]) = [tabs[t] EXCEPT !.tx_active = b]
                   /\ b \in BOOLEAN
      <4>1. /\ tabs[t] \in Tab
            /\ tabs[t].session # 0 => tabs[t].session \in 1..Len(sessions)
        BY DEF Inv, TabsInv, TabsProper, TabProper
      <4>2. ASSUME tabs[t].session # 0
            PROVE  sessions[tabs[t].session].flag \in BOOLEAN
        <5>1. sessions[tabs[t].session] \in Session
          BY <4>1, <4>2
        <5>2. QED
          BY <5>1 DEF Session
      <4>3. tabs[t].tx_active \in BOOLEAN
        BY <4>1 DEF Tab
      <4>4. QED
        BY <4>2, <4>3 DEF Synced
    <3>2. QED
      BY <3>1 DEF Tab
  <2>4. QED
    BY <2>1, <2>2, <2>3, MarksKeep
<1>2. CASE PoolReady \/ WaitEnds \/ AutoEnds
  <2>1. UNCHANGED <<tabs, current, asking, jobs, sessions, meant, manual, asked>>
    BY <1>2 DEF PoolReady, WaitEnds, AutoEnds
  <2>2. /\ auto' \subseteq auto /\ slot' \in {slot, NoQuery}
        /\ committed' \subseteq committed \cup auto
    BY <1>2 DEF PoolReady, WaitEnds, AutoEnds
  <2>3. QED
    BY <2>1, <2>2, MarksKeep
<1>3. QED
  BY <1>1, <1>2

(* The steps that close sessions: those of tabs T.                         *)
LEMMA ReleaseKeeps ==
    ASSUME Inv, broken \subseteq broken', NEW T,
           sessions' = Released(T),
           UNCHANGED <<jobs, meant, manual, asked, auto, slot, committed>>,
           current' \in Tabs, asking' \in Tabs \cup {0},
           tabs' \in [Tabs -> Tab],
           \A t \in Tabs : \/ tabs'[t] = tabs[t]
                           \/ tabs'[t].session = 0
    PROVE  Inv'
<1>1. /\ jobs \in Nat
      /\ DatabasePicked \in BOOLEAN /\ DatabasePicked' \in BOOLEAN
      /\ DatabasePicked => DatabasePicked'
  <2>1. jobs \in Nat
    BY JobsBounded DEF Inv, JobsInv
  <2>2. QED
    BY <2>1 DEF DatabasePicked, Unless
<1>2. /\ AllProper(sessions', jobs, asked, meant, DatabasePicked)
      /\ Grows(sessions, sessions')
  BY <1>1, ReleasedProper DEF Inv, SessionsInv
<1>3. SessionsInv'
  BY <1>1, <1>2, ProperLater DEF SessionsInv, AllProper
<1>4. JobsInv'
  BY DEF Inv, JobsInv
<1>5. CommitInv'
  BY CommitsIdle
<1>6. ASSUME NEW t \in Tabs
      PROVE  TabProper(tabs'[t], sessions', DatabasePicked')
  <2>1. sessions' \in Seq(Session) /\ Len(sessions') \in Nat
    BY <1>2 DEF AllProper
  <2>2. TabProper(tabs[t], sessions', DatabasePicked')
    BY <1>2, <2>1, TabsIdle
  <2>3. QED
    BY <2>1, <2>2 DEF TabProper
<1>7. TabsInv'
  BY <1>6 DEF TabsInv, TabsProper
<1>8. QED
  BY <1>3, <1>4, <1>5, <1>7 DEF Inv

LEMMA CloseNowKeeps ==
    ASSUME Inv, broken \subseteq broken', asking' \in Tabs \cup {0},
           UNCHANGED <<meant, manual, asked, committed>>,
           NEW T \in SUBSET Tabs, NEW t \in Tabs,
           Leaving(T) \/ Emptied(t)
    PROVE  Inv'
<1> USE TabsTyped
<1>1. CASE Leaving(T)
  <2>1. /\ tabs' = [u \in Tabs |-> IF u \in T THEN Closed ELSE tabs[u]]
        /\ current' \in Tabs
    BY <1>1 DEF Leaving, Open
  <2>2. /\ tabs' \in [Tabs -> Tab]
        /\ \A u \in Tabs : \/ tabs'[u] = tabs[u]
                           \/ tabs'[u].session = 0
    BY <2>1, ClosedTab
  <2>3. QED
    BY <1>1, <2>1, <2>2, ReleaseKeeps DEF Leaving
<1>2. CASE Emptied(t)
  <2>1. tabs' = [tabs EXCEPT ![t].target = NoTarget]
    BY <1>2 DEF Emptied
  <2>2. /\ tabs' \in [Tabs -> Tab]
        /\ \A u \in Tabs : /\ tabs'[u].session = tabs[u].session
                           /\ tabs'[u].target \in {tabs[u].target, NoTarget}
    BY <2>1 DEF Tab, AnyTarget
  <2>3. QED
    BY <1>2, <2>2, MarksKeep DEF Emptied
<1>3. QED
  BY <1>1, <1>2
(* Closing tabs, and the box that switches manual commit off.              *)
LEMMA ClosesKeep ==
    ASSUME Inv, broken \subseteq broken',
           BoxOff \/ CloseTab \/ ConfirmClose \/ CloseOthers
    PROVE  Inv'
<1> USE TabsTyped DEF jobVars, wishes, fates, history
<1>1. CASE BoxOff
  <2>1. /\ tabs' = [tabs EXCEPT ![current].tx_mode = FALSE,
                                ![current].session = 0,
                                ![current].tx_active = FALSE]
        /\ sessions' = Released({current})
        /\ UNCHANGED <<current, asking, jobVars, wishes, committed>>
    BY <1>1 DEF BoxOff
  <2>2. /\ tabs' \in [Tabs -> Tab]
        /\ \A u \in Tabs : \/ tabs'[u] = tabs[u]
                           \/ tabs'[u].session = 0
    BY <2>1, ZenonT(40) DEF Tab
  <2>3. QED
    BY <2>1, <2>2, ReleaseKeeps
<1>2. CASE CloseTab
  <2>1. /\ UNCHANGED <<wishes, fates>>
        /\ \E t \in Open :
              \/ /\ asking' = t
                 /\ UNCHANGED <<tabs, current, sessions, jobVars, broken>>
              \/ CloseNow(t) /\ UNCHANGED asking
    BY <1>2 DEF CloseTab
  <2>2. QED
    BY <2>1, CloseNowKeeps, MarksKeep DEF CloseNow, Open
<1>3. CASE ConfirmClose
  <2>1. /\ asking \in Tabs /\ asking' = 0 /\ CloseNow(asking)
        /\ UNCHANGED <<wishes, committed>>
    BY <1>3 DEF ConfirmClose
  <2>2. QED
    BY <2>1, CloseNowKeeps DEF CloseNow
<1>4. CASE CloseOthers
  <2>1. PICK T \in SUBSET Open : Leaving(T)
    BY <1>4 DEF CloseOthers
  <2>2. T \in SUBSET Tabs /\ asking' \in Tabs \cup {0} /\ 1 \in Tabs
    BY <1>4, TabsAssumption DEF CloseOthers, Open
  <2>3. UNCHANGED <<wishes, fates>>
    BY <1>4 DEF CloseOthers
  <2>4. QED
    BY <2>1, <2>2, <2>3, CloseNowKeeps
<1>5. QED
  BY <1>1, <1>2, <1>3, <1>4
-----------------------------------------------------------------------------
(* A job of the user: what was there is still proper.                      *)
LEMMA NewJob ==
    ASSUME Inv, broken \subseteq broken', Starts,
           asked \subseteq asked',
           meant' = [meant EXCEPT ![jobs + 1] = meant'[jobs + 1]]
    PROVE  /\ jobs' = jobs + 1 /\ jobs' \in 1..MaxJobs
           /\ AllProper(sessions, jobs', asked', meant', DatabasePicked')
<1>1. /\ jobs \in Nat /\ jobs' = jobs + 1 /\ jobs' \in 1..MaxJobs
  BY JobsBounded DEF Inv, JobsInv, Starts
<1>2. /\ DatabasePicked \in BOOLEAN /\ DatabasePicked' \in BOOLEAN
      /\ DatabasePicked => DatabasePicked'
  BY DEF DatabasePicked, Unless
<1>3. \A j \in 1..jobs : meant'[j] = meant[j]
  <2>1. ASSUME NEW j \in 1..jobs
        PROVE  meant'[j] = meant[j]
    <3>1. j \in 1..MaxJobs /\ j # jobs + 1
      BY <1>1, JobsBounded
    <3>2. meant \in [1..MaxJobs -> AnyTarget]
      BY DEF Inv, JobsInv
    <3>3. QED
      BY <3>1, <3>2
  <2>2. QED
    BY <2>1
<1>4. \A s \in 1..Len(sessions) :
         Proper(sessions[s], jobs', asked', meant', DatabasePicked')
  BY <1>1, <1>2, <1>3, ProperLater DEF Inv, SessionsInv, AllProper
<1>5. QED
  BY <1>1, <1>4 DEF Inv, SessionsInv, AllProper

(* Commit and Rollback.  Commit is about all the session has and will have *)
(* executed when the command's turn comes.                                 *)
LEMMA SendKeeps ==
    ASSUME Inv, broken \subseteq broken', PressCommit \/ PressRollback
    PROVE  Inv'
<1> USE TabsTyped DEF jobVars, wishes, fates, history
<1> DEFINE s == tabs[current].session
           u(c) == [sessions[s] EXCEPT !.queue = Append(@, c)]
<1>1. PICK c \in {Commit(jobs + 1), Rollback(jobs + 1)} :
         /\ Send(c)
         /\ c.op = "Commit" => asked' = asked \cup Pending(current)
         /\ c.op # "Commit" => asked' = asked
  BY DEF PressCommit, PressRollback, Commit, Rollback
<1>2. /\ Starts /\ s # 0 /\ sessions' = Sent(sessions, s, c)
      /\ tabs' = [tabs EXCEPT ![current].tx_active = FALSE]
      /\ UNCHANGED <<current, asking, auto, slot, meant, manual, fates>>
  BY <1>1 DEF Send, Starts
<1>3. asked \subseteq asked'
  BY <1>1
<1>4. meant \in [1..MaxJobs -> AnyTarget] /\ jobs \in Nat
  BY JobsBounded DEF Inv, JobsInv
<1>5. /\ jobs' = jobs + 1 /\ jobs' \in 1..MaxJobs
      /\ AllProper(sessions, jobs', asked', meant', DatabasePicked')
  BY <1>2, <1>3, <1>4, NewJob
<1>6. s \in 1..Len(sessions)
  BY <1>2 DEF Inv, TabsInv, TabsProper, TabProper
<1>7. c \in Command /\ c.op \in {"Commit", "Rollback"}
  BY <1>1, <1>4 DEF Commit, Rollback, Command
<1>8. Proper(u(c), jobs', asked', meant', DatabasePicked')
  <2>1. c.op = "Commit" => Has(sessions[s]) \subseteq asked'
    BY <1>1, <1>2 DEF Pending, Has
  <2>2. Proper(sessions[s], jobs', asked', meant', DatabasePicked')
    BY <1>5, <1>6 DEF AllProper
  <2>3. jobs' \in Nat /\ DatabasePicked' \in BOOLEAN
    BY <1>4, <1>5 DEF DatabasePicked, Unless
  <2>4. c \in Command /\ c.op # "Execute"
    BY <1>7
  <2> HIDE DEF s
  <2>5. QED
    BY <2>1, <2>2, <2>3, <2>4, ProperSent
<1>9. sessions' = [sessions EXCEPT ![s] = u(c)] /\ u(c).target = sessions[s].target
  <2>1. sessions[s] \in Session
    BY <1>6
  <2>2. QED
    BY <1>2, <2>1 DEF Sent, Session
<1>10. SessionsInv' /\ Grows(sessions, sessions')
  <2> HIDE DEF u, s
  <2>1. QED
    BY <1>5, <1>6, <1>8, <1>9, OneChanged DEF SessionsInv
<1>11. JobsInv'
  BY <1>2, <1>4, <1>5 DEF Inv, JobsInv
<1>12. CommitInv'
  BY <1>2, <1>3, CommitsIdle
<1>13. TabsInv'
  <2>1. ASSUME NEW t \in Tabs
        PROVE  TabProper(tabs'[t], sessions', DatabasePicked')
    <3>1. TabProper(tabs[t], sessions', DatabasePicked') /\ tabs[t] \in Tab
      BY <1>10, TabsIdle DEF SessionsInv, AllProper
    <3>2. /\ tabs'[t].session = tabs[t].session
          /\ tabs'[t].target = tabs[t].target
          /\ tabs'[t] \in Tab
      BY <1>2, <3>1 DEF Tab
    <3>3. QED
      BY <3>1, <3>2 DEF TabProper
  <2>2. tabs' \in [Tabs -> Tab]
    BY <1>2 DEF Tab
  <2>3. QED
    BY <1>2, <2>1, <2>2 DEF TabsInv, TabsProper
<1>14. QED
  BY <1>10, <1>11, <1>12, <1>13 DEF Inv
(* The first statement of a new session.                                   *)
NewWith(target, c) == [NewSession(target) EXCEPT !.queue = <<c>>]

LEMMA NewSessionProper ==
    ASSUME NEW target \in AnyTarget, NEW n \in Nat, NEW wanted, NEW place,
           NEW free \in BOOLEAN, NEW c \in Command, c.op = "Execute",
           c.job \in 1..n, place[c.job] = target
    PROVE  /\ Proper(NewWith(target, c), n, wanted, place, free)
           /\ NewWith(target, c).target = target
<1> DEFINE q == <<c>>
           u == [NewSession(target) EXCEPT !.queue = q]
<1>1. q \in Seq(Command) /\ Len(q) = 1 /\ q[1] = c
  OBVIOUS
<1> HIDE DEF q
<1>2. /\ u \in Session /\ u.queue = q /\ u.work = {} /\ u.target = target
  BY <1>1 DEF NewSession, Session
<1> HIDE DEF u
<1>3. \A i \in Queued(u) : i = c.job
  BY <1>1, <1>2, InQueue
<1>4. \A i \in Has(u) : i = c.job
  BY <1>2, <1>3 DEF Has
<1>5. Asks(u, wanted)
  <2>1. \A k \in 1..Len(q) : q[k].op # "Commit"
    BY <1>1
  <2>2. QED
    BY <1>2, <2>1 DEF Asks
<1>6. Proper(u, n, wanted, place, free)
  BY <1>2, <1>4, <1>5 DEF Proper
<1>7. QED
  BY <1>2, <1>6 DEF u, q, NewWith

(* A statement of a tab in manual-commit mode goes to the tab's session,   *)
(* or to a new one on the tab's target.                                    *)
LEMMA RunInSessionKeeps ==
    ASSUME Inv, broken \subseteq broken', Starts, UNCHANGED asked,
           tabs[current].target # NoTarget,
           meant' = [meant EXCEPT ![jobs + 1] = tabs[current].target],
           RunInSession(jobs + 1)
    PROVE  SessionsInv' /\ TabsInv'
<1> USE TabsTyped
<1> DEFINE target == tabs[current].target
           j == jobs + 1
<1>1. jobs \in Nat /\ meant'[j] = target /\ target \in AnyTarget
  <2>1. jobs \in Nat /\ j \in 1..MaxJobs /\ meant \in [1..MaxJobs -> AnyTarget]
    BY JobsBounded DEF Inv, JobsInv, Starts
  <2>2. tabs[current] \in Tab
    OBVIOUS
  <2>3. target \in AnyTarget
    BY <2>2 DEF Tab
  <2>4. QED
    BY <2>1, <2>3
<1>2. /\ jobs' = j /\ j \in 1..MaxJobs
      /\ AllProper(sessions, jobs', asked', meant', DatabasePicked')
  BY <1>1, NewJob
<1>3. Execute(j) \in Command /\ Execute(j).op = "Execute" /\ Execute(j).job = j
  BY <1>1 DEF Execute, Command
<1>4. jobs' \in Nat /\ j \in 1..jobs' /\ DatabasePicked' \in BOOLEAN
  BY <1>1, <1>2 DEF DatabasePicked, Unless
<1>5. UNCHANGED <<current, asking>>
  BY DEF Starts
<1>6. CASE Serving(current) # 0
  <2> DEFINE s == Serving(current)
             u == [sessions[s] EXCEPT !.queue = Append(@, Execute(j))]
  <2>1. /\ s = tabs[current].session /\ s \in 1..Len(sessions)
        /\ sessions[s].target.conn = target.conn
    BY <1>6 DEF Serving, Inv, TabsInv, TabsProper, TabProper
  <2>2. DatabasePicked' \/ sessions[s].target = target
    <3>1. TabProper(tabs[current], sessions, DatabasePicked)
      BY DEF Inv, TabsInv, TabsProper
    <3>2. DatabasePicked => DatabasePicked'
      BY DEF DatabasePicked, Unless
    <3>3. QED
      BY <1>6, <2>1, <3>1, <3>2 DEF TabProper
  <2>3. /\ sessions' = Sent(sessions, s, Execute(j))
        /\ tabs' = [tabs EXCEPT ![current].session = s,
                                ![current].tx_active = TRUE]
    BY <1>6 DEF RunInSession
  <2>4. Proper(sessions[s], jobs', asked', meant', DatabasePicked')
    BY <1>2, <2>1 DEF AllProper
  <2>5. sessions[s] \in Session /\ sessions' = [sessions EXCEPT ![s] = u]
    BY <2>1, <2>3 DEF Sent
  <2>6. u.target = sessions[s].target
    BY <2>5 DEF Session
  <2>7. Proper(u, jobs', asked', meant', DatabasePicked')
    <3> DEFINE c == Execute(j)
               x == sessions[s]
               n == jobs'
               w == asked'
               m == meant'
               free == DatabasePicked'
    <3>1. /\ n \in Nat /\ free \in BOOLEAN
          /\ c \in Command /\ c.job \in 1..n
          /\ free \/ m[c.job] = x.target
          /\ c.op # "Commit"
      BY <1>1, <1>3, <1>4, <2>2
    <3>2. Proper(x, n, w, m, free)
      BY <2>4
    <3> HIDE DEF s, c, x, n, w, m, free
    <3>3. Proper([x EXCEPT !.queue = Append(@, c)], n, w, m, free)
      BY <3>1, <3>2, ProperSent, ZenonT(30)
    <3>4. QED
      BY <3>3 DEF c, x, n, w, m, free
  <2>8. SessionsInv' /\ Grows(sessions, sessions')
    <3> HIDE DEF u, s
    <3>1. QED
      BY <1>2, <2>1, <2>5, <2>6, <2>7, OneChanged DEF SessionsInv
  <2>9. ASSUME NEW t \in Tabs
        PROVE  TabProper(tabs'[t], sessions', DatabasePicked')
    <3>1. TabProper(tabs[t], sessions', DatabasePicked') /\ tabs[t] \in Tab
      BY <2>8, TabsIdle DEF SessionsInv, AllProper
    <3>2. /\ tabs'[t].session = tabs[t].session
          /\ tabs'[t].target = tabs[t].target
          /\ tabs'[t] \in Tab
      BY <2>1, <2>3, <3>1 DEF Tab
    <3>3. QED
      BY <3>1, <3>2 DEF TabProper
  <2>10. tabs' \in [Tabs -> Tab]
    BY <2>1, <2>3, ZenonT(60) DEF Tab
  <2>11. QED
    BY <1>5, <2>8, <2>9, <2>10 DEF TabsInv, TabsProper
<1>7. CASE Serving(current) = 0
  <2> DEFINE s == Len(sessions) + 1
             u == [NewSession(target) EXCEPT !.queue = <<Execute(j)>>]
             ss == Released({current})
  <2>1. /\ sessions' = Append(ss, u)
        /\ tabs' = [tabs EXCEPT ![current].session = s,
                                ![current].tx_active = TRUE]
    BY <1>7 DEF RunInSession
  <2>2. j \in 1..jobs' /\ meant'[Execute(j).job] = target
    BY <1>1, <1>3, <1>4
  <2>3. /\ Proper(u, jobs', asked', meant', DatabasePicked')
        /\ u.target = target
    <3> DEFINE c == Execute(j)
    <3>1. /\ c \in Command /\ c.op = "Execute" /\ c.job \in 1..jobs'
          /\ meant'[c.job] = target
      BY <1>3, <2>2
    <3> HIDE DEF target, c
    <3>2. /\ Proper(NewWith(target, c), jobs', asked', meant', DatabasePicked')
          /\ NewWith(target, c).target = target
      <4>1. target \in AnyTarget /\ jobs' \in Nat /\ DatabasePicked' \in BOOLEAN
        BY <1>1, <1>4
      <4>2. QED
        BY ONLY <4>1, <3>1, NewSessionProper
    <3>3. QED
      BY <3>2 DEF c, NewWith
  <2>4. /\ AllProper(ss, jobs', asked', meant', DatabasePicked')
        /\ Grows(sessions, ss)
        /\ Len(ss) = Len(sessions)
    BY <1>2, <1>4, ReleasedProper
  <2>5. /\ AllProper(sessions', jobs', asked', meant', DatabasePicked')
        /\ Grows(ss, sessions')
        /\ sessions'[s] = u
        /\ Len(sessions') = s
    <3> HIDE DEF ss, u
    <3>1. QED
      BY <2>1, <2>3, <2>4, OneAdded
  <2>6. Grows(sessions, sessions') /\ s \in Nat
    <3> HIDE DEF ss
    <3>1. QED
      BY <2>4, <2>5 DEF Grows
  <2>7. ASSUME NEW t \in Tabs
        PROVE  TabProper(tabs'[t], sessions', DatabasePicked')
    <3>1. TabProper(tabs[t], sessions', DatabasePicked') /\ tabs[t] \in Tab
      BY <2>5, <2>6, TabsIdle DEF AllProper
    <3>2. CASE t # current
      BY <2>1, <3>1, <3>2
    <3>3. CASE t = current
      <4>1. tabs'[t].session = s /\ tabs'[t].target = target
            /\ tabs'[t] \in Tab
        BY <2>1, <2>6, <3>1, <3>3 DEF Tab
      <4>2. s \in 0..Len(sessions') /\ sessions'[s].target = target
        BY <2>3, <2>5, <2>6
      <4> HIDE DEF s, target, u, ss
      <4>3. QED
        BY <4>1, <4>2 DEF TabProper
    <3>4. QED
      BY <3>2, <3>3
  <2>8. tabs' \in [Tabs -> Tab]
    BY <2>1, <2>6, ZenonT(60) DEF Tab
  <2>9. QED
    BY <1>5, <2>5, <2>7, <2>8 DEF SessionsInv, TabsInv, TabsProper
<1>8. QED
  BY <1>6, <1>7
(* A statement that goes to a pool, at once or when the pool is there, and *)
(* one that finds no session.                                              *)
LEMMA RunElsewhereKeeps ==
    ASSUME Inv, broken \subseteq broken', Starts, UNCHANGED asked,
           meant' = [meant EXCEPT ![jobs + 1] = tabs[current].target],
           UNCHANGED <<tabs, sessions>> \/ NoSession
    PROVE  SessionsInv' /\ TabsInv'
<1> USE TabsTyped
<1>1. meant \in [1..MaxJobs -> AnyTarget] /\ jobs \in Nat
  BY JobsBounded DEF Inv, JobsInv
<1>2. /\ jobs' = jobs + 1 /\ jobs' \in 1..MaxJobs
      /\ AllProper(sessions, jobs', asked', meant', DatabasePicked')
  BY <1>1, NewJob
<1>3. jobs' \in Nat /\ DatabasePicked' \in BOOLEAN
  BY <1>1, <1>2 DEF DatabasePicked, Unless
<1>4. UNCHANGED <<current, asking>>
  BY DEF Starts
<1>5. SessionsInv' /\ Grows(sessions, sessions')
  <2>1. CASE UNCHANGED <<tabs, sessions>>
    <3>1. SessionsInv'
      BY <1>2, <2>1, Zenon DEF SessionsInv
    <3>2. Grows(sessions, sessions')
      BY <2>1 DEF Grows
    <3>3. QED
      BY <3>1, <3>2
  <2>2. CASE NoSession
    BY <1>2, <1>3, <2>2, ReleasedProper DEF NoSession, SessionsInv
  <2>3. QED
    BY <2>1, <2>2
<1>6. /\ tabs' \in [Tabs -> Tab]
      /\ \A t \in Tabs : \/ tabs'[t] = tabs[t]
                         \/ tabs'[t].session = 0
  BY SMTT(40) DEF NoSession, Tab
<1>7. ASSUME NEW t \in Tabs
      PROVE  TabProper(tabs'[t], sessions', DatabasePicked')
  <2>1. sessions' \in Seq(Session) /\ Len(sessions') \in Nat
    BY <1>5 DEF SessionsInv, AllProper
  <2>2. TabProper(tabs[t], sessions', DatabasePicked')
    BY <1>5, <2>1, TabsIdle
  <2>3. QED
    BY <1>6, <2>1, <2>2 DEF TabProper
<1>8. QED
  BY <1>4, <1>5, <1>6, <1>7 DEF TabsInv, TabsProper

LEMMA RunKeeps ==
    ASSUME Inv, broken \subseteq broken', Run
    PROVE  Inv'
<1> USE TabsTyped
<1> DEFINE j == jobs + 1
           t == tabs[current]
<1>1. /\ Starts /\ UNCHANGED <<asked, unwanted, fates>>
      /\ t.target # NoTarget
      /\ meant' = [meant EXCEPT ![j] = t.target]
      /\ manual' = IF t.tx_mode THEN manual \cup {j} ELSE manual
      /\ t.tx_mode /\ t.target.conn \notin pools => "pool wait" \in broken'
      /\ \/ /\ slot' = [job |-> j, conn |-> t.target.conn]
            /\ t.target.conn \notin pools
            /\ UNCHANGED <<tabs, sessions, running, auto>>
         \/ /\ t.tx_mode
            /\ RunInSession(j) \/ NoSession
         \/ /\ ~t.tx_mode
            /\ auto' = auto \cup {j}
            /\ UNCHANGED <<tabs, sessions, slot>>
  BY DEF Run, Quirk
<1>2. /\ jobs \in Nat /\ jobs' = j /\ j \in 1..MaxJobs
      /\ meant \in [1..MaxJobs -> AnyTarget]
      /\ auto \subseteq 1..jobs /\ manual \subseteq 1..jobs
      /\ committed \subseteq 1..jobs
      /\ slot \in [job : 0..jobs, conn : Nat]
      /\ slot # NoQuery => slot.job # 0
  <2>1. jobs' = j /\ jobs < MaxJobs
    BY <1>1 DEF Starts
  <2>2. JobsInv
    BY DEF Inv
  <2>3. jobs \in Nat /\ j \in 1..MaxJobs
    BY <2>1, <2>2, JobsBounded DEF JobsInv
  <2>4. QED
    BY <2>1, <2>2, <2>3 DEF JobsInv
<1>3. t.target \in AnyTarget /\ t.tx_mode \in BOOLEAN /\ t.target.conn \in Nat
  <2>1. t \in Tab
    OBVIOUS
  <2>2. t.target \in AnyTarget /\ t.tx_mode \in BOOLEAN
    BY <2>1 DEF Tab
  <2>3. t.target.conn \in Nat
    BY <1>1, <2>2, TabsAssumption DEF AnyTarget
  <2>4. QED
    BY <2>2, <2>3
<1>4. SessionsInv' /\ TabsInv'
  BY <1>1, RunInSessionKeeps, RunElsewhereKeeps
<1>5. RunInSession(j) \/ NoSession => UNCHANGED <<auto, slot>>
  BY DEF RunInSession, NoSession
<1>6. LET waits == [job |-> j, conn |-> t.target.conn] IN
         \/ auto' = auto /\ slot' = waits /\ t.target.conn \notin pools
         \/ auto' = auto /\ slot' = slot
         \/ auto' = auto \cup {j} /\ slot' = slot /\ ~t.tx_mode
  BY <1>1, <1>5
<1>7. committed' = committed /\ asked' = asked
  BY <1>1 DEF fates
<1> HIDE DEF t, j
<1>8. /\ manual' \in {manual, manual \cup {j}}
      /\ ~t.tx_mode => manual' = manual
      /\ auto' \in {auto, auto \cup {j}}
      /\ slot'.job \in {slot.job, j}
  <2>1. /\ manual' \in {manual, manual \cup {j}}
        /\ ~t.tx_mode => manual' = manual
    BY <1>1, <1>3
  <2>2. auto' \in {auto, auto \cup {j}}
    BY <1>6
  <2>3. slot'.job \in {slot.job, j}
    BY <1>6
  <2>4. QED
    BY <2>1, <2>2, <2>3
<1>9. j = jobs + 1 /\ 0..jobs \subseteq 0..j /\ 1..jobs \subseteq 1..j
      /\ j \in 1..j /\ j \in 0..j /\ j # 0 /\ j \notin 0..jobs
  BY <1>2 DEF j
<1>10. JobsInv'
  <2>1. meant' \in [1..MaxJobs -> AnyTarget]
    BY <1>1, <1>2, <1>3
  <2>2. auto' \subseteq 1..jobs' /\ manual' \subseteq 1..jobs'
    BY <1>2, <1>8, <1>9
  <2>3. slot' \in [job : 0..jobs', conn : Nat]
    BY <1>2, <1>3, <1>6, <1>9
  <2>4. slot' # NoQuery => slot'.job # 0
    BY <1>2, <1>6, <1>9
  <2>5. jobs' \in 0..MaxJobs /\ committed' \subseteq 1..jobs'
    BY <1>2, <1>7, <1>9, JobsBounded
  <2>6. QED
    BY <2>1, <2>2, <2>3, <2>4, <2>5 DEF JobsInv
<1>11. CommitInv'
  <2>1. CASE "pool wait" \in broken'
    BY <2>1 DEF CommitInv, Unless
  <2>2. CASE "pool wait" \notin broken'
    <3>1. /\ auto \cap manual = {}
          /\ slot.job \notin manual
          /\ committed \cap manual \subseteq asked
      BY <2>2 DEF Inv, CommitInv, Unless, NothingCommittedUnasked
    <3>2. j \notin auto \cup manual \cup committed /\ slot.job # j
      BY <1>2, <1>9
    <3>3. CASE t.tx_mode
      <4>1. auto' = auto /\ slot' = slot
        BY <1>1, <1>6, <2>2, <3>3
      <4>2. QED
        BY <1>7, <1>8, <3>1, <3>2, <4>1
           DEF CommitInv, NothingCommittedUnasked
    <3>4. CASE ~t.tx_mode
      <4>1. manual' = manual
        BY <1>8, <3>4
      <4>2. QED
        BY <1>7, <1>8, <3>1, <3>2, <4>1
           DEF CommitInv, NothingCommittedUnasked
    <3>5. QED
      BY <3>3, <3>4
  <2>3. QED
    BY <2>1, <2>2
<1>12. QED
  BY <1>4, <1>10, <1>11 DEF Inv
-----------------------------------------------------------------------------
(* What a task does with a command, but for taking it from the channel.    *)
LEMMA TaskDoes ==
    ASSUME NEW s, sessions[s] \in Session, Task(s), ~Store(s)
    PROVE  \E op, n :
              /\ Does(s, op, n)
              /\ n \in Session /\ n.queue = sessions[s].queue
              /\ n.target = sessions[s].target
              /\ \/ n.work \subseteq sessions[s].work
                 \/ /\ op = "Execute"
                    /\ n.work \subseteq sessions[s].work
                                           \cup {Head(sessions[s].queue).job}
<1> DEFINE Was == sessions[s]
<1>1. CASE DoExecute(s)
  <2> DEFINE j == Head(Was.queue).job
             n == [Was EXCEPT !.tx = TRUE, !.work = @ \cup {j}]
  <2>1. Does(s, "Execute", n) /\ Was.queue # <<>> /\ Was.queue \in Seq(Command)
    BY <1>1 DEF DoExecute, Does, Session
  <2>2. j \in Nat
    <3>1. Head(Was.queue) \in Command
      BY <2>1
    <3>2. QED
      BY <3>1 DEF Command
  <2>3. /\ n \in Session /\ n.queue = Was.queue /\ n.target = Was.target
        /\ n.work = Was.work \cup {j}
    BY <2>2 DEF Session
  <2>4. QED
    BY <2>1, <2>3
<1>2. CASE ExecuteFails(s)
  <2>1. PICK tx \in {Was.tx, TRUE} : Does(s, "Execute", [Was EXCEPT !.tx = tx])
    BY <1>2 DEF ExecuteFails
  <2> DEFINE n == [Was EXCEPT !.tx = tx]
  <2>2. /\ n \in Session /\ n.queue = Was.queue /\ n.target = Was.target
        /\ n.work = Was.work
    BY <2>1 DEF Session
  <2>3. QED
    BY <2>1, <2>2
<1>3. CASE FinishFails(s)
  BY <1>3 DEF FinishFails
<1>4. CASE ExecuteTimesOut(s) \/ DoCommit(s) \/ DoRollback(s)
  <2>1. \E op : Does(s, op, NoTx(s))
    BY <1>4 DEF ExecuteTimesOut, DoCommit, DoRollback
  <2>2. /\ NoTx(s) \in Session /\ NoTx(s).queue = Was.queue
        /\ NoTx(s).target = Was.target /\ NoTx(s).work = {}
    BY DEF NoTx, Session
  <2>3. QED
    BY <2>1, <2>2
<1>5. CASE DoClose(s)
  <2> DEFINE n == [NoTx(s) EXCEPT !.ended = TRUE]
  <2>1. Does(s, "Close", n)
    BY <1>5 DEF DoClose
  <2>2. /\ n \in Session /\ n.queue = Was.queue
        /\ n.target = Was.target /\ n.work = {}
    BY DEF NoTx, Session
  <2>3. QED
    BY <2>1, <2>2
<1>6. QED
  BY <1>1, <1>2, <1>3, <1>4, <1>5 DEF Task

(* The task of a session: it becomes u, which is still proper.             *)
LEMMA TaskKeeps ==
    ASSUME Inv, broken \subseteq broken', NEW s \in 1..Len(sessions),
           Task(s)
    PROVE  Inv'
<1> USE TabsTyped
<1> DEFINE Was == sessions[s]
<1>1. Proper(Was, jobs, asked, meant, DatabasePicked)
      /\ jobs \in Nat /\ DatabasePicked \in BOOLEAN /\ Was \in Session
  BY JobsBounded DEF Inv, JobsInv, SessionsInv, AllProper, DatabasePicked,
                     Unless
<1>2. PICK u : /\ sessions' = [sessions EXCEPT ![s] = u]
               /\ Proper(u, jobs, asked, meant, DatabasePicked)
               /\ u.target = Was.target
  <2>1. CASE Store(s)
    <3> DEFINE u == [Was EXCEPT !.flag = Was.tx]
    <3>1. /\ u \in Session /\ u.queue = Was.queue /\ u.work = Was.work
          /\ u.target = Was.target
      BY <1>1 DEF Session
    <3>2. Has(u) = Has(Was)
      BY <3>1 DEF Has, Queued
    <3>3. Proper(u, jobs, asked, meant, DatabasePicked)
      BY <1>1, <3>1, <3>2 DEF Proper, Asks
    <3>4. sessions' = [sessions EXCEPT ![s] = u]
      BY <2>1 DEF Store
    <3>5. QED
      BY <3>1, <3>3, <3>4
  <2>2. CASE ~Store(s)
    <3>1. PICK op, n : /\ Does(s, op, n)
                       /\ n \in Session /\ n.queue = Was.queue
                       /\ n.target = Was.target
                       /\ \/ n.work \subseteq Was.work
                          \/ /\ op = "Execute"
                             /\ n.work \subseteq
                                   Was.work \cup {Head(Was.queue).job}
      BY <1>1, <2>2, TaskDoes
    <3> DEFINE u == [n EXCEPT !.queue = Tail(@)]
    <3>2. /\ Was.queue # <<>> /\ Was.queue \in Seq(Command)
          /\ Head(Was.queue).op = op
          /\ sessions' = [sessions EXCEPT ![s] = u]
      BY <1>1, <3>1 DEF Does, Session
    <3>3. Tail(Was.queue) \in Seq(Command)
      BY <3>2
    <3> HIDE DEF Was
    <3>4. /\ u \in Session /\ u.queue = Tail(Was.queue)
          /\ u.target = Was.target /\ u.work = n.work
      BY <3>1, <3>3 DEF Session
    <3> HIDE DEF u
    <3>5. Proper(u, jobs, asked, meant, DatabasePicked)
      BY <1>1, <3>1, <3>2, <3>4, ProperDone
    <3>6. QED
      BY <3>2, <3>4, <3>5
  <2>3. QED
    BY <2>1, <2>2
<1>3. UNCHANGED <<tabs, current, asking, jobs, auto, slot, meant, manual,
                  asked, broken>>
  BY DEF Task, Store, DoExecute, ExecuteFails, ExecuteTimesOut, DoCommit,
         DoRollback, FinishFails, DoClose, Does, jobVars, uiVars, wishes,
         history
<1>4. committed' \subseteq committed \cup (asked \cap 1..jobs)
  <2>1. CASE DoCommit(s)
    <3>1. /\ Was.queue # <<>> /\ Was.queue \in Seq(Command)
          /\ Head(Was.queue).op = "Commit"
          /\ committed' = committed \cup Was.work
      BY <1>1, <2>1 DEF DoCommit, Does, Session
    <3>2. 1 \in 1..Len(Was.queue) /\ Was.queue[1].op = "Commit"
      BY <3>1
    <3>3. Was.work \subseteq asked /\ Was.work \subseteq 1..jobs
      BY <1>1, <3>2 DEF Proper, Asks, Has
    <3>4. QED
      BY <3>1, <3>3
  <2>2. CASE ~DoCommit(s)
    BY <2>2 DEF Task, Store, DoExecute, ExecuteFails, ExecuteTimesOut,
                DoRollback, FinishFails, DoClose, history, fates
  <2>3. QED
    BY <2>1, <2>2
<1>5. AllProper(sessions', jobs, asked, meant, DatabasePicked)
      /\ Grows(sessions, sessions')
  <2> HIDE DEF Was
  <2>1. u.target = sessions[s].target
    BY <1>2 DEF Was
  <2>2. QED
    BY <1>2, <2>1, OneChanged DEF Inv, SessionsInv
<1>6. DatabasePicked' = DatabasePicked
  BY <1>3 DEF DatabasePicked, Unless
<1>7. SessionsInv'
  BY <1>3, <1>5, <1>6 DEF SessionsInv
<1>8. TabsInv'
  <2>1. \A t \in Tabs : TabProper(tabs[t], sessions', DatabasePicked')
    BY <1>5, TabsIdle DEF AllProper
  <2>2. QED
    BY <1>3, <2>1 DEF TabsInv, TabsProper
<1>9. JobsInv' /\ CommitInv'
  BY <1>3, <1>4 DEF Inv, JobsInv, CommitInv, Unless, NothingCommittedUnasked
<1>10. QED
  BY <1>7, <1>8, <1>9 DEF Inv
LEMMA StepKeeps == Inv /\ [Next]_vars => Inv'
<1> SUFFICES ASSUME Inv, [Next]_vars PROVE Inv'
  OBVIOUS
<1>1. broken \subseteq broken'
  BY BrokenGrows
<1>2. CASE UNCHANGED vars
  <2>1. /\ UNCHANGED <<tabs, current, asking, sessions, jobs, meant, manual,
                       asked, auto, slot, committed>>
    BY <1>2 DEF vars, uiVars, jobVars, history, wishes, fates
  <2>2. QED
    BY <1>1, <2>1, TabsTyped, MarksKeep
<1>3. CASE User
  BY <1>1, <1>3, TogglesKeep, PickKeeps, SendKeeps, RunKeeps, ClosesKeep
     DEF User
<1>4. CASE Frame \/ PoolReady \/ WaitEnds \/ AutoEnds
  BY <1>1, <1>4, FrameKeeps
<1>5. ASSUME NEW s \in DOMAIN sessions, Task(s)
      PROVE  Inv'
  <2>1. s \in 1..Len(sessions)
    BY TabsTyped
  <2>2. QED
    BY <1>1, <1>5, <2>1, TaskKeeps
<1>6. QED
  BY <1>2, <1>3, <1>4, <1>5 DEF Next

LEMMA InvAlways == Spec => []Inv
BY InvInitially, StepKeeps, PTL DEF Spec

(* What a tab in manual-commit mode runs becomes durable only if Commit    *)
(* was pressed for it, in its tab and after it was run, unless it had to   *)
(* wait for a pool: whatever is switched, toggled, picked and closed.      *)
THEOREM CommitsAreAsked == Spec => []OnlyAskedIsCommitted
<1>1. Inv => OnlyAskedIsCommitted
  BY DEF Inv, CommitInv, OnlyAskedIsCommitted
<1>2. QED
  BY <1>1, InvAlways, PTL

(* A statement in a session runs on the target its tab showed, unless      *)
(* another database of the connection was picked while the session lived.  *)
THEOREM RunsInItsPlace == Spec => []RunsWhereFirstShown
<1>1. Inv => RunsWhereFirstShown
  <2> SUFFICES ASSUME Inv, ~DatabasePicked, NEW s \in DOMAIN sessions,
                      NEW j \in Has(sessions[s])
               PROVE  meant[j] = sessions[s].target
    BY DEF RunsWhereFirstShown, RunsWhereShown, Has, DatabasePicked
  <2>1. s \in 1..Len(sessions)
    BY TabsTyped
  <2>2. QED
    BY <2>1 DEF Inv, SessionsInv, AllProper, Proper
<1>2. QED
  BY <1>1, InvAlways, PTL
-----------------------------------------------------------------------------
(* What becomes of the work.  The jobs in the queue of a session, the      *)
(* commits and rollbacks too, and with them the work it holds.             *)
Numbers(s) == {s.queue[k].job : k \in 1..Len(s.queue)} \ {0}
Holds(s) == s.work \cup Numbers(s)

(* Each job is in one place of the session; work needs a transaction.      *)
Single(s) ==
    /\ \A i, k \in 1..Len(s.queue) :
          s.queue[i].job = s.queue[k].job => i = k \/ s.queue[i].job = 0
    /\ s.work \cap Numbers(s) = {}
    /\ s.tx \/ s.work = {}

Shut(s) == \E k \in 1..Len(s.queue) : s.queue[k].op = "Close"

(* Nothing happened to s but that it may have been told to close.          *)
Calm(s, u) ==
    /\ u.work = s.work /\ u.tx = s.tx /\ u.target = s.target
    /\ Numbers(u) = Numbers(s) /\ Queued(u) = Queued(s)
    /\ Single(u)

Holding == {t \in Tabs : tabs[t].session # 0}
HeldBy(t) == sessions[tabs[t].session]
Elsewhere == auto \cup {slot.job} \cup committed

(* A job is in one place only: no session holds what another holds, or     *)
(* what runs on a pool, waits for one, or has been committed.              *)
ApartInv ==
    /\ \A s \in 1..Len(sessions) :
          /\ Single(sessions[s])
          /\ Holds(sessions[s]) \subseteq 1..jobs
          /\ Holds(sessions[s]) \cap Elsewhere = {}
          /\ Numbers(sessions[s]) \cap results = {}
    /\ \A s, u \in 1..Len(sessions) :
          s # u => Holds(sessions[s]) \cap Holds(sessions[u]) = {}

BooksInv ==
    /\ results \cup done \cup gone \cup asked \cup unwanted \subseteq 1..jobs
    /\ slot.job \notin auto \cup committed
    /\ auto \cap committed = {}
    /\ gone \cap (auto \cup {slot.job}) = {}

(* A session is held by one tab, which started all that is queued, and is  *)
(* not told to close before the tab has given it up.                       *)
HeldInv ==
    /\ owner \in [1..MaxJobs -> Tabs \cup {0}]
    /\ tabs[current].open
    /\ \A t \in Holding :
          /\ tabs[t].open
          /\ ~Shut(HeldBy(t))
          /\ \A j \in Queued(HeldBy(t)) : owner[j] = t
    /\ \A t, u \in Holding : tabs[t].session = tabs[u].session => t = u

Unclear == Unless({"last tab", "palette"})
Lossy == Unless({"close others", "reconnect", "lag"})

(* What was rolled back as the user was told is in no session of a tab,    *)
(* and Commit was not pressed for what other sessions still have of it.    *)
GoneInv ==
    \/ Unclear
    \/ /\ committed \cap gone = {}
       /\ \A s \in 1..Len(sessions) : gone \cap asked \cap Has(sessions[s]) = {}
       /\ \A t \in Holding : gone \cap Has(HeldBy(t)) = {}

Accounted == committed \cup asked \cup unwanted \cup gone

(* The user knows what became of all that sessions without a tab hold; the *)
(* flag of a tab is set if its session holds anything else.                *)
LostInv ==
    \/ Lossy
    \/ /\ done \subseteq Accounted \cup InReach
       /\ \A s \in 1..Len(sessions) :
             (\A t \in Holding : tabs[t].session # s)
                => Has(sessions[s]) \subseteq Accounted
       /\ \A t \in Holding :
             /\ tabs[t].tx_active \/ Has(HeldBy(t)) \subseteq Accounted
             /\ Queued(HeldBy(t)) \subseteq running \cup Accounted
             /\ \/ tabs[t].target = NoTarget
                \/ HeldBy(t).target.conn = tabs[t].target.conn

Fates == ApartInv /\ BooksInv /\ HeldInv /\ GoneInv /\ LostInv
-----------------------------------------------------------------------------
LEMMA HasHolds ==
    ASSUME NEW s \in Session, 0 \notin Has(s)
    PROVE  Has(s) \subseteq Holds(s) /\ Queued(s) \subseteq Numbers(s)
<1>1. s.queue \in Seq(Command)
  BY DEF Session
<1>2. ASSUME NEW j \in Queued(s)
      PROVE  j \in Numbers(s)
  <2>1. PICK i \in 1..Len(s.queue) : j = s.queue[i].job
    BY <1>1, InQueue
  <2>2. j # 0
    BY DEF Has
  <2>3. QED
    BY <2>1, <2>2 DEF Numbers
<1>3. QED
  BY <1>2 DEF Has, Holds

(* A command is sent.                                                      *)
LEMMA SingleSent ==
    ASSUME NEW s \in Session, Single(s), NEW c \in Command,
           c.job # 0 => c.job \notin Holds(s),
           NEW u, u = [s EXCEPT !.queue = Append(@, c)]
    PROVE  /\ u \in Session /\ Single(u)
           /\ u.work = s.work /\ u.tx = s.tx /\ u.flag = s.flag
           /\ u.target = s.target
           /\ Numbers(u) = Numbers(s) \cup ({c.job} \ {0})
           /\ c.op # "Execute" => Queued(u) = Queued(s)
           /\ c.op = "Execute" => Queued(u) = Queued(s) \cup {c.job}
           /\ c.op # "Close" /\ ~Shut(s) => ~Shut(u)
<1> DEFINE q == s.queue
           p == Append(q, c)
<1>1. /\ q \in Seq(Command) /\ p \in Seq(Command)
      /\ Len(q) \in Nat /\ Len(p) = Len(q) + 1
      /\ \A i \in 1..Len(q) : p[i] = q[i]
      /\ p[Len(q) + 1] = c
  BY DEF Session
<1> HIDE DEF p
<1>2. /\ \A i \in 1..Len(p) : i \in 1..Len(q) \/ i = Len(q) + 1
      /\ \A i \in 1..Len(q) : i \in 1..Len(p)
      /\ Len(q) + 1 \in 1..Len(p)
  BY <1>1
<1>3. /\ u \in Session /\ u.queue = p /\ u.work = s.work /\ u.target = s.target
      /\ u.tx = s.tx /\ u.flag = s.flag
  BY <1>1 DEF Session, p
<1>4. Numbers(u) = Numbers(s) \cup ({c.job} \ {0})
  <2>1. ASSUME NEW j
        PROVE  j \in Numbers(u) <=> j \in Numbers(s) \cup ({c.job} \ {0})
    <3>1. j \in Numbers(u) <=> j # 0 /\ \E i \in 1..Len(p) : j = p[i].job
      BY <1>3 DEF Numbers
    <3>2. j \in Numbers(s) <=> j # 0 /\ \E i \in 1..Len(q) : j = q[i].job
      BY DEF Numbers
    <3>3. QED
      BY <3>1, <3>2, <1>1, <1>2
  <2>2. QED
    BY <2>1
<1>5. ASSUME NEW j
      PROVE  j \in Queued(u) <=> \/ j \in Queued(s)
                                 \/ c.op = "Execute" /\ j = c.job
  <2>1. j \in Queued(u) <=> \E i \in 1..Len(p) : p[i].op = "Execute" /\ j = p[i].job
    <3>1. u.queue \in Seq(Command)
      BY <1>1, <1>3
    <3>2. j \in Queued(u) <=> \E i \in 1..Len(u.queue) :
                                 u.queue[i].op = "Execute" /\ j = u.queue[i].job
      BY <3>1, InQueue, Zenon
    <3>3. QED
      BY <3>2, <1>3
  <2>2. j \in Queued(s) <=> \E i \in 1..Len(q) : q[i].op = "Execute" /\ j = q[i].job
    BY <1>1, InQueue
  <2>3. QED
    BY <2>1, <2>2, <1>1, <1>2
<1>6. c.op # "Execute" => Queued(u) = Queued(s)
  BY <1>5
<1>7. c.op = "Execute" => Queued(u) = Queued(s) \cup {c.job}
  BY <1>5
<1>8. c.op # "Close" /\ ~Shut(s) => ~Shut(u)
  BY <1>1, <1>2, <1>3 DEF Shut
<1>9. Single(u)
  <2>1. ASSUME NEW i \in 1..Len(p), NEW k \in 1..Len(p), p[i].job = p[k].job,
               p[i].job # 0
        PROVE  i = k
    <3>1. \A m \in 1..Len(q) : q[m].job # 0 => q[m].job \in Holds(s)
      BY DEF Numbers, Holds
    <3>2. CASE i \in 1..Len(q) /\ k \in 1..Len(q)
      BY <1>1, <2>1, <3>2 DEF Single
    <3>3. CASE i = Len(q) + 1 \/ k = Len(q) + 1
      BY <1>1, <1>2, <2>1, <3>1, <3>3
    <3>4. QED
      BY <1>2, <3>2, <3>3
  <2>2. u.work \cap Numbers(u) = {}
    BY <1>3, <1>4 DEF Single, Holds
  <2>3. u.tx \/ u.work = {}
    BY <1>3 DEF Single
  <2>4. \A i, k \in 1..Len(u.queue) :
           u.queue[i].job = u.queue[k].job => i = k \/ u.queue[i].job = 0
    BY <1>3, <2>1
  <2>5. QED
    BY <2>2, <2>3, <2>4 DEF Single
<1>10. QED
  BY <1>3, <1>4, <1>6, <1>7, <1>8, <1>9

(* The first command is done with.                                         *)
LEMMA SingleDone ==
    ASSUME NEW s \in Session, Single(s), s.queue # <<>>,
           NEW u \in Session, u.queue = Tail(s.queue),
           NEW c, c = Head(s.queue),
           \/ u.work \subseteq s.work
           \/ c.op = "Execute" /\ c.job # 0 /\ u.work \subseteq s.work \cup {c.job},
           u.tx \/ u.work = {}
    PROVE  /\ Single(u)
           /\ Numbers(u) \subseteq Numbers(s) \ {c.job}
           /\ c.job # 0 => c.job \in Numbers(s)
           /\ Queued(u) \subseteq Queued(s) \ ({c.job} \ {0})
           /\ Queued(s) \subseteq Queued(u) \cup {c.job}
           /\ c.op # "Execute" => Queued(s) = Queued(u)
           /\ c.op = "Execute" => c.job \in Queued(s)
           /\ Shut(u) => Shut(s)
           /\ c.op = "Close" => Shut(s)
<1> DEFINE q == s.queue
           p == Tail(q)
<1>1. /\ q \in Seq(Command) /\ p \in Seq(Command) /\ u.queue = p
      /\ Len(q) \in Nat /\ Len(q) >= 1 /\ Len(p) = Len(q) - 1
      /\ c = q[1]
      /\ \A i \in 1..Len(p) : p[i] = q[i + 1] /\ i + 1 \in 1..Len(q) /\ i + 1 # 1
  BY DEF Session
<1> HIDE DEF p
<1>2. /\ 1 \in 1..Len(q)
      /\ \A i \in 1..Len(q) : i # 1 => i - 1 \in 1..Len(p) /\ p[i - 1] = q[i]
  BY <1>1
<1>3. ASSUME NEW j
      PROVE  /\ j \in Numbers(u) <=> j # 0 /\ \E i \in 1..Len(p) : j = p[i].job
             /\ j \in Numbers(s) <=> j # 0 /\ \E i \in 1..Len(q) : j = q[i].job
  BY <1>1 DEF Numbers
<1>4. ASSUME NEW j
      PROVE  /\ j \in Queued(u) <=> \E i \in 1..Len(p) : p[i].op = "Execute" /\ j = p[i].job
             /\ j \in Queued(s) <=> \E i \in 1..Len(q) : q[i].op = "Execute" /\ j = q[i].job
  BY <1>1, InQueue
<1>5. Numbers(u) \subseteq Numbers(s) \ {c.job}
  <2>1. ASSUME NEW j \in Numbers(u)
        PROVE  j \in Numbers(s) /\ j # c.job
    <3>1. PICK i \in 1..Len(p) : j = p[i].job /\ j # 0
      BY <1>3
    <3>2. j = q[i + 1].job /\ i + 1 \in 1..Len(q) /\ i + 1 # 1
      BY <1>1, <3>1
    <3>3. j # c.job
      BY <1>1, <1>2, <3>1, <3>2 DEF Single
    <3>4. QED
      BY <1>3, <3>1, <3>2, <3>3
  <2>2. QED
    BY <2>1
<1>6. c.job # 0 => c.job \in Numbers(s)
  BY <1>1, <1>2, <1>3
<1>7. ASSUME NEW j \in Queued(u)
      PROVE  j \in Queued(s) /\ (j # 0 => j # c.job)
  <2>1. PICK i \in 1..Len(p) : p[i].op = "Execute" /\ j = p[i].job
    BY <1>4
  <2>2. j = q[i + 1].job /\ q[i + 1].op = "Execute" /\ i + 1 \in 1..Len(q) /\ i + 1 # 1
    BY <1>1, <2>1
  <2>3. j # 0 => j # c.job
    BY <1>1, <1>2, <2>2 DEF Single
  <2>4. QED
    BY <1>4, <2>2, <2>3
<1>8. ASSUME NEW j \in Queued(s)
      PROVE  j \in Queued(u) \/ (j = c.job /\ c.op = "Execute")
  <2>1. PICK i \in 1..Len(q) : q[i].op = "Execute" /\ j = q[i].job
    BY <1>4
  <2>2. CASE i = 1
    BY <1>1, <2>1, <2>2
  <2>3. CASE i # 1
    BY <1>2, <1>4, <2>1, <2>3
  <2>4. QED
    BY <2>2, <2>3
<1>9. /\ c.op = "Execute" => c.job \in Queued(s)
      /\ Shut(u) => Shut(s)
      /\ c.op = "Close" => Shut(s)
  <2>1. c.op = "Execute" => c.job \in Queued(s)
    <3>1. c.job \in Queued(s) <=> \E i \in 1..Len(q) :
                                      q[i].op = "Execute" /\ c.job = q[i].job
      BY <1>4
    <3>2. QED
      BY <1>1, <1>2, <3>1
  <2>2. Shut(u) => Shut(s)
    BY <1>1 DEF Shut
  <2>3. c.op = "Close" => Shut(s)
    BY <1>1, <1>2 DEF Shut
  <2>4. QED
    BY <2>1, <2>2, <2>3
<1>10. Single(u)
  <2>1. ASSUME NEW i \in 1..Len(p), NEW k \in 1..Len(p), p[i].job = p[k].job
        PROVE  i = k \/ p[i].job = 0
    <3>1. i + 1 = k + 1 \/ q[i + 1].job = 0
      BY <1>1, <2>1 DEF Single
    <3>2. QED
      BY <1>1, <3>1
  <2>2. u.work \cap Numbers(u) = {}
    BY <1>5 DEF Single
  <2>3. \A i, k \in 1..Len(u.queue) :
           u.queue[i].job = u.queue[k].job => i = k \/ u.queue[i].job = 0
    BY <1>1, <2>1
  <2>4. QED
    BY <2>2, <2>3 DEF Single
<1>11. Queued(u) \subseteq Queued(s) \ ({c.job} \ {0})
  BY <1>7
<1>12. /\ Queued(s) \subseteq Queued(u) \cup {c.job}
       /\ c.op # "Execute" => Queued(s) = Queued(u)
  BY <1>7, <1>8
<1>13. QED
  BY <1>5, <1>6, <1>9, <1>10, <1>11, <1>12

-----------------------------------------------------------------------------
LEMMA FatesTyped ==
    ASSUME Inv
    PROVE  /\ sessions \in Seq(Session) /\ Len(sessions) \in Nat
           /\ DOMAIN sessions = 1..Len(sessions)
           /\ jobs \in Nat /\ jobs <= MaxJobs /\ MaxJobs \in Nat
           /\ auto \subseteq 1..jobs /\ committed \subseteq 1..jobs
           /\ slot.job \in 0..jobs
           /\ tabs \in [Tabs -> Tab] /\ current \in Tabs
           /\ \A t \in Holding : /\ t \in Tabs
                                 /\ tabs[t].session \in 1..Len(sessions)
                                 /\ HeldBy(t) \in Session
           /\ \A s \in 1..Len(sessions) :
                 /\ sessions[s] \in Session
                 /\ sessions[s].queue \in Seq(Command)
                 /\ Has(sessions[s]) \subseteq 1..jobs
                 /\ Has(sessions[s]) \subseteq Holds(sessions[s])
                 /\ Queued(sessions[s]) \subseteq Numbers(sessions[s])
                 /\ Queued(sessions[s]) \subseteq Has(sessions[s])
                 /\ sessions[s].work \subseteq Has(sessions[s])
<1>1. sessions \in Seq(Session) /\ Len(sessions) \in Nat
      /\ DOMAIN sessions = 1..Len(sessions)
  BY TabsTyped
<1>2. /\ jobs \in Nat /\ jobs <= MaxJobs /\ MaxJobs \in Nat
      /\ auto \subseteq 1..jobs /\ committed \subseteq 1..jobs
      /\ slot.job \in 0..jobs
  BY JobsBounded DEF Inv, JobsInv
<1>3. /\ tabs \in [Tabs -> Tab] /\ current \in Tabs
      /\ \A t \in Holding : /\ t \in Tabs
                            /\ tabs[t].session \in 1..Len(sessions)
                            /\ HeldBy(t) \in Session
  BY <1>1 DEF Inv, TabsInv, TabsProper, TabProper, Holding, HeldBy
<1>4. ASSUME NEW s \in 1..Len(sessions)
      PROVE  /\ sessions[s] \in Session
             /\ sessions[s].queue \in Seq(Command)
             /\ Has(sessions[s]) \subseteq 1..jobs
             /\ Has(sessions[s]) \subseteq Holds(sessions[s])
             /\ Queued(sessions[s]) \subseteq Numbers(sessions[s])
             /\ Queued(sessions[s]) \subseteq Has(sessions[s])
             /\ sessions[s].work \subseteq Has(sessions[s])
  <2>1. sessions[s] \in Session /\ Has(sessions[s]) \subseteq 1..jobs
    BY DEF Inv, SessionsInv, AllProper, Proper
  <2>2. sessions[s].queue \in Seq(Command)
    BY <2>1 DEF Session
  <2>3. 0 \notin Has(sessions[s])
    BY <1>2, <2>1
  <2>4. /\ Has(sessions[s]) \subseteq Holds(sessions[s])
        /\ Queued(sessions[s]) \subseteq Numbers(sessions[s])
    BY <2>1, <2>3, HasHolds
  <2>5. QED
    BY <2>1, <2>2, <2>4 DEF Has
<1>5. QED
  BY <1>1, <1>2, <1>3, <1>4

(* The steps in which the sessions do nothing.                             *)
AllCalm ==
    /\ Len(sessions') = Len(sessions)
    /\ \A s \in 1..Len(sessions) : Calm(sessions[s], sessions'[s])

LEMMA CalmHas ==
    ASSUME NEW s, NEW u, Calm(s, u)
    PROVE  Has(u) = Has(s) /\ Holds(u) = Holds(s)
BY DEF Calm, Has, Holds

LEMMA CalmApart ==
    ASSUME Inv, Fates, AllCalm, jobs' \in {jobs, jobs + 1},
           Elsewhere' \subseteq Elsewhere \cup {0, jobs + 1},
           results' \subseteq results \cup auto
    PROVE  ApartInv'
<1>1. jobs \in Nat
  BY FatesTyped
<1>2. /\ 1..jobs \subseteq 1..jobs'
      /\ 0 \notin 1..jobs /\ jobs + 1 \notin 1..jobs
  BY <1>1
<1>3. Len(sessions') = Len(sessions)
  BY DEF AllCalm
<1>4. ASSUME NEW s \in 1..Len(sessions)
      PROVE  /\ Single(sessions'[s])
             /\ Holds(sessions'[s]) = Holds(sessions[s])
             /\ Holds(sessions'[s]) \subseteq 1..jobs'
             /\ Holds(sessions'[s]) \cap Elsewhere' = {}
             /\ Numbers(sessions'[s]) \cap results' = {}
  <2>1. Calm(sessions[s], sessions'[s])
    BY DEF AllCalm
  <2>2. /\ Single(sessions'[s])
        /\ Numbers(sessions'[s]) = Numbers(sessions[s])
        /\ Holds(sessions'[s]) = Holds(sessions[s])
    BY <2>1, CalmHas DEF Calm
  <2>3. /\ Holds(sessions[s]) \subseteq 1..jobs
        /\ Holds(sessions[s]) \cap Elsewhere = {}
        /\ Numbers(sessions[s]) \cap results = {}
    BY DEF Fates, ApartInv
  <2>4. Numbers(sessions[s]) \subseteq Holds(sessions[s])
    BY DEF Holds
  <2>5. Numbers(sessions[s]) \cap auto = {}
    BY <2>3, <2>4 DEF Elsewhere
  <2>6. Holds(sessions[s]) \cap Elsewhere' = {}
    BY <1>2, <2>3
  <2>7. Numbers(sessions[s]) \cap results' = {}
    BY <2>3, <2>5
  <2>8. QED
    BY <1>2, <2>2, <2>3, <2>6, <2>7
<1>5. \A s, u \in 1..Len(sessions) :
          s # u => Holds(sessions'[s]) \cap Holds(sessions'[u]) = {}
  BY <1>4 DEF Fates, ApartInv
<1>6. QED
  BY <1>3, <1>4, <1>5 DEF ApartInv

(* Tabs keep their sessions or give them up.                               *)
LEMMA CalmHeld ==
    ASSUME Inv, Fates, AllCalm,
           owner' \in [1..MaxJobs -> Tabs \cup {0}],
           \A j \in 1..jobs : owner'[j] = owner[j],
           tabs'[current'].open,
           \A t \in Tabs : tabs'[t].session # 0 =>
               /\ tabs'[t].session = tabs[t].session
               /\ tabs'[t].open
               /\ Shut(sessions'[tabs[t].session]) => Shut(HeldBy(t))
    PROVE  HeldInv'
<1>1. ASSUME NEW t \in Holding'
      PROVE  /\ t \in Holding /\ tabs'[t].session = tabs[t].session
             /\ tabs'[t].open
             /\ ~Shut(HeldBy(t)')
             /\ \A j \in Queued(HeldBy(t)') : owner'[j] = t
  <2>1. /\ t \in Holding /\ tabs'[t].session = tabs[t].session
        /\ tabs'[t].open
        /\ Shut(sessions'[tabs[t].session]) => Shut(HeldBy(t))
    BY DEF Holding
  <2>2. /\ tabs[t].session \in 1..Len(sessions)
        /\ Queued(HeldBy(t)) \subseteq 1..jobs
    BY <2>1, FatesTyped DEF HeldBy
  <2>3. Calm(HeldBy(t), HeldBy(t)')
    BY <2>1, <2>2 DEF AllCalm, HeldBy
  <2>4. Queued(HeldBy(t)') = Queued(HeldBy(t))
    BY <2>3 DEF Calm
  <2>5. ~Shut(HeldBy(t)) /\ \A j \in Queued(HeldBy(t)) : owner[j] = t
    BY <2>1 DEF Fates, HeldInv
  <2>6. ~Shut(HeldBy(t)')
    BY <2>1, <2>5 DEF HeldBy
  <2>7. QED
    BY <2>1, <2>2, <2>4, <2>5, <2>6
<1>2. \A t, u \in Holding' : tabs'[t].session = tabs'[u].session => t = u
  BY <1>1 DEF Fates, HeldInv
<1>3. \A t \in Holding' : tabs'[t].open /\ ~Shut(HeldBy(t)')
                          /\ \A j \in Queued(HeldBy(t)') : owner'[j] = t
  BY <1>1
<1>4. QED
  BY <1>2, <1>3 DEF HeldInv

(* What is newly promised to be rolled back was in the session of a tab    *)
(* that has given it up.                                                   *)
LEMMA CalmGone ==
    ASSUME Inv, Fates, AllCalm, broken \subseteq broken', asked' = asked,
           committed' \subseteq committed \cup auto,
           \A t \in Tabs : tabs'[t].session \in {tabs[t].session, 0},
           \/ gone' = gone
           \/ Unclear'
           \/ \E t \in Tabs :
                 /\ tabs'[t].session = 0
                 /\ gone' = gone \cup (Pending(t) \ asked)
    PROVE  GoneInv'
<1>1. CASE Unclear'
  BY <1>1 DEF GoneInv
<1>2. CASE ~Unclear'
  <2>1. ~Unclear
    BY <1>2 DEF Unclear, Unless
  <2>2. /\ committed \cap gone = {}
        /\ \A s \in 1..Len(sessions) : gone \cap asked \cap Has(sessions[s]) = {}
        /\ \A t \in Holding : gone \cap Has(HeldBy(t)) = {}
    BY <2>1 DEF Fates, GoneInv
  <2>3. ASSUME NEW j \in gone' \ gone
        PROVE  \E t \in Holding : /\ j \in Has(HeldBy(t)) /\ j \notin asked
                                  /\ tabs'[t].session = 0
    <3>1. PICK t \in Tabs : tabs'[t].session = 0 /\ j \in Pending(t) \ asked
      BY <1>2, <2>3
    <3>2. t \in Holding /\ j \in Has(HeldBy(t))
      BY <3>1 DEF Pending, Holding, HeldBy, Has
    <3>3. QED
      BY <3>1, <3>2
  <2>4. committed' \cap gone' = {}
    <3>1. ASSUME NEW j \in gone', j \in committed \cup auto
          PROVE  FALSE
      <4>1. CASE j \in gone
        BY <2>2, <3>1, <4>1 DEF Fates, BooksInv
      <4>2. CASE j \notin gone
        <5>1. PICK t \in Holding : j \in Has(HeldBy(t))
          BY <2>3, <4>2
        <5>2. tabs[t].session \in 1..Len(sessions) /\ j \in Holds(HeldBy(t))
          BY <5>1, FatesTyped DEF HeldBy
        <5>3. j \notin Elsewhere
          BY <5>2 DEF Fates, ApartInv, HeldBy
        <5>4. QED
          BY <3>1, <5>3 DEF Elsewhere
      <4>3. QED
        BY <4>1, <4>2
    <3>2. QED
      BY <3>1
  <2>5. Len(sessions') = Len(sessions)
        /\ \A s \in 1..Len(sessions) : Has(sessions'[s]) = Has(sessions[s])
    BY CalmHas DEF AllCalm
  <2>6. \A s \in 1..Len(sessions') :
           gone' \cap asked' \cap Has(sessions'[s]) = {}
    BY <2>2, <2>3, <2>5
  <2>7. ASSUME NEW t \in Holding'
        PROVE  gone' \cap Has(HeldBy(t)') = {}
    <3>1. /\ t \in Holding /\ tabs'[t].session = tabs[t].session
          /\ tabs[t].session \in 1..Len(sessions)
      BY FatesTyped DEF Holding
    <3>2. Has(HeldBy(t)') = Has(HeldBy(t))
      BY <2>5, <3>1 DEF HeldBy
    <3>3. ASSUME NEW j \in gone' \cap Has(HeldBy(t))
          PROVE  FALSE
      <4>1. j \notin gone
        BY <2>2, <3>1, <3>3
      <4>2. PICK u \in Holding : j \in Has(HeldBy(u)) /\ tabs'[u].session = 0
        BY <2>3, <3>3, <4>1
      <4>3. /\ u # t /\ tabs[u].session # tabs[t].session
            /\ tabs[u].session \in 1..Len(sessions)
        BY <3>1, <4>2, FatesTyped DEF Fates, HeldInv, Holding
      <4>4. Holds(HeldBy(u)) \cap Holds(HeldBy(t)) = {}
        BY <3>1, <4>3 DEF Fates, ApartInv, HeldBy
      <4>5. QED
        BY <3>1, <3>3, <4>2, <4>3, <4>4, FatesTyped DEF HeldBy
    <3>4. QED
      BY <3>2, <3>3
  <2>8. QED
    BY <2>4, <2>6, <2>7 DEF GoneInv
<1>3. QED
  BY <1>1, <1>2

(* The user knows what becomes of all a tab gives up, and the flag of one  *)
(* that keeps its session says what it has to.                             *)
Cared(t) ==
    /\ tabs'[t].session = 0 => Has(HeldBy(t)) \subseteq Accounted'
    /\ tabs'[t].session # 0 =>
          /\ tabs'[t].session = tabs[t].session
          /\ tabs'[t].open
          /\ tabs'[t].tx_active \/ Has(HeldBy(t)) \subseteq Accounted'
          /\ Queued(HeldBy(t)) \subseteq running' \cup Accounted'
          /\ \/ tabs'[t].target = NoTarget
             \/ HeldBy(t).target.conn = tabs'[t].target.conn

LEMMA CalmLost ==
    ASSUME Inv, Fates, AllCalm, broken \subseteq broken', done' = done,
           Accounted \subseteq Accounted',
           Lossy' \/ \A t \in Holding : Cared(t),
           \A t \in Tabs \ Holding : tabs'[t].session = 0
    PROVE  LostInv'
<1>1. CASE Lossy'
  BY <1>1 DEF LostInv
<1>2. CASE ~Lossy'
  <2> DEFINE Kept(t) == tabs'[t].session = tabs[t].session
  <2>1. ~Lossy
    BY <1>2 DEF Lossy, Unless
  <2>2. /\ done \subseteq Accounted \cup InReach
        /\ \A s \in 1..Len(sessions) :
              (\A t \in Holding : tabs[t].session # s)
                 => Has(sessions[s]) \subseteq Accounted
    BY <2>1 DEF Fates, LostInv
  <2>3. ASSUME NEW t \in Holding
        PROVE  /\ tabs'[t].session = 0 => Has(HeldBy(t)) \subseteq Accounted'
               /\ tabs'[t].session # 0 =>
                     /\ tabs'[t].session = tabs[t].session
                     /\ tabs'[t].open
                     /\ \/ tabs'[t].tx_active
                        \/ Has(HeldBy(t)) \subseteq Accounted'
                     /\ Queued(HeldBy(t)) \subseteq running' \cup Accounted'
                     /\ \/ tabs'[t].target = NoTarget
                        \/ HeldBy(t).target.conn = tabs'[t].target.conn
               /\ tabs[t].session \in 1..Len(sessions)
               /\ HeldBy(t).work \subseteq Has(HeldBy(t))
    BY <1>2, FatesTyped DEF Cared, HeldBy
  <2>4. Len(sessions') = Len(sessions)
        /\ \A s \in 1..Len(sessions) :
              /\ Has(sessions'[s]) = Has(sessions[s])
              /\ Queued(sessions'[s]) = Queued(sessions[s])
              /\ sessions'[s].work = sessions[s].work
              /\ sessions'[s].target = sessions[s].target
    BY CalmHas DEF AllCalm, Calm
  <2>5. \A t \in Holding' : t \in Holding /\ tabs'[t].session # 0
    BY DEF Holding
  <2>6. ASSUME NEW j \in done
        PROVE  j \in Accounted' \cup InReach'
    <3>1. CASE j \in Accounted
      BY <3>1
    <3>2. CASE j \in InReach
      <4>1. PICK t \in Open : tabs[t].session # 0 /\ j \in HeldBy(t).work
        BY <3>2 DEF InReach, HeldBy
      <4>2. t \in Holding /\ t \in Tabs
        BY <4>1 DEF Holding, Open
      <4>3. CASE tabs'[t].session = 0
        BY <2>3, <4>1, <4>2, <4>3
      <4>4. CASE tabs'[t].session # 0
        <5>1. /\ t \in Open' /\ tabs'[t].session # 0
              /\ sessions'[tabs'[t].session].work = HeldBy(t).work
          BY <2>3, <2>4, <4>2, <4>4 DEF Open, HeldBy
        <5>2. QED
          BY <4>1, <5>1 DEF InReach
      <4>5. QED
        BY <4>3, <4>4
    <3>3. QED
      BY <2>2, <3>1, <3>2
  <2>7. ASSUME NEW s \in 1..Len(sessions'),
               \A t \in Holding' : tabs'[t].session # s
        PROVE  Has(sessions'[s]) \subseteq Accounted'
    <3>1. CASE \A t \in Holding : tabs[t].session # s
      <4>1. Has(sessions[s]) \subseteq Accounted
        BY <2>2, <2>4, <3>1
      <4>2. Has(sessions'[s]) = Has(sessions[s])
        BY <2>4
      <4>3. QED
        BY <4>1, <4>2
    <3>2. CASE \E t \in Holding : tabs[t].session = s
      <4>1. PICK t \in Holding : tabs[t].session = s
        BY <3>2
      <4>2. tabs'[t].session = 0
        BY <2>3, <2>7, <4>1 DEF Holding
      <4>3. QED
        BY <2>3, <2>4, <4>1, <4>2 DEF HeldBy
    <3>3. QED
      BY <3>1, <3>2
  <2>8. ASSUME NEW t \in Holding'
        PROVE  /\ tabs'[t].tx_active \/ Has(HeldBy(t)') \subseteq Accounted'
               /\ Queued(HeldBy(t)') \subseteq running' \cup Accounted'
               /\ \/ tabs'[t].target = NoTarget
                  \/ HeldBy(t)'.target.conn = tabs'[t].target.conn
    <3>1. /\ Has(HeldBy(t)') = Has(HeldBy(t))
          /\ Queued(HeldBy(t)') = Queued(HeldBy(t))
          /\ HeldBy(t)'.target = HeldBy(t).target
      BY <2>3, <2>4, <2>5 DEF HeldBy
    <3>2. QED
      BY <2>3, <2>5, <3>1
  <2>9. done' \subseteq Accounted' \cup InReach'
    BY <2>6
  <2>10. QED
    BY <2>7, <2>8, <2>9 DEF LostInv
<1>3. QED
  BY <1>1, <1>2

LEMMA StandsCalm ==
    ASSUME Fates, sessions' = sessions
    PROVE  AllCalm
BY DEF AllCalm, Calm, Fates, ApartInv

LEMMA ReleasedIsCalm ==
    ASSUME Inv, Fates, NEW T
    PROVE  /\ Len(Released(T)) = Len(sessions)
           /\ \A s \in 1..Len(sessions) : Calm(sessions[s], Released(T)[s])
           /\ \A s \in 1..Len(sessions) :
                 Shut(Released(T)[s]) =>
                    Shut(sessions[s]) \/ \E t \in T : tabs[t].session = s
<1> DEFINE ss == Released(T)
           u(s) == [sessions[s] EXCEPT !.queue = Append(@, Close)]
<1>1. Close \in Command /\ Close.op = "Close" /\ Close.job = 0
  BY DEF Close, Command
<1>2. ASSUME NEW s \in 1..Len(sessions)
      PROVE  Calm(sessions[s], u(s)) /\ Calm(sessions[s], sessions[s])
  <2>1. sessions[s] \in Session /\ Single(sessions[s])
    BY FatesTyped DEF Fates, ApartInv
  <2> DEFINE x == sessions[s]
             c == Close
             y == u(s)
  <2>2. y = [x EXCEPT !.queue = Append(@, c)] /\ x \in Session /\ Single(x)
        /\ c \in Command /\ c.op = "Close" /\ c.job = 0
    BY <1>1, <2>1
  <2> HIDE DEF x, y, c
  <2>3. /\ Single(y) /\ y.work = x.work /\ y.tx = x.tx /\ y.flag = x.flag
        /\ y.target = x.target
        /\ Numbers(y) = Numbers(x) \cup ({c.job} \ {0})
        /\ c.op # "Execute" => Queued(y) = Queued(x)
    BY <2>2, SingleSent
  <2>4. Calm(x, y)
    BY <2>2, <2>3 DEF Calm
  <2>5. Calm(x, x)
    BY <2>2 DEF Calm
  <2>6. QED
    BY <2>4, <2>5 DEF x, y
<1>3. /\ DOMAIN sessions = 1..Len(sessions) /\ Len(sessions) \in Nat
      /\ ss = [s \in 1..Len(sessions) |->
                        IF \E t \in T : tabs[t].session = s
                        THEN u(s) ELSE sessions[s]]
  BY FatesTyped DEF Released
<1> HIDE DEF u, ss
<1>4. Len(ss) = Len(sessions)
  <2>1. \A s \in 1..Len(sessions) : ss[s] \in {u(s), sessions[s]}
    BY <1>3
  <2>2. ss \in Seq({u(s) : s \in 1..Len(sessions)} \cup
                         {sessions[s] : s \in 1..Len(sessions)})
    BY <1>3, <2>1
  <2>3. QED
    BY <1>3, <2>2
<1>5. QED
  BY <1>2, <1>3, <1>4 DEF ss

LEMMA ReleasedCalm ==
    ASSUME Inv, Fates, NEW T, sessions' = Released(T)
    PROVE  /\ AllCalm
           /\ \A s \in 1..Len(sessions) :
                 Shut(sessions'[s]) =>
                    Shut(sessions[s]) \/ \E t \in T : tabs[t].session = s
BY ReleasedIsCalm DEF AllCalm

(* What is in the session of a tab, its work and the statements queued.    *)
LEMMA PendingIs ==
    ASSUME Inv, Fates, NEW t \in Tabs
    PROVE  /\ t \in Holding => /\ Pending(t) = Has(HeldBy(t))
                               /\ Pending(t) \subseteq 1..jobs
                               /\ Pending(t) \cap Elsewhere = {}
           /\ t \notin Holding => Pending(t) = {}
<1>1. CASE t \in Holding
  <2>1. tabs[t].session \in 1..Len(sessions)
    BY <1>1, FatesTyped
  <2>2. Pending(t) = Has(HeldBy(t))
    BY <1>1 DEF Pending, Holding, HeldBy, Has
  <2>3. Has(HeldBy(t)) \subseteq 1..jobs /\ Has(HeldBy(t)) \subseteq Holds(HeldBy(t))
    BY <2>1, FatesTyped DEF HeldBy
  <2>4. Holds(HeldBy(t)) \cap Elsewhere = {}
    BY <2>1 DEF Fates, ApartInv, HeldBy
  <2>5. QED
    BY <1>1, <2>2, <2>3, <2>4
<1>2. QED
  BY <1>1 DEF Pending, Holding

(* What the tabs do by themselves: they keep their sessions or give them   *)
(* up, and promise that what one has is rolled back.                       *)
LEMMA TabStep ==
    ASSUME Inv, Fates, AllCalm, broken \subseteq broken',
           UNCHANGED <<jobs, owner, auto, results, slot, asked, unwanted,
                       committed, done>>,
           tabs'[current'].open,
           \A t \in Tabs :
              \/ tabs'[t].session = 0
              \/ /\ tabs'[t].session = tabs[t].session
                 /\ tabs'[t].open
                 /\ Shut(sessions'[tabs[t].session]) => Shut(HeldBy(t)),
           \/ gone' = gone
           \/ \E t \in Tabs :
                 /\ tabs'[t].session = 0 \/ Unclear'
                 /\ gone' = gone \cup (Pending(t) \ asked),
           Lossy' \/ \A t \in Holding : Cared(t)
    PROVE  Fates'
<1>1. Elsewhere' = Elsewhere
  BY DEF Elsewhere
<1>2. gone \subseteq gone' /\ Accounted \subseteq Accounted'
  BY DEF Accounted
<1>3. ApartInv'
  BY <1>1, CalmApart
<1>4. BooksInv'
  <2>1. gone' \subseteq 1..jobs /\ gone' \cap (auto \cup {slot.job}) = {}
    BY PendingIs DEF Fates, BooksInv, Elsewhere
  <2>2. QED
    BY <2>1 DEF Fates, BooksInv
<1>5. HeldInv'
  BY CalmHeld DEF Fates, HeldInv
<1>6. GoneInv'
  <2>1. \A t \in Tabs : tabs'[t].session \in {tabs[t].session, 0}
    OBVIOUS
  <2>2. QED
    BY <2>1, CalmGone
<1>7. LostInv'
  <2>1. \A t \in Tabs \ Holding : tabs'[t].session = 0
    BY DEF Holding
  <2>2. QED
    BY <1>2, <2>1, CalmLost
<1>8. QED
  BY <1>3, <1>4, <1>5, <1>6, <1>7 DEF Fates

(* A tab that keeps its session and its flag.                              *)
LEMMA SameTab ==
    ASSUME Inv, Fates, ~Lossy, NEW t \in Holding,
           Accounted \subseteq Accounted',
           tabs'[t].session = tabs[t].session, tabs'[t].open,
           tabs'[t].tx_active = tabs[t].tx_active,
           tabs'[t].target \in {tabs[t].target, NoTarget},
           Queued(HeldBy(t)) \cap running \subseteq running'
    PROVE  Cared(t)
<1>1. /\ tabs[t].tx_active \/ Has(HeldBy(t)) \subseteq Accounted
      /\ Queued(HeldBy(t)) \subseteq running \cup Accounted
      /\ \/ tabs[t].target = NoTarget
         \/ HeldBy(t).target.conn = tabs[t].target.conn
      /\ tabs[t].session # 0
  BY DEF Fates, LostInv, Holding
<1>2. tabs'[t].tx_active \/ Has(HeldBy(t)) \subseteq Accounted'
  BY <1>1
<1>3. Queued(HeldBy(t)) \subseteq running' \cup Accounted'
  BY <1>1
<1>4. QED
  BY <1>1, <1>2, <1>3 DEF Cared

LEMMA LossyLater ==
    ASSUME broken \subseteq broken'
    PROVE  (Lossy => Lossy') /\ (Unclear => Unclear')
BY DEF Lossy, Unclear, Unless
-----------------------------------------------------------------------------
LEMMA NewTabFates ==
    ASSUME Inv, Fates, broken \subseteq broken', NewTab
    PROVE  Fates'
<1> USE FatesTyped DEF jobVars, history, wishes, fates
<1>1. PICK t \in Tabs \ Open :
         /\ tabs' = [tabs EXCEPT ![t] = Fresh(tabs[current].target)]
         /\ current' = t
  BY DEF NewTab
<1>2. UNCHANGED <<jobVars, sessions, history>>
  BY DEF NewTab
<1>3. /\ tabs'[t].session = 0 /\ tabs'[t].open
      /\ \A u \in Tabs : u # t => tabs'[u] = tabs[u]
  BY <1>1 DEF Fresh, Closed
<1>4. \A u \in Holding : u # t /\ tabs[u].open
  BY <1>1 DEF Fates, HeldInv, Open
<1>5. AllCalm
  BY <1>2, StandsCalm
<1>6. Lossy' \/ \A u \in Holding : Cared(u)
  <2>1. CASE Lossy
    BY <2>1, LossyLater
  <2>2. ASSUME ~Lossy, NEW u \in Holding
        PROVE  Cared(u)
    <3>1. Accounted' = Accounted /\ running' = running
      BY <1>2 DEF Accounted
    <3>2. tabs'[u] = tabs[u] /\ tabs[u].open
      BY <1>3, <1>4
    <3>3. QED
      BY <2>2, <3>1, <3>2, SameTab
  <2>3. QED
    BY <2>1, <2>2
<1>7. \A u \in Tabs :
         \/ tabs'[u].session = 0
         \/ /\ tabs'[u].session = tabs[u].session
            /\ tabs'[u].open
            /\ Shut(sessions'[tabs[u].session]) => Shut(HeldBy(u))
  <2>1. \A u \in Tabs : u \in Holding \/ tabs[u].session = 0
    BY DEF Holding
  <2>2. \A u \in Tabs : Shut(sessions'[tabs[u].session]) => Shut(HeldBy(u))
    BY <1>2 DEF HeldBy
  <2>3. QED
    BY <1>3, <1>4, <2>1, <2>2
<1>8. tabs'[current'].open
  BY <1>1, <1>3
<1>9. QED
  BY <1>2, <1>5, <1>6, <1>7, <1>8, TabStep

(* The sessions, and what the tabs say of them, stay as they are.          *)
LEMMA MarkFates ==
    ASSUME Inv, Fates, broken \subseteq broken',
           UNCHANGED <<sessions, jobVars, asked, unwanted, committed, done>>,
           tabs'[current'].open,
           \A t \in Tabs : /\ tabs'[t].session = tabs[t].session
                           /\ tabs'[t].open = tabs[t].open
                           /\ tabs'[t].tx_active = tabs[t].tx_active
                           /\ tabs'[t].target = tabs[t].target,
           \/ gone' = gone
           \/ \E t \in Tabs :
                 /\ tabs'[t].session = 0 \/ Unclear'
                 /\ gone' = gone \cup (Pending(t) \ asked)
    PROVE  Fates'
<1> USE FatesTyped DEF jobVars
<1>1. AllCalm
  BY StandsCalm
<1>2. \A t \in Tabs :
         \/ tabs'[t].session = 0
         \/ /\ tabs'[t].session = tabs[t].session
            /\ tabs'[t].open
            /\ Shut(sessions'[tabs[t].session]) => Shut(HeldBy(t))
  <2>1. \A t \in Tabs : tabs[t].session # 0 => tabs[t].open
    BY DEF Fates, HeldInv, Holding
  <2>2. \A t \in Tabs : Shut(sessions'[tabs[t].session]) => Shut(HeldBy(t))
    BY DEF HeldBy
  <2>3. QED
    BY <2>1, <2>2
<1>3. Lossy' \/ \A t \in Holding : Cared(t)
  <2>1. CASE Lossy
    BY <2>1, LossyLater
  <2>2. ASSUME ~Lossy, NEW t \in Holding
        PROVE  Cared(t)
    <3>1. Accounted \subseteq Accounted' /\ running' = running
      BY DEF Accounted
    <3>2. /\ tabs'[t].session = tabs[t].session
          /\ tabs'[t].open
          /\ tabs'[t].tx_active = tabs[t].tx_active
          /\ tabs'[t].target \in {tabs[t].target, NoTarget}
      BY DEF Fates, HeldInv, Holding
    <3>3. QED
      BY <2>2, <3>1, <3>2, SameTab
  <2>3. QED
    BY <2>1, <2>2
<1>4. QED
  BY <1>1, <1>2, <1>3, TabStep

LEMMA ToggleFates ==
    ASSUME Inv, Fates, broken \subseteq broken',
           SwitchTab \/ KeepTab \/ TurnOn \/ PaletteOff
    PROVE  Fates'
<1> USE FatesTyped DEF history, wishes, fates
<1>1. UNCHANGED <<sessions, jobVars, asked, unwanted, committed, done>>
  BY DEF SwitchTab, KeepTab, TurnOn, PaletteOff
<1>2. CASE SwitchTab \/ KeepTab
  <2>1. tabs' = tabs /\ gone' = gone
    BY <1>2 DEF SwitchTab, KeepTab
  <2>2. tabs'[current'].open
    BY <1>2, <2>1 DEF SwitchTab, KeepTab, Open, Fates, HeldInv
  <2>3. QED
    BY <1>1, <2>1, <2>2, MarkFates
<1>3. CASE TurnOn \/ PaletteOff
  <2>1. PICK b \in BOOLEAN : tabs' = [tabs EXCEPT ![current].tx_mode = b]
    BY <1>3 DEF TurnOn, PaletteOff
  <2>2. \A t \in Tabs : /\ tabs'[t].session = tabs[t].session
                        /\ tabs'[t].open = tabs[t].open
                        /\ tabs'[t].tx_active = tabs[t].tx_active
                        /\ tabs'[t].target = tabs[t].target
    BY <2>1 DEF Tab
  <2>3. current' = current /\ tabs[current].open
    BY <1>3 DEF TurnOn, PaletteOff, Fates, HeldInv
  <2>4. tabs'[current'].open
    BY <2>2, <2>3
  <2>5. \/ gone' = gone
        \/ \E t \in Tabs :
              /\ tabs'[t].session = 0 \/ Unclear'
              /\ gone' = gone \cup (Pending(t) \ asked)
    <3>1. CASE TurnOn
      BY <3>1 DEF TurnOn
    <3>2. CASE PaletteOff
      <4>1. gone' = gone \cup (Pending(current) \ asked)
        BY <3>2 DEF PaletteOff
      <4>2. CASE tabs[current].session = 0
        BY <2>2, <4>1, <4>2
      <4>3. CASE tabs[current].session # 0
        <5>1. "palette" \in broken'
          BY <3>2, <4>3 DEF PaletteOff, Quirk
        <5>2. Unclear'
          BY <5>1 DEF Unclear, Unless
        <5>3. QED
          BY <4>1, <5>2
      <4>4. QED
        BY <4>2, <4>3
    <3>3. QED
      BY <1>3, <3>1, <3>2
  <2>6. QED
    BY <1>1, <2>2, <2>4, <2>5, MarkFates
<1>4. QED
  BY <1>2, <1>3

(* Another target: a session on another connection will not be used again. *)
LEMMA PickFates ==
    ASSUME Inv, Fates, broken \subseteq broken', PickTarget
    PROVE  Fates'
<1> USE FatesTyped DEF jobVars, wishes, fates
<1>1. PICK target \in Targets :
         LET s == tabs[current].session IN
         /\ IF s = 0 THEN NoQuirk
            ELSE IF sessions[s].target = target THEN NoQuirk
            ELSE Quirk(IF target.conn = sessions[s].target.conn
                       THEN "database" ELSE "reconnect")
         /\ tabs' = [tabs EXCEPT ![current].target = target]
  BY DEF PickTarget
<1>2. UNCHANGED <<current, asking, jobVars, sessions, wishes, fates>>
  BY DEF PickTarget
<1>3. \A t \in Tabs :
         /\ tabs'[t].session = tabs[t].session
         /\ tabs'[t].open = tabs[t].open
         /\ tabs'[t].tx_active = tabs[t].tx_active
         /\ tabs'[t].target = IF t = current THEN target ELSE tabs[t].target
  BY <1>1 DEF Tab
<1>4. AllCalm
  BY <1>2, StandsCalm
<1>5. \A t \in Tabs :
         \/ tabs'[t].session = 0
         \/ /\ tabs'[t].session = tabs[t].session
            /\ tabs'[t].open
            /\ Shut(sessions'[tabs[t].session]) => Shut(HeldBy(t))
  <2>1. \A t \in Tabs : tabs[t].session # 0 => tabs[t].open
    BY DEF Fates, HeldInv, Holding
  <2>2. \A t \in Tabs : Shut(sessions'[tabs[t].session]) => Shut(HeldBy(t))
    BY <1>2 DEF HeldBy
  <2>3. QED
    BY <1>3, <2>1, <2>2
<1>6. Lossy' \/ \A t \in Holding : Cared(t)
  <2>1. CASE Lossy
    BY <2>1, LossyLater
  <2>2. ASSUME ~Lossy, ~Lossy', NEW t \in Holding
        PROVE  Cared(t)
    <3>1. Accounted' = Accounted /\ running' = running
      BY <1>2 DEF Accounted
    <3>2. /\ tabs'[t].session = tabs[t].session
          /\ tabs'[t].open
          /\ tabs'[t].tx_active = tabs[t].tx_active
      BY <1>3 DEF Fates, HeldInv, Holding
    <3>3. CASE t # current
      BY <1>3, <2>2, <3>1, <3>2, <3>3, SameTab
    <3>4. CASE t = current
      <4>1. /\ tabs[t].tx_active \/ Has(HeldBy(t)) \subseteq Accounted
            /\ Queued(HeldBy(t)) \subseteq running \cup Accounted
            /\ tabs[t].session # 0
        BY <2>2 DEF Fates, LostInv, Holding
      <4>2. \/ HeldBy(t).target = target
            \/ target.conn = HeldBy(t).target.conn
            \/ "reconnect" \in broken'
        BY <1>1, <3>4, <4>1 DEF Quirk, HeldBy
      <4>3. HeldBy(t).target.conn = target.conn
        BY <2>2, <4>2 DEF Lossy, Unless
      <4>4. tabs'[t].target = target
        BY <1>3, <3>4
      <4>5. QED
        BY <3>1, <3>2, <4>1, <4>3, <4>4 DEF Cared
    <3>5. QED
      BY <3>3, <3>4
  <2>3. QED
    BY <2>1, <2>2, LossyLater
<1>7. tabs'[current'].open
  BY <1>2, <1>3 DEF Fates, HeldInv
<1>8. QED
  BY <1>2, <1>4, <1>5, <1>6, <1>7, TabStep
-----------------------------------------------------------------------------
(* The tabs T give up their sessions; what they had is accounted for.      *)
LEMMA GiveUpFates ==
    ASSUME Inv, Fates, broken \subseteq broken', NEW T \in SUBSET Tabs,
           sessions' = Released(T),
           UNCHANGED <<jobs, owner, auto, results, slot, asked, unwanted,
                       committed, done>>,
           tabs'[current'].open,
           \A t \in T : tabs'[t].session = 0,
           \A t \in Tabs \ T : tabs'[t] = tabs[t],
           \/ gone' = gone
           \/ \E t \in T : gone' = gone \cup (Pending(t) \ asked),
           \/ Lossy'
           \/ \A t \in T \cap Holding : Has(HeldBy(t)) \subseteq Accounted',
           \A t \in Holding \ T : Queued(HeldBy(t)) \cap running \subseteq running'
    PROVE  Fates'
<1> USE FatesTyped
<1>1. /\ AllCalm
      /\ \A s \in 1..Len(sessions) :
            Shut(sessions'[s]) =>
               Shut(sessions[s]) \/ \E t \in T : tabs[t].session = s
  BY ReleasedCalm
<1>2. ASSUME NEW t \in Tabs, tabs'[t].session # 0
      PROVE  /\ t \notin T /\ t \in Holding
             /\ tabs'[t].session = tabs[t].session
             /\ tabs'[t].open
             /\ Shut(sessions'[tabs[t].session]) => Shut(HeldBy(t))
  <2>1. t \notin T /\ tabs'[t] = tabs[t] /\ t \in Holding
    BY <1>2 DEF Holding
  <2>2. tabs[t].session \in 1..Len(sessions) /\ tabs[t].open
    BY <2>1 DEF Fates, HeldInv
  <2>3. \A u \in T : tabs[u].session # tabs[t].session
    <3>1. \A u \in T : u \in Holding => tabs[u].session # tabs[t].session
      BY <2>1 DEF Fates, HeldInv
    <3>2. tabs[t].session # 0
      BY <1>2, <2>1
    <3>3. QED
      BY <3>1, <3>2 DEF Holding
  <2>4. Shut(sessions'[tabs[t].session]) => Shut(HeldBy(t))
    BY <1>1, <2>2, <2>3 DEF HeldBy
  <2>5. QED
    BY <2>1, <2>2, <2>4
<1>3. Lossy' \/ \A t \in Holding : Cared(t)
  <2>1. CASE Lossy
    BY <2>1, LossyLater
  <2>2. ASSUME ~Lossy, ~Lossy', NEW t \in Holding
        PROVE  Cared(t)
    <3>1. CASE t \in T
      BY <2>2, <3>1 DEF Cared
    <3>2. CASE t \notin T
      <4>1. /\ tabs'[t] = tabs[t] /\ tabs[t].open
            /\ Queued(HeldBy(t)) \cap running \subseteq running'
        BY <3>2 DEF Fates, HeldInv
      <4>2. Accounted \subseteq Accounted'
        BY DEF Accounted
      <4>3. QED
        BY <2>2, <4>1, <4>2, SameTab
    <3>3. QED
      BY <3>1, <3>2
  <2>3. QED
    BY <2>1, <2>2, LossyLater
<1>4. \/ gone' = gone
      \/ \E t \in Tabs :
            /\ tabs'[t].session = 0 \/ Unclear'
            /\ gone' = gone \cup (Pending(t) \ asked)
  OBVIOUS
<1>5. QED
  BY <1>1, <1>2, <1>3, <1>4, TabStep

LEMMA BoxFates ==
    ASSUME Inv, Fates, broken \subseteq broken', BoxOff
    PROVE  Fates'
<1> USE FatesTyped DEF jobVars, wishes
<1>1. /\ tabs' = [tabs EXCEPT ![current].tx_mode = FALSE,
                              ![current].session = 0,
                              ![current].tx_active = FALSE]
      /\ sessions' = Released({current})
      /\ gone' = gone \cup (Pending(current) \ asked)
      /\ UNCHANGED <<current, jobVars, wishes, committed, done>>
  BY DEF BoxOff
<1>2. /\ tabs'[current].session = 0 /\ tabs'[current].open = tabs[current].open
      /\ \A t \in Tabs \ {current} : tabs'[t] = tabs[t]
  BY <1>1, ZenonT(40) DEF Tab
<1>3. tabs'[current'].open
  BY <1>1, <1>2 DEF Fates, HeldInv
<1>4. current \in Holding => Has(HeldBy(current)) \subseteq Accounted'
  <2>1. current \in Holding => Has(HeldBy(current)) = Pending(current)
    BY PendingIs
  <2>2. Pending(current) \subseteq Accounted'
    BY <1>1 DEF Accounted
  <2>3. QED
    BY <2>1, <2>2
<1>5. \A t \in Holding \ {current} : Queued(HeldBy(t)) \cap running \subseteq running'
  BY <1>1
<1>7. \A t \in {current} \cap Holding : Has(HeldBy(t)) \subseteq Accounted'
  BY <1>4
<1>8. \E t \in {current} : gone' = gone \cup (Pending(t) \ asked)
  BY <1>1
<1> DEFINE T == {current}
<1>9. /\ T \in SUBSET Tabs /\ sessions' = Released(T)
      /\ UNCHANGED <<jobs, owner, auto, results, slot, asked, unwanted,
                     committed, done>>
      /\ \A t \in T : tabs'[t].session = 0
      /\ \A t \in Tabs \ T : tabs'[t] = tabs[t]
  BY <1>1, <1>2
<1>10. /\ \E t \in T : gone' = gone \cup (Pending(t) \ asked)
       /\ \A t \in T \cap Holding : Has(HeldBy(t)) \subseteq Accounted'
       /\ \A t \in Holding \ T : Queued(HeldBy(t)) \cap running \subseteq running'
  BY <1>5, <1>7, <1>8
<1> HIDE DEF T
<1>11. QED
  BY <1>3, <1>9, <1>10, GiveUpFates, Zenon

(* The jobs of the tabs T end with them; those of the others go on.        *)
LEMMA LeavingFates ==
    ASSUME Inv, Fates, broken \subseteq broken', NEW T \in SUBSET Tabs,
           Leaving(T), UNCHANGED <<asked, unwanted, committed, done>>,
           \/ gone' = gone
           \/ \E t \in T : gone' = gone \cup (Pending(t) \ asked),
           \/ Lossy'
           \/ \A t \in T \cap Holding : Has(HeldBy(t)) \subseteq Accounted'
    PROVE  Fates'
<1> USE FatesTyped
<1>1. /\ sessions' = Released(T)
      /\ tabs' = [t \in Tabs |-> IF t \in T THEN Closed ELSE tabs[t]]
      /\ running' = {j \in running : owner[j] \notin T}
      /\ UNCHANGED <<auto, results, slot, jobs, owner>>
  BY DEF Leaving
<1>2. /\ \A t \in T : tabs'[t].session = 0
      /\ \A t \in Tabs \ T : tabs'[t] = tabs[t]
  BY <1>1, ClosedTab
<1>3. tabs'[current'].open
  <2>1. CASE current \in T
    <3>1. current' \in Tabs \ T /\ tabs[current'].open
      BY <2>1 DEF Leaving, Open
    <3>2. QED
      BY <1>2, <3>1
  <2>2. CASE current \notin T
    <3>1. current' = current /\ tabs[current].open
      BY <2>2 DEF Leaving, Fates, HeldInv
    <3>2. QED
      BY <1>2, <2>2, <3>1
  <2>3. QED
    BY <2>1, <2>2
<1>4. \A t \in Holding \ T : Queued(HeldBy(t)) \cap running \subseteq running'
  BY <1>1 DEF Fates, HeldInv
<1>5. QED
  BY <1>1, <1>2, <1>3, <1>4, GiveUpFates

(* The last tab forgets its jobs, and keeps its session.                   *)
LEMMA EmptiedFates ==
    ASSUME Inv, Fates, broken \subseteq broken', NEW t \in Tabs, Emptied(t),
           UNCHANGED <<asked, unwanted, committed, done>>,
           \/ gone' = gone
           \/ gone' = gone \cup (Pending(t) \ asked),
           \/ Lossy'
           \/ t \in Holding => Has(HeldBy(t)) \subseteq Accounted'
    PROVE  Fates'
<1> USE FatesTyped
<1>1. /\ tabs' = [tabs EXCEPT ![t].target = NoTarget]
      /\ running' = {j \in running : owner[j] # t}
      /\ UNCHANGED <<current, sessions, auto, results, slot, jobs, owner>>
  BY DEF Emptied
<1>2. \A u \in Tabs :
         /\ tabs'[u].session = tabs[u].session
         /\ tabs'[u].open = tabs[u].open
         /\ tabs'[u].tx_active = tabs[u].tx_active
         /\ tabs'[u].target = IF u = t THEN NoTarget ELSE tabs[u].target
  BY <1>1 DEF Tab
<1>3. AllCalm
  BY <1>1, StandsCalm
<1>4. \A u \in Tabs :
         \/ tabs'[u].session = 0
         \/ /\ tabs'[u].session = tabs[u].session
            /\ tabs'[u].open
            /\ Shut(sessions'[tabs[u].session]) => Shut(HeldBy(u))
  <2>1. \A u \in Tabs : tabs[u].session # 0 => tabs[u].open
    BY DEF Fates, HeldInv, Holding
  <2>2. \A u \in Tabs : Shut(sessions'[tabs[u].session]) => Shut(HeldBy(u))
    BY <1>1 DEF HeldBy
  <2>3. QED
    BY <1>2, <2>1, <2>2
<1>5. tabs'[current'].open
  BY <1>1, <1>2 DEF Fates, HeldInv
<1>6. tabs[t].session = 0 \/ Unclear'
  <2>1. tabs[t].session = 0 \/ "last tab" \in broken'
    BY DEF Emptied, Quirk
  <2>2. QED
    BY <2>1 DEF Unclear, Unless
<1>7. Lossy' \/ \A u \in Holding : Cared(u)
  <2>1. CASE Lossy
    BY <2>1, LossyLater
  <2>2. ASSUME ~Lossy, ~Lossy', NEW u \in Holding
        PROVE  Cared(u)
    <3>1. tabs'[u].open /\ tabs'[u].session # 0
      BY <1>2 DEF Fates, HeldInv, Holding
    <3>2. CASE u = t
      <4>1. Has(HeldBy(u)) \subseteq Accounted'
        BY <2>2, <3>2
      <4>2. Queued(HeldBy(u)) \subseteq Accounted'
        BY <4>1 DEF Has
      <4>3. QED
        BY <1>2, <3>1, <3>2, <4>1, <4>2 DEF Cared
    <3>3. CASE u # t
      <4>1. Queued(HeldBy(u)) \cap running \subseteq running'
        BY <1>1, <3>3 DEF Fates, HeldInv
      <4>2. Accounted \subseteq Accounted'
        BY DEF Accounted
      <4>3. QED
        BY <1>2, <2>2, <3>1, <3>3, <4>1, <4>2, SameTab
    <3>4. QED
      BY <3>2, <3>3
  <2>3. QED
    BY <2>1, <2>2, LossyLater
<1>8. \/ gone' = gone
      \/ \E u \in Tabs :
            /\ tabs'[u].session = 0 \/ Unclear'
            /\ gone' = gone \cup (Pending(u) \ asked)
  <2>1. tabs'[t].session = 0 \/ Unclear'
    BY <1>2, <1>6
  <2>2. QED
    BY <2>1
<1>9. QED
  BY <1>1, <1>3, <1>4, <1>5, <1>7, <1>8, TabStep

LEMMA CloseNowFates ==
    ASSUME Inv, Fates, broken \subseteq broken', NEW t \in Tabs, CloseNow(t),
           UNCHANGED <<asked, unwanted, committed, done>>,
           \/ gone' = gone
           \/ gone' = gone \cup (Pending(t) \ asked),
           \/ Lossy'
           \/ t \in Holding => Has(HeldBy(t)) \subseteq Accounted'
    PROVE  Fates'
<1>1. CASE Open = {t}
  BY <1>1, EmptiedFates DEF CloseNow
<1>2. CASE Open # {t}
  <2>1. Leaving({t}) /\ {t} \in SUBSET Tabs
    BY <1>2 DEF CloseNow
  <2>2. /\ \/ gone' = gone
           \/ \E u \in {t} : gone' = gone \cup (Pending(u) \ asked)
        /\ \/ Lossy'
           \/ \A u \in {t} \cap Holding : Has(HeldBy(u)) \subseteq Accounted'
    OBVIOUS
  <2>3. QED
    BY <2>1, <2>2, LeavingFates
<1>3. QED
  BY <1>1, <1>2

LEMMA CloseFates ==
    ASSUME Inv, Fates, broken \subseteq broken',
           CloseTab \/ ConfirmClose \/ CloseOthers
    PROVE  Fates'
<1> USE FatesTyped DEF wishes, fates
<1>1. CASE CloseTab
  <2>1. UNCHANGED <<wishes, fates>>
    BY <1>1 DEF CloseTab
  <2>2. PICK t \in Open :
           IF tabs[t].tx_active
           THEN /\ asking' = t
                /\ UNCHANGED <<tabs, current, sessions, jobVars, broken>>
           ELSE CloseNow(t) /\ UNCHANGED asking
    BY <1>1 DEF CloseTab
  <2>3. CASE tabs[t].tx_active
    <3>1. UNCHANGED <<tabs, current, sessions, jobVars>> /\ tabs'[current'].open
      BY <2>2, <2>3 DEF Fates, HeldInv
    <3>2. QED
      BY <2>1, <3>1, MarkFates
  <2>4. CASE ~tabs[t].tx_active
    <3>1. CloseNow(t) /\ t \in Tabs
      BY <2>2, <2>4 DEF Open
    <3>2. Lossy \/ (t \in Holding => Has(HeldBy(t)) \subseteq Accounted)
      BY <2>4 DEF Fates, LostInv
    <3>3. Lossy' \/ (t \in Holding => Has(HeldBy(t)) \subseteq Accounted')
      BY <2>1, <3>2, LossyLater DEF Accounted
    <3>4. QED
      BY <2>1, <3>1, <3>3, CloseNowFates
  <2>5. QED
    BY <2>3, <2>4
<1>2. CASE ConfirmClose
  <2> DEFINE t == asking
  <2>1. /\ t \in Tabs /\ CloseNow(t)
        /\ gone' = gone \cup (Pending(t) \ asked)
        /\ UNCHANGED <<wishes, committed, done>>
    BY <1>2, TabsTyped DEF ConfirmClose
  <2>2. t \in Holding => Has(HeldBy(t)) \subseteq Accounted'
    <3>1. t \in Holding => Has(HeldBy(t)) = Pending(t)
      BY <2>1, PendingIs
    <3>2. Pending(t) \subseteq Accounted'
      BY <2>1 DEF Accounted
    <3>3. QED
      BY <3>1, <3>2
  <2>3. QED
    BY <2>1, <2>2, CloseNowFates
<1>3. CASE CloseOthers
  <2>1. PICK T \in SUBSET Open :
           /\ IF \A t \in T : ~tabs[t].tx_active THEN NoQuirk
              ELSE Quirk("close others")
           /\ Leaving(T)
    BY <1>3 DEF CloseOthers
  <2>2. UNCHANGED <<wishes, fates>>
    BY <1>3 DEF CloseOthers
  <2>3. Lossy' \/ \A t \in T \cap Holding : Has(HeldBy(t)) \subseteq Accounted'
    <3>1. CASE \A t \in T : ~tabs[t].tx_active
      <4>1. Lossy \/ \A t \in T \cap Holding : Has(HeldBy(t)) \subseteq Accounted
        BY <3>1 DEF Fates, LostInv
      <4>2. QED
        BY <2>2, <4>1, LossyLater DEF Accounted
    <3>2. CASE ~\A t \in T : ~tabs[t].tx_active
      <4>1. "close others" \in broken'
        BY <2>1, <3>2 DEF Quirk
      <4>2. QED
        BY <4>1 DEF Lossy, Unless
    <3>3. QED
      BY <3>1, <3>2
  <2>4. T \in SUBSET Tabs
    BY DEF Open
  <2>5. QED
    BY <2>1, <2>2, <2>3, <2>4, LeavingFates
<1>4. QED
  BY <1>1, <1>2, <1>3
-----------------------------------------------------------------------------
(* The frame believes the flag of a session only if no job runs: nothing   *)
(* is queued then but what the user knows of, and no transaction is open   *)
(* without work in it.                                                     *)
LEMMA FrameFates ==
    ASSUME Inv, Fates, broken \subseteq broken', Frame
    PROVE  Fates'
<1> USE FatesTyped DEF wishes, fates
<1>1. /\ IF \A s \in DOMAIN sessions : sessions[s].flag = sessions[s].tx
         THEN NoQuirk ELSE Quirk("lag")
      /\ tabs' = [t \in Tabs |-> Synced(tabs[t])]
      /\ results' = {}
      /\ IF slot # NoQuery /\ slot.conn \in pools
         THEN /\ auto' = auto \cup {slot.job}
              /\ running' = (running \ results) \cup {slot.job}
              /\ slot' = NoQuery
         ELSE running' = running \ results /\ UNCHANGED <<auto, slot>>
      /\ UNCHANGED <<current, jobs, owner, sessions, asked, unwanted,
                     committed, done, gone>>
  BY DEF Frame
<1>2. ASSUME NEW t \in Tabs
      PROVE  LET open == tabs[t].session # 0 /\ sessions[tabs[t].session].flag IN
             /\ tabs'[t].session = tabs[t].session
             /\ tabs'[t].open = tabs[t].open
             /\ tabs'[t].target = tabs[t].target
             /\ tabs'[t].tx_active = IF running = {} THEN open
                                     ELSE tabs[t].tx_active \/ open
  BY <1>1 DEF Synced, Tab
<1>3. AllCalm
  BY <1>1, StandsCalm
<1>4. /\ auto' \cup {slot'.job} \subseteq auto \cup {slot.job, 0}
      /\ auto' \subseteq auto \cup {slot.job}
      /\ slot'.job \in {slot.job, 0}
      /\ slot'.job \notin auto' \cup committed
      /\ running \ results \subseteq running'
  <2>1. NoQuery.job = 0 /\ 0 \notin auto \cup committed
    BY DEF NoQuery
  <2>2. CASE slot # NoQuery /\ slot.conn \in pools
    <3>1. slot.job # 0
      BY <2>2 DEF Inv, JobsInv
    <3>2. QED
      BY <1>1, <2>1, <2>2, <3>1
  <2>3. CASE ~(slot # NoQuery /\ slot.conn \in pools)
    BY <1>1, <2>3 DEF Fates, BooksInv
  <2>4. QED
    BY <2>2, <2>3
<1>5. ApartInv'
  <2>1. Elsewhere' \subseteq Elsewhere \cup {0, jobs + 1}
    BY <1>1, <1>4 DEF Elsewhere
  <2>2. QED
    BY <1>1, <1>3, <2>1, CalmApart
<1>6. BooksInv'
  <2>1. 0 \notin gone
    BY DEF Fates, BooksInv
  <2>2. gone \cap (auto' \cup {slot'.job}) = {}
    BY <1>4, <2>1 DEF Fates, BooksInv
  <2>3. auto' \cap committed = {}
    BY <1>4 DEF Fates, BooksInv
  <2>4. QED
    BY <1>1, <1>4, <2>2, <2>3 DEF Fates, BooksInv
<1>7. HeldInv'
  <2>1. \A t \in Tabs : tabs'[t].session # 0 =>
           /\ tabs'[t].session = tabs[t].session
           /\ tabs'[t].open
           /\ Shut(sessions'[tabs[t].session]) => Shut(HeldBy(t))
    BY <1>1, <1>2 DEF Fates, HeldInv, Holding, HeldBy
  <2>2. tabs'[current'].open
    BY <1>1, <1>2 DEF Fates, HeldInv
  <2>3. owner' \in [1..MaxJobs -> Tabs \cup {0}]
        /\ \A j \in 1..jobs : owner'[j] = owner[j]
    BY <1>1 DEF Fates, HeldInv
  <2>4. QED
    BY <1>3, <2>1, <2>2, <2>3, CalmHeld
<1>8. GoneInv'
  <2>1. \A t \in Tabs : tabs'[t].session \in {tabs[t].session, 0}
    BY <1>2
  <2>2. QED
    BY <1>1, <1>3, <2>1, CalmGone
<1>9. LostInv'
  <2>1. Accounted' = Accounted
    BY <1>1 DEF Accounted
  <2>2. ASSUME ~Lossy, ~Lossy', NEW t \in Holding
        PROVE  Cared(t)
    <3> DEFINE s == tabs[t].session
    <3>1. /\ tabs[t].tx_active \/ Has(HeldBy(t)) \subseteq Accounted
          /\ Queued(HeldBy(t)) \subseteq running \cup Accounted
          /\ \/ tabs[t].target = NoTarget
             \/ HeldBy(t).target.conn = tabs[t].target.conn
          /\ s # 0 /\ s \in 1..Len(sessions)
      BY <2>2 DEF Fates, LostInv, Holding
    <3>2. sessions[s].flag = sessions[s].tx
      <4>1. "lag" \notin broken'
        BY <2>2 DEF Lossy, Unless
      <4>2. QED
        BY <1>1, <3>1, <4>1 DEF Quirk
    <3>3. /\ Single(HeldBy(t))
          /\ Queued(HeldBy(t)) \cap results = {}
      BY <3>1 DEF Fates, ApartInv, HeldBy
    <3>4. Queued(HeldBy(t)) \subseteq running' \cup Accounted
      BY <1>4, <3>1, <3>3
    <3>5. tabs'[t].tx_active \/ Has(HeldBy(t)) \subseteq Accounted
      <4>1. CASE running = {}
        <5>0. HeldBy(t).tx \in BOOLEAN
          BY FatesTyped DEF Session
        <5>1. tabs'[t].tx_active <=> HeldBy(t).tx
          <6>1. tabs'[t].tx_active <=> sessions[s].flag
            BY <1>2, <3>1, <4>1
          <6>2. QED
            BY <3>2, <6>1 DEF HeldBy
        <5>2. HeldBy(t).tx \/ HeldBy(t).work = {}
          BY <3>3 DEF Single
        <5>3. Queued(HeldBy(t)) \subseteq Accounted
          BY <3>1, <4>1
        <5>4. QED
          BY <5>0, <5>1, <5>2, <5>3 DEF Has
      <4>2. CASE running # {}
        BY <1>2, <3>1, <4>2
      <4>3. QED
        BY <4>1, <4>2
    <3>6. /\ tabs'[t].session = tabs[t].session
          /\ tabs'[t].open
          /\ tabs'[t].target = tabs[t].target
      BY <1>2 DEF Fates, HeldInv, Holding
    <3>7. QED
      BY <2>1, <3>1, <3>4, <3>5, <3>6 DEF Cared
  <2>3. \A t \in Tabs \ Holding : tabs'[t].session = 0
    BY <1>2 DEF Holding
  <2>4. Lossy' \/ \A t \in Holding : Cared(t)
    BY <2>2, LossyLater
  <2>5. QED
    BY <1>1, <1>3, <2>1, <2>3, <2>4, CalmLost
<1>10. QED
  BY <1>5, <1>6, <1>7, <1>8, <1>9 DEF Fates

(* What happens to the pools, and the steps that change nothing here.      *)
LEMMA PoolFates ==
    ASSUME Inv, Fates, broken \subseteq broken',
           UNCHANGED <<tabs, current, sessions, jobs, owner, running, asked,
                       unwanted, done, gone>>,
           slot' \in {slot, NoQuery},
           \/ UNCHANGED <<auto, results, committed>>
           \/ \E j \in auto :
                 /\ auto' = auto \ {j}
                 /\ results' = results \cup {j}
                 /\ committed' \in {committed, committed \cup {j}}
    PROVE  Fates'
<1> USE FatesTyped
<1>1. AllCalm
  BY StandsCalm
<1>2. /\ slot'.job \in {slot.job, 0}
      /\ auto' \subseteq auto /\ results' \subseteq results \cup auto
      /\ committed' \subseteq committed \cup auto /\ committed \subseteq committed'
      /\ 0 \notin auto \cup committed
      /\ auto' \cap committed' = {}
  <2>1. NoQuery.job = 0 /\ auto \cap committed = {}
    BY DEF NoQuery, Fates, BooksInv
  <2>2. QED
    BY <2>1
<1>3. ApartInv'
  <2>1. Elsewhere' \subseteq Elsewhere \cup {0, jobs + 1}
    BY <1>2 DEF Elsewhere
  <2>2. QED
    BY <1>1, <1>2, <2>1, CalmApart
<1>4. BooksInv'
  <2>1. /\ results \cup done \cup gone \cup asked \cup unwanted \subseteq 1..jobs
        /\ slot.job \notin auto \cup committed
        /\ gone \cap (auto \cup {slot.job}) = {}
    BY DEF Fates, BooksInv
  <2>2. results' \subseteq 1..jobs /\ 0 \notin gone
    BY <1>2, <2>1
  <2>3. slot'.job \notin auto' \cup committed'
    BY <1>2, <2>1
  <2>4. gone \cap (auto' \cup {slot'.job}) = {}
    BY <1>2, <2>1, <2>2
  <2>5. QED
    BY <1>2, <2>1, <2>2, <2>3, <2>4 DEF BooksInv
<1>5. HeldInv'
  BY DEF Fates, HeldInv, Holding, HeldBy
<1>6. GoneInv'
  <2>1. \A t \in Tabs : tabs'[t].session \in {tabs[t].session, 0}
    OBVIOUS
  <2>2. QED
    BY <1>1, <1>2, <2>1, CalmGone
<1>7. LostInv'
  <2>1. Accounted \subseteq Accounted'
    BY <1>2 DEF Accounted
  <2>2. ASSUME ~Lossy, NEW t \in Holding
        PROVE  Cared(t)
    <3>1. tabs[t].open
      BY DEF Fates, HeldInv
    <3>2. QED
      BY <2>1, <2>2, <3>1, SameTab
  <2>3. Lossy' \/ \A t \in Holding : Cared(t)
    BY <2>2, LossyLater
  <2>4. QED
    BY <1>1, <2>1, <2>3, CalmLost DEF Holding
<1>8. QED
  BY <1>3, <1>4, <1>5, <1>6, <1>7 DEF Fates
-----------------------------------------------------------------------------
LEMMA NewOwner ==
    ASSUME Inv, Fates, Starts
    PROVE  /\ jobs' = jobs + 1 /\ jobs + 1 \in 1..MaxJobs
           /\ owner' \in [1..MaxJobs -> Tabs \cup {0}]
           /\ \A j \in 1..jobs : owner'[j] = owner[j]
           /\ owner'[jobs + 1] = current
           /\ UNCHANGED <<current, asking, results, pools, steps>>
<1>1. jobs' = jobs + 1 /\ jobs < MaxJobs
      /\ owner' = [owner EXCEPT ![jobs'] = current]
      /\ UNCHANGED <<current, asking, results, pools, steps>>
  BY DEF Starts
<1>2. /\ jobs + 1 \in 1..MaxJobs /\ current \in Tabs
      /\ \A j \in 1..jobs : j \in 1..MaxJobs /\ j # jobs + 1
  BY <1>1, FatesTyped
<1>3. owner \in [1..MaxJobs -> Tabs \cup {0}]
  BY DEF Fates, HeldInv
<1>4. QED
  BY <1>1, <1>2, <1>3

(* A job that goes to a pool, waits for one, or finds no session.          *)
LEMMA ElsewhereFates ==
    ASSUME Inv, Fates, broken \subseteq broken', Starts,
           UNCHANGED <<asked, unwanted, committed, done, gone>>,
           tabs[current].target # NoTarget,
           \/ /\ UNCHANGED <<tabs, sessions, running, auto>>
              /\ slot' = [job |-> jobs + 1, conn |-> tabs[current].target.conn]
           \/ NoSession
           \/ /\ UNCHANGED <<tabs, sessions, slot>>
              /\ running' = running \cup {jobs + 1}
              /\ auto' = auto \cup {jobs + 1}
    PROVE  Fates'
<1> USE FatesTyped
<1> DEFINE j == jobs + 1
<1>1. /\ jobs' = j /\ j \in 1..MaxJobs
      /\ owner' \in [1..MaxJobs -> Tabs \cup {0}]
      /\ \A i \in 1..jobs : owner'[i] = owner[i]
      /\ UNCHANGED <<current, results>>
  BY NewOwner
<1>2. /\ auto' \in {auto, auto \cup {j}}
      /\ slot'.job \in {slot.job, j}
      /\ slot'.job # j \/ auto' = auto
      /\ running \subseteq running'
  <2>1. j \notin 0..jobs /\ slot.job \in 0..jobs
    OBVIOUS
  <2>2. QED
    BY <2>1 DEF NoSession
<1>3. j \notin 0..jobs /\ j \notin 1..jobs
  OBVIOUS
<1>4. /\ AllCalm
      /\ \A t \in Tabs : \/ tabs'[t] = tabs[t]
                         \/ t = current /\ tabs[t].session # 0
                            /\ tabs'[t].session = 0
                            /\ Serving(t) = 0
      /\ \A t \in Tabs : tabs'[t].open = tabs[t].open
      /\ \A t \in Holding : tabs'[t].session # 0 =>
            (Shut(sessions'[tabs[t].session]) => Shut(HeldBy(t)))
  <2>1. CASE UNCHANGED <<tabs, sessions>>
    BY <2>1, StandsCalm DEF HeldBy
  <2>2. CASE NoSession
    <3>1. /\ sessions' = Released({current}) /\ Serving(current) = 0
          /\ tabs' = [tabs EXCEPT ![current].session = 0,
                       ![current].tx_active = @ /\ tabs[current].session = 0]
      BY <2>2 DEF NoSession
    <3>2. /\ AllCalm
          /\ \A s \in 1..Len(sessions) :
                Shut(sessions'[s]) =>
                   Shut(sessions[s]) \/ tabs[current].session = s
      <4> DEFINE T == {current}
      <4>1. sessions' = Released(T)
        BY <3>1
      <4> HIDE DEF T
      <4>2. /\ AllCalm
            /\ \A s \in 1..Len(sessions) :
                  Shut(sessions'[s]) =>
                     Shut(sessions[s]) \/ \E t \in T : tabs[t].session = s
        BY <4>1, ReleasedCalm, Zenon
      <4>3. QED
        BY <4>2 DEF T
    <3>3. /\ \A t \in Tabs \ {current} : tabs'[t] = tabs[t]
          /\ tabs'[current].session = 0
          /\ tabs'[current].open = tabs[current].open
          /\ tabs[current].session = 0 => tabs'[current] = tabs[current]
      <4>1. \A t \in Tabs \ {current} : tabs'[t] = tabs[t]
        BY <3>1
      <4> DEFINE b == tabs[current].tx_active /\ tabs[current].session = 0
                 x == tabs[current]
      <4>2. tabs'[current] = [x EXCEPT !.session = 0, !.tx_active = b]
        BY <3>1, Zenon
      <4>3. x \in Tab /\ (x.session = 0 => b = x.tx_active)
        <5>1. x \in Tab /\ x.tx_active \in BOOLEAN
          BY DEF Tab
        <5>2. QED
          BY <5>1
      <4> HIDE DEF b, x
      <4>4. /\ [x EXCEPT !.session = 0, !.tx_active = b].session = 0
            /\ [x EXCEPT !.session = 0, !.tx_active = b].open = x.open
        BY <4>3 DEF Tab
      <4>5. x.session = 0 => [x EXCEPT !.session = 0, !.tx_active = b] = x
        BY <4>3 DEF Tab
      <4>6. QED
        BY <4>1, <4>2, <4>4, <4>5 DEF x
    <3>4. \A t \in Holding : t # current =>
             tabs[t].session # tabs[current].session
      BY DEF Fates, HeldInv, Holding
    <3>5. \A t \in Holding : tabs'[t].session # 0 =>
            (Shut(sessions'[tabs[t].session]) => Shut(HeldBy(t)))
      BY <3>2, <3>3, <3>4 DEF HeldBy
    <3>6. QED
      BY <3>1, <3>2, <3>3, <3>5
  <2>3. QED
    BY <2>1, <2>2
<1>5. ApartInv'
  <2>1. Elsewhere' \subseteq Elsewhere \cup {0, jobs + 1}
    BY <1>2 DEF Elsewhere
  <2>2. QED
    BY <1>1, <1>4, <2>1, CalmApart
<1>6. BooksInv'
  <2>1. /\ results \cup done \cup gone \cup asked \cup unwanted \subseteq 1..jobs
        /\ slot.job \notin auto \cup committed
        /\ auto \cap committed = {}
        /\ gone \cap (auto \cup {slot.job}) = {}
    BY DEF Fates, BooksInv
  <2>2. 1..jobs \subseteq 1..jobs'
    BY <1>1
  <2>3. slot'.job \notin auto' \cup committed
    BY <1>2, <1>3, <2>1
  <2>4. auto' \cap committed = {} /\ gone \cap (auto' \cup {slot'.job}) = {}
    BY <1>2, <1>3, <2>1
  <2>5. results' \cup done' \cup gone' \cup asked' \cup unwanted' \subseteq 1..jobs'
    BY <1>1, <2>1, <2>2
  <2>6. QED
    BY <2>3, <2>4, <2>5 DEF BooksInv
<1>7. HeldInv'
  <2>1. \A t \in Tabs : tabs'[t].session # 0 =>
           /\ tabs'[t].session = tabs[t].session
           /\ tabs'[t].open
           /\ Shut(sessions'[tabs[t].session]) => Shut(HeldBy(t))
    BY <1>4 DEF Fates, HeldInv, Holding
  <2>2. tabs'[current'].open
    BY <1>1, <1>4 DEF Fates, HeldInv
  <2>3. QED
    BY <1>1, <1>4, <2>1, <2>2, CalmHeld
<1>8. GoneInv'
  <2>1. \A t \in Tabs : tabs'[t].session \in {tabs[t].session, 0}
    BY <1>4
  <2>2. QED
    BY <1>4, <2>1, CalmGone
<1>9. LostInv'
  <2>1. Accounted' = Accounted
    BY DEF Accounted
  <2>2. ASSUME ~Lossy, NEW t \in Holding
        PROVE  Cared(t)
    <3>1. tabs[t].open /\ t \in Tabs
      BY DEF Fates, HeldInv
    <3>2. CASE tabs'[t] = tabs[t]
      BY <1>2, <2>1, <2>2, <3>1, <3>2, SameTab
    <3>3. CASE tabs'[t] # tabs[t]
      <4>1. t = current /\ tabs[t].session # 0 /\ Serving(t) = 0
        BY <1>4, <3>1, <3>3
      <4>2. HeldBy(t).target.conn = tabs[t].target.conn
        BY <2>2, <4>1 DEF Fates, LostInv
      <4>3. QED
        BY <4>1, <4>2 DEF Serving, HeldBy
    <3>4. QED
      BY <3>2, <3>3
  <2>3. Lossy' \/ \A t \in Holding : Cared(t)
    BY <2>2, LossyLater
  <2>4. \A t \in Tabs \ Holding : tabs'[t].session = 0
    BY <1>4 DEF Holding
  <2>5. QED
    BY <1>4, <2>1, <2>3, <2>4, CalmLost
<1>10. QED
  BY <1>5, <1>6, <1>7, <1>8, <1>9 DEF Fates

(* What session m had, if there was one.                                   *)
OldWork(m) == IF m \in 1..Len(sessions) THEN sessions[m].work ELSE {}
OldNumbers(m) == IF m \in 1..Len(sessions) THEN Numbers(sessions[m]) ELSE {}
OldQueued(m) == IF m \in 1..Len(sessions) THEN Queued(sessions[m]) ELSE {}

(* A new command, number jobs + 1, goes to session m of the active tab,    *)
(* which it had or has now; the other sessions do nothing.                 *)
Commanded(m) ==
    LET u == sessions'[m]  j == jobs + 1 IN
    /\ m \in 1..Len(sessions')
    /\ \A i \in 1..Len(sessions) : i \in 1..Len(sessions')
    /\ \A i \in 1..Len(sessions') :
          i # m => i \in 1..Len(sessions) /\ Calm(sessions[i], sessions'[i])
    /\ Single(u) /\ ~Shut(u)
    /\ u.work = OldWork(m)
    /\ Numbers(u) = OldNumbers(m) \cup {j}
    /\ Queued(u) \in {OldQueued(m), OldQueued(m) \cup {j}}
    /\ tabs'[current].session = m
    /\ m \in 1..Len(sessions) => tabs[current].session = m
    /\ \A t \in Tabs : t # current => tabs'[t] = tabs[t]
    /\ tabs'[current].open
    /\ \A t \in Holding : t # current =>
          (Shut(sessions'[tabs[t].session]) => Shut(HeldBy(t)))

LEMMA OldFacts ==
    ASSUME Inv, Fates, NEW m,
           m \in 1..Len(sessions) => tabs[current].session = m
    PROVE  /\ OldWork(m) \cup OldNumbers(m) \subseteq 1..jobs
           /\ (OldWork(m) \cup OldNumbers(m)) \cap Elsewhere = {}
           /\ OldNumbers(m) \cap results = {}
           /\ OldQueued(m) \subseteq OldNumbers(m)
           /\ \A i \in 1..Len(sessions) : i # m =>
                 (OldWork(m) \cup OldNumbers(m)) \cap Holds(sessions[i]) = {}
           /\ \A i \in OldQueued(m) : owner[i] = current
           /\ GoneInv /\ ~Unclear => gone \cap (OldWork(m) \cup OldQueued(m)) = {}
           /\ LostInv /\ ~Lossy => OldQueued(m) \subseteq running \cup Accounted
<1>1. CASE m \in 1..Len(sessions)
  <2>1. /\ OldWork(m) = sessions[m].work
        /\ OldNumbers(m) = Numbers(sessions[m])
        /\ OldQueued(m) = Queued(sessions[m])
    BY <1>1 DEF OldWork, OldNumbers, OldQueued
  <2>2. current \in Holding /\ HeldBy(current) = sessions[m]
    BY <1>1, FatesTyped DEF Holding, HeldBy
  <2>3. Queued(sessions[m]) \subseteq Numbers(sessions[m])
    BY <1>1, FatesTyped
  <2>4. /\ Holds(sessions[m]) \subseteq 1..jobs
        /\ Holds(sessions[m]) \cap Elsewhere = {}
        /\ Numbers(sessions[m]) \cap results = {}
        /\ \A i \in 1..Len(sessions) : i # m =>
              Holds(sessions[m]) \cap Holds(sessions[i]) = {}
    BY <1>1 DEF Fates, ApartInv
  <2>5. \A i \in Queued(sessions[m]) : owner[i] = current
    BY <2>2 DEF Fates, HeldInv
  <2>6. GoneInv /\ ~Unclear => gone \cap Has(sessions[m]) = {}
    BY <2>2 DEF GoneInv
  <2>7. LostInv /\ ~Lossy => Queued(sessions[m]) \subseteq running \cup Accounted
    BY <2>2 DEF LostInv
  <2>8. QED
    BY <2>1, <2>3, <2>4, <2>5, <2>6, <2>7 DEF Holds, Has
<1>2. CASE m \notin 1..Len(sessions)
  <2>1. OldWork(m) = {} /\ OldNumbers(m) = {} /\ OldQueued(m) = {}
    BY <1>2 DEF OldWork, OldNumbers, OldQueued
  <2>2. QED
    BY <2>1
<1>3. QED
  BY <1>1, <1>2

LEMMA CommandedApart ==
    ASSUME Inv, Fates, Starts, NEW m, Commanded(m),
           UNCHANGED <<auto, slot, committed, done, gone>>,
           asked' \subseteq asked \cup (OldWork(m) \cup OldQueued(m)),
           unwanted' \subseteq unwanted \cup (OldWork(m) \cup OldQueued(m))
    PROVE  ApartInv' /\ BooksInv' /\ HeldInv'
<1> USE FatesTyped
<1> DEFINE j == jobs + 1
           u == sessions'[m]
<1>1. /\ jobs' = j /\ j \in 1..MaxJobs
      /\ owner' \in [1..MaxJobs -> Tabs \cup {0}]
      /\ \A i \in 1..jobs : owner'[i] = owner[i]
      /\ owner'[j] = current
      /\ UNCHANGED <<current, results>>
  BY NewOwner
<1>2. /\ j \notin 0..jobs /\ j \notin 1..jobs /\ 1..jobs \subseteq 1..jobs'
      /\ j \in 1..jobs'
  BY <1>1
<1>3. /\ m \in 1..Len(sessions')
      /\ \A i \in 1..Len(sessions') :
            i # m => i \in 1..Len(sessions) /\ Calm(sessions[i], sessions'[i])
      /\ Single(u) /\ ~Shut(u)
      /\ u.work = OldWork(m)
      /\ Numbers(u) = OldNumbers(m) \cup {j}
      /\ Queued(u) \subseteq OldQueued(m) \cup {j}
      /\ tabs'[current].session = m
      /\ tabs'[current].open
      /\ \A t \in Tabs : t # current => tabs'[t] = tabs[t]
  BY DEF Commanded
<1>4. /\ OldWork(m) \cup OldNumbers(m) \subseteq 1..jobs
      /\ (OldWork(m) \cup OldNumbers(m)) \cap Elsewhere = {}
      /\ OldNumbers(m) \cap results = {}
      /\ OldQueued(m) \subseteq OldNumbers(m)
      /\ \A i \in 1..Len(sessions) : i # m =>
            (OldWork(m) \cup OldNumbers(m)) \cap Holds(sessions[i]) = {}
      /\ \A i \in OldQueued(m) : owner[i] = current
  BY OldFacts DEF Commanded
<1>5. Elsewhere' = Elsewhere /\ Elsewhere \subseteq 0..jobs
  BY DEF Elsewhere
<1>6. results \subseteq 1..jobs
  BY DEF Fates, BooksInv
<1>7. Holds(u) = OldWork(m) \cup OldNumbers(m) \cup {j}
  BY <1>3 DEF Holds
<1>8. ASSUME NEW i \in 1..Len(sessions'), i # m
      PROVE  /\ i \in 1..Len(sessions)
             /\ Holds(sessions'[i]) = Holds(sessions[i])
             /\ Numbers(sessions'[i]) = Numbers(sessions[i])
             /\ Single(sessions'[i])
             /\ Holds(sessions[i]) \subseteq 1..jobs
             /\ Holds(sessions[i]) \cap Elsewhere = {}
             /\ Numbers(sessions[i]) \cap results = {}
  <2>1. i \in 1..Len(sessions) /\ Calm(sessions[i], sessions'[i])
    BY <1>3, <1>8
  <2>2. QED
    BY <2>1, CalmHas DEF Calm, Fates, ApartInv
<1> HIDE DEF u, j
<1>9. ApartInv'
  <2>1. ASSUME NEW i \in 1..Len(sessions')
        PROVE  /\ Single(sessions'[i])
               /\ Holds(sessions'[i]) \subseteq 1..jobs'
               /\ Holds(sessions'[i]) \cap Elsewhere' = {}
               /\ Numbers(sessions'[i]) \cap results' = {}
    <3>1. CASE i = m
      <4>1. sessions'[i] = u
        BY <3>1 DEF u
      <4>2. Holds(u) \subseteq 1..jobs'
        BY <1>2, <1>4, <1>7
      <4>3. Holds(u) \cap Elsewhere' = {}
        BY <1>2, <1>4, <1>5, <1>7
      <4>4. Numbers(u) \cap results' = {}
        BY <1>1, <1>2, <1>3, <1>4, <1>6
      <4>5. QED
        BY <1>3, <4>1, <4>2, <4>3, <4>4
    <3>2. CASE i # m
      BY <1>1, <1>2, <1>5, <1>8, <3>2
    <3>3. QED
      BY <3>1, <3>2
  <2>2. ASSUME NEW i \in 1..Len(sessions'), NEW k \in 1..Len(sessions'), i # k
        PROVE  Holds(sessions'[i]) \cap Holds(sessions'[k]) = {}
    <3>1. CASE i = m
      <4>1. Holds(sessions'[i]) = OldWork(m) \cup OldNumbers(m) \cup {j}
        BY <1>7, <3>1 DEF u
      <4>2. QED
        BY <1>2, <1>4, <1>8, <2>2, <3>1, <4>1
    <3>2. CASE k = m
      <4>1. Holds(sessions'[k]) = OldWork(m) \cup OldNumbers(m) \cup {j}
        BY <1>7, <3>2 DEF u
      <4>2. QED
        BY <1>2, <1>4, <1>8, <2>2, <3>2, <4>1
    <3>3. CASE i # m /\ k # m
      BY <1>8, <2>2, <3>3 DEF Fates, ApartInv
    <3>4. QED
      BY <3>1, <3>2, <3>3
  <2>3. QED
    BY <2>1, <2>2 DEF ApartInv
<1>10. BooksInv'
  <2>1. /\ results \cup done \cup gone \cup asked \cup unwanted \subseteq 1..jobs
        /\ slot.job \notin auto \cup committed
        /\ auto \cap committed = {}
        /\ gone \cap (auto \cup {slot.job}) = {}
    BY DEF Fates, BooksInv
  <2>2. results' \cup done' \cup gone' \cup asked' \cup unwanted' \subseteq 1..jobs'
    BY <1>1, <1>2, <1>4, <2>1
  <2>3. QED
    BY <2>1, <2>2 DEF BooksInv
<1>11. HeldInv'
  <2>1. ASSUME NEW t \in Holding', t # current
        PROVE  /\ t \in Holding /\ tabs'[t] = tabs[t]
               /\ tabs[t].session \in 1..Len(sessions)
               /\ tabs[t].session \in 1..Len(sessions')
               /\ tabs[t].session # m
               /\ tabs[t].open /\ ~Shut(HeldBy(t)')
               /\ \A i \in Queued(HeldBy(t)') : owner'[i] = t
    <3>1. t \in Holding /\ tabs'[t] = tabs[t] /\ tabs[t].session \in 1..Len(sessions)
      BY <1>3, <2>1 DEF Holding
    <3>2. tabs[t].session # m
      BY <2>1, <3>1 DEF Commanded, Fates, HeldInv, Holding
    <3>3. tabs[t].session \in 1..Len(sessions')
      BY <3>1 DEF Commanded
    <3>4. Calm(HeldBy(t), HeldBy(t)')
      BY <1>3, <3>1, <3>2, <3>3 DEF HeldBy
    <3>5. /\ Queued(HeldBy(t)') = Queued(HeldBy(t))
          /\ Queued(HeldBy(t)) \subseteq 1..jobs
      BY <3>1, <3>4 DEF Calm, HeldBy
    <3>6. /\ tabs[t].open /\ ~Shut(HeldBy(t))
          /\ \A i \in Queued(HeldBy(t)) : owner[i] = t
      BY <3>1 DEF Fates, HeldInv
    <3>7. ~Shut(HeldBy(t)')
      BY <2>1, <3>1, <3>6 DEF Commanded, HeldBy
    <3>8. QED
      BY <1>1, <3>1, <3>2, <3>3, <3>5, <3>6, <3>7
  <2>2. ASSUME NEW t \in Holding', t = current
        PROVE  /\ tabs'[t].open /\ ~Shut(HeldBy(t)')
               /\ \A i \in Queued(HeldBy(t)') : owner'[i] = t
    <3>1. HeldBy(t)' = u
      BY <1>3, <2>2 DEF HeldBy, u
    <3>2. \A i \in OldQueued(m) : owner'[i] = current
      BY <1>1, <1>4
    <3>3. QED
      BY <1>1, <1>3, <2>2, <3>1, <3>2
  <2>3. ASSUME NEW t \in Holding'
        PROVE  /\ tabs'[t].open /\ ~Shut(HeldBy(t)')
               /\ \A i \in Queued(HeldBy(t)') : owner'[i] = t
    BY <2>1, <2>2
  <2>4. ASSUME NEW t \in Holding', NEW v \in Holding',
               tabs'[t].session = tabs'[v].session
        PROVE  t = v
    BY <1>3, <2>1, <2>4 DEF Fates, HeldInv
  <2>5. tabs'[current'].open
    BY <1>1, <1>3
  <2>6. QED
    BY <1>1, <2>3, <2>4, <2>5 DEF HeldInv
<1>12. QED
  BY <1>9, <1>10, <1>11

(* The sessions other than m, and those of the other tabs.                 *)
LEMMA CommandedOthers ==
    ASSUME Inv, Fates, NEW m, Commanded(m)
    PROVE  /\ \A i \in 1..Len(sessions') : i # m =>
                 /\ i \in 1..Len(sessions)
                 /\ Has(sessions'[i]) = Has(sessions[i])
                 /\ Queued(sessions'[i]) = Queued(sessions[i])
                 /\ sessions'[i].work = sessions[i].work
                 /\ sessions'[i].target = sessions[i].target
           /\ \A t \in Tabs : t # current =>
                 /\ tabs'[t] = tabs[t]
                 /\ t \in Holding =>
                       /\ tabs[t].session \in 1..Len(sessions')
                       /\ tabs[t].session # m
           /\ LET u == sessions'[m] IN
                 /\ u.work = OldWork(m)
                 /\ Queued(u) \subseteq OldQueued(m) \cup {jobs + 1}
                 /\ Has(u) \subseteq OldWork(m) \cup OldQueued(m) \cup {jobs + 1}
           /\ tabs'[current].session = m
           /\ current \in Holding' /\ tabs'[current].open
<1> USE FatesTyped
<1>1. ASSUME NEW i \in 1..Len(sessions'), i # m
      PROVE  /\ i \in 1..Len(sessions)
             /\ Has(sessions'[i]) = Has(sessions[i])
             /\ Queued(sessions'[i]) = Queued(sessions[i])
             /\ sessions'[i].work = sessions[i].work
             /\ sessions'[i].target = sessions[i].target
  <2>1. i \in 1..Len(sessions) /\ Calm(sessions[i], sessions'[i])
    BY <1>1 DEF Commanded
  <2>2. QED
    BY <2>1, CalmHas DEF Calm
<1>2. ASSUME NEW t \in Tabs, t # current
      PROVE  /\ tabs'[t] = tabs[t]
             /\ t \in Holding =>
                   /\ tabs[t].session \in 1..Len(sessions')
                   /\ tabs[t].session # m
  <2>1. tabs'[t] = tabs[t]
    BY <1>2 DEF Commanded
  <2>2. t \in Holding => tabs[t].session \in 1..Len(sessions')
    BY DEF Commanded
  <2>3. t \in Holding => tabs[t].session # m
    <3>1. ASSUME t \in Holding, tabs[t].session = m
          PROVE  FALSE
      <4>1. m \in 1..Len(sessions) /\ m # 0
        BY <3>1
      <4>2. current \in Holding /\ tabs[current].session = m
        BY <4>1 DEF Commanded, Holding
      <4>3. QED
        BY <1>2, <3>1, <4>2 DEF Fates, HeldInv
    <3>2. QED
      BY <3>1
  <2>4. QED
    BY <2>1, <2>2, <2>3
<1>3. /\ sessions'[m].work = OldWork(m)
      /\ Queued(sessions'[m]) \subseteq OldQueued(m) \cup {jobs + 1}
  BY DEF Commanded
<1>4. Has(sessions'[m]) \subseteq OldWork(m) \cup OldQueued(m) \cup {jobs + 1}
  BY <1>3 DEF Has
<1>5. tabs'[current].session = m /\ m # 0 /\ tabs'[current].open
  <2>1. m \in 1..Len(sessions') /\ tabs'[current].session = m /\ tabs'[current].open
    BY DEF Commanded
  <2>2. m # 0
    <3>1. CASE m \in 1..Len(sessions)
      BY <3>1
    <3>2. CASE m \notin 1..Len(sessions)
      BY <2>1
    <3>3. QED
      BY <3>1, <3>2
  <2>3. QED
    BY <2>1, <2>2
<1>6. current \in Holding'
  BY <1>5 DEF Holding
<1>7. QED
  BY <1>1, <1>2, <1>3, <1>4, <1>5, <1>6

LEMMA CommandedGone ==
    ASSUME Inv, Fates, broken \subseteq broken', NEW m, Commanded(m),
           UNCHANGED <<committed, gone>>,
           asked' \subseteq asked \cup (OldWork(m) \cup OldQueued(m))
    PROVE  GoneInv'
<1> USE FatesTyped
<1>1. CASE Unclear'
  BY <1>1 DEF GoneInv
<1>2. CASE ~Unclear'
  <2>1. ~Unclear
    BY <1>2, LossyLater
  <2>2. /\ committed \cap gone = {}
        /\ \A s \in 1..Len(sessions) : gone \cap asked \cap Has(sessions[s]) = {}
        /\ \A t \in Holding : gone \cap Has(HeldBy(t)) = {}
        /\ GoneInv
    BY <2>1 DEF Fates, GoneInv
  <2>3. /\ gone \cap (OldWork(m) \cup OldQueued(m)) = {}
        /\ OldQueued(m) \subseteq OldNumbers(m)
        /\ \A i \in 1..Len(sessions) : i # m =>
              (OldWork(m) \cup OldNumbers(m)) \cap Holds(sessions[i]) = {}
    BY <2>1, <2>2, OldFacts DEF Commanded
  <2>4. jobs + 1 \notin gone
    BY DEF Fates, BooksInv
  <2>5. gone \cap Has(sessions'[m]) = {}
    BY <2>3, <2>4, CommandedOthers
  <2>6. ASSUME NEW i \in 1..Len(sessions')
        PROVE  gone' \cap asked' \cap Has(sessions'[i]) = {}
    <3>1. CASE i = m
      BY <2>5, <3>1
    <3>2. CASE i # m
      <4>1. i \in 1..Len(sessions) /\ Has(sessions'[i]) = Has(sessions[i])
        BY <3>2, CommandedOthers
      <4>2. (OldWork(m) \cup OldQueued(m)) \cap Has(sessions[i]) = {}
        BY <2>3, <3>2, <4>1
      <4>3. QED
        BY <2>2, <4>1, <4>2
    <3>3. QED
      BY <3>1, <3>2
  <2>7. ASSUME NEW t \in Holding'
        PROVE  gone' \cap Has(HeldBy(t)') = {}
    <3>1. CASE t = current
      <4>1. HeldBy(t)' = sessions'[m]
        BY <3>1, CommandedOthers DEF HeldBy
      <4>2. QED
        BY <2>5, <4>1
    <3>2. CASE t # current
      <4>1. t \in Tabs /\ tabs'[t] = tabs[t] /\ t \in Holding
        BY <3>2, CommandedOthers DEF Holding
      <4>2. tabs[t].session \in 1..Len(sessions') /\ tabs[t].session # m
        BY <3>2, <4>1, CommandedOthers
      <4>3. Has(HeldBy(t)') = Has(HeldBy(t))
        BY <4>1, <4>2, CommandedOthers DEF HeldBy
      <4>4. QED
        BY <2>2, <4>1, <4>3
    <3>3. QED
      BY <3>1, <3>2
  <2>8. QED
    BY <2>2, <2>6, <2>7 DEF GoneInv
<1>3. QED
  BY <1>1, <1>2

LEMMA CommandedLost ==
    ASSUME Inv, Fates, broken \subseteq broken', NEW m, Commanded(m),
           done' = done, Accounted \subseteq Accounted',
           running' = running \cup {jobs + 1},
           \/ Lossy'
           \/ /\ tabs[current].session \in {0, m}
              /\ \/ tabs'[current].tx_active
                 \/ Has(sessions'[m]) \subseteq Accounted'
              /\ \/ tabs'[current].target = NoTarget
                 \/ sessions'[m].target.conn = tabs'[current].target.conn
    PROVE  LostInv'
<1> USE FatesTyped
<1>1. CASE Lossy'
  BY <1>1 DEF LostInv
<1>2. CASE ~Lossy'
  <2>1. ~Lossy /\ LostInv
    BY <1>2, LossyLater DEF Fates
  <2>2. /\ done \subseteq Accounted \cup InReach
        /\ \A s \in 1..Len(sessions) :
              (\A t \in Holding : tabs[t].session # s)
                 => Has(sessions[s]) \subseteq Accounted
        /\ \A t \in Holding :
             /\ tabs[t].tx_active \/ Has(HeldBy(t)) \subseteq Accounted
             /\ Queued(HeldBy(t)) \subseteq running \cup Accounted
             /\ \/ tabs[t].target = NoTarget
                \/ HeldBy(t).target.conn = tabs[t].target.conn
    BY <2>1 DEF LostInv
  <2>3. ASSUME NEW t \in Holding, t # current
        PROVE  /\ t \in Holding' /\ tabs'[t] = tabs[t]
               /\ Has(HeldBy(t)') = Has(HeldBy(t))
               /\ Queued(HeldBy(t)') = Queued(HeldBy(t))
               /\ HeldBy(t)'.work = HeldBy(t).work
               /\ HeldBy(t)'.target = HeldBy(t).target
    <3>1. t \in Tabs /\ tabs'[t] = tabs[t]
          /\ tabs[t].session \in 1..Len(sessions') /\ tabs[t].session # m
      BY <2>3, CommandedOthers
    <3>2. t \in Holding'
      BY <3>1 DEF Holding
    <3>3. QED
      BY <3>1, <3>2, CommandedOthers DEF HeldBy
  <2>4. ASSUME NEW i \in done
        PROVE  i \in Accounted' \cup InReach'
    <3>1. CASE i \in Accounted
      BY <3>1
    <3>2. CASE i \in InReach
      <4>1. PICK t \in Open : tabs[t].session # 0 /\ i \in HeldBy(t).work
        BY <3>2 DEF InReach, HeldBy
      <4>2. t \in Holding /\ t \in Tabs /\ tabs[t].open
        BY <4>1 DEF Holding, Open
      <4>3. /\ t \in Open' /\ tabs'[t].session # 0
            /\ i \in sessions'[tabs'[t].session].work
        <5>1. CASE t = current
          <6>1. tabs[t].session = m /\ m \in 1..Len(sessions)
            BY <1>2, <4>1, <4>2, <5>1
          <6>2. OldWork(m) = HeldBy(t).work
            BY <6>1 DEF OldWork, HeldBy
          <6>3. sessions'[m].work = OldWork(m) /\ tabs'[t].session = m
                /\ tabs'[t].open
            BY <5>1, CommandedOthers
          <6>4. QED
            BY <4>1, <4>2, <6>1, <6>2, <6>3 DEF Open
        <5>2. CASE t # current
          <6>1. HeldBy(t)' = sessions'[tabs'[t].session]
            BY DEF HeldBy
          <6>2. QED
            BY <2>3, <4>1, <4>2, <5>2, <6>1 DEF Open
        <5>3. QED
          BY <5>1, <5>2
      <4>4. QED
        BY <4>3 DEF InReach
    <3>3. QED
      BY <2>2, <3>1, <3>2
  <2>5. ASSUME NEW s \in 1..Len(sessions'),
               \A t \in Holding' : tabs'[t].session # s
        PROVE  Has(sessions'[s]) \subseteq Accounted'
    <3>1. s # m
      BY <2>5, CommandedOthers
    <3>2. s \in 1..Len(sessions) /\ Has(sessions'[s]) = Has(sessions[s])
      BY <3>1, CommandedOthers
    <3>3. \A t \in Holding : tabs[t].session # s
      <4>1. ASSUME NEW t \in Holding, tabs[t].session = s
            PROVE  FALSE
        <5>1. CASE t = current
          BY <1>2, <3>1, <3>2, <4>1, <5>1
        <5>2. CASE t # current
          BY <2>3, <2>5, <4>1, <5>2
        <5>3. QED
          BY <5>1, <5>2
      <4>2. QED
        BY <4>1
    <3>4. QED
      BY <2>2, <3>2, <3>3
  <2>6. ASSUME NEW t \in Holding'
        PROVE  /\ tabs'[t].tx_active \/ Has(HeldBy(t)') \subseteq Accounted'
               /\ Queued(HeldBy(t)') \subseteq running' \cup Accounted'
               /\ \/ tabs'[t].target = NoTarget
                  \/ HeldBy(t)'.target.conn = tabs'[t].target.conn
    <3>1. CASE t = current
      <4>1. HeldBy(t)' = sessions'[m]
        BY <3>1, CommandedOthers DEF HeldBy
      <4>2. Queued(sessions'[m]) \subseteq OldQueued(m) \cup {jobs + 1}
        BY CommandedOthers
      <4>3. OldQueued(m) \subseteq running \cup Accounted
        BY <2>1, OldFacts DEF Commanded
      <4>4. QED
        BY <1>2, <3>1, <4>1, <4>2, <4>3
    <3>2. CASE t # current
      <4>1. t \in Tabs /\ tabs'[t] = tabs[t] /\ t \in Holding
        BY <3>2, CommandedOthers DEF Holding
      <4>2. QED
        BY <2>2, <2>3, <3>2, <4>1
    <3>3. QED
      BY <3>1, <3>2
  <2>7. done' \subseteq Accounted' \cup InReach'
    BY <2>4
  <2>8. QED
    BY <2>5, <2>6, <2>7 DEF LostInv
<1>3. QED
  BY <1>1, <1>2

(* A command for the session that the active tab has.                      *)
LEMMA SentIsCommanded ==
    ASSUME Inv, Fates, NEW c \in Command, c.job = jobs + 1, c.op # "Close",
           NEW s, s = tabs[current].session, s # 0,
           sessions' = Sent(sessions, s, c),
           tabs'[current].session = s, tabs'[current].open = tabs[current].open,
           \A t \in Tabs : t # current => tabs'[t] = tabs[t]
    PROVE  /\ Commanded(s)
           /\ sessions'[s].target = sessions[s].target
           /\ c.op # "Execute" => Has(sessions'[s]) = Has(sessions[s])
           /\ Pending(current) = Has(sessions[s])
           /\ Pending(current) = OldWork(s) \cup OldQueued(s)
<1> USE FatesTyped
<1> DEFINE x == sessions[s]
           u == [x EXCEPT !.queue = Append(@, c)]
<1>1. /\ s \in 1..Len(sessions) /\ x \in Session /\ Single(x)
      /\ current \in Holding
      /\ Holds(x) \subseteq 1..jobs
  BY DEF Holding, Fates, ApartInv
<1>2. /\ u \in Session /\ Single(u)
      /\ u.work = x.work /\ u.target = x.target
      /\ Numbers(u) = Numbers(x) \cup ({c.job} \ {0})
      /\ c.op # "Execute" => Queued(u) = Queued(x)
      /\ c.op = "Execute" => Queued(u) = Queued(x) \cup {c.job}
      /\ c.op # "Close" /\ ~Shut(x) => ~Shut(u)
  <2>1. c.job # 0 /\ c.job \notin Holds(x)
    BY <1>1
  <2> HIDE DEF x
  <2>2. QED
    BY <1>1, <2>1, SingleSent
<1>3. /\ Len(sessions') = Len(sessions)
      /\ sessions'[s] = u
      /\ \A i \in 1..Len(sessions) : i # s => sessions'[i] = sessions[i]
  <2>1. sessions' = [sessions EXCEPT ![s] = u]
    BY DEF Sent
  <2>2. u \in Session
    BY <1>2
  <2> HIDE DEF u
  <2>3. QED
    BY <1>1, <2>1, <2>2
<1>4. OldWork(s) = x.work /\ OldNumbers(s) = Numbers(x) /\ OldQueued(s) = Queued(x)
  BY <1>1 DEF OldWork, OldNumbers, OldQueued
<1>5. ~Shut(x) /\ tabs[current].open
  BY <1>1 DEF Fates, HeldInv, HeldBy
<1>6. \A t \in Holding : t # current =>
          (Shut(sessions'[tabs[t].session]) => Shut(HeldBy(t)))
  <2>1. \A t \in Holding : t # current => tabs[t].session # s
    BY <1>1 DEF Fates, HeldInv
  <2>2. QED
    BY <1>3, <2>1 DEF HeldBy
<1>7. \A i \in 1..Len(sessions) : i # s => Calm(sessions[i], sessions'[i])
  BY <1>3 DEF Calm, Fates, ApartInv
<1>8. Numbers(u) = OldNumbers(s) \cup {jobs + 1}
  BY <1>2, <1>4
<1>9. Queued(u) \in {OldQueued(s), OldQueued(s) \cup {jobs + 1}}
  BY <1>2, <1>4
<1> HIDE DEF u, x
<1>10. Commanded(s)
  BY <1>1, <1>2, <1>3, <1>4, <1>5, <1>6, <1>7, <1>8, <1>9 DEF Commanded
<1>11. Pending(current) = Has(x)
  BY <1>1 DEF Pending, Has, x
<1>12. c.op # "Execute" => Has(u) = Has(x)
  BY <1>2 DEF Has
<1>13. Has(x) = OldWork(s) \cup OldQueued(s)
  BY <1>4 DEF Has
<1>14. QED
  BY <1>2, <1>3, <1>10, <1>11, <1>12, <1>13 DEF x

LEMMA SendFates ==
    ASSUME Inv, Fates, broken \subseteq broken', PressCommit \/ PressRollback
    PROVE  Fates'
<1> USE FatesTyped DEF fates
<1> DEFINE s == tabs[current].session
<1>1. PICK c \in {Commit(jobs + 1), Rollback(jobs + 1)} :
         /\ Send(c)
         /\ \/ asked' = asked \cup Pending(current) /\ unwanted' = unwanted
            \/ unwanted' = unwanted \cup Pending(current) /\ asked' = asked
  BY DEF PressCommit, PressRollback
<1>2. /\ Starts /\ s # 0 /\ sessions' = Sent(sessions, s, c)
      /\ tabs' = [tabs EXCEPT ![current].tx_active = FALSE]
      /\ jobs' = jobs + 1
      /\ running' = running \cup {jobs'}
      /\ UNCHANGED <<auto, slot, committed, done, gone>>
  BY <1>1, NewOwner DEF Send
<1>3. c \in Command /\ c.job = jobs + 1 /\ c.op \notin {"Execute", "Close"}
  BY <1>1 DEF Commit, Rollback, Command
<1>4. \A t \in Tabs :
         /\ tabs'[t].session = tabs[t].session
         /\ tabs'[t].open = tabs[t].open
         /\ tabs'[t].target = tabs[t].target
         /\ t # current => tabs'[t] = tabs[t]
  BY <1>2 DEF Tab
<1>5. /\ Commanded(s)
      /\ sessions'[s].target = sessions[s].target
      /\ Has(sessions'[s]) = Has(sessions[s])
      /\ Pending(current) = Has(sessions[s])
      /\ Pending(current) = OldWork(s) \cup OldQueued(s)
  <2> HIDE DEF s
  <2>1. s = tabs[current].session
    BY DEF s
  <2>2. QED
    BY <1>2, <1>3, <1>4, <2>1, SentIsCommanded
<1>6. /\ asked' \subseteq asked \cup (OldWork(s) \cup OldQueued(s))
      /\ unwanted' \subseteq unwanted \cup (OldWork(s) \cup OldQueued(s))
      /\ Accounted \subseteq Accounted'
      /\ Has(sessions'[s]) \subseteq Accounted'
  BY <1>1, <1>2, <1>5 DEF Accounted
<1>7. \/ Lossy'
      \/ tabs'[current].target = NoTarget
      \/ sessions'[s].target.conn = tabs'[current].target.conn
  <2>1. CASE Lossy
    BY <2>1, LossyLater
  <2>2. CASE ~Lossy
    <3>1. current \in Holding
      BY <1>2 DEF Holding
    <3>2. \/ tabs[current].target = NoTarget
          \/ sessions[s].target.conn = tabs[current].target.conn
      BY <2>2, <3>1 DEF Fates, LostInv, HeldBy
    <3>3. QED
      BY <1>4, <1>5, <3>2
  <2>3. QED
    BY <2>1, <2>2
<1> HIDE DEF s
<1>8. ApartInv' /\ BooksInv' /\ HeldInv'
  BY <1>2, <1>5, <1>6, CommandedApart
<1>9. GoneInv'
  BY <1>2, <1>5, <1>6, CommandedGone
<1>10. LostInv'
  <2>1. tabs[current].session \in {0, s}
    BY DEF s
  <2>2. QED
    BY <1>2, <1>5, <1>6, <1>7, <2>1, CommandedLost
<1>11. QED
  BY <1>8, <1>9, <1>10 DEF Fates

(* A new session, with the statement that it is for; the old one closes.   *)
LEMMA NewIsCommanded ==
    ASSUME Inv, Fates, NEW target \in AnyTarget,
           NEW m, m = Len(sessions) + 1,
           NEW c, c = Execute(jobs + 1),
           sessions' = Append(Released({current}), NewWith(target, c)),
           tabs'[current].session = m, tabs'[current].open = tabs[current].open,
           \A t \in Tabs : t # current => tabs'[t] = tabs[t]
    PROVE  Commanded(m) /\ sessions'[m].target = target
<1> USE FatesTyped
<1> DEFINE T == {current}
           ss == Released(T)
           q == <<c>>
           u == [NewSession(target) EXCEPT !.queue = q]
<1>1. /\ q \in Seq(Command) /\ Len(q) = 1 /\ q[1] = c
      /\ c.op = "Execute" /\ c.job = jobs + 1 /\ c.job # 0
  BY DEF Execute, Command
<1> HIDE DEF q
<1>2. /\ u \in Session /\ u.queue = q /\ u.work = {} /\ u.target = target
  BY <1>1 DEF NewSession, Session
<1>3. sessions' = Append(ss, u)
  BY DEF NewWith, q
<1> HIDE DEF u
<1>4. \A i \in 1..Len(q) : i = 1
  BY <1>1
<1>5. Numbers(u) = {jobs + 1}
  <2>1. \A i : i \in Numbers(u) <=> i # 0 /\ \E k \in 1..Len(q) : i = q[k].job
    BY <1>2 DEF Numbers
  <2>2. \A i : i \in Numbers(u) <=> i = jobs + 1
    BY <1>1, <1>4, <2>1
  <2>3. QED
    BY <2>2
<1>6. Queued(u) = {jobs + 1}
  <2>1. u.queue \in Seq(Command)
    BY <1>1, <1>2
  <2>2. \A i : i \in Queued(u) <=> \E k \in 1..Len(u.queue) :
                                      u.queue[k].op = "Execute" /\ i = u.queue[k].job
    BY <2>1, InQueue
  <2>3. \A i : i \in Queued(u) <=> \E k \in 1..Len(q) :
                                      q[k].op = "Execute" /\ i = q[k].job
    BY <1>2, <2>2, Zenon
  <2>4. 1 \in 1..Len(q)
    BY <1>1
  <2>5. \A i : i \in Queued(u) <=> i = jobs + 1
    BY <1>1, <1>4, <2>3, <2>4
  <2>6. QED
    BY <2>5
<1>7. Single(u) /\ ~Shut(u)
  <2>1. \A i, k \in 1..Len(u.queue) :
          u.queue[i].job = u.queue[k].job => i = k \/ u.queue[i].job = 0
    BY <1>2, <1>4
  <2>2. u.work \cap Numbers(u) = {} /\ (u.tx \/ u.work = {})
    BY <1>2
  <2>3. Single(u)
    BY <2>1, <2>2 DEF Single
  <2>4. ~Shut(u)
    BY <1>1, <1>2, <1>4 DEF Shut
  <2>5. QED
    BY <2>3, <2>4
<1>8. /\ ss \in Seq(Session) /\ Len(ss) = Len(sessions)
      /\ \A s \in 1..Len(sessions) : Calm(sessions[s], ss[s])
      /\ \A s \in 1..Len(sessions) :
            Shut(ss[s]) => Shut(sessions[s]) \/ tabs[current].session = s
  <2>1. AllProper(sessions, jobs, asked, meant, DatabasePicked)
        /\ jobs \in Nat /\ DatabasePicked \in BOOLEAN
    BY DEF Inv, SessionsInv, DatabasePicked, Unless
  <2>2. ss \in Seq(Session) /\ Len(ss) = Len(sessions)
    <3> HIDE DEF T
    <3>1. /\ AllProper(Released(T), jobs, asked, meant, DatabasePicked)
          /\ Len(Released(T)) = Len(sessions)
      BY <2>1, ReleasedProper
    <3>2. QED
      BY <3>1 DEF AllProper
  <2>3. /\ \A s \in 1..Len(sessions) : Calm(sessions[s], ss[s])
        /\ \A s \in 1..Len(sessions) :
              Shut(ss[s]) => Shut(sessions[s]) \/ \E t \in T : tabs[t].session = s
    <3> HIDE DEF T
    <3>1. QED
      BY ReleasedIsCalm
  <2>4. QED
    BY <2>2, <2>3
<1> HIDE DEF ss
<1>9. /\ Len(sessions') = m /\ sessions'[m] = u
      /\ \A i \in 1..Len(sessions') : i # m =>
            i \in 1..Len(sessions) /\ sessions'[i] = ss[i]
      /\ \A i \in 1..Len(sessions) : i \in 1..Len(sessions') /\ sessions'[i] = ss[i]
      /\ m \notin 1..Len(sessions) /\ m \in 1..Len(sessions')
  <2>1. /\ Len(sessions') = m /\ sessions'[m] = u
        /\ \A i \in 1..Len(sessions) : sessions'[i] = ss[i]
    <3>1. /\ ss \in Seq(Session) /\ u \in Session /\ sessions' = Append(ss, u)
          /\ Len(ss) \in Nat /\ m = Len(ss) + 1
      BY <1>2, <1>3, <1>8
    <3>2. /\ Len(sessions') = m /\ sessions'[m] = u
          /\ \A i \in 1..Len(ss) : sessions'[i] = ss[i]
      BY ONLY <3>1
    <3>3. QED
      BY <1>8, <3>2
  <2>2. /\ Len(sessions) \in Nat /\ m = Len(sessions) + 1
        /\ \A i \in 1..m : i # m => i \in 1..Len(sessions)
        /\ \A i \in 1..Len(sessions) : i \in 1..m
        /\ m \notin 1..Len(sessions) /\ m \in 1..m
    OBVIOUS
  <2>3. QED
    BY <2>1, <2>2
<1>10. OldWork(m) = {} /\ OldNumbers(m) = {} /\ OldQueued(m) = {}
  BY <1>9 DEF OldWork, OldNumbers, OldQueued
<1>11. \A t \in Holding : t # current =>
          (Shut(sessions'[tabs[t].session]) => Shut(HeldBy(t)))
  <2>1. \A t \in Holding : t # current =>
           tabs[t].session # tabs[current].session
    BY DEF Fates, HeldInv, Holding
  <2>2. QED
    BY <1>8, <1>9, <2>1 DEF HeldBy
<1>12. tabs'[current].open
  BY DEF Fates, HeldInv
<1>13. Commanded(m)
  BY <1>2, <1>5, <1>6, <1>7, <1>8, <1>9, <1>10, <1>11, <1>12 DEF Commanded
<1>14. QED
  BY <1>2, <1>9, <1>13

LEMMA RunFates ==
    ASSUME Inv, Fates, broken \subseteq broken', Run
    PROVE  Fates'
<1> USE FatesTyped
<1> DEFINE j == jobs + 1
           t == tabs[current]
           s == t.session
           m == Len(sessions) + 1
           c == Execute(j)
<1>1. /\ Starts /\ UNCHANGED <<asked, unwanted, committed, done, gone>>
      /\ t.target # NoTarget
      /\ \/ /\ slot' = [job |-> j, conn |-> t.target.conn]
            /\ UNCHANGED <<tabs, sessions, running, auto>>
         \/ RunInSession(j) \/ NoSession
         \/ /\ running' = running \cup {j}
            /\ auto' = auto \cup {j}
            /\ UNCHANGED <<tabs, sessions, slot>>
  BY DEF Run, fates
<1>2. CASE RunInSession(j)
  <2>1. /\ running' = running \cup {j} /\ UNCHANGED <<auto, slot>>
        /\ jobs' = j /\ current' = current
        /\ c \in Command /\ c.op = "Execute" /\ c.job = j
    BY <1>1, <1>2, NewOwner DEF RunInSession, Execute, Command
  <2>2. Accounted' = Accounted
    BY <1>1 DEF Accounted
  <2>3. t \in Tab /\ t.target \in AnyTarget
    BY DEF Tab
  <2>4. CASE Serving(current) # 0
    <3>1. /\ s = Serving(current) /\ s # 0
          /\ sessions[s].target.conn = t.target.conn
          /\ sessions' = Sent(sessions, s, c)
          /\ tabs' = [tabs EXCEPT ![current].session = s,
                                  ![current].tx_active = TRUE]
      BY <1>2, <2>4 DEF Serving, RunInSession
    <3>2. /\ tabs'[current].session = s /\ tabs'[current].open = t.open
          /\ tabs'[current].target = t.target
          /\ tabs'[current].tx_active
          /\ \A u \in Tabs : u # current => tabs'[u] = tabs[u]
      BY <3>1, <2>3, ZenonT(40) DEF Tab
    <3>3. /\ Commanded(s)
          /\ sessions'[s].target = sessions[s].target
      <4> HIDE DEF s, c
      <4>1. s = tabs[current].session
        BY DEF s
      <4>2. QED
        BY <2>1, <3>1, <3>2, <4>1, SentIsCommanded
    <3> HIDE DEF s
    <3>4. ApartInv' /\ BooksInv' /\ HeldInv'
      BY <1>1, <2>1, <3>3, CommandedApart
    <3>5. GoneInv'
      BY <1>1, <3>3, CommandedGone
    <3>6. LostInv'
      <4>1. tabs[current].session \in {0, s}
        BY DEF s
      <4>2. sessions'[s].target.conn = tabs'[current].target.conn
        BY <3>1, <3>2, <3>3
      <4>3. QED
        BY <1>1, <2>1, <2>2, <3>2, <3>3, <4>1, <4>2, CommandedLost
    <3>7. QED
      BY <3>4, <3>5, <3>6 DEF Fates
  <2>5. CASE Serving(current) = 0
    <3>1. /\ sessions' = Append(Released({current}), NewWith(t.target, c))
          /\ tabs' = [tabs EXCEPT ![current].session = m,
                                  ![current].tx_active = TRUE]
      BY <1>2, <2>5 DEF RunInSession, NewWith
    <3>2. m \in Nat
      OBVIOUS
    <3>3. /\ tabs'[current].session = m /\ tabs'[current].open = t.open
          /\ tabs'[current].target = t.target
          /\ tabs'[current].tx_active
          /\ \A u \in Tabs : u # current => tabs'[u] = tabs[u]
      BY <3>1, <3>2, <2>3, ZenonT(40) DEF Tab
    <3>4. Commanded(m) /\ sessions'[m].target = t.target
      <4> DEFINE g == t.target
      <4>1. /\ g \in AnyTarget /\ m = Len(sessions) + 1
            /\ c = Execute(jobs + 1)
            /\ sessions' = Append(Released({current}), NewWith(g, c))
            /\ tabs'[current].session = m
            /\ tabs'[current].open = tabs[current].open
            /\ \A u \in Tabs : u # current => tabs'[u] = tabs[u]
        BY <2>3, <3>1, <3>3
      <4> HIDE DEF m, c, g
      <4>2. Commanded(m) /\ sessions'[m].target = g
        BY <4>1, NewIsCommanded
      <4>3. QED
        BY <4>2 DEF g
    <3>5. Lossy' \/ tabs[current].session \in {0, m}
      <4>1. CASE Lossy
        BY <4>1, LossyLater
      <4>2. ASSUME ~Lossy, s # 0
            PROVE  FALSE
        <5>1. current \in Holding
          BY <4>2 DEF Holding
        <5>2. sessions[s].target.conn = t.target.conn
          BY <1>1, <4>2, <5>1 DEF Fates, LostInv, HeldBy
        <5>3. QED
          BY <2>5, <4>2, <5>2 DEF Serving
      <4>3. QED
        BY <4>1, <4>2
    <3> HIDE DEF m
    <3>6. ApartInv' /\ BooksInv' /\ HeldInv'
      BY <1>1, <2>1, <3>4, CommandedApart
    <3>7. GoneInv'
      BY <1>1, <3>4, CommandedGone
    <3>8. LostInv'
      <4>1. sessions'[m].target.conn = tabs'[current].target.conn
        BY <3>3, <3>4
      <4>2. QED
        BY <1>1, <2>1, <2>2, <3>3, <3>4, <3>5, <4>1, CommandedLost
    <3>9. QED
      BY <3>6, <3>7, <3>8 DEF Fates
  <2>6. QED
    BY <2>4, <2>5
<1>3. CASE ~RunInSession(j)
  BY <1>1, <1>3, ElsewhereFates
<1>4. QED
  BY <1>2, <1>3
-----------------------------------------------------------------------------
(* What a task does with its first command c: session s becomes u; work and *)
(* tx are what it then has.                                                *)
Fared(s, work, tx, c) ==
    LET was == sessions[s] IN
    \/ /\ c.op = "Execute" /\ tx /\ work = was.work \cup {c.job}
       /\ done' = done \cup {c.job} /\ UNCHANGED <<committed, gone>>
    \/ /\ work = was.work /\ tx \in {was.tx, TRUE}
       /\ UNCHANGED <<committed, done, gone>>
    \/ /\ work = {}
       /\ gone' = gone \cup was.work /\ UNCHANGED <<committed, done>>
    \/ /\ work = {} /\ c.op = "Commit"
       /\ committed' = committed \cup was.work /\ UNCHANGED <<done, gone>>
    \/ /\ work = {} /\ c.op = "Close"
       /\ UNCHANGED <<committed, done, gone>>

Took(s, u, c) ==
    /\ sessions' = [sessions EXCEPT ![s] = u]
    /\ u \in Session /\ c \in Command
    /\ sessions[s].queue # <<>> /\ c = Head(sessions[s].queue)
    /\ u.queue = Tail(sessions[s].queue) /\ u.target = sessions[s].target
    /\ results' = results \cup ({c.job} \ {0})
    /\ Fared(s, u.work, u.tx, c)

LEMMA TookDoes ==
    ASSUME NEW s, sessions[s] \in Session, NEW op, NEW n \in Session,
           Does(s, op, n), n.queue = sessions[s].queue,
           n.target = sessions[s].target,
           Head(sessions[s].queue).op = op =>
              Fared(s, n.work, n.tx, Head(sessions[s].queue))
    PROVE  \E u, c : Took(s, u, c)
<1> DEFINE q == sessions[s].queue
           p == Tail(q)
           c == Head(q)
           u == [n EXCEPT !.queue = p]
<1>1. q \in Seq(Command) /\ q # <<>>
  BY DEF Does, Session
<1>2. p \in Seq(Command) /\ c \in Command
  BY <1>1
<1>3. /\ sessions' = [sessions EXCEPT ![s] = u]
      /\ c.op = op /\ results' = results \cup ({c.job} \ {0})
  BY DEF Does
<1>4. Fared(s, n.work, n.tx, c)
  BY <1>3
<1>5. /\ q # <<>> /\ c = Head(sessions[s].queue) /\ p = Tail(sessions[s].queue)
  BY <1>1
<1> HIDE DEF p, c
<1>6. /\ u \in Session /\ u.queue = p /\ u.target = n.target
      /\ u.work = n.work /\ u.tx = n.tx
  BY <1>2 DEF Session
<1> HIDE DEF u
<1>7. Fared(s, u.work, u.tx, c)
  BY <1>4, <1>6, Zenon
<1>8. Took(s, u, c)
  BY <1>2, <1>3, <1>5, <1>6, <1>7, Zenon DEF Took
<1>9. QED
  BY <1>8, Zenon

LEMMA TaskTook ==
    ASSUME NEW s, sessions[s] \in Session, Task(s), ~Store(s)
    PROVE  \E u, c : Took(s, u, c)
<1> DEFINE was == sessions[s]
           c == Head(was.queue)
<1>1. CASE DoExecute(s)
  <2> DEFINE n == [was EXCEPT !.tx = TRUE, !.work = @ \cup {c.job}]
  <2>1. /\ Does(s, "Execute", n) /\ done' = done \cup {c.job}
        /\ UNCHANGED <<committed, gone>>
    BY <1>1 DEF DoExecute
  <2>2. c.job \in Nat
    <3>1. was.queue \in Seq(Command) /\ was.queue # <<>>
      BY <2>1 DEF Does, Session
    <3>2. c \in Command
      BY <3>1
    <3>3. QED
      BY <3>2 DEF Command
  <2>3. /\ n \in Session /\ n.queue = was.queue /\ n.target = was.target
        /\ n.work = was.work \cup {c.job} /\ n.tx
    BY <2>2 DEF Session
  <2> HIDE DEF n
  <2>4. c.op = "Execute" => Fared(s, n.work, n.tx, c)
    BY <2>1, <2>3 DEF Fared
  <2>5. QED
    BY <2>1, <2>3, <2>4, TookDoes
<1>2. CASE ExecuteFails(s)
  <2>1. PICK tx \in {was.tx, TRUE} : Does(s, "Execute", [was EXCEPT !.tx = tx])
    BY <1>2 DEF ExecuteFails
  <2> DEFINE n == [was EXCEPT !.tx = tx]
  <2>2. UNCHANGED <<committed, done, gone>>
    BY <1>2 DEF ExecuteFails
  <2>3. /\ n \in Session /\ n.queue = was.queue /\ n.target = was.target
        /\ n.work = was.work /\ n.tx \in {was.tx, TRUE}
    BY <2>1 DEF Session
  <2>4. Does(s, "Execute", n)
    BY <2>1
  <2> HIDE DEF n
  <2>5. Fared(s, n.work, n.tx, c)
    BY <2>2, <2>3 DEF Fared
  <2>6. QED
    BY <2>3, <2>4, <2>5, TookDoes
<1>3. CASE FinishFails(s)
  <2>1. PICK op : Does(s, op, was)
    BY <1>3 DEF FinishFails
  <2>2. UNCHANGED <<committed, done, gone>>
    BY <1>3 DEF FinishFails
  <2>3. Fared(s, was.work, was.tx, c)
    BY <2>2 DEF Fared
  <2>4. QED
    BY <2>1, <2>3, TookDoes
<1>4. CASE ExecuteTimesOut(s) \/ DoCommit(s) \/ DoRollback(s)
  <2>1. PICK op : /\ Does(s, op, NoTx(s))
                  /\ \/ gone' = gone \cup was.work /\ UNCHANGED <<committed, done>>
                     \/ /\ op = "Commit"
                        /\ committed' = committed \cup was.work
                        /\ UNCHANGED <<done, gone>>
    BY <1>4 DEF ExecuteTimesOut, DoCommit, DoRollback
  <2> DEFINE n == NoTx(s)
  <2>2. /\ n \in Session /\ n.queue = was.queue
        /\ n.target = was.target /\ n.work = {}
    BY DEF NoTx, Session
  <2>3. Does(s, op, n)
    BY <2>1
  <2> HIDE DEF n
  <2>4. c.op = op => Fared(s, n.work, n.tx, c)
    BY <2>1, <2>2 DEF Fared
  <2>5. QED
    BY <2>2, <2>3, <2>4, TookDoes
<1>5. CASE DoClose(s)
  <2> DEFINE n == [NoTx(s) EXCEPT !.ended = TRUE]
  <2>1. Does(s, "Close", n) /\ UNCHANGED <<committed, done, gone>>
    BY <1>5 DEF DoClose
  <2>2. /\ n \in Session /\ n.queue = was.queue
        /\ n.target = was.target /\ n.work = {}
    BY DEF NoTx, Session
  <2> HIDE DEF n
  <2>3. c.op = "Close" => Fared(s, n.work, n.tx, c)
    BY <2>1, <2>2 DEF Fared
  <2>4. QED
    BY <2>1, <2>2, <2>3, TookDoes
<1>6. QED
  BY <1>1, <1>2, <1>3, <1>4, <1>5 DEF Task

(* What the command leaves in the session is less than was there.          *)
Lessens(s, u, c) ==
    LET was == sessions[s] IN
    /\ Single(u)
    /\ Holds(u) \subseteq Holds(was) /\ Has(u) \subseteq Has(was)
    /\ Queued(u) \subseteq Queued(was)
    /\ Numbers(u) \subseteq Numbers(was) \ {c.job}
    /\ c.job # 0 => c.job \in Numbers(was)
    /\ u.work = {} => Holds(u) \cap was.work = {}
    /\ c.op = "Execute" => c.job \in Queued(was)
    /\ c.op = "Commit" => was.work \subseteq asked
    /\ Shut(u) \/ c.op = "Close" => Shut(was)

LEMMA TookLessens ==
    ASSUME Inv, Fates, NEW s \in 1..Len(sessions), NEW u, NEW c, Took(s, u, c)
    PROVE  Lessens(s, u, c)
<1> DEFINE was == sessions[s]
<1>1. /\ was \in Session /\ was.queue \in Seq(Command)
      /\ Has(was) \subseteq 1..jobs /\ Has(was) \subseteq Holds(was)
      /\ Queued(was) \subseteq Has(was) /\ was.work \subseteq Has(was)
      /\ Single(was) /\ jobs \in Nat
      /\ Proper(was, jobs, asked, meant, DatabasePicked)
  BY FatesTyped DEF Fates, ApartInv, Inv, SessionsInv, AllProper
<1>2. /\ u \in Session /\ was.queue # <<>> /\ c = Head(was.queue)
      /\ u.queue = Tail(was.queue) /\ Fared(s, u.work, u.tx, c)
  BY DEF Took
<1>3. /\ 1 \in 1..Len(was.queue) /\ c = was.queue[1]
  BY <1>1, <1>2
<1>4. c.op = "Execute" => c.job \in Queued(was)
  BY <1>1, <1>3, InQueue
<1>5. c.op = "Commit" => was.work \subseteq asked
  BY <1>1, <1>3 DEF Proper, Asks
<1>6. \/ u.work \subseteq was.work
      \/ c.op = "Execute" /\ c.job # 0 /\ u.work \subseteq was.work \cup {c.job}
  <2>1. \/ u.work = was.work
        \/ c.op = "Execute" /\ u.work = was.work \cup {c.job}
        \/ u.work = {}
    BY <1>2, Zenon DEF Fared
  <2>2. c.op = "Execute" => c.job # 0
    BY <1>1, <1>4
  <2>3. QED
    BY <2>1, <2>2
<1>7. u.tx \/ u.work = {}
  BY <1>1, <1>2 DEF Fared, Single
<1> HIDE DEF was
<1>8. /\ Single(u)
      /\ Numbers(u) \subseteq Numbers(was) \ {c.job}
      /\ c.job # 0 => c.job \in Numbers(was)
      /\ Queued(u) \subseteq Queued(was) \ ({c.job} \ {0})
      /\ Shut(u) => Shut(was)
      /\ c.op = "Close" => Shut(was)
  BY <1>1, <1>2, <1>6, <1>7, SingleDone
<1>9. u.work \subseteq Has(was)
  BY <1>1, <1>4, <1>6
<1>10. Queued(u) \subseteq Queued(was) /\ Has(u) \subseteq Has(was)
  BY <1>1, <1>8, <1>9 DEF Has
<1>11. Numbers(was) \subseteq Holds(was)
  BY DEF Holds
<1>12. Holds(u) \subseteq Holds(was)
  BY <1>1, <1>8, <1>9, <1>11 DEF Holds
<1>13. u.work = {} => Holds(u) \cap was.work = {}
  BY <1>1, <1>8 DEF Holds, Single
<1>14. QED
  BY <1>4, <1>5, <1>8, <1>10, <1>12, <1>13 DEF Lessens, was

TaskIdle ==
    UNCHANGED <<tabs, current, jobs, owner, running, auto, slot, asked,
                unwanted, broken>>

LEMMA TookApart ==
    ASSUME Inv, Fates, NEW s \in 1..Len(sessions), NEW u, NEW c, Took(s, u, c),
           TaskIdle
    PROVE  ApartInv' /\ BooksInv'
<1> USE FatesTyped DEF TaskIdle
<1> DEFINE was == sessions[s]
           old == Elsewhere
<1>1. Lessens(s, u, c)
  BY TookLessens
<1>2. /\ Len(sessions') = Len(sessions)
      /\ sessions'[s] = u
      /\ \A i \in 1..Len(sessions) : i # s => sessions'[i] = sessions[i]
      /\ results' = results \cup ({c.job} \ {0})
      /\ Fared(s, u.work, u.tx, c)
  BY DEF Took
<1>3. \A i \in 1..Len(sessions) :
          /\ Single(sessions[i])
          /\ Holds(sessions[i]) \subseteq 1..jobs
          /\ Holds(sessions[i]) \cap Elsewhere = {}
          /\ Numbers(sessions[i]) \cap results = {}
  BY DEF Fates, ApartInv
<1>4. \A i, k \in 1..Len(sessions) :
          i # k => Holds(sessions[i]) \cap Holds(sessions[k]) = {}
  BY DEF Fates, ApartInv
<1>5. /\ was.work \subseteq Holds(was) /\ Numbers(was) \subseteq Holds(was)
      /\ c.job # 0 => c.job \in Holds(was)
  BY <1>1 DEF Holds, Lessens
<1>6. \/ Elsewhere' = Elsewhere
      \/ Elsewhere' = Elsewhere \cup was.work /\ u.work = {}
  BY <1>2 DEF Elsewhere, Fared
<1>7. ASSUME NEW i \in 1..Len(sessions)
      PROVE  /\ Single(sessions'[i])
             /\ Holds(sessions'[i]) \subseteq Holds(sessions[i])
             /\ Holds(sessions'[i]) \cap Elsewhere' = {}
             /\ Numbers(sessions'[i]) \cap results' = {}
  <2>1. CASE i = s
    <3>1. /\ Single(u) /\ Holds(u) \subseteq Holds(was)
          /\ Numbers(u) \subseteq Numbers(was) \ {c.job}
          /\ u.work = {} => Holds(u) \cap was.work = {}
      BY <1>1 DEF Lessens
    <3>2. Holds(u) \cap Elsewhere' = {}
      BY <1>3, <1>6, <3>1
    <3>3. Numbers(u) \cap results' = {}
      BY <1>2, <1>3, <3>1
    <3>4. QED
      BY <1>2, <2>1, <3>1, <3>2, <3>3
  <2>2. CASE i # s
    <3>1. sessions'[i] = sessions[i] /\ Holds(sessions[i]) \cap Holds(was) = {}
      BY <1>2, <1>4, <2>2
    <3>2. Holds(sessions[i]) \cap Elsewhere' = {}
      BY <1>3, <1>5, <1>6, <3>1
    <3>3. Numbers(sessions[i]) \cap results' = {}
      <4>1. Numbers(sessions[i]) \subseteq Holds(sessions[i])
        BY DEF Holds
      <4>2. QED
        BY <1>2, <1>3, <1>5, <3>1, <4>1
    <3>4. QED
      BY <1>3, <3>1, <3>2, <3>3
  <2>3. QED
    BY <2>1, <2>2
<1>8. \A i, k \in 1..Len(sessions) :
          i # k => Holds(sessions'[i]) \cap Holds(sessions'[k]) = {}
  BY <1>4, <1>7
<1>9. \A i \in 1..Len(sessions) : Holds(sessions'[i]) \subseteq 1..jobs
  BY <1>3, <1>7
<1>10. ApartInv'
  BY <1>2, <1>7, <1>8, <1>9 DEF ApartInv
<1>11. /\ results \cup done \cup gone \cup asked \cup unwanted \subseteq 1..jobs
       /\ slot.job \notin auto \cup committed
       /\ auto \cap committed = {}
       /\ gone \cap (auto \cup {slot.job}) = {}
  BY DEF Fates, BooksInv
<1>12. /\ c.job # 0 => c.job \in 1..jobs
       /\ c.op = "Execute" => c.job \in 1..jobs
       /\ was.work \subseteq 1..jobs
       /\ was.work \cap (auto \cup {slot.job} \cup committed) = {}
  BY <1>1, <1>3, <1>5 DEF Elsewhere, Lessens
<1>13. /\ results' \subseteq 1..jobs
       /\ done' \subseteq 1..jobs
       /\ gone' \subseteq gone \cup was.work
       /\ committed' \subseteq committed \cup was.work
  BY <1>2, <1>11, <1>12 DEF Fared
<1>14. BooksInv'
  BY <1>11, <1>12, <1>13 DEF BooksInv
<1>15. QED
  BY <1>10, <1>14

LEMMA TookHeld ==
    ASSUME Inv, Fates, NEW s \in 1..Len(sessions), NEW u, NEW c, Took(s, u, c),
           TaskIdle
    PROVE  HeldInv' /\ GoneInv'
<1> USE FatesTyped
<1> DEFINE was == sessions[s]
<1>0. /\ UNCHANGED <<tabs, current, owner, asked, broken>>
  BY DEF TaskIdle
<1>1. /\ Has(u) \subseteq Has(was) /\ Queued(u) \subseteq Queued(was)
      /\ Holds(u) \subseteq Holds(was)
      /\ u.work = {} => Holds(u) \cap was.work = {}
      /\ c.op = "Commit" => was.work \subseteq asked
      /\ Shut(u) => Shut(was)
  BY TookLessens DEF Lessens
<1>2. /\ Len(sessions') = Len(sessions)
      /\ sessions'[s] = u
      /\ \A i \in 1..Len(sessions) : i # s => sessions'[i] = sessions[i]
      /\ Fared(s, u.work, u.tx, c)
  BY DEF Took
<1>3. ASSUME NEW i \in 1..Len(sessions)
      PROVE  /\ Has(sessions'[i]) \subseteq Has(sessions[i])
             /\ Queued(sessions'[i]) \subseteq Queued(sessions[i])
             /\ Shut(sessions'[i]) => Shut(sessions[i])
             /\ u.work = {} => Has(sessions'[i]) \cap was.work = {}
  <2>1. CASE i = s
    <3>1. u \in Session /\ Has(u) \subseteq Has(was) /\ 0 \notin Has(was)
      BY <1>1 DEF Took
    <3>2. Has(u) \subseteq Holds(u)
      BY <3>1, HasHolds
    <3>3. QED
      BY <1>1, <1>2, <2>1, <3>2
  <2>2. CASE i # s
    <3>1. Holds(sessions[i]) \cap Holds(was) = {}
      BY <2>2 DEF Fates, ApartInv
    <3>2. QED
      BY <1>2, <2>2, <3>1
  <2>3. QED
    BY <2>1, <2>2
<1>4. HeldInv'
  <2>1. /\ owner \in [1..MaxJobs -> Tabs \cup {0}]
        /\ tabs[current].open
        /\ \A t \in Holding :
              /\ tabs[t].open /\ ~Shut(HeldBy(t))
              /\ \A j \in Queued(HeldBy(t)) : owner[j] = t
        /\ \A t, v \in Holding : tabs[t].session = tabs[v].session => t = v
    BY DEF Fates, HeldInv
  <2>2. Holding' = Holding
    BY <1>0 DEF Holding
  <2>3. \A t \in Holding : /\ Queued(HeldBy(t)') \subseteq Queued(HeldBy(t))
                           /\ Shut(HeldBy(t)') => Shut(HeldBy(t))
    BY <1>0, <1>3 DEF HeldBy
  <2>4. \A t \in Holding : /\ tabs[t].open /\ ~Shut(HeldBy(t)')
                           /\ \A j \in Queued(HeldBy(t)') : owner[j] = t
    BY <2>1, <2>3
  <2>5. QED
    BY <1>0, <2>1, <2>2, <2>4 DEF HeldInv
<1>5. GoneInv'
  <2>1. CASE Unclear
    BY <1>0, <2>1 DEF GoneInv, Unclear, Unless
  <2>2. CASE ~Unclear
    <3>1. /\ committed \cap gone = {}
          /\ \A i \in 1..Len(sessions) : gone \cap asked \cap Has(sessions[i]) = {}
          /\ \A t \in Holding : gone \cap Has(HeldBy(t)) = {}
      BY <2>2 DEF Fates, GoneInv
    <3>2. was.work \cap committed = {}
      <4>1. Holds(was) \cap Elsewhere = {}
        BY DEF Fates, ApartInv
      <4>2. QED
        BY <4>1 DEF Holds, Elsewhere
    <3>3. \/ gone' = gone /\ committed' = committed
          \/ /\ gone' = gone \cup was.work /\ committed' = committed
             /\ u.work = {}
          \/ /\ gone' = gone /\ committed' = committed \cup was.work
             /\ was.work \subseteq asked
      BY <1>1, <1>2 DEF Fared
    <3>4. committed' \cap gone' = {}
      <4>1. gone \cap asked \cap was.work = {}
        BY <3>1
      <4>2. QED
        BY <3>1, <3>2, <3>3, <4>1
    <3>5. \A i \in 1..Len(sessions) : gone' \cap asked \cap Has(sessions'[i]) = {}
      BY <1>3, <3>1, <3>3
    <3>6. ASSUME NEW t \in Holding
          PROVE  gone' \cap Has(HeldBy(t)') = {}
      BY <1>0, <1>3, <3>1, <3>3 DEF HeldBy
    <3>7. Holding' = Holding
      BY <1>0 DEF Holding
    <3>8. QED
      BY <1>0, <1>2, <3>4, <3>5, <3>6, <3>7 DEF GoneInv
  <2>3. QED
    BY <2>1, <2>2
<1>6. QED
  BY <1>4, <1>5

LEMMA TookLost ==
    ASSUME Inv, Fates, NEW s \in 1..Len(sessions), NEW u, NEW c, Took(s, u, c),
           TaskIdle
    PROVE  LostInv'
<1> USE FatesTyped
<1> DEFINE was == sessions[s]
<1>1. UNCHANGED <<tabs, running, asked, unwanted, broken>>
  BY DEF TaskIdle
<1>2. /\ Len(sessions') = Len(sessions)
      /\ sessions'[s] = u /\ u.target = was.target
      /\ \A i \in 1..Len(sessions) : i # s => sessions'[i] = sessions[i]
      /\ Fared(s, u.work, u.tx, c)
  BY DEF Took
<1>3. \A i \in 1..Len(sessions) :
          /\ Has(sessions'[i]) \subseteq Has(sessions[i])
          /\ Queued(sessions'[i]) \subseteq Queued(sessions[i])
          /\ sessions'[i].target = sessions[i].target
  BY <1>2, TookLessens DEF Lessens
<1>4. CASE Lossy
  BY <1>1, <1>4 DEF LostInv, Lossy, Unless
<1>5. CASE ~Lossy
  <2>1. /\ done \subseteq Accounted \cup InReach
        /\ \A i \in 1..Len(sessions) :
              (\A t \in Holding : tabs[t].session # i)
                 => Has(sessions[i]) \subseteq Accounted
        /\ \A t \in Holding :
              /\ tabs[t].tx_active \/ Has(HeldBy(t)) \subseteq Accounted
              /\ Queued(HeldBy(t)) \subseteq running \cup Accounted
              /\ \/ tabs[t].target = NoTarget
                 \/ HeldBy(t).target.conn = tabs[t].target.conn
    BY <1>5 DEF Fates, LostInv
  <2>2. Holding' = Holding
    BY <1>1 DEF Holding
  <2>3. Accounted \subseteq Accounted'
    BY <1>1, <1>2 DEF Accounted, Fared
  <2>4. ASSUME NEW t \in Holding
        PROVE  \A j \in HeldBy(t)'.work : j \in InReach'
    BY <1>1, <2>2 DEF InReach, HeldBy, Holding, Open, Fates, HeldInv
  <2>5. ASSUME NEW j \in InReach
        PROVE  j \in Accounted' \cup InReach'
    <3>1. PICK t \in Holding : j \in HeldBy(t).work
      BY DEF InReach, Holding, HeldBy, Open
    <3>2. CASE tabs[t].session # s
      <4>1. HeldBy(t)' = HeldBy(t)
        BY <1>1, <1>2, <3>1, <3>2 DEF HeldBy
      <4>2. QED
        BY <2>4, <3>1, <4>1
    <3>3. CASE tabs[t].session = s
      <4>1. j \in was.work /\ HeldBy(t)' = u /\ ~Shut(was)
        BY <1>1, <1>2, <3>1, <3>3 DEF HeldBy, Fates, HeldInv
      <4>2. c.op # "Close"
        BY <4>1, TookLessens DEF Lessens
      <4>3. \/ was.work \subseteq u.work
            \/ gone' = gone \cup was.work
            \/ committed' = committed \cup was.work
        <5>1. \/ u.work = was.work
              \/ u.work = was.work \cup {c.job}
              \/ gone' = gone \cup was.work
              \/ committed' = committed \cup was.work
          BY <1>2, <4>2, Zenon DEF Fared
        <5>2. QED
          BY <5>1
      <4>4. QED
        BY <2>4, <4>1, <4>3 DEF Accounted
    <3>4. QED
      BY <3>2, <3>3
  <2>6. ASSUME NEW j \in done' \ done
        PROVE  j \in Accounted' \cup InReach'
    <3>1. c.op = "Execute" /\ u.work = was.work \cup {c.job} /\ j = c.job
      <4>1. \/ /\ c.op = "Execute" /\ u.work = was.work \cup {c.job}
               /\ done' = done \cup {c.job}
            \/ done' = done
        BY <1>2, Zenon DEF Fared
      <4>2. QED
        BY <4>1
    <3>2. j \in Has(was)
      BY <3>1, TookLessens DEF Lessens
    <3>3. CASE \E t \in Holding : tabs[t].session = s
      <4>1. PICK t \in Holding : tabs[t].session = s
        BY <3>3
      <4>2. HeldBy(t)' = u
        BY <1>1, <1>2, <4>1 DEF HeldBy
      <4>3. QED
        BY <2>4, <3>1, <4>2
    <3>4. CASE \A t \in Holding : tabs[t].session # s
      BY <2>1, <2>3, <3>2, <3>4
    <3>5. QED
      BY <3>3, <3>4
  <2>7. done' \subseteq Accounted' \cup InReach'
    BY <2>1, <2>3, <2>5, <2>6
  <2>8. \A i \in 1..Len(sessions) :
           (\A t \in Holding : tabs[t].session # i)
              => Has(sessions'[i]) \subseteq Accounted'
    BY <1>3, <2>1, <2>3
  <2>9. \A t \in Holding :
           /\ Has(HeldBy(t)') \subseteq Has(HeldBy(t))
           /\ Queued(HeldBy(t)') \subseteq Queued(HeldBy(t))
           /\ HeldBy(t)'.target = HeldBy(t).target
    BY <1>1, <1>3 DEF HeldBy
  <2>10. \A t \in Holding :
            /\ tabs[t].tx_active \/ Has(HeldBy(t)') \subseteq Accounted'
            /\ Queued(HeldBy(t)') \subseteq running \cup Accounted'
            /\ \/ tabs[t].target = NoTarget
               \/ HeldBy(t)'.target.conn = tabs[t].target.conn
    BY <2>1, <2>3, <2>9
  <2>11. QED
    BY <1>1, <1>2, <2>2, <2>7, <2>8, <2>10 DEF LostInv
<1>6. QED
  BY <1>4, <1>5

LEMMA TaskFates ==
    ASSUME Inv, Fates, broken \subseteq broken', NEW s \in 1..Len(sessions),
           Task(s)
    PROVE  Fates'
<1> USE FatesTyped
<1>1. CASE Store(s)
  <2> DEFINE was == sessions[s]
             u == [was EXCEPT !.flag = was.tx]
  <2>1. sessions' = [sessions EXCEPT ![s] = u]
    BY <1>1 DEF Store
  <2>2. UNCHANGED <<tabs, current, jobs, owner, running, auto, results, slot,
                    asked, unwanted, committed, done, gone, broken>>
    BY <1>1 DEF Store, uiVars, jobVars, history, wishes, fates
  <2>3. /\ u.queue = was.queue /\ u.work = was.work /\ u.tx = was.tx
        /\ u.target = was.target
    BY DEF Session
  <2> HIDE DEF u
  <2>4. /\ Numbers(u) = Numbers(was) /\ Queued(u) = Queued(was)
        /\ Shut(u) = Shut(was) /\ Single(u) = Single(was)
    BY <2>3 DEF Numbers, Queued, Shut, Single
  <2>5. \A i \in 1..Len(sessions) : Single(sessions[i])
    BY DEF Fates, ApartInv
  <2>6. /\ sessions'[s] = u
        /\ \A i \in 1..Len(sessions) : i # s => sessions'[i] = sessions[i]
        /\ Len(sessions') = Len(sessions)
    BY <2>1
  <2>7. \A i \in 1..Len(sessions) : Calm(sessions[i], sessions'[i])
    BY <2>3, <2>4, <2>5, <2>6 DEF Calm
  <2>8. AllCalm
    BY <2>6, <2>7 DEF AllCalm
  <2>9. \A i \in 1..Len(sessions) : Shut(sessions'[i]) => Shut(sessions[i])
    BY <2>4, <2>6
  <2>10. \A t \in Tabs :
           \/ tabs'[t].session = 0
           \/ /\ tabs'[t].session = tabs[t].session
              /\ tabs'[t].open
              /\ Shut(sessions'[tabs[t].session]) => Shut(HeldBy(t))
    BY <2>2, <2>9 DEF Fates, HeldInv, Holding, HeldBy
  <2>11. ASSUME ~Lossy, NEW t \in Holding
         PROVE  Cared(t)
    <3>1. tabs[t].open
      BY DEF Fates, HeldInv
    <3>2. Accounted' = Accounted
      BY <2>2 DEF Accounted
    <3>3. QED
      BY <2>2, <2>11, <3>1, <3>2, SameTab
  <2>12. Lossy' \/ \A t \in Holding : Cared(t)
    BY <2>11, LossyLater
  <2>13. tabs'[current'].open
    BY <2>2 DEF Fates, HeldInv
  <2>14. QED
    BY <2>2, <2>8, <2>10, <2>12, <2>13, TabStep
<1>2. CASE ~Store(s)
  <2>1. PICK u, c : Took(s, u, c)
    BY <1>2, TaskTook
  <2>2. TaskIdle
    BY <1>2 DEF TaskIdle, Task, DoExecute, ExecuteFails, ExecuteTimesOut,
                DoCommit, DoRollback, FinishFails, DoClose, Does, uiVars, wishes
  <2>3. QED
    BY <2>1, <2>2, TookApart, TookHeld, TookLost DEF Fates
<1>3. QED
  BY <1>1, <1>2
-----------------------------------------------------------------------------
LEMMA FatesInitially == Init => Fates
<1> SUFFICES ASSUME Init PROVE Fates
  OBVIOUS
<1>1. /\ sessions = <<>> /\ Len(sessions) = 0 /\ jobs = 0 /\ current = 1
      /\ running = {} /\ auto = {} /\ results = {} /\ slot = NoQuery
      /\ asked = {} /\ unwanted = {} /\ committed = {} /\ done = {}
      /\ gone = {} /\ owner = [j \in 1..MaxJobs |-> 0]
  BY DEF Init
<1>2. PICK target \in Targets :
         tabs = [t \in Tabs |-> IF t = 1 THEN Fresh(target) ELSE Closed]
  BY DEF Init
<1>3. /\ Fresh(target).session = 0 /\ Fresh(target).open
      /\ Closed.session = 0
  BY DEF Fresh, Closed
<1>4. Holding = {} /\ tabs[current].open
  BY <1>1, <1>2, <1>3, TabsAssumption DEF Holding
<1>5. ApartInv
  BY <1>1 DEF ApartInv
<1>6. BooksInv
  BY <1>1 DEF BooksInv
<1>7. HeldInv
  BY <1>1, <1>4 DEF HeldInv
<1>8. GoneInv
  BY <1>1, <1>4 DEF GoneInv
<1>9. LostInv
  BY <1>1, <1>4 DEF LostInv
<1>10. QED
  BY <1>5, <1>6, <1>7, <1>8, <1>9 DEF Fates

LEMMA FatesStep == Inv /\ Fates /\ [Next]_vars => Fates'
<1> SUFFICES ASSUME Inv, Fates, [Next]_vars PROVE Fates'
  OBVIOUS
<1>1. broken \subseteq broken'
  BY BrokenGrows
<1>2. CASE UNCHANGED vars
  <2>1. UNCHANGED <<tabs, current, sessions, jobs, owner, running, asked,
                    unwanted, done, gone, auto, results, committed, slot>>
    BY <1>2 DEF vars, uiVars, jobVars, history, wishes, fates
  <2>2. QED
    BY <1>1, <2>1, PoolFates
<1>3. CASE User
  BY <1>1, <1>3, NewTabFates, ToggleFates, PickFates, BoxFates, RunFates,
     SendFates, CloseFates DEF User
<1>4. CASE Frame
  BY <1>1, <1>4, FrameFates
<1>5. CASE PoolReady \/ WaitEnds \/ AutoEnds
  <2>1. UNCHANGED <<tabs, current, sessions, jobs, owner, running, asked,
                    unwanted, done, gone>>
    BY <1>5 DEF PoolReady, WaitEnds, AutoEnds, uiVars, jobVars, history,
                wishes, fates
  <2>2. slot' \in {slot, NoQuery}
    BY <1>5 DEF PoolReady, WaitEnds, AutoEnds, jobVars
  <2>3. \/ UNCHANGED <<auto, results, committed>>
        \/ \E j \in auto :
              /\ auto' = auto \ {j}
              /\ results' = results \cup {j}
              /\ committed' \in {committed, committed \cup {j}}
    BY <1>5 DEF PoolReady, WaitEnds, AutoEnds, jobVars, history, fates
  <2>4. QED
    BY <1>1, <2>1, <2>2, <2>3, PoolFates
<1>6. ASSUME NEW s \in DOMAIN sessions, Task(s)
      PROVE  Fates'
  <2>1. s \in 1..Len(sessions)
    BY TabsTyped
  <2>2. QED
    BY <1>1, <1>6, <2>1, TaskFates
<1>7. QED
  BY <1>2, <1>3, <1>4, <1>5, <1>6 DEF Next

LEMMA FatesAlways == Spec => [](Inv /\ Fates)
<1>1. Init => Inv /\ Fates
  BY InvInitially, FatesInitially
<1>2. Inv /\ Fates /\ [Next]_vars => Inv' /\ Fates'
  BY StepKeeps, FatesStep
<1>3. QED
  BY <1>1, <1>2, PTL DEF Spec

(* What the user was told is rolled back is never committed afterwards,    *)
(* unless a last tab or the palette left a session as it was: whatever the *)
(* order in which sessions, frames and results come.                       *)
THEOREM RollbackHolds == Spec => []RolledBackStaysBack
<1>1. Inv /\ Fates => RolledBackStaysBack
  BY DEF Fates, GoneInv, RolledBackStaysBack, Unclear
<1>2. QED
  BY <1>1, FatesAlways, PTL

(* A change made in manual-commit mode is committed, decided on, rolled    *)
(* back as the user was told, or in the session of an open tab, unless the *)
(* other tabs were closed, the tab went to another connection, or a        *)
(* session stored its flag later than a frame.                             *)
THEOREM NothingIsLost == Spec => []NothingLostUnasked
<1>1. Inv /\ Fates => NothingLostUnasked
  BY DEF Fates, LostInv, NothingLostUnasked, Lossy, Accounted
<1>2. QED
  BY <1>1, FatesAlways, PTL
=============================================================================
