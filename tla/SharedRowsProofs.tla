------------------------- MODULE SharedRowsProofs -------------------------
(***************************************************************************)
(* Two components whose processes share rows of a database and no lock:    *)
(* the approval queue, rows of a local file that an MCP process and the    *)
(* window write (AgentApproval), and the sync of projects, rows of a       *)
(* server that several devices write (ProjectSync).  In both a process     *)
(* reads rows, does something else, and acts on what it has read.          *)
(*                                                                         *)
(* Of the queue, for every number of calls and every set of batches:       *)
(* nothing that must wait for the user runs without the user, nothing the  *)
(* user has denied runs, and a decision is final.                          *)
(*                                                                         *)
(* Of the sync, for every number of devices, names and edits: the newest   *)
(* save of a project stays on some device, two projects of one name come   *)
(* of a rename only, and the number of a row is never another row's.       *)
(***************************************************************************)
EXTENDS AgentApproval, ProjectSync, TLAPS, WellFoundedInduction,
        FiniteSetTheorems

-----------------------------------------------------------------------------
(* The approval queue.                                                     *)

(* What has to wait for the user at every level.                           *)
AlwaysWaits(b) == \E s \in b : s.kind = "admin" \/ (s.risky /\ s.kind # "read")

(* A call that has not been made is nowhere.                               *)
Unmade ==
    \A c \in Calls : c > calls =>
        /\ call[c] = "none"
        /\ row[c] = "none"
        /\ c \notin yes
        /\ c \notin no

(* What the user has said is what the row says, or the client's dialog.    *)
Recorded ==
    \A c \in Calls : /\ row[c] = "approved" => c \in yes
                     /\ c \in no => row[c] = "denied"

(* A statement runs because it needed nobody (it was never queued), or     *)
(* because the user approved it, in the client's dialog if its row says    *)
(* anything but that.                                                      *)
Reasons ==
    \A c \in Calls :
        /\ Runs(c) => \/ row[c] = "none"
                      \/ row[c] = "approved"
                      \/ elicits /\ c \in yes
        /\ Runs(c) /\ AlwaysWaits(batch[c]) => c \in yes
        /\ call[c] = "asking" => elicits

ApprovalInv == QueueTypes /\ Unmade /\ Recorded /\ Reasons
-----------------------------------------------------------------------------
(* access::decide lets no such statement through, and ops::aggregate no    *)
(* batch that holds one.                                                   *)
LEMMA NothingSlipsThrough ==
    ASSUME NEW b \in Batches, NEW level \in Levels,
           Aggregate({Decide(level, s) : s \in b}) = "allow"
    PROVE  ~AlwaysWaits(b)
<1> SUFFICES ASSUME NEW s \in b, s.kind = "admin" \/ (s.risky /\ s.kind # "read")
             PROVE  FALSE
  BY DEF AlwaysWaits
<1>1. Decide(level, s) \notin {"deny", "ask"}
  BY DEF Aggregate
<1>2. Decide(level, s) = "allow"
  BY <1>1 DEF Decide
<1>3. level # "blocked" /\ s.kind # "read" /\ ~s.risky /\ Direct(level, s.kind)
  BY <1>2 DEF Decide
<1>4. s.kind = "admin"
  BY <1>3
<1>5. QED
  BY <1>3, <1>4 DEF Direct

(* A row that is not pending is left alone by every decision.              *)
LEMMA DecisionTyped ==
    ASSUME QueueTypes, NEW c \in Calls, NEW status \in Decisions,
           DecideApproval(c, status) \/ UNCHANGED row
    PROVE  /\ row' \in [Calls -> Decisions \cup {"none", "pending"}]
           /\ \A d \in Calls : row'[d] # row[d]
                  => d = c /\ row[c] = "pending" /\ row'[c] = status
BY DEF QueueTypes, DecideApproval
-----------------------------------------------------------------------------
LEMMA ApprovalInitially == QueueInit => ApprovalInv
<1> SUFFICES ASSUME QueueInit PROVE ApprovalInv
  OBVIOUS
<1>1. QueueTypes
  <2>1. elicits \in BOOLEAN
    <3>1. Elicits \subseteq BOOLEAN /\ elicits \in Elicits
      BY ApprovalAssumption DEF QueueInit
    <3>2. QED
      BY <3>1
  <2>2. calls \in 0..MaxCalls
    BY ApprovalAssumption DEF QueueInit
  <2>3. /\ batch \in [Calls -> SUBSET Statements]
        /\ age \in [Calls -> 0..3]
        /\ call \in [Calls -> {"none", "waiting", "giving_up", "asking",
                               "running", "ran", "refused", "dead"}]
        /\ row \in [Calls -> Decisions \cup {"none", "pending"}]
    BY DEF QueueInit
  <2>4. up \in BOOLEAN /\ wake \in BOOLEAN
    BY DEF QueueInit
  <2>5. QED
    BY <2>1, <2>2, <2>3, <2>4, Zenon DEF QueueInit, QueueTypes
<1>2. Unmade /\ Recorded /\ Reasons
  BY DEF QueueInit, Unmade, Recorded, Reasons, Runs
<1>3. QED
  BY <1>1, <1>2 DEF ApprovalInv

LEMMA CallKeeps == ApprovalInv /\ Call => ApprovalInv'
<1> SUFFICES ASSUME ApprovalInv, Call PROVE ApprovalInv'
  OBVIOUS
<1> USE ApprovalAssumption DEF ApprovalInv, Calls
<1>1. calls' = calls + 1 /\ calls' \in Calls /\ calls \in Nat
  BY DEF Call, QueueTypes
<1>2. PICK b \in Batches, level \in Levels :
         /\ batch' = [batch EXCEPT ![calls'] = b]
         /\ \/ /\ Aggregate({Decide(level, s) : s \in b}) = "allow"
               /\ call' = [call EXCEPT ![calls'] = "running"]
               /\ UNCHANGED row
            \/ call' = [call EXCEPT ![calls'] = "refused"] /\ UNCHANGED row
            \/ /\ call' = [call EXCEPT ![calls'] = "waiting"]
               /\ row' = [row EXCEPT ![calls'] = "pending"]
  BY DEF Call, Goes
<1>3. UNCHANGED <<elicits, seen_by_gui, age, seen, guiVars, saidVars>>
  BY DEF Call
<1>4. b \in SUBSET Statements
  OBVIOUS
<1>5. QueueTypes'
  BY <1>1, <1>2, <1>3, <1>4 DEF QueueTypes, guiVars, saidVars
<1>6. calls' > calls
  BY <1>1
<1>7. call[calls'] = "none" /\ row[calls'] = "none"
         /\ calls' \notin yes /\ calls' \notin no
  BY <1>1, <1>6 DEF Unmade
<1>8. Unmade'
  BY <1>1, <1>2, <1>3 DEF Unmade, QueueTypes, saidVars
<1>9. Recorded'
  BY <1>1, <1>2, <1>3, <1>7 DEF Recorded, QueueTypes, saidVars
<1>10. Reasons'
  <2> SUFFICES ASSUME NEW c \in Calls
               PROVE  /\ Runs(c)' => \/ row'[c] = "none"
                                     \/ row'[c] = "approved"
                                     \/ elicits' /\ c \in yes'
                      /\ Runs(c)' /\ AlwaysWaits(batch'[c]) => c \in yes'
                      /\ call'[c] = "asking" => elicits'
    BY DEF Reasons, AlwaysWaits
  <2>1. CASE c # calls'
    <3>1. call'[c] = call[c] /\ row'[c] = row[c] /\ batch'[c] = batch[c]
      BY <1>1, <1>2, <2>1 DEF QueueTypes
    <3>2. QED
      BY <1>3, <3>1 DEF Reasons, Runs, saidVars
  <2>2. CASE c = calls'
    <3>1. batch'[c] = b
      BY <1>1, <1>2, <2>2 DEF QueueTypes
    <3>2. call'[c] \in {"running", "refused", "waiting"}
      BY <1>1, <1>2, <2>2 DEF QueueTypes
    <3>3. call'[c] = "running" =>
             /\ Aggregate({Decide(level, s) : s \in b}) = "allow"
             /\ row'[c] = "none"
      BY <1>1, <1>2, <1>7, <2>2 DEF QueueTypes
    <3>4. call'[c] = "running" => ~AlwaysWaits(b)
      BY <3>3, NothingSlipsThrough
    <3>5. QED
      BY <3>1, <3>2, <3>3, <3>4 DEF Runs
  <2>3. QED
    BY <2>1, <2>2
<1>11. QED
  BY <1>5, <1>8, <1>9, <1>10

(* The steps that write one row, and move one call, as the poll loop does. *)
LEMMA ServerKeeps ==
    ASSUME ApprovalInv, NEW c \in Calls,
           \/ Poll(c) \/ PollFails(c) \/ Withdraw(c)
           \/ ClientAnswers(c) \/ Execute(c) \/ Die(c)
    PROVE  ApprovalInv'
<1> USE DEF ApprovalInv
<1>1. CASE PollDecided(c)
  <2>1. QueueTypes'
    BY <1>1 DEF PollDecided, Goes, QueueTypes, rowVars, guiVars, saidVars
  <2>2. Unmade' /\ Recorded'
    BY <1>1 DEF PollDecided, Goes, QueueTypes, Unmade, Recorded, rowVars, saidVars
  <2>3. Reasons'
    BY <1>1 DEF PollDecided, Goes, QueueTypes, Recorded, Reasons, Runs,
                AlwaysWaits, rowVars, saidVars
  <2>4. QED
    BY <2>1, <2>2, <2>3
<1>2. CASE PollPending(c)
  <2>1. call'[c] \in {"giving_up", "waiting"}
    BY <1>2 DEF PollPending, Goes, QueueTypes
  <2>2. QueueTypes'
    BY <1>2 DEF PollPending, Goes, QueueTypes, rowVars, guiVars, saidVars
  <2>3. Unmade' /\ Recorded'
    BY <1>2 DEF PollPending, Goes, QueueTypes, Unmade, Recorded, rowVars, saidVars
  <2>4. Reasons'
    BY <1>2 DEF PollPending, Goes, QueueTypes, Reasons, Runs, AlwaysWaits,
                rowVars, saidVars
  <2>5. QED
    BY <2>2, <2>3, <2>4
<1>3. CASE GiveUp(c) \/ Withdraw(c)
  <2>1. DecideApproval(c, "expired") \/ UNCHANGED row
    BY <1>3 DEF GiveUp, Withdraw
  <2>2. /\ row' \in [Calls -> Decisions \cup {"none", "pending"}]
        /\ \A d \in Calls : row'[d] # row[d]
               => d = c /\ row[c] = "pending" /\ row'[c] = "expired"
    BY <2>1, DecisionTyped DEF Decisions
  <2>3. /\ call[c] \in {"giving_up", "waiting", "asking"}
        /\ \/ call' = [call EXCEPT ![c] = "refused"]
           \/ call' = [call EXCEPT ![c] = "asking"] /\ elicits
    BY <1>3, Zenon DEF GiveUp, Withdraw, Goes
  <2>4. UNCHANGED <<elicits, calls, batch, seen_by_gui, age, seen, guiVars, saidVars>>
    BY <1>3 DEF GiveUp, Withdraw
  <2>5. QueueTypes'
    BY <2>2, <2>3, <2>4 DEF QueueTypes, guiVars, saidVars
  <2>6. Unmade'
    BY <2>2, <2>3, <2>4 DEF QueueTypes, Unmade, saidVars
  <2>7. Recorded'
    BY <2>2, <2>4 DEF QueueTypes, Recorded, saidVars
  <2>8. Reasons'
    BY <2>2, <2>3, <2>4 DEF QueueTypes, Reasons, Runs, AlwaysWaits, saidVars
  <2>9. QED
    BY <2>5, <2>6, <2>7, <2>8
<1>4. CASE ClientAnswers(c)
  <2>1. call[c] = "asking" /\ elicits
    BY <1>4 DEF ClientAnswers, Reasons
  <2>2. QueueTypes'
    BY <1>4 DEF ClientAnswers, Goes, QueueTypes, rowVars, guiVars
  <2>3. Unmade' /\ Recorded'
    BY <1>4, <2>1 DEF ClientAnswers, Goes, QueueTypes, Unmade, Recorded, rowVars
  <2>4. Reasons'
    BY <1>4, <2>1 DEF ClientAnswers, Goes, QueueTypes, Reasons, Runs,
                      AlwaysWaits, rowVars
  <2>5. QED
    BY <2>2, <2>3, <2>4
<1>5. CASE PollFails(c) \/ Execute(c) \/ Die(c)
  <2>1. \/ call[c] = "waiting" /\ call' = [call EXCEPT ![c] = "refused"]
        \/ call[c] = "running" /\ call' = [call EXCEPT ![c] = "ran"]
        \/ call[c] # "none" /\ call' = [call EXCEPT ![c] = "dead"]
    BY <1>5 DEF PollFails, Execute, Die, Goes
  <2>2. UNCHANGED <<elicits, calls, batch, seen_by_gui, age, rowVars, guiVars, saidVars>>
    BY <1>5 DEF PollFails, Execute, Die
  <2>3. QueueTypes'
    BY <2>1, <2>2 DEF QueueTypes, rowVars, guiVars, saidVars
  <2>4. Unmade' /\ Recorded'
    BY <2>1, <2>2 DEF QueueTypes, Unmade, Recorded, rowVars, saidVars
  <2>5. Reasons'
    BY <2>1, <2>2 DEF QueueTypes, Reasons, Runs, AlwaysWaits, rowVars, saidVars
  <2>6. QED
    BY <2>3, <2>4, <2>5
<1>6. QED
  BY <1>1, <1>2, <1>3, <1>4, <1>5 DEF Poll

(* The user's decision: it counts only for a row that is still pending.    *)
LEMMA ChooseKeeps ==
    ASSUME ApprovalInv, NEW c \in Calls, NEW status \in {"approved", "denied"},
           Choose(c, status)
    PROVE  ApprovalInv'
<1> USE DEF ApprovalInv
<1>1. /\ row' \in [Calls -> Decisions \cup {"none", "pending"}]
      /\ \A d \in Calls : row'[d] # row[d]
             => d = c /\ row[c] = "pending" /\ row'[c] = status
  BY DecisionTyped DEF Choose, Decisions
<1>2. UNCHANGED <<callVars, seen, up, wake, fetch, fetched>>
  BY DEF Choose
<1>3. CASE row' = row
  <2>1. UNCHANGED <<yes, no>> /\ told' = told \cup {c} /\ pending' = pending \ {c}
    BY <1>3 DEF Choose
  <2>2. QueueTypes'
    BY <1>2, <1>3, <2>1 DEF QueueTypes, callVars
  <2>3. Unmade' /\ Recorded' /\ Reasons'
    BY <1>2, <1>3, <2>1 DEF Unmade, Recorded, Reasons, Runs, AlwaysWaits, callVars
  <2>4. QED
    BY <2>2, <2>3
<1>4. CASE row' # row
  <2>1. /\ yes' = IF status = "approved" THEN yes \cup {c} ELSE yes
        /\ no' = IF status = "denied" THEN no \cup {c} ELSE no
        /\ UNCHANGED told
        /\ pending' = pending \ {c}
    BY <1>4 DEF Choose
  <2>2. row[c] = "pending" /\ row' = [row EXCEPT ![c] = status]
    BY <1>4 DEF Choose, DecideApproval
  <2>3. row'[c] = status
    BY <2>2 DEF QueueTypes
  <2>4. c \notin no /\ ~(c > calls)
    BY <2>2 DEF Recorded, Unmade
  <2>5. QueueTypes'
    BY <1>1, <1>2, <2>1 DEF QueueTypes, callVars
  <2>6. Unmade'
    BY <1>2, <2>1, <2>2, <2>4 DEF QueueTypes, Unmade, callVars
  <2>7. Recorded'
    BY <2>1, <2>2, <2>4 DEF QueueTypes, Recorded
  <2>8. Reasons'
    <3>1. UNCHANGED <<call, elicits, batch>> /\ yes \subseteq yes'
      BY <1>2, <2>1 DEF callVars
    <3>2. \A d \in Calls : row'[d] # row[d] => row[d] = "pending"
      BY <1>1
    <3>3. QED
      BY <3>1, <3>2 DEF Reasons, Runs, AlwaysWaits
  <2>9. QED
    BY <2>5, <2>6, <2>7, <2>8
<1>5. QED
  BY <1>3, <1>4

(* The GUI's own steps, and time: of the rows they touch only pending ones, *)
(* which expire.                                                           *)
LEMMA GuiKeeps ==
    ASSUME ApprovalInv,
           \/ Watch \/ Refresh \/ NotDue \/ Fetch \/ Apply
           \/ OpenGui \/ CloseGui
           \/ \E c \in Calls : ChooseFails(c) \/ TimePasses(c)
    PROVE  ApprovalInv'
<1> USE DEF ApprovalInv
<1>1. UNCHANGED <<elicits, calls, batch, call, saidVars>>
  BY DEF Watch, Refresh, NotDue, Fetch, FetchExpire, FetchSelect, FetchMark,
         FetchFails, Apply, OpenGui, CloseGui, ChooseFails, TimePasses, callVars
<1>2. /\ row' \in [Calls -> Decisions \cup {"none", "pending"}]
      /\ \A d \in Calls : row'[d] # row[d]
             => row[d] = "pending" /\ row'[d] = "expired"
  <2>1. CASE FetchExpire
    BY <2>1 DEF FetchExpire, QueueTypes, Pending, Decisions
  <2>2. CASE UNCHANGED row
    BY <2>2 DEF QueueTypes
  <2>3. FetchExpire \/ UNCHANGED row
    BY DEF Watch, Refresh, NotDue, Fetch, FetchSelect, FetchMark, FetchFails,
           Apply, OpenGui, CloseGui, ChooseFails, TimePasses, rowVars
  <2>4. QED
    BY <2>1, <2>2, <2>3
<1>3. QueueTypes'
  <2>1. CASE Watch \/ Refresh \/ NotDue
    BY <2>1 DEF Watch, Refresh, NotDue, QueueTypes, callVars, rowVars, saidVars
  <2>2. CASE Fetch
    BY <2>2, <1>2 DEF Fetch, FetchExpire, FetchSelect, FetchMark, FetchFails,
                      QueueTypes, Pending, callVars, rowVars, saidVars
  <2>3. CASE Apply \/ OpenGui \/ CloseGui
    BY <2>3 DEF Apply, OpenGui, CloseGui, QueueTypes, callVars, rowVars, saidVars
  <2>4. CASE \E c \in Calls : ChooseFails(c)
    BY <2>4 DEF ChooseFails, QueueTypes, callVars, rowVars, saidVars
  <2>5. CASE \E c \in Calls : TimePasses(c)
    BY <2>5 DEF TimePasses, QueueTypes, rowVars, guiVars, saidVars
  <2>6. QED
    BY <2>1, <2>2, <2>3, <2>4, <2>5
<1>4. Unmade' /\ Recorded'
  BY <1>1, <1>2 DEF Unmade, Recorded, saidVars
<1>5. Reasons'
  BY <1>1, <1>2 DEF Reasons, Runs, AlwaysWaits, saidVars
<1>6. QED
  BY <1>3, <1>4, <1>5

LEMMA ApprovalKept == ApprovalInv /\ [QueueNext]_queueVars => ApprovalInv'
<1> SUFFICES ASSUME ApprovalInv, [QueueNext]_queueVars PROVE ApprovalInv'
  OBVIOUS
<1>1. CASE Call
  BY <1>1, CallKeeps
<1>2. CASE \E c \in Calls : \/ Poll(c) \/ PollFails(c) \/ Withdraw(c)
                          \/ ClientAnswers(c) \/ Execute(c) \/ Die(c)
  BY <1>2, ServerKeeps
<1>3. CASE \E c \in Calls, status \in {"approved", "denied"} : Choose(c, status)
  BY <1>3, ChooseKeeps
<1>4. CASE \/ Watch \/ Refresh \/ NotDue \/ Fetch \/ Apply
           \/ OpenGui \/ CloseGui
           \/ \E c \in Calls : ChooseFails(c) \/ TimePasses(c)
  BY <1>4, GuiKeeps
<1>5. CASE UNCHANGED queueVars
  BY <1>5 DEF queueVars, callVars, rowVars, guiVars, saidVars, ApprovalInv, QueueTypes,
              Unmade, Recorded, Reasons, Runs, AlwaysWaits
<1>6. QED
  BY <1>1, <1>2, <1>3, <1>4, <1>5 DEF QueueNext, Server, Gui

LEMMA ApprovalAlways == QueueSpec => []ApprovalInv
<1>1. QueueInit => ApprovalInv
  BY ApprovalInitially
<1>2. ApprovalInv /\ [QueueNext]_queueVars => ApprovalInv'
  BY ApprovalKept
<1>3. QED
  BY <1>1, <1>2, PTL DEF QueueSpec
-----------------------------------------------------------------------------
(* The queue, the handlers and the GUI's lists keep their types.           *)
THEOREM ApprovalTypeCorrect == QueueSpec => []QueueTypes
<1>1. ApprovalInv => QueueTypes
  BY DEF ApprovalInv
<1>2. QED
  BY <1>1, ApprovalAlways, PTL

(* A statement that must wait for the user at every level (access::decide) *)
(* runs only after the user has approved the batch it is in.               *)
THEOREM NoRiskWithoutConsent == QueueSpec => []RiskyNeedsConsent
<1>1. ApprovalInv => RiskyNeedsConsent
  BY DEF ApprovalInv, Reasons, AlwaysWaits, RiskyNeedsConsent
<1>2. QED
  BY <1>1, ApprovalAlways, PTL

(* What the user has denied in the dialog is not run, unless the client    *)
(* was asked too and its user approved (decide_approval, obtain_approval). *)
THEOREM DenialHolds == QueueSpec => []DeniedNeverRuns
<1>1. ApprovalInv => DeniedNeverRuns
  BY DEF ApprovalInv, QueueTypes, Recorded, Reasons, DeniedNeverRuns
<1>2. QED
  BY <1>1, ApprovalAlways, PTL

(* decide_approval: a row that has been decided never changes again,       *)
(* neither by the other process nor by an outdated dialog.                 *)
Final == \A c \in Calls : row[c] \in Decisions => row'[c] = row[c]

THEOREM DecisionsAreFinal == QueueSpec => [][Final]_queueVars
<1>1. ApprovalInv /\ [QueueNext]_queueVars => [Final]_queueVars
  <2> SUFFICES ASSUME ApprovalInv, QueueNext, NEW c \in Calls, row[c] \in Decisions
               PROVE  row'[c] = row[c]
    BY DEF Final
  <2> USE DEF ApprovalInv
  <2>1. CASE Call
    <3>1. calls' = calls + 1 /\ calls' > calls
      BY <2>1 DEF Call, QueueTypes
    <3>2. c # calls'
      BY <3>1 DEF Unmade, Decisions
    <3>3. QED
      BY <2>1, <3>2 DEF Call, QueueTypes
  <2>2. CASE \E d \in Calls, status \in Decisions : DecideApproval(d, status)
    BY <2>2 DEF DecideApproval, QueueTypes, Decisions
  <2>3. CASE FetchExpire
    BY <2>3 DEF FetchExpire, Pending, Decisions
  <2>4. CASE UNCHANGED row
    BY <2>4
  <2>5. QED
    BY <2>1, <2>2, <2>3, <2>4
       DEF QueueNext, Server, Gui, Poll, PollDecided, PollPending, GiveUp, PollFails,
           Withdraw, ClientAnswers, Execute, Die, TimePasses, Watch, Refresh,
           NotDue, Fetch, FetchSelect, FetchMark, FetchFails, Apply, Choose,
           ChooseFails, OpenGui, CloseGui, rowVars, Decisions
<1>2. QED
  BY <1>1, ApprovalAlways, PTL DEF QueueSpec
-----------------------------------------------------------------------------
(* The sync of projects.                                                   *)

(* What is known of the saves of a project: wherever a copy of it is, it   *)
(* is not newer than the newest save that stands.                          *)
Older(projects, latest) ==
    \A p \in projects : p.id \in Ids /\ latest[p.id] # 0 => p.at <= latest[p.id]

NoneNewer ==
    /\ \A d \in Devices : /\ Older(list[d], newest)
                          /\ Older(push[d].left, newest)
                          /\ Older(pull[d].left, newest)
    /\ \A n \in Names : Older({rows[n].holds}, newest)

(* A push that goes on has something left, and a pull brings a finite      *)
(* number of rows.                                                         *)
TasksInv ==
    \A d \in Devices : /\ push[d].stage = "listed" => push[d].left # {}
                       /\ IsFiniteSet(pull[d].left)

(* A row has its number for itself.                                        *)
NumbersInv ==
    /\ \A n \in Names : \/ rows[n] = NoRow
                        \/ rows[n].rid # 0 /\ rows[n].holds # NoProject
    /\ \A m, n \in Names : rows[m].rid = rows[n].rid => m = n \/ rows[n] = NoRow

SyncInv == TypeOK /\ TasksInv /\ NumbersInv /\ NoneNewer /\ NewestIsKept
-----------------------------------------------------------------------------
(* Induction on n, by the least number for which the claim fails.          *)
LEMMA EveryNumber ==
    ASSUME NEW S \in SUBSET Nat, 0 \in S, \A n \in S : n + 1 \in S
    PROVE  \A n \in Nat : n \in S
<1> DEFINE Fails == Nat \ S
<1>1. SUFFICES ASSUME Fails # {} PROVE FALSE
  OBVIOUS
<1>2. PICK n \in Fails : \A k \in Fails : ~(<<k, n>> \in OpToRel(<, Nat))
  BY <1>1, WFMin, NatLessThanWellFounded
<1>3. \A k \in Fails : ~(k < n)
  <2>1. \A k \in Fails : ~(<<k, n>> \in OpToRel(<, Nat)) => ~(k < n)
    BY DEF OpToRel
  <2>2. QED
    BY <1>2, <2>1
<1>4. n \in Nat /\ n # 0
  OBVIOUS
<1>5. n - 1 \in Nat /\ n - 1 < n
  BY <1>4
<1>6. n - 1 \in S
  BY <1>3, <1>5
<1>7. QED
  BY <1>4, <1>6

(* The lists that a pull makes of the first one, up to its n-th row.       *)
Pulls(f, projects, o, n) ==
    f = [k \in 0..n |-> IF k = 0 THEN projects ELSE Merged(f[k - 1], o[k])]

LEMMA PullsExist ==
    ASSUME NEW projects, NEW o
    PROVE  \A n \in Nat : \E f : Pulls(f, projects, o, n)
<1> DEFINE S == {n \in Nat : \E f : Pulls(f, projects, o, n)}
<1>1. 0 \in S
  <2>1. Pulls([k \in 0..0 |-> projects], projects, o, 0)
    BY DEF Pulls
  <2>2. QED
    BY <2>1
<1>2. ASSUME NEW n \in S PROVE n + 1 \in S
  <2>1. n \in Nat
    OBVIOUS
  <2>2. PICK f : Pulls(f, projects, o, n)
    OBVIOUS
  <2> DEFINE g == [k \in 0..(n + 1) |->
                      IF k = n + 1 THEN Merged(f[n], o[n + 1]) ELSE f[k]]
  <2>3. \A k \in 0..n : f[k] = IF k = 0 THEN projects ELSE Merged(f[k - 1], o[k])
    BY <2>2 DEF Pulls
  <2>4. \A k \in 0..n : g[k] = f[k]
    BY <2>1
  <2>5. g[n + 1] = Merged(g[n], o[n + 1])
    BY <2>1, <2>4
  <2>6. DOMAIN g = 0..(n + 1) /\ g = [k \in 0..(n + 1) |-> g[k]]
    OBVIOUS
  <2> HIDE DEF g
  <2>7. \A k \in 0..(n + 1) : g[k] = IF k = 0 THEN projects
                                     ELSE Merged(g[k - 1], o[k])
    <3> SUFFICES ASSUME NEW k \in 0..(n + 1)
                 PROVE  g[k] = IF k = 0 THEN projects ELSE Merged(g[k - 1], o[k])
      OBVIOUS
    <3>1. CASE k = n + 1
      BY <2>1, <2>5, <3>1
    <3>2. CASE k \in 1..n
      <4>1. k - 1 \in 0..n /\ k \in 0..n
        BY <2>1, <3>2
      <4>2. g[k] = f[k] /\ g[k - 1] = f[k - 1]
        BY <2>4, <4>1
      <4>3. QED
        BY <2>3, <3>2, <4>1, <4>2
    <3>3. CASE k = 0
      BY <2>1, <2>3, <2>4, <3>3
    <3>4. QED
      BY <2>1, <3>1, <3>2, <3>3
  <2>8. Pulls(g, projects, o, n + 1)
    BY <2>6, <2>7 DEF Pulls
  <2>9. QED
    BY <2>1, <2>8
<1>3. QED
  <2> HIDE DEF S
  <2>1. S \in SUBSET Nat
    BY DEF S
  <2>2. \A n \in Nat : n \in S
    BY <1>1, <1>2, <2>1, EveryNumber
  <2>3. QED
    BY <2>2 DEF S

(* A set of lists that no merge leads out of holds what a pull makes of    *)
(* any list in it.                                                         *)
LEMMA PulledStays ==
    ASSUME NEW G, NEW projects \in G, NEW o, Len(o) \in Nat,
           \A X \in G : \A k \in 1..Len(o) : Merged(X, o[k]) \in G
    PROVE  Pulled(projects, o) \in G
<1> DEFINE N == Len(o)
           f == CHOOSE g : g = [k \in 0..N |-> IF k = 0 THEN projects
                                              ELSE Merged(g[k - 1], o[k])]
<1>1. Pulled(projects, o) = f[N]
  BY DEF Pulled
<1>2. N \in Nat
  OBVIOUS
<1> HIDE DEF N
<1>3. \E g : g = [k \in 0..N |-> IF k = 0 THEN projects
                                 ELSE Merged(g[k - 1], o[k])]
  <2> HIDE DEF f
  <2>1. PICK g : Pulls(g, projects, o, N)
    BY <1>2, PullsExist
  <2>2. g = [k \in 0..N |-> IF k = 0 THEN projects ELSE Merged(g[k - 1], o[k])]
    BY <2>1 DEF Pulls
  <2>3. QED
    BY <2>2
<1>4. f = [k \in 0..N |-> IF k = 0 THEN projects ELSE Merged(f[k - 1], o[k])]
  BY <1>3
<1> HIDE DEF f
<1> DEFINE S == {n \in Nat : n <= N => f[n] \in G}
<1>5. f[0] = projects
  BY <1>2, <1>4
<1>6. \A n \in 1..N : f[n] = Merged(f[n - 1], o[n])
  BY <1>2, <1>4
<1>7. ASSUME NEW n \in S PROVE n + 1 \in S
  <2>1. SUFFICES ASSUME n + 1 <= N PROVE f[n + 1] \in G
    OBVIOUS
  <2>2. n \in Nat /\ n + 1 \in 1..N /\ (n + 1) - 1 = n /\ f[n] \in G
    BY <1>2, <2>1
  <2>3. f[n + 1] = Merged(f[n], o[n + 1])
    BY <1>6, <2>2
  <2>4. QED
    BY <2>2, <2>3 DEF N
<1>8. 0 \in S
  BY <1>5
<1>9. \A n \in Nat : n \in S
  <2> HIDE DEF S
  <2>1. S \in SUBSET Nat
    BY DEF S
  <2>2. QED
    BY <1>7, <1>8, <2>1, EveryNumber
<1>10. QED
  BY <1>1, <1>2, <1>9
-----------------------------------------------------------------------------
(* One merge adds nothing but the row that was pulled, and takes nothing   *)
(* but older copies of its project.                                        *)
LEMMA MergedWithin ==
    ASSUME NEW X, NEW p
    PROVE  Merged(X, p) \subseteq X \cup {p}
BY DEF Merged, Replaced, WithId, NamesOf

LEMMA MergedKeeps ==
    ASSUME NEW X, NEW p, NEW q \in X, q.id = p.id => ~(p.at > q.at)
    PROVE  q \in Merged(X, p)
BY DEF Merged, Replaced, WithId, NamesOf

(* So does a whole pull.                                                   *)
LEMMA OrdersRange ==
    ASSUME NEW S, IsFiniteSet(S), NEW o \in Orders(S)
    PROVE  /\ Len(o) \in Nat
           /\ \A k \in 1..Len(o) : o[k] \in S
<1>1. Cardinality(S) \in Nat
  BY FS_CardinalityType
<1>2. o \in [1..Cardinality(S) -> S]
  BY DEF Orders
<1>3. Len(o) = Cardinality(S)
  BY <1>1, <1>2
<1>4. QED
  BY <1>1, <1>2, <1>3

LEMMA PulledWithin ==
    ASSUME NEW X, NEW S, IsFiniteSet(S), NEW o \in Orders(S)
    PROVE  Pulled(X, o) \subseteq X \cup S
<1> DEFINE G == SUBSET (X \cup S)
<1>1. X \in G
  OBVIOUS
<1>2. /\ Len(o) \in Nat
      /\ \A k \in 1..Len(o) : o[k] \in S
  BY OrdersRange
<1>3. ASSUME NEW Y \in G, NEW k \in 1..Len(o) PROVE Merged(Y, o[k]) \in G
  <2>1. Merged(Y, o[k]) \subseteq Y \cup {o[k]}
    BY MergedWithin
  <2>2. QED
    BY <1>2, <2>1
<1> HIDE DEF G
<1>4. Pulled(X, o) \in G
  BY <1>1, <1>2, <1>3, PulledStays
<1>5. QED
  BY <1>4 DEF G

LEMMA PulledKeeps ==
    ASSUME NEW X, NEW S, IsFiniteSet(S), NEW o \in Orders(S), NEW q \in X,
           \A p \in S : q.id = p.id => ~(p.at > q.at)
    PROVE  q \in Pulled(X, o)
<1> DEFINE G == {Y \in SUBSET (X \cup S) : q \in Y}
<1>1. X \in G
  OBVIOUS
<1>2. /\ Len(o) \in Nat
      /\ \A k \in 1..Len(o) : o[k] \in S
  BY OrdersRange
<1>3. ASSUME NEW Y \in G, NEW k \in 1..Len(o) PROVE Merged(Y, o[k]) \in G
  <2>1. Merged(Y, o[k]) \subseteq Y \cup {o[k]}
    BY MergedWithin
  <2>2. q \in Merged(Y, o[k])
    BY <1>2, MergedKeeps
  <2>3. QED
    BY <1>2, <2>1, <2>2
<1> HIDE DEF G
<1>4. Pulled(X, o) \in G
  BY <1>1, <1>2, <1>3, PulledStays
<1>5. QED
  BY <1>4 DEF G

(* A name comes to be used twice only with a rename: some project of the   *)
(* list has an older copy of another name.                                 *)
Renamed(known, Y) ==
    \E p \in known, q \in Y : p.id = q.id /\ p.name # q.name /\ p.at < q.at

LEMMA MergedClash ==
    ASSUME NEW known, \A p \in known : p.at \in Int,
           NEW X \in SUBSET known, Clash(X) => Renamed(known, X),
           NEW p \in known, Clash(Merged(X, p))
    PROVE  Renamed(known, Merged(X, p))
<1>1. CASE Merged(X, p) = X
  BY <1>1
<1>2. CASE WithId(X, p.id) # {} /\ Merged(X, p) = Replaced(X, p)
           /\ \A q \in WithId(X, p.id) : p.at > q.at
  <2> DEFINE Y == Merged(X, p)
  <2>1. Y = (X \ WithId(X, p.id)) \cup {p}
    BY <1>2 DEF Replaced
  <2>2. PICK old \in X : old.id = p.id /\ p.at > old.at
    BY <1>2 DEF WithId
  <2>3. CASE Clash(X)
    <3>1. PICK a \in known, b \in X : a.id = b.id /\ a.name # b.name /\ a.at < b.at
      BY <2>3 DEF Renamed
    <3>2. CASE b.id # p.id
      <4>1. b \in Y
        BY <2>1, <3>2 DEF WithId
      <4>2. QED
        BY <3>1, <4>1 DEF Renamed
    <3>3. CASE b.id = p.id
      <4>1. p.at > b.at /\ p \in Y
        BY <1>2, <2>1, <3>3 DEF WithId
      <4>2. a.at < p.at /\ b.at < p.at
        BY <3>1, <4>1
      <4>3. a.name # p.name \/ b.name # p.name
        BY <3>1
      <4>4. QED
        BY <3>1, <3>3, <4>1, <4>2, <4>3 DEF Renamed
    <3>4. QED
      BY <3>2, <3>3
  <2>4. CASE ~Clash(X)
    <3>1. PICK a, b \in Y : a # b /\ a.name = b.name
      BY DEF Clash
    <3>2. PICK c \in X : c.id # p.id /\ c.name = p.name
      <4>1. a = p \/ b = p
        BY <2>1, <2>4, <3>1 DEF Clash
      <4>2. QED
        BY <2>1, <3>1, <4>1 DEF WithId
    <3>3. old.name # p.name
      BY <2>2, <2>4, <3>2 DEF Clash
    <3>4. p \in Y /\ old.at < p.at
      BY <2>1, <2>2
    <3>5. QED
      BY <2>2, <3>3, <3>4 DEF Renamed
  <2>5. QED
    BY <2>3, <2>4
<1>3. CASE Merged(X, p) = X \cup {p} /\ p.name \notin NamesOf(X)
  <2>1. ~Clash(X) => ~Clash(Merged(X, p))
    BY <1>3 DEF Clash, NamesOf
  <2>2. Renamed(known, X)
    BY <2>1
  <2>3. QED
    BY <1>3, <2>2 DEF Renamed
<1>4. QED
  BY <1>1, <1>2, <1>3 DEF Merged

LEMMA PulledClash ==
    ASSUME NEW X, NEW S, IsFiniteSet(S), NEW o \in Orders(S),
           \A p \in X \cup S : p.at \in Int,
           ~Clash(X), Clash(Pulled(X, o))
    PROVE  Renamed(X \cup S, Pulled(X, o))
<1> DEFINE G == {Y \in SUBSET (X \cup S) : Clash(Y) => Renamed(X \cup S, Y)}
<1>1. X \in G
  OBVIOUS
<1>2. /\ Len(o) \in Nat
      /\ \A k \in 1..Len(o) : o[k] \in S
  BY OrdersRange
<1>3. ASSUME NEW Y \in G, NEW k \in 1..Len(o) PROVE Merged(Y, o[k]) \in G
  <2>1. Merged(Y, o[k]) \subseteq Y \cup {o[k]}
    BY MergedWithin
  <2>2. Clash(Merged(Y, o[k])) => Renamed(X \cup S, Merged(Y, o[k]))
    BY <1>2, MergedClash
  <2>3. QED
    BY <1>2, <2>1, <2>2
<1> HIDE DEF G
<1>4. Pulled(X, o) \in G
  BY <1>1, <1>2, <1>3, PulledStays
<1>5. QED
  BY <1>4 DEF G
-----------------------------------------------------------------------------
LEMMA InitSync == Init => SyncInv
<1> SUFFICES ASSUME Init PROVE SyncInv
  OBVIOUS
<1> USE SyncAssumption
<1>1. First \in Projects
  BY DEF Init, First, Projects, Ids, Names
<1>2. TypeOK
  <2>1. begun \in [projects : Ids, rows : Nat \ {0}, saves : Nat \ {0}]
    BY DEF Init, Ids
  <2>2. rows \in [Names -> [rid : 0..begun.rows, holds : Projects \cup {NoProject}]]
    BY <1>1 DEF Init, NoRow
  <2>3. list \in [Devices -> SUBSET Projects]
    BY <1>1 DEF Init
  <2>4. /\ dialog \in [Devices -> Projects \cup {NoProject}]
        /\ doomed \in [Devices -> SUBSET Names]
        /\ trigger \in [Devices -> BOOLEAN]
        /\ erase \in [Devices -> SUBSET [names : SUBSET Names,
                                         rids : SUBSET (1..begun.rows)]]
    BY DEF Init
  <2>5. /\ push \in [Devices -> [stage : Stages, left : SUBSET Projects]]
        /\ pull \in [Devices -> [stage : Stages, left : SUBSET Projects]]
    BY DEF Init, Idle, Stages
  <2>6. newest \in [Ids -> 0..begun.saves]
    BY DEF Init, Ids
  <2>7. /\ arrived \subseteq 1..begun.saves /\ hit \subseteq Devices
        /\ gone \in [Devices -> SUBSET Names]
    BY DEF Init
  <2>8. QED
    BY <2>1, <2>2, <2>3, <2>4, <2>5, <2>6, <2>7 DEF TypeOK
<1>3. TasksInv
  BY FS_EmptySet DEF Init, TasksInv, Idle
<1>4. NumbersInv
  <2>1. \A n \in Names : rows[n] = IF n = 1 THEN [rid |-> 1, holds |-> First] ELSE NoRow
    BY DEF Init
  <2>2. First # NoProject
    BY DEF First, NoProject
  <2>3. NoRow.rid = 0
    BY DEF NoRow
  <2>4. QED
    BY <2>1, <2>2, <2>3 DEF NumbersInv
<1>5. NoneNewer
  <2>1. Older({First}, newest)
    BY DEF Init, First, Older
  <2>2. Older({}, newest)
    BY DEF Older
  <2>3. \A n \in Names : rows[n].holds \in {First, NoProject}
    BY DEF Init, NoRow
  <2>4. Older({NoProject}, newest)
    BY DEF Older, NoProject, Ids
  <2>5. \A n \in Names : Older({rows[n].holds}, newest)
    BY <2>1, <2>3, <2>4
  <2>6. \A d \in Devices : list[d] = {First} /\ push[d].left = {} /\ pull[d].left = {}
    BY DEF Init, Idle
  <2>7. QED
    BY <2>1, <2>2, <2>5, <2>6 DEF NoneNewer
<1>6. NewestIsKept
  <2>1. \A i \in Ids : newest[i] # 0 => i = 1 /\ newest[i] = 1
    BY DEF Init
  <2>2. \A d \in Devices : First \in WithId(list[d], 1) /\ First.at = 1
    BY DEF Init, First, WithId
  <2>3. QED
    BY <2>1, <2>2 DEF NewestIsKept
<1>7. QED
  BY <1>2, <1>3, <1>4, <1>5, <1>6 DEF SyncInv

(* What is remembered are names.                                           *)
LEMMA HistoryTyped ==
    ASSUME NEW d, NEW names, Remember(d, names)
    PROVE  gone' \in [Devices -> SUBSET Names]
BY DEF Remember

(* What has its type keeps it when rows and saves are added.               *)
Grows ==
    /\ begun' \in [projects : Ids, rows : Nat \ {0}, saves : Nat \ {0}]
    /\ begun'.rows >= begun.rows /\ begun'.saves >= begun.saves

LEMMA TypesGrow ==
    ASSUME TypeOK, Grows
    PROVE  /\ Projects \subseteq Projects'
           /\ rows \in [Names -> [rid : 0..begun'.rows,
                                  holds : Projects' \cup {NoProject}]]
           /\ list \in [Devices -> SUBSET Projects']
           /\ dialog \in [Devices -> Projects' \cup {NoProject}]
           /\ push \in [Devices -> [stage : Stages, left : SUBSET Projects']]
           /\ pull \in [Devices -> [stage : Stages, left : SUBSET Projects']]
           /\ erase \in [Devices -> SUBSET [names : SUBSET Names,
                                            rids : SUBSET (1..begun'.rows)]]
           /\ newest \in [Ids -> 0..begun'.saves]
           /\ arrived \subseteq 1..begun'.saves
<1>1. 1..begun.saves \subseteq 1..begun'.saves /\ 0..begun.saves \subseteq 0..begun'.saves
  BY DEF TypeOK, Grows
<1>2. 0..begun.rows \subseteq 0..begun'.rows /\ 1..begun.rows \subseteq 1..begun'.rows
  BY DEF TypeOK, Grows
<1>3. Projects \subseteq Projects'
  BY <1>1 DEF Projects
<1> HIDE DEF Projects
<1>4. rows \in [Names -> [rid : 0..begun'.rows, holds : Projects' \cup {NoProject}]]
  BY <1>2, <1>3 DEF TypeOK
<1>5. /\ list \in [Devices -> SUBSET Projects']
      /\ dialog \in [Devices -> Projects' \cup {NoProject}]
  BY <1>3 DEF TypeOK
<1>6. /\ push \in [Devices -> [stage : Stages, left : SUBSET Projects']]
      /\ pull \in [Devices -> [stage : Stages, left : SUBSET Projects']]
  BY <1>3 DEF TypeOK
<1>7. erase \in [Devices -> SUBSET [names : SUBSET Names,
                                    rids : SUBSET (1..begun'.rows)]]
  BY <1>2 DEF TypeOK
<1>8. newest \in [Ids -> 0..begun'.saves] /\ arrived \subseteq 1..begun'.saves
  BY <1>1 DEF TypeOK
<1>9. QED
  BY <1>3, <1>4, <1>5, <1>6, <1>7, <1>8

(* The user saves a project: its number is newer than all there are.       *)
LEMMA StoredKeeps ==
    ASSUME SyncInv, NEW d \in Devices, NEW p, p.id \in Ids, p.name \in Names,
           p \in Projects \cup {NoProject, [NoProject EXCEPT !.id = p.id, !.name = p.name]}
                 \cup {[q EXCEPT !.name = p.name] : q \in Projects \cup {NoProject}},
           Persist(d, p),
           doomed' \in [Devices -> SUBSET Names],
           dialog' \in [Devices -> Projects \cup {NoProject}],
           UNCHANGED <<rows, push, pull, erase, hit, arrived>>,
           gone' \in [Devices -> SUBSET Names]
    PROVE  SyncInv'
<1> DEFINE now == begun.saves + 1
           new == [p EXCEPT !.at = now]
<1> USE DEF SyncInv
<1>1. /\ list' = [list EXCEPT ![d] = Replaced(@, new)]
      /\ begun' = [begun EXCEPT !.saves = now,
                                !.projects = IF p.id > @ THEN p.id ELSE @]
      /\ newest' = [newest EXCEPT ![p.id] = now]
      /\ trigger' = [trigger EXCEPT ![d] = TRUE]
  BY DEF Persist, Stored
<1>2. begun \in [projects : Ids, rows : Nat \ {0}, saves : Nat \ {0}]
  BY DEF TypeOK
<1>3. now \in Nat \ {0} /\ now > begun.saves /\ begun'.saves = now
      /\ begun'.rows = begun.rows /\ begun'.projects \in Ids
  BY <1>1, <1>2
<1>4. Grows
  <2>1. begun' = [projects |-> begun'.projects, rows |-> begun.rows, saves |-> now]
    BY <1>1, <1>2
  <2>2. begun' \in [projects : Ids, rows : Nat \ {0}, saves : Nat \ {0}]
    BY <1>2, <1>3, <2>1
  <2>3. QED
    BY <1>2, <1>3, <2>2 DEF Grows
<1>5. new = [id |-> p.id, name |-> p.name, at |-> now]
  <2>1. p = [id |-> p.id, name |-> p.name, at |-> p.at]
    <3>1. CASE p \in Projects
      BY <3>1 DEF Projects
    <3>2. CASE p \in {NoProject, [NoProject EXCEPT !.id = p.id, !.name = p.name]}
      BY <3>2 DEF NoProject
    <3>3. CASE p \in {[q EXCEPT !.name = p.name] : q \in Projects \cup {NoProject}}
      <4>1. PICK q \in Projects \cup {NoProject} : p = [q EXCEPT !.name = p.name]
        BY <3>3
      <4>2. q = [id |-> q.id, name |-> q.name, at |-> q.at]
        BY DEF Projects, NoProject
      <4>3. p = [id |-> q.id, name |-> p.name, at |-> q.at]
        BY <4>1, <4>2
      <4>4. QED
        BY <4>3
    <3>4. QED
      BY <3>1, <3>2, <3>3
  <2>2. QED
    BY <2>1
<1>6. new \in Projects'
  BY <1>3, <1>5 DEF Projects, Ids, Names
<1>7. TypeOK'
  <2>1. list' \in [Devices -> SUBSET Projects']
    <3>1. Replaced(list[d], new) \subseteq list[d] \cup {new}
      BY DEF Replaced
    <3>2. QED
      BY <1>1, <1>4, <1>6, <3>1, TypesGrow
  <2>2. newest' \in [Ids -> 0..begun'.saves]
    BY <1>1, <1>3, <1>4, TypesGrow
  <2>3. dialog' \in [Devices -> Projects' \cup {NoProject}]
    BY <1>4, TypesGrow
  <2>4. trigger' \in [Devices -> BOOLEAN]
    BY <1>1 DEF TypeOK
  <2>5. QED
    BY <1>4, <2>1, <2>2, <2>3, <2>4, TypesGrow DEF TypeOK, Grows
<1>8. TasksInv' /\ NumbersInv'
  BY DEF TasksInv, NumbersInv
<1>9. \A q \in Projects \cup {NoProject} : q.at < now
  BY <1>2 DEF Projects, NoProject
<1>10. \A S \in SUBSET (Projects \cup {NoProject}) : Older(S, newest) => Older(S, newest')
  <2> SUFFICES ASSUME NEW S \in SUBSET (Projects \cup {NoProject}), Older(S, newest),
                      NEW q \in S, q.id \in Ids, newest'[q.id] # 0
               PROVE  q.at <= newest'[q.id]
    BY DEF Older
  <2>1. CASE q.id = p.id
    <3>1. newest'[q.id] = now
      BY <1>1, <2>1 DEF TypeOK
    <3>2. q.at < now /\ q.at \in Int
      BY <1>9 DEF Projects, NoProject
    <3>3. QED
      BY <1>3, <3>1, <3>2
  <2>2. CASE q.id # p.id
    BY <1>1, <2>2 DEF Older, TypeOK
  <2>3. QED
    BY <2>1, <2>2
<1>11. NoneNewer'
  <2>1. \A e \in Devices : Older(push[e].left, newest') /\ Older(pull[e].left, newest')
    <3>1. \A e \in Devices : push[e].left \subseteq Projects /\ pull[e].left \subseteq Projects
      BY DEF TypeOK
    <3>2. QED
      BY <1>10, <3>1 DEF NoneNewer
  <2>2. \A n \in Names : Older({rows[n].holds}, newest')
    <3>1. \A n \in Names : rows[n].holds \in Projects \cup {NoProject}
      BY DEF TypeOK
    <3>2. QED
      BY <1>10, <3>1 DEF NoneNewer
  <2>3. \A e \in Devices : Older(list'[e], newest')
    <3> SUFFICES ASSUME NEW e \in Devices, NEW q \in list'[e], q.id \in Ids,
                        newest'[q.id] # 0
                 PROVE  q.at <= newest'[q.id]
      BY DEF Older
    <3>1. list'[e] \subseteq list[e] \cup {new}
      BY <1>1 DEF TypeOK, Replaced
    <3>2. CASE q = new
      BY <1>1, <1>3, <1>5, <3>2 DEF TypeOK
    <3>3. CASE q \in list[e]
      <4>1. Older(list[e], newest) /\ list[e] \subseteq Projects
        BY DEF NoneNewer, TypeOK
      <4>2. QED
        BY <1>10, <3>3, <4>1 DEF Older
    <3>4. QED
      BY <3>1, <3>2, <3>3
  <2>4. QED
    BY <2>1, <2>2, <2>3 DEF NoneNewer
<1>12. NewestIsKept'
  <2> SUFFICES ASSUME NEW i \in Ids, newest'[i] # 0
               PROVE  \E e \in Devices : \E q \in WithId(list'[e], i) : q.at = newest'[i]
    BY DEF NewestIsKept, WithId
  <2>1. CASE i = p.id
    <3>1. new \in list'[d] /\ new.id = i /\ new.at = newest'[i]
      BY <1>1, <1>5, <2>1 DEF TypeOK, Replaced
    <3>2. QED
      BY <3>1 DEF WithId
  <2>2. CASE i # p.id
    <3>1. newest'[i] = newest[i]
      BY <1>1, <2>2 DEF TypeOK
    <3>2. PICK e \in Devices : \E q \in WithId(list[e], i) : q.at = newest[i]
      BY <3>1 DEF NewestIsKept
    <3>3. PICK q \in list[e] : q.id = i /\ q.at = newest[i]
      BY <3>2 DEF WithId
    <3>4. q \in list'[e]
      BY <1>1, <1>5, <2>2, <3>3 DEF TypeOK, Replaced, WithId
    <3>5. QED
      BY <3>1, <3>3, <3>4 DEF WithId
  <2>3. QED
    BY <2>1, <2>2
<1>13. QED
  BY <1>7, <1>8, <1>11, <1>12

(* What the user does.                                                     *)
LEMMA UserKeeps ==
    ASSUME SyncInv, NEW d \in Devices, User(d),
           gone' \in [Devices -> SUBSET Names]
    PROVE  SyncInv'
<1>1. UNCHANGED <<rows, push, pull, erase, hit, arrived>>
  BY DEF User, Create, Open, Save, Delete, SyncNow, Acts
<1>2. TypeOK
  BY DEF SyncInv
<1>3. CASE Create(d)
  <2>1. PICK name \in Names :
           Persist(d, [NoProject EXCEPT !.id = begun.projects + 1, !.name = name])
    BY <1>3 DEF Create
  <2>2. UNCHANGED <<doomed, dialog>> /\ begun.projects < MaxProjects
    BY <1>3 DEF Create
  <2>3. begun.projects + 1 \in Ids
    BY <1>2, <2>2, SyncAssumption DEF TypeOK, Ids
  <2> DEFINE p == [NoProject EXCEPT !.id = begun.projects + 1, !.name = name]
  <2>4. p.id \in Ids /\ p.name \in Names
        /\ p = [NoProject EXCEPT !.id = p.id, !.name = p.name]
    BY <2>3 DEF NoProject
  <2>5. doomed' \in [Devices -> SUBSET Names]
        /\ dialog' \in [Devices -> Projects \cup {NoProject}]
    BY <1>2, <2>2 DEF TypeOK
  <2> HIDE DEF p
  <2>6. QED
    BY <1>1, <2>1, <2>4, <2>5, StoredKeeps DEF p
<1>4. CASE Save(d)
  <2>1. PICK name \in Names :
           /\ Persist(d, [dialog[d] EXCEPT !.name = name])
           /\ doomed' = [doomed EXCEPT ![d] =
                 @ \cup (IF name = dialog[d].name THEN {} ELSE {dialog[d].name})]
    BY <1>4 DEF Save
  <2>2. dialog' = [dialog EXCEPT ![d] = NoProject] /\ dialog[d] \in Projects
    BY <1>2, <1>4 DEF Save, Closed, TypeOK
  <2> DEFINE p == [dialog[d] EXCEPT !.name = name]
  <2>3. p.id \in Ids /\ p.name = name
    BY <2>2 DEF Projects
  <2>4. p \in {[q EXCEPT !.name = p.name] : q \in Projects \cup {NoProject}}
    BY <2>2, <2>3
  <2>5. doomed' \in [Devices -> SUBSET Names]
        /\ dialog' \in [Devices -> Projects \cup {NoProject}]
    BY <1>2, <2>1, <2>2 DEF TypeOK, Projects
  <2> HIDE DEF p
  <2>6. QED
    BY <1>1, <2>1, <2>3, <2>4, <2>5, StoredKeeps DEF p
<1>5. CASE Delete(d)
  <2>1. PICK p \in WithId(list[d], dialog[d].id) :
           /\ list' = [list EXCEPT ![d] = @ \ {p}]
           /\ doomed' = [doomed EXCEPT ![d] = @ \cup {p.name}]
           /\ newest' = [newest EXCEPT ![p.id] = 0]
    BY <1>5 DEF Delete, Removed
  <2>2. /\ dialog' = [dialog EXCEPT ![d] = NoProject]
        /\ trigger' = [trigger EXCEPT ![d] = TRUE]
        /\ UNCHANGED begun
    BY <1>5 DEF Delete, Removed, Closed
  <2>3. p \in Projects /\ p.name \in Names /\ p.id \in Ids
    BY <1>2, <2>1 DEF WithId, TypeOK, Projects
  <2>4. TypeOK'
    <3>1. Projects' = Projects
      BY <2>2 DEF Projects
    <3>2. list' \in [Devices -> SUBSET Projects]
      BY <1>2, <2>1 DEF TypeOK
    <3>3. doomed' \in [Devices -> SUBSET Names]
      BY <1>2, <2>1, <2>3 DEF TypeOK
    <3>4. newest' \in [Ids -> 0..begun.saves]
      <4>1. 0 \in 0..begun.saves /\ newest \in [Ids -> 0..begun.saves]
        BY <1>2 DEF TypeOK
      <4>2. QED
        BY <2>1, <4>1
    <3>5. /\ dialog' \in [Devices -> Projects \cup {NoProject}]
          /\ trigger' \in [Devices -> BOOLEAN]
      BY <1>2, <2>2 DEF TypeOK
    <3> HIDE DEF Projects
    <3>6. QED
      BY <1>1, <1>2, <2>2, <3>1, <3>2, <3>3, <3>4, <3>5 DEF TypeOK
  <2>5. TasksInv' /\ NumbersInv'
    BY <1>1 DEF SyncInv, TasksInv, NumbersInv
  <2>6. \A i \in Ids : newest'[i] # 0 => newest'[i] = newest[i] /\ i # p.id
    BY <1>2, <2>1 DEF TypeOK
  <2>7. NoneNewer'
    <3>1. \A S : Older(S, newest) => Older(S, newest')
      BY <2>6 DEF Older
    <3>2. \A e \in Devices : list'[e] \subseteq list[e]
      BY <1>2, <2>1 DEF TypeOK
    <3>3. \A e \in Devices : Older(list'[e], newest')
      BY <3>1, <3>2 DEF SyncInv, NoneNewer, Older
    <3>4. QED
      BY <1>1, <3>1, <3>3 DEF SyncInv, NoneNewer
  <2>8. NewestIsKept'
    <3> SUFFICES ASSUME NEW i \in Ids, newest'[i] # 0
                 PROVE  \E e \in Devices : \E q \in WithId(list'[e], i) : q.at = newest'[i]
      BY DEF NewestIsKept, WithId
    <3>1. newest'[i] = newest[i] /\ i # p.id
      BY <2>6
    <3>2. PICK e \in Devices : \E q \in WithId(list[e], i) : q.at = newest[i]
      BY <3>1 DEF SyncInv, NewestIsKept
    <3>3. PICK q \in list[e] : q.id = i /\ q.at = newest[i]
      BY <3>2 DEF WithId
    <3>4. q \in list'[e]
      BY <1>2, <2>1, <3>1, <3>3 DEF TypeOK
    <3>5. QED
      BY <3>1, <3>3, <3>4 DEF WithId
  <2>9. QED
    BY <2>4, <2>5, <2>7, <2>8 DEF SyncInv
<1>6. CASE Open(d) \/ SyncNow(d)
  <2>1. /\ UNCHANGED <<list, doomed, begun, newest>>
        /\ dialog' \in [Devices -> Projects \cup {NoProject}]
        /\ trigger' \in [Devices -> BOOLEAN]
    <3>1. CASE Open(d)
      <4>1. PICK p \in list[d] : dialog' = [dialog EXCEPT ![d] = p]
        BY <3>1 DEF Open
      <4>2. p \in Projects
        BY <1>2, <4>1 DEF TypeOK
      <4> HIDE DEF Projects
      <4>3. dialog' \in [Devices -> Projects \cup {NoProject}]
        BY <1>2, <4>1, <4>2 DEF TypeOK
      <4>4. QED
        BY <1>2, <3>1, <4>3 DEF Open, TypeOK
    <3>2. CASE SyncNow(d)
      BY <1>2, <3>2 DEF SyncNow, device, TypeOK
    <3>3. QED
      BY <1>6, <3>1, <3>2
  <2>2. TypeOK'
    BY <1>1, <1>2, <2>1 DEF TypeOK, Projects
  <2>3. QED
    BY <1>1, <2>1, <2>2 DEF SyncInv, TasksInv, NumbersInv, NoneNewer, Older,
                            NewestIsKept, WithId
<1>7. QED
  BY <1>3, <1>4, <1>5, <1>6 DEF User

(* A finite set of projects, not empty, has a first one to push.           *)
LEMMA LeastNumber ==
    ASSUME NEW S \in SUBSET Nat, S # {}
    PROVE  \E n \in S : \A m \in S : n <= m
<1>1. PICK n \in S : \A k \in S : ~(<<k, n>> \in OpToRel(<, Nat))
  BY WFMin, NatLessThanWellFounded
<1>2. \A k \in S : ~(<<k, n>> \in OpToRel(<, Nat)) => ~(k < n)
  BY DEF OpToRel
<1>3. \A k \in S : ~(k < n)
  BY <1>1, <1>2
<1>4. \A k \in S : n <= k
  BY <1>3
<1>5. QED
  BY <1>4

LEMMA SomethingToPush ==
    ASSUME TypeOK, NEW d \in Devices, push[d].left # {}
    PROVE  NextToPush(d) \in push[d].left
<1> DEFINE S == push[d].left
<1>1. \A p \in S : p.name \in Nat /\ p.id \in Nat
  BY DEF TypeOK, Projects, Names, Ids
<1>2. PICK name \in {p.name : p \in S} : \A m \in {p.name : p \in S} : name <= m
  BY <1>1, LeastNumber
<1>3. PICK id \in {p.id : p \in {q \in S : q.name = name}} :
         \A m \in {p.id : p \in {q \in S : q.name = name}} : id <= m
  BY <1>1, <1>2, LeastNumber
<1>4. PICK p \in S : p.name = name /\ p.id = id
  BY <1>3
<1>5. \A q \in S : p.name < q.name \/ (p.name = q.name /\ p.id <= q.id)
  BY <1>1, <1>2, <1>3, <1>4
<1>6. QED
  BY <1>5 DEF NextToPush

(* The push.                                                               *)
LEMMA PushKeeps ==
    ASSUME SyncInv, NEW d \in Devices, Push(d),
           gone' \in [Devices -> SUBSET Names]
    PROVE  SyncInv'
<1>1. TypeOK /\ TasksInv /\ NumbersInv /\ NoneNewer /\ NewestIsKept
  BY DEF SyncInv
<1>2. /\ UNCHANGED <<list, doomed, dialog, trigger, pull, erase, newest>>
      /\ push[d].stage \in {"begun", "listed"}
  BY DEF Push, PushReads, PushWrites, PushStep, device
<1>3. hit' \subseteq Devices
  BY <1>1 DEF Push, PushReads, PushWrites, NoFault, Fault, TypeOK
<1>4. NewestIsKept'
  BY <1>1, <1>2 DEF NewestIsKept, WithId
<1>5. PICK rest : /\ PushGoesOn(d, rest)
                  /\ rest \subseteq list[d] \/ rest \subseteq push[d].left
  BY DEF Push, PushReads, PushWrites
<1>6. /\ push' = [push EXCEPT ![d] = IF rest = {} THEN Idle ELSE Task("listed", rest)]
      /\ rest \subseteq Projects
  BY <1>1, <1>5 DEF PushGoesOn, TypeOK
<1>7. /\ \A e \in Devices : push'[e].left \in {rest, push[e].left, {}}
      /\ \A e \in Devices : push'[e].stage = "listed" => push'[e].left # {}
  BY <1>1, <1>6 DEF TypeOK, TasksInv, Idle, Task
<1>8. push' \in [Devices -> [stage : Stages, left : SUBSET Projects]]
  <2>1. Idle \in [stage : Stages, left : SUBSET Projects]
    BY DEF Idle, Stages
  <2>2. Task("listed", rest) \in [stage : Stages, left : SUBSET Projects]
    BY <1>6 DEF Task, Stages
  <2>3. QED
    BY <1>1, <1>6, <2>1, <2>2 DEF TypeOK
<1>9. TasksInv'
  BY <1>1, <1>2, <1>7 DEF TasksInv
<1>10. \A S : Older(S, newest) => Older(S, newest')
  BY <1>2 DEF Older
<1>11. \A e \in Devices : Older(push'[e].left, newest')
  BY <1>1, <1>5, <1>7, <1>10 DEF NoneNewer, Older
<1>12. CASE UNCHANGED <<rows, begun, arrived>>
  <2>1. TypeOK'
    BY <1>1, <1>2, <1>3, <1>8, <1>12 DEF TypeOK, Projects
  <2>2. NumbersInv' /\ NoneNewer'
    BY <1>1, <1>2, <1>10, <1>11, <1>12 DEF NumbersInv, NoneNewer
  <2>3. QED
    BY <1>4, <1>9, <2>1, <2>2 DEF SyncInv
<1>13. CASE push[d].stage = "listed" /\ Upserted(NextToPush(d))
  <2> DEFINE p == NextToPush(d)
             n == p.name
             r == IF rows[n] = NoRow THEN begun.rows + 1 ELSE rows[n].rid
  <2>1. p \in push[d].left /\ p \in Projects /\ n \in Names
        /\ p.at \in 1..begun.saves
    BY <1>1, <1>13, SomethingToPush DEF TasksInv, TypeOK, Projects
  <2> HIDE DEF p
  <2>2. /\ begun' = [begun EXCEPT !.rows = IF rows[n] = NoRow THEN @ + 1 ELSE @]
        /\ rows' = [rows EXCEPT ![n] = [rid |-> r, holds |-> p]]
        /\ arrived' = arrived \cup {p.at}
    BY <1>13 DEF Upserted, p
  <2>3. begun \in [projects : Ids, rows : Nat \ {0}, saves : Nat \ {0}]
    BY <1>1 DEF TypeOK
  <2>4. Grows /\ begun'.saves = begun.saves
    BY <2>2, <2>3 DEF Grows
  <2>5. r \in 1..begun'.rows
    <3>1. rows[n].rid \in 0..begun.rows
      BY <1>1, <2>1 DEF TypeOK
    <3>2. rows[n] = NoRow \/ rows[n].rid # 0
      BY <1>1, <2>1 DEF NumbersInv
    <3>3. QED
      BY <2>2, <2>3, <3>1, <3>2
  <2>6. TypeOK'
    <3>1. rows' \in [Names -> [rid : 0..begun'.rows, holds : Projects' \cup {NoProject}]]
      <4>1. p \in Projects'
        BY <1>1, <2>1, <2>4, TypesGrow
      <4>2. [rid |-> r, holds |-> p] \in [rid : 0..begun'.rows, holds : Projects' \cup {NoProject}]
        BY <2>5, <4>1
      <4>3. QED
        BY <1>1, <2>2, <2>4, <4>2, TypesGrow
    <3>2. push' \in [Devices -> [stage : Stages, left : SUBSET Projects']]
      <4>1. Projects' = Projects
        BY <2>4 DEF Projects
      <4>2. QED
        BY <1>8, <4>1
    <3>3. arrived' \subseteq 1..begun'.saves
      BY <1>1, <2>1, <2>2, <2>4 DEF TypeOK
    <3>4. QED
      BY <1>1, <1>2, <1>3, <2>4, <3>1, <3>2, <3>3, TypesGrow DEF TypeOK, Grows
  <2>7. \A m \in Names : m # n => rows'[m] = rows[m]
    BY <1>1, <2>2 DEF TypeOK
  <2>8. rows'[n] = [rid |-> r, holds |-> p]
    BY <1>1, <2>1, <2>2 DEF TypeOK
  <2>9. NumbersInv'
    <3>1. \A m \in Names : m # n => rows[m].rid # r
      <4>1. CASE rows[n] = NoRow
        <5>1. \A m \in Names : rows[m].rid <= begun.rows /\ rows[m].rid \in Int
          BY <1>1 DEF TypeOK
        <5>2. QED
          BY <2>3, <4>1, <5>1
      <4>2. CASE rows[n] # NoRow
        BY <1>1, <2>1, <4>2 DEF NumbersInv
      <4>3. QED
        BY <4>1, <4>2
    <3>2. rows'[n].rid = r /\ r # 0 /\ rows'[n].holds # NoProject
      BY <2>1, <2>5, <2>8 DEF NoProject, Projects, Ids
    <3>3. QED
      BY <1>1, <2>7, <3>1, <3>2 DEF NumbersInv
  <2>10. NoneNewer'
    <3>1. \A m \in Names : Older({rows'[m].holds}, newest')
      <4>1. Older({p}, newest)
        BY <1>1, <2>1 DEF NoneNewer, Older
      <4>2. \A m \in Names : rows'[m].holds \in {rows[m].holds, p}
        BY <2>7, <2>8
      <4>3. QED
        BY <1>1, <1>2, <4>1, <4>2 DEF NoneNewer
    <3>2. QED
      BY <1>1, <1>2, <1>10, <1>11, <3>1 DEF NoneNewer
  <2>11. QED
    BY <1>4, <1>9, <2>6, <2>9, <2>10 DEF SyncInv
<1>14. QED
  BY <1>12, <1>13 DEF Push, PushReads, PushWrites, PushStep

(* The pull's request.                                                     *)
LEMMA ListsKeeps ==
    ASSUME SyncInv, NEW d \in Devices, PullLists(d),
           gone' \in [Devices -> SUBSET Names]
    PROVE  SyncInv'
<1>1. TypeOK /\ TasksInv /\ NumbersInv /\ NoneNewer /\ NewestIsKept
  BY DEF SyncInv
<1>2. UNCHANGED <<rows, list, doomed, dialog, trigger, push, erase, begun,
                  newest, arrived>>
  BY DEF PullLists, device
<1>3. hit' \subseteq Devices
  BY <1>1 DEF PullLists, NoFault, Fault, TypeOK
<1> DEFINE full == {m \in Names : rows[m] # NoRow}
           held == {rows[n].holds : n \in full}
<1>4. PICK left \in {held, {}} : pull' = [pull EXCEPT ![d] = Task("done", left)]
  BY DEF PullLists, Answers
<1>5. IsFiniteSet(left)
  <2>1. IsFiniteSet(Names)
    BY SyncAssumption, FS_Interval DEF Names
  <2>2. IsFiniteSet(full)
    BY <2>1, FS_Subset
  <2> DEFINE f == [n \in full |-> rows[n].holds]
  <2>3. f \in Surjection(full, held)
    BY DEF Surjection
  <2> HIDE DEF full
  <2>4. IsFiniteSet(held)
    BY <2>2, <2>3, FS_Surjection
  <2>5. QED
    BY <2>4, FS_EmptySet
<1>6. left \subseteq Projects
  BY <1>1 DEF NumbersInv, TypeOK
<1>7. \A e \in Devices : pull'[e].left \in {pull[e].left, left}
  BY <1>1, <1>4 DEF TypeOK, Task
<1>8. TypeOK'
  <2>1. Task("done", left) \in [stage : Stages, left : SUBSET Projects]
    BY <1>6 DEF Task, Stages
  <2>2. pull' \in [Devices -> [stage : Stages, left : SUBSET Projects]]
    BY <1>1, <1>4, <2>1 DEF TypeOK
  <2>3. Projects' = Projects
    BY <1>2 DEF Projects
  <2> HIDE DEF Projects
  <2>4. QED
    BY <1>1, <1>2, <1>3, <2>2, <2>3 DEF TypeOK
<1>9. TasksInv'
  BY <1>1, <1>2, <1>5, <1>7 DEF TasksInv
<1>10. Older(left, newest)
  BY <1>1, <1>4 DEF NoneNewer, Older
<1>11. NoneNewer'
  BY <1>1, <1>2, <1>7, <1>10 DEF NoneNewer
<1>12. NumbersInv' /\ NewestIsKept'
  BY <1>1, <1>2 DEF NumbersInv, NewestIsKept, WithId
<1>13. QED
  BY <1>8, <1>9, <1>11, <1>12 DEF SyncInv

(* The tasks that erase rows.                                              *)
LEMMA EraseKeeps ==
    ASSUME SyncInv, NEW d \in Devices, Erase(d),
           gone' \in [Devices -> SUBSET Names]
    PROVE  SyncInv'
<1>1. TypeOK /\ TasksInv /\ NumbersInv /\ NoneNewer /\ NewestIsKept
  BY DEF SyncInv
<1>2. UNCHANGED <<list, doomed, dialog, trigger, push, pull, begun, newest, arrived>>
  BY DEF Erase, EraseLists, EraseDeletes, EraseStep, device
<1>3. hit' \subseteq Devices
  BY <1>1 DEF Erase, EraseLists, EraseDeletes, NoFault, Fault, TypeOK
<1> DEFINE Tasks == [names : SUBSET Names, rids : SUBSET (1..begun.rows)]
<1>4. PICK t \in erase[d], then \in SUBSET Tasks :
         erase' = [erase EXCEPT ![d] = (@ \ {t}) \cup then]
  <2>1. CASE EraseLists(d)
    <3>1. PICK t, then : /\ t \in erase[d] /\ EraseStep(d, t, then)
                         /\ \/ then = {}
                            \/ then = ToErase({}, {rows[n].rid :
                                 n \in {m \in t.names : rows[m] # NoRow}})
      BY <2>1 DEF EraseLists
    <3>2. t \in Tasks
      BY <1>1, <3>1 DEF TypeOK
    <3>3. {rows[n].rid : n \in {m \in t.names : rows[m] # NoRow}} \subseteq 1..begun.rows
      <4>1. \A n \in Names : rows[n] # NoRow => rows[n].rid \in 1..begun.rows
        BY <1>1 DEF NumbersInv, TypeOK
      <4>2. QED
        BY <3>2, <4>1
    <3>4. then \in SUBSET Tasks
      BY <3>1, <3>3 DEF ToErase
    <3>5. QED
      BY <3>1, <3>4 DEF EraseStep
  <2>2. CASE EraseDeletes(d)
    <3>1. PICK t \in erase[d] : \E r \in t.rids :
             EraseStep(d, t, ToErase({}, t.rids \ {r}))
      BY <2>2 DEF EraseDeletes
    <3>2. PICK r : EraseStep(d, t, ToErase({}, t.rids \ {r}))
      BY <3>1
    <3>3. t \in Tasks
      BY <1>1 DEF TypeOK
    <3>4. ToErase({}, t.rids \ {r}) \in SUBSET Tasks
      BY <3>3 DEF ToErase
    <3>5. QED
      BY <3>2, <3>4 DEF EraseStep
  <2>3. QED
    BY <2>1, <2>2 DEF Erase
<1>5. \A n \in Names : rows'[n] \in {rows[n], NoRow}
  BY <1>1 DEF Erase, EraseLists, EraseDeletes, TypeOK
<1>6. rows' = [n \in Names |-> rows'[n]]
  BY <1>1 DEF Erase, EraseLists, EraseDeletes, TypeOK
<1>7. TypeOK'
  <2>1. erase' \in [Devices -> SUBSET Tasks]
    BY <1>1, <1>4 DEF TypeOK
  <2>2. NoRow \in [rid : 0..begun.rows, holds : Projects \cup {NoProject}]
    BY <1>1 DEF NoRow, TypeOK
  <2>3. rows' \in [Names -> [rid : 0..begun.rows, holds : Projects \cup {NoProject}]]
    BY <1>1, <1>5, <1>6, <2>2 DEF TypeOK
  <2>4. Projects' = Projects
    BY <1>2 DEF Projects
  <2> HIDE DEF Projects
  <2>5. QED
    BY <1>1, <1>2, <1>3, <2>1, <2>3, <2>4 DEF TypeOK
<1>8. TasksInv' /\ NewestIsKept'
  BY <1>1, <1>2 DEF TasksInv, NewestIsKept, WithId
<1>9. NumbersInv'
  <2>1. NoRow.rid = 0
    BY DEF NoRow
  <2>2. QED
    BY <1>1, <1>5, <2>1 DEF NumbersInv
<1>10. NoneNewer'
  <2>1. Older({NoRow.holds}, newest)
    BY DEF NoRow, NoProject, Older, Ids
  <2>2. QED
    BY <1>1, <1>2, <1>5, <2>1 DEF NoneNewer
<1>11. QED
  BY <1>7, <1>8, <1>9, <1>10 DEF SyncInv

(* The UI thread applies a pull: what it puts into the list is not newer   *)
(* than the newest save, and does not take that away.                      *)
LEMMA TakeKeeps ==
    ASSUME SyncInv, NEW d \in Devices, TakePull(d),
           gone' \in [Devices -> SUBSET Names]
    PROVE  SyncInv'
<1>1. TypeOK /\ TasksInv /\ NumbersInv /\ NoneNewer /\ NewestIsKept
  BY DEF SyncInv
<1>2. UNCHANGED <<rows, doomed, dialog, trigger, push, erase, begun, newest, hit, arrived>>
  BY DEF TakePull
<1>3. pull' = [pull EXCEPT ![d] = Idle]
  BY DEF TakePull
<1> DEFINE S == pull[d].left
<1>4. PICK o \in Orders(S) : list' = [list EXCEPT ![d] = Pulled(@, o)]
  BY DEF TakePull
<1>5. IsFiniteSet(S) /\ S \subseteq Projects /\ list[d] \subseteq Projects
  BY <1>1 DEF TasksInv, TypeOK
<1>6. list'[d] = Pulled(list[d], o) /\ \A e \in Devices : e # d => list'[e] = list[e]
  BY <1>1, <1>4 DEF TypeOK
<1>7. list'[d] \subseteq list[d] \cup S
  BY <1>5, <1>6, PulledWithin
<1>8. TypeOK'
  <2>1. list' \in [Devices -> SUBSET Projects]
    BY <1>1, <1>4, <1>5, <1>6, <1>7 DEF TypeOK
  <2>2. Idle \in [stage : Stages, left : SUBSET Projects]
    BY DEF Idle, Stages
  <2>3. pull' \in [Devices -> [stage : Stages, left : SUBSET Projects]]
    BY <1>1, <1>3, <2>2 DEF TypeOK
  <2>4. Projects' = Projects
    BY <1>2 DEF Projects
  <2> HIDE DEF Projects
  <2>5. QED
    BY <1>1, <1>2, <2>1, <2>3, <2>4 DEF TypeOK
<1>9. \A e \in Devices : pull'[e].left \in {pull[e].left, {}}
  BY <1>1, <1>3 DEF TypeOK, Idle
<1>10. TasksInv' /\ NumbersInv'
  BY <1>1, <1>2, <1>9, FS_EmptySet DEF TasksInv, NumbersInv
<1>11. NoneNewer'
  <2>1. \A e \in Devices : Older(pull'[e].left, newest)
    BY <1>1, <1>9 DEF NoneNewer, Older
  <2>2. \A e \in Devices : Older(list'[e], newest)
    BY <1>1, <1>6, <1>7 DEF NoneNewer, Older
  <2>3. QED
    BY <1>1, <1>2, <2>1, <2>2 DEF NoneNewer
<1>12. NewestIsKept'
  <2> SUFFICES ASSUME NEW i \in Ids, newest[i] # 0
               PROVE  \E e \in Devices : \E q \in WithId(list'[e], i) : q.at = newest[i]
    BY <1>2 DEF NewestIsKept, WithId
  <2>1. PICK e \in Devices : \E q \in WithId(list[e], i) : q.at = newest[i]
    BY <1>1 DEF NewestIsKept
  <2>2. PICK q \in list[e] : q.id = i /\ q.at = newest[i]
    BY <2>1 DEF WithId
  <2>3. q \in list'[e]
    <3>1. CASE e = d
      <4>1. \A p \in S : q.id = p.id => ~(p.at > q.at)
        <5>1. \A p \in S : p.at \in Int
          BY <1>5 DEF Projects
        <5>2. q.at \in Int
          BY <1>5, <2>2, <3>1 DEF Projects
        <5>3. \A p \in S : q.id = p.id => p.at <= q.at
          BY <1>1, <2>2 DEF NoneNewer, Older
        <5>4. QED
          BY <5>1, <5>2, <5>3
      <4>2. QED
        BY <1>5, <1>6, <2>2, <3>1, <4>1, PulledKeeps
    <3>2. CASE e # d
      BY <1>6, <2>2, <3>2
    <3>3. QED
      BY <3>1, <3>2
  <2>4. QED
    BY <2>2, <2>3 DEF WithId
<1>13. QED
  BY <1>8, <1>10, <1>11, <1>12 DEF SyncInv

(* A sync begins; the application starts again.                            *)
LEMMA StartKeeps ==
    ASSUME SyncInv, NEW d \in Devices, StartSync(d) \/ Restart(d),
           gone' \in [Devices -> SUBSET Names]
    PROVE  SyncInv'
<1>1. TypeOK /\ TasksInv /\ NumbersInv /\ NoneNewer /\ NewestIsKept
  BY DEF SyncInv
<1>2. UNCHANGED <<rows, list, begun, newest, arrived>>
  BY DEF StartSync, Restart
<1>3. /\ push' \in {push, [push EXCEPT ![d] = Idle], [push EXCEPT ![d] = Task("begun", {})]}
      /\ pull' \in {pull, [pull EXCEPT ![d] = Idle], [pull EXCEPT ![d] = Task("begun", {})]}
  BY DEF StartSync, Restart
<1>4. /\ doomed' \in [Devices -> SUBSET Names]
      /\ dialog' \in [Devices -> Projects \cup {NoProject}]
      /\ trigger' \in [Devices -> BOOLEAN]
      /\ hit' \subseteq Devices
  BY <1>1 DEF StartSync, Restart, Closed, Fault, TypeOK
<1>5. erase' \in [Devices -> SUBSET [names : SUBSET Names, rids : SUBSET (1..begun.rows)]]
  <2> DEFINE T == [names : SUBSET Names, rids : SUBSET (1..begun.rows)]
  <2>1. ToErase(Erasable(d), {}) \subseteq T
    BY <1>1 DEF ToErase, Erasable, TypeOK
  <2>2. \/ UNCHANGED erase
        \/ erase' = [erase EXCEPT ![d] = @ \cup ToErase(Erasable(d), {})]
        \/ erase' = [erase EXCEPT ![d] = {}]
    BY DEF StartSync, Restart
  <2>3. erase \in [Devices -> SUBSET T]
    BY <1>1 DEF TypeOK
  <2> HIDE DEF T
  <2>4. CASE erase' = [erase EXCEPT ![d] = @ \cup ToErase(Erasable(d), {})]
    <3> DEFINE more == ToErase(Erasable(d), {})
    <3>1. erase' = [erase EXCEPT ![d] = @ \cup more] /\ more \subseteq T
      BY <2>1, <2>4
    <3> HIDE DEF more
    <3>2. erase' \in [Devices -> SUBSET T]
      BY <2>3, <3>1
    <3>3. QED
      BY <3>2 DEF T
  <2>5. CASE UNCHANGED erase \/ erase' = [erase EXCEPT ![d] = {}]
    <3>1. erase' \in [Devices -> SUBSET T]
      BY <2>3, <2>5
    <3>2. QED
      BY <3>1 DEF T
  <2>6. QED
    BY <2>2, <2>4, <2>5
<1>6. /\ push' \in [Devices -> [stage : Stages, left : SUBSET Projects]]
      /\ pull' \in [Devices -> [stage : Stages, left : SUBSET Projects]]
  <2> DEFINE T == [stage : Stages, left : SUBSET Projects]
  <2>1. Idle \in T /\ Task("begun", {}) \in T
    BY DEF Idle, Task, Stages
  <2>2. push \in [Devices -> T] /\ pull \in [Devices -> T]
    BY <1>1 DEF TypeOK
  <2> HIDE DEF T
  <2>3. push' \in [Devices -> T] /\ pull' \in [Devices -> T]
    BY <1>3, <2>1, <2>2
  <2>4. QED
    BY <2>3 DEF T
<1>7. \A e \in Devices : /\ push'[e] = push[e] \/ (push'[e].left = {} /\ push'[e].stage # "listed")
                         /\ pull'[e].left \in {pull[e].left, {}}
  <2>1. /\ \A e \in Devices : push'[e] \in {push[e], Idle, Task("begun", {})}
        /\ \A e \in Devices : pull'[e] \in {pull[e], Idle, Task("begun", {})}
    BY <1>1, <1>3 DEF TypeOK
  <2>2. /\ Idle.left = {} /\ Idle.stage # "listed"
        /\ Task("begun", {}).left = {} /\ Task("begun", {}).stage # "listed"
    BY DEF Idle, Task
  <2>3. QED
    BY <2>1, <2>2
<1>8. TypeOK'
  <2>1. Projects' = Projects
    BY <1>2 DEF Projects
  <2> HIDE DEF Projects
  <2>2. QED
    BY <1>1, <1>2, <1>4, <1>5, <1>6, <2>1 DEF TypeOK
<1>9. TasksInv'
  BY <1>1, <1>7, FS_EmptySet DEF TasksInv
<1>10. NumbersInv' /\ NewestIsKept'
  BY <1>1, <1>2 DEF NumbersInv, NewestIsKept, WithId
<1>11. NoneNewer'
  <2>1. Older({}, newest)
    BY DEF Older
  <2>2. \A e \in Devices : Older(push'[e].left, newest) /\ Older(pull'[e].left, newest)
    BY <1>1, <1>7, <2>1 DEF NoneNewer
  <2>3. QED
    BY <1>1, <1>2, <2>2 DEF NoneNewer
<1>12. QED
  BY <1>8, <1>9, <1>10, <1>11 DEF SyncInv

LEMMA NextSync == SyncInv /\ [Next]_vars => SyncInv'
<1> SUFFICES ASSUME SyncInv, [Next]_vars PROVE SyncInv'
  OBVIOUS
<1>1. ASSUME NEW d \in Devices,
             Push(d) \/ Pull(d) \/ Erase(d) \/ Tick(d) \/ User(d) \/ Faulty(d)
      PROVE  SyncInv'
  <2>1. \E names, e : Remember(e, names)
    BY <1>1 DEF Push, Pull, Erase, Tick, User, Faulty, Recall
  <2>2. gone' \in [Devices -> SUBSET Names]
    BY <2>1, HistoryTyped
  <2>3. QED
    BY <1>1, <2>2, PushKeeps, ListsKeeps, EraseKeeps, TakeKeeps, StartKeeps, UserKeeps
       DEF Pull, Tick, Faulty
<1>2. CASE UNCHANGED vars
  BY <1>2 DEF vars, device, SyncInv, TypeOK, Projects, TasksInv, NumbersInv,
              NoneNewer, NewestIsKept, WithId
<1>3. QED
  BY <1>1, <1>2 DEF Next

LEMMA SyncAlways == Spec => []SyncInv
BY InitSync, NextSync, PTL DEF Spec
-----------------------------------------------------------------------------
(* The server's rows, the devices and their tasks keep their types.        *)
THEOREM SyncTypeCorrect == Spec => []TypeOK
<1>1. SyncInv => TypeOK
  BY DEF SyncInv
<1>2. QED
  BY <1>1, SyncAlways, PTL

(* The newest edit of a project that nobody has deleted since stays on     *)
(* some device (merge_action, apply_pulled), for any number of devices,    *)
(* projects, edits and faults.                                             *)
THEOREM NewestStays == Spec => []NewestIsKept
<1>1. SyncInv => NewestIsKept
  BY DEF SyncInv
<1>2. QED
  BY <1>1, SyncAlways, PTL

(* Two projects of one name come to a device only with one that was        *)
(* renamed elsewhere (validate_name, merge_action).                        *)
THEOREM ClashesAreRenames == Spec => OnlyRenamesClash
<1> DEFINE ByRename(d) ==
              \E p \in list[d] \cup pull[d].left, q \in list'[d] :
                 p.id = q.id /\ p.name # q.name /\ p.at < q.at
           Clean == \A d \in Devices : Clash(list'[d]) /\ ~Clash(list[d]) => ByRename(d)
<1>1. SyncInv /\ [Next]_vars => [Clean]_vars
  <2> SUFFICES ASSUME SyncInv, Next, NEW d \in Devices,
                      Clash(list'[d]), ~Clash(list[d])
               PROVE  ByRename(d)
    OBVIOUS
  <2>1. TypeOK /\ TasksInv
    BY DEF SyncInv
  <2>2. PICK e \in Devices : Push(e) \/ Pull(e) \/ Erase(e) \/ Tick(e) \/ User(e) \/ Faulty(e)
    BY DEF Next
  <2>3. list' # list
    OBVIOUS
  <2>4. CASE TakePull(e)
    <3>1. PICK o \in Orders(pull[e].left) : list' = [list EXCEPT ![e] = Pulled(@, o)]
      BY <2>4 DEF TakePull
    <3>2. e = d /\ list'[d] = Pulled(list[d], o)
      BY <2>1, <3>1 DEF TypeOK
    <3>3. \A p \in list[d] \cup pull[d].left : p.at \in Int
      BY <2>1 DEF TypeOK, Projects
    <3>4. IsFiniteSet(pull[d].left)
      BY <2>1 DEF TasksInv
    <3>5. Renamed(list[d] \cup pull[d].left, list'[d])
      BY <3>1, <3>2, <3>3, <3>4, PulledClash
    <3>6. QED
      BY <3>5 DEF Renamed
  <2>5. ASSUME NEW p, Stored(e, p), Valid(e, p.id, p.name),
             p = [id |-> p.id, name |-> p.name, at |-> p.at]
        PROVE  FALSE
    <3> DEFINE new == [p EXCEPT !.at = begun.saves + 1]
    <3>1. list' = [list EXCEPT ![e] = Replaced(@, new)]
      BY <2>5 DEF Stored
    <3>2. e = d /\ list'[d] = (list[d] \ WithId(list[d], new.id)) \cup {new}
      BY <2>1, <3>1 DEF TypeOK, Replaced
    <3>3. new.id = p.id /\ new.name = p.name
      BY <2>5
    <3>4. QED
      BY <2>5, <3>2, <3>3 DEF Clash, WithId, Valid
  <2>6. CASE Create(e)
    <3>1. PICK name \in Names :
             /\ Persist(e, [NoProject EXCEPT !.id = begun.projects + 1, !.name = name])
             /\ Valid(e, begun.projects + 1, name)
      BY <2>6 DEF Create
    <3> DEFINE p == [NoProject EXCEPT !.id = begun.projects + 1, !.name = name]
    <3>2. /\ p.id = begun.projects + 1 /\ p.name = name
          /\ p = [id |-> p.id, name |-> p.name, at |-> p.at]
      <4>1. p = [NoProject EXCEPT !.id = begun.projects + 1, !.name = name]
        OBVIOUS
      <4> HIDE DEF p
      <4>2. QED
        BY <4>1 DEF NoProject
    <3>3. Stored(e, p)
      BY <3>1 DEF Persist
    <3> HIDE DEF p
    <3>4. QED
      BY <2>5, <3>1, <3>2, <3>3
  <2>7. CASE Save(e)
    <3>1. PICK name \in Names :
             Stored(e, [dialog[e] EXCEPT !.name = name]) /\ Valid(e, dialog[e].id, name)
      BY <2>7 DEF Save, Persist
    <3> DEFINE p == [dialog[e] EXCEPT !.name = name]
    <3>2. dialog[e] \in Projects \cup {NoProject}
      BY <2>1 DEF TypeOK
    <3>3. dialog[e] = [id |-> dialog[e].id, name |-> dialog[e].name, at |-> dialog[e].at]
      BY <3>2 DEF Projects, NoProject
    <3>4. /\ p.id = dialog[e].id /\ p.name = name
          /\ p = [id |-> p.id, name |-> p.name, at |-> p.at]
      BY <3>3
    <3>5. Stored(e, p)
      BY <3>1
    <3> HIDE DEF p
    <3>6. QED
      BY <2>5, <3>1, <3>4, <3>5
  <2>8. CASE Delete(e)
    <3>1. list'[d] \subseteq list[d]
      BY <2>1, <2>8 DEF Delete, Removed, TypeOK
    <3>2. QED
      BY <3>1 DEF Clash
  <2>9. QED
    BY <2>2, <2>3, <2>4, <2>6, <2>7, <2>8
       DEF Push, PushReads, PushWrites, PushStep, Pull, PullLists, Erase, EraseLists,
           EraseDeletes, EraseStep, Tick, StartSync, User, Open, SyncNow, Faulty, Restart,
           device
<1>2. QED
  BY <1>1, SyncAlways, PTL DEF Spec, OnlyRenamesClash

(* A row has its number for itself, and no other name ever gets it: what a *)
(* task erases by number (start_sync) is the row that it listed.           *)
THEOREM NumbersStay ==
    Spec => [][\A m, n \in Names : rows[m] # NoRow /\ rows'[n].rid = rows[m].rid
                                      => m = n]_vars
<1> DEFINE Stay == \A m, n \in Names : rows[m] # NoRow /\ rows'[n].rid = rows[m].rid
                                          => m = n
<1>1. SyncInv /\ [Next]_vars => [Stay]_vars
  <2> SUFFICES ASSUME SyncInv, Next, NEW m \in Names, NEW n \in Names,
                      rows[m] # NoRow, rows'[n].rid = rows[m].rid
               PROVE  m = n
    OBVIOUS
  <2>1. TypeOK /\ NumbersInv /\ TasksInv
    BY DEF SyncInv
  <2>2. CASE rows'[n].rid = rows[n].rid
    BY <2>1, <2>2 DEF NumbersInv
  <2>3. CASE rows'[n] = NoRow
    BY <2>1, <2>3 DEF NumbersInv, NoRow
  <2>4. ASSUME NEW d \in Devices, push[d].stage = "listed", Upserted(NextToPush(d))
        PROVE  m = n
    <3> DEFINE p == NextToPush(d)
    <3>1. p.name \in Names
      BY <2>1, <2>4, SomethingToPush DEF TasksInv, TypeOK, Projects
    <3> HIDE DEF p
    <3>2. CASE n # p.name \/ rows[p.name] # NoRow
      <4>1. rows'[n].rid = rows[n].rid
        BY <2>1, <2>4, <3>1, <3>2 DEF Upserted, TypeOK, p
      <4>2. QED
        BY <2>2, <4>1
    <3>3. CASE n = p.name /\ rows[p.name] = NoRow
      <4>1. rows'[n].rid = begun.rows + 1
        BY <2>1, <2>4, <3>1, <3>3 DEF Upserted, TypeOK, p
      <4>2. rows[m].rid <= begun.rows /\ rows[m].rid \in Int /\ begun.rows \in Int
        BY <2>1 DEF TypeOK
      <4>3. QED
        BY <4>1, <4>2
    <3>4. QED
      BY <3>2, <3>3
  <2>5. ASSUME NEW d \in Devices, EraseDeletes(d)
        PROVE  rows'[n] \in {rows[n], NoRow}
    BY <2>5 DEF EraseDeletes
  <2>6. QED
    BY <2>2, <2>3, <2>4, <2>5
       DEF Next, Push, PushReads, PushWrites, PushStep, Pull, PullLists, Erase, EraseLists,
           Tick, TakePull, StartSync, User, Create, Open, Save, Delete, SyncNow, Acts,
           Faulty, Restart
<1>2. QED
  BY <1>1, SyncAlways, PTL DEF Spec
=============================================================================
