----------------------------- MODULE ProjectSync -----------------------------
(***************************************************************************)
(* The projects of one user on several devices, and the rows of the sync   *)
(* server, which are keyed by the project's name.  A device saves and      *)
(* deletes at once; a sync of it has three tasks that run side by side: to *)
(* push what it has, to pull what the server has, and to erase the rows of *)
(* what was deleted or renamed here.  Requests fail, the application is    *)
(* restarted in the middle of anything, and a locked vault forgets that a  *)
(* sync was asked for.                                                     *)
(*                                                                         *)
(* Left out: the projects of other users and teams, memory entries, the    *)
(* folders of a project, repository setup (which saves a project too),     *)
(* saves that fail, signing out, and the case of names, which the server   *)
(* tells apart and a device does not.  Time passes between two saves, and  *)
(* each changes something: the number of a save stands for updated_at and  *)
(* for the checksum, which leaves updated_at out.                          *)
(***************************************************************************)
EXTENDS Integers, FiniteSets, Sequences

CONSTANTS Devices,
          MaxProjects, MaxName,
          MaxSteps,   \* what users do, and faults
          MaxFaults   \* requests that fail, restarts, locked vaults

ASSUME SyncAssumption ==
    /\ Devices # {}
    /\ MaxProjects \in Nat \ {0} /\ MaxName \in Nat \ {0}
    /\ MaxSteps \in Nat /\ MaxFaults \in Nat

VARIABLES rows,      \* the server's row of each name
          list,      \* per device: the projects on its disk and on its screen
          doomed,    \* per device: pending_remote_deletes
          dialog,    \* per device: the project whose dialog is open, as it was
          trigger,   \* per device: sync_trigger
          push, pull, erase,  \* per device: its tasks
          begun,     \* number of projects, rows and saves ever made
          acts, faults

VARIABLES newest,    \* history: when each project that stands was last saved
          hit,       \* history: devices with a fault since their last sync
          arrived,   \* history: the saves the server has had
          gone       \* history, per device: the names deleted or renamed away
                     \* on it whose rows the server still has to lose

device == <<list, doomed, dialog>>
bounds == <<acts, faults>>
vars == <<rows, device, trigger, push, pull, erase, begun, bounds,
          newest, hit, arrived, gone>>

Ids   == 1..MaxProjects
Names == 1..MaxName

NoProject == [id |-> 0, name |-> 0, at |-> 0]
NoRow     == [rid |-> 0, holds |-> NoProject]
Idle      == [stage |-> "idle", left |-> {}]
Task(stage, projects) == [stage |-> stage, left |-> projects]

First == [id |-> 1, name |-> 1, at |-> 1]

(* Every device has the first project.                                     *)
Init ==
    /\ rows = [n \in Names |-> IF n = 1 THEN [rid |-> 1, holds |-> First]
                               ELSE NoRow]
    /\ list = [d \in Devices |-> {First}]
    /\ doomed = [d \in Devices |-> {}]
    /\ dialog = [d \in Devices |-> NoProject]
    /\ trigger = [d \in Devices |-> FALSE]
    /\ push = [d \in Devices |-> Idle] /\ pull = [d \in Devices |-> Idle]
    /\ erase = [d \in Devices |-> {}]
    /\ begun = [projects |-> 1, rows |-> 1, saves |-> 1]
    /\ acts = 0 /\ faults = 0
    /\ newest = [i \in Ids |-> IF i = 1 THEN 1 ELSE 0]
    /\ hit = {} /\ arrived = {1} /\ gone = [d \in Devices |-> {}]

NamesOf(projects) == {p.name : p \in projects}
Live(d) == NamesOf(list[d])
WithId(projects, i) == {p \in projects : p.id = i}

Room     == acts + faults < MaxSteps
Fault(d) == /\ Room /\ faults < MaxFaults /\ faults' = faults + 1
            /\ hit' = hit \cup {d}
NoFault  == UNCHANGED <<faults, hit>>

(* replace_project                                                         *)
Replaced(projects, p) == (projects \ WithId(projects, p.id)) \cup {p}
-----------------------------------------------------------------------------
(* The user.  A device shows one dialog.                                   *)
Acts ==
    /\ Room /\ acts' = acts + 1
    /\ UNCHANGED <<rows, push, pull, erase, faults, hit, arrived>>

(* persist and replace_project: p is saved now, and its sync asked for.    *)
Stored(d, p) ==
    LET now == begun.saves + 1
    IN /\ list' = [list EXCEPT ![d] = Replaced(@, [p EXCEPT !.at = now])]
       /\ begun' = [begun EXCEPT !.saves = now,
                                 !.projects = IF p.id > @ THEN p.id ELSE @]
       /\ newest' = [newest EXCEPT ![p.id] = now]

(* Faulty: not during a sync, like the button.                             *)
PersistQuietly(d, p) ==
    /\ Stored(d, p)
    /\ trigger' = [trigger EXCEPT ![d] = push[d] = Idle /\ pull[d] = Idle]

Persist(d, p) ==
    /\ Stored(d, p)
    /\ trigger' = [trigger EXCEPT ![d] = TRUE]

(* validate_name                                                           *)
Valid(d, i, name) == \A p \in list[d] : p.id # i => p.name # name

(* create_project                                                          *)
Create(d) ==
    /\ Acts
    /\ dialog[d] = NoProject /\ begun.projects < MaxProjects
    /\ \E name \in Names :
          LET i == begun.projects + 1
          IN /\ Valid(d, i, name)
             /\ Persist(d, [NoProject EXCEPT !.id = i, !.name = name])
    /\ UNCHANGED <<doomed, dialog>>

(* open_edit_dialog, with a copy of the project.                           *)
Open(d) ==
    /\ Acts
    /\ dialog[d] = NoProject
    /\ \E p \in list[d] : dialog' = [dialog EXCEPT ![d] = p]
    /\ UNCHANGED <<list, doomed, trigger, begun, newest>>

Closed(d) == dialog' = [dialog EXCEPT ![d] = NoProject]

(* save_project: what the copy was called before is what it is compared    *)
(* with.                                                                   *)
Save(d) ==
    /\ Acts
    /\ dialog[d] # NoProject
    /\ \E name \in Names :
          /\ Valid(d, dialog[d].id, name)
          /\ Persist(d, [dialog[d] EXCEPT !.name = name])
          /\ doomed' = [doomed EXCEPT ![d] =
                @ \cup (IF name = dialog[d].name THEN {} ELSE {dialog[d].name})]
    /\ Closed(d)

(* delete_project                                                          *)
Removed(d) ==
    /\ \E p \in WithId(list[d], dialog[d].id) :
          /\ list' = [list EXCEPT ![d] = @ \ {p}]
          /\ doomed' = [doomed EXCEPT ![d] = @ \cup {p.name}]
          /\ newest' = [newest EXCEPT ![p.id] = 0]
    /\ Closed(d)
    /\ UNCHANGED begun

Delete(d) ==
    /\ Acts
    /\ Removed(d)
    /\ trigger' = [trigger EXCEPT ![d] = TRUE]

(* The button in render_collab_projects, which is off during a sync.       *)
SyncNow(d) ==
    /\ Acts
    /\ push[d] = Idle /\ pull[d] = Idle /\ ~trigger[d]
    /\ trigger' = [trigger EXCEPT ![d] = TRUE]
    /\ UNCHANGED <<device, begun, newest>>
-----------------------------------------------------------------------------
(* The tasks.                                                              *)
PushStep(d, stage) ==
    /\ push[d].stage = stage
    /\ UNCHANGED <<device, trigger, pull, erase, acts, newest>>

(* The tick that finds the task's answer does nothing else.                *)
PushGoesOn(d, rest) ==
    push' = [push EXCEPT ![d] = IF rest = {} THEN Idle ELSE Task("listed", rest)]

(* push_projects_to_server: it reads the disk and then the server's rows,  *)
(* in one step, as nothing that happens elsewhere depends on what changes  *)
(* on the disk in between; and finds what differs,                         *)
Differs(p) == rows[p.name].holds # p
PushReads(d) ==
    /\ PushStep(d, "begun")
    /\ \/ PushGoesOn(d, {p \in list[d] : Differs(p)}) /\ NoFault
       \/ list[d] # {} /\ PushGoesOn(d, {}) /\ Fault(d)
    /\ UNCHANGED <<rows, begun, arrived>>

(* and writes it, whatever is there by now (upsert_project).               *)
Upserted(p) ==
    /\ begun' = [begun EXCEPT !.rows = IF rows[p.name] = NoRow THEN @ + 1 ELSE @]
    /\ rows' = [rows EXCEPT ![p.name] =
                   [rid |-> IF @ = NoRow THEN begun.rows + 1 ELSE @.rid,
                    holds |-> p]]
    /\ arrived' = arrived \cup {p.at}

NextToPush(d) ==
    CHOOSE p \in push[d].left : \A q \in push[d].left :
       p.name < q.name \/ (p.name = q.name /\ p.id <= q.id)

PushWrites(d) ==
    /\ PushStep(d, "listed")
    /\ LET p == NextToPush(d)
       IN /\ PushGoesOn(d, push[d].left \ {p})
          /\ \/ Upserted(p) /\ NoFault
             \/ Fault(d) /\ UNCHANGED <<rows, begun, arrived>>

(* pull_projects_from_server                                               *)
Answers(d, projects) == pull' = [pull EXCEPT ![d] = Task("done", projects)]
PullLists(d) ==
    /\ pull[d].stage = "begun"
    /\ \/ Answers(d, {rows[n].holds : n \in {m \in Names : rows[m] # NoRow}})
          /\ NoFault
       \/ Answers(d, {}) /\ Fault(d)
    /\ UNCHANGED <<rows, device, trigger, push, erase, begun, acts, newest,
                   arrived>>

(* The task of start_sync that erases rows: it lists them, and deletes     *)
(* each by its number, which another row does not have.  It gives up if    *)
(* it cannot list, and goes on after a row it cannot delete.               *)
EraseStep(d, t, then) ==
    /\ erase' = [erase EXCEPT ![d] = (@ \ {t}) \cup then]
    /\ UNCHANGED <<device, trigger, push, pull, begun, acts, newest, arrived>>

ToErase(names, rids) ==
    IF names \cup rids = {} THEN {} ELSE {[names |-> names, rids |-> rids]}

EraseLists(d) ==
    \E t \in erase[d] :
       /\ t.names # {}
       /\ \/ /\ EraseStep(d, t, ToErase({}, {rows[n].rid :
                                 n \in {m \in t.names : rows[m] # NoRow}}))
             /\ NoFault
          \/ EraseStep(d, t, {}) /\ Fault(d)
       /\ UNCHANGED rows

EraseDeletes(d) ==
    \E t \in erase[d] : \E r \in t.rids :
       /\ EraseStep(d, t, ToErase({}, t.rids \ {r}))
       /\ \/ /\ rows' = [n \in Names |-> IF rows[n].rid = r THEN NoRow ELSE rows[n]]
             /\ NoFault
          \/ Fault(d) /\ UNCHANGED rows
-----------------------------------------------------------------------------
(* The UI thread: tick.                                                    *)
(* merge_action, and what apply_pulled does of it.  Faulty: what is pulled *)
(* counts as newer; or comes in under any name.                            *)
MergedAnyway(projects, p) ==
    IF WithId(projects, p.id) # {} THEN Replaced(projects, p)
    ELSE IF p.name \in NamesOf(projects) THEN projects
    ELSE projects \cup {p}

MergedNamesake(projects, p) ==
    IF \A q \in WithId(projects, p.id) : p.at > q.at
    THEN Replaced(projects, p) ELSE projects

Merged(projects, p) ==
    LET mine == WithId(projects, p.id)
    IN IF mine # {}
       THEN IF \A q \in mine : p.at > q.at THEN Replaced(projects, p) ELSE projects
       ELSE IF p.name \in NamesOf(projects) THEN projects
       ELSE projects \cup {p}

(* apply_pulled, in whatever order the server lists its rows: one merge    *)
(* after the other.                                                        *)
Orders(S) ==
    {o \in [1..Cardinality(S) -> S] : \A p \in S : \E k \in DOMAIN o : o[k] = p}
Pulled(projects, o) ==
    LET after[k \in 0..Len(o)] ==
            IF k = 0 THEN projects ELSE Merged(after[k - 1], o[k])
    IN after[Len(o)]
TakePull(d) ==
    /\ pull[d].stage = "done"
    /\ pull' = [pull EXCEPT ![d] = Idle]
    /\ \E o \in Orders(pull[d].left) :
          list' = [list EXCEPT ![d] = Pulled(@, o)]
    /\ UNCHANGED <<rows, doomed, dialog, trigger, push, erase, begun, bounds,
                   newest, hit, arrived>>

(* Faulty: the names are taken before the account and the vault are looked *)
(* for.                                                                    *)
StartSyncTakesFirst(d) ==
    /\ trigger[d] /\ push[d] = Idle /\ pull[d] = Idle
    /\ trigger' = [trigger EXCEPT ![d] = FALSE]
    /\ doomed' = [doomed EXCEPT ![d] = {}]
    /\ \/ /\ erase' = [erase EXCEPT ![d] = @ \cup ToErase(doomed[d] \ Live(d), {})]
          /\ push' = [push EXCEPT ![d] = Task("begun", {})]
          /\ pull' = [pull EXCEPT ![d] = Task("begun", {})]
          /\ hit' = hit \ {d}
          /\ UNCHANGED faults
       \/ Fault(d) /\ UNCHANGED <<push, pull, erase>>
    /\ UNCHANGED <<rows, list, dialog, begun, acts, newest, arrived>>

(* start_sync.  The names to erase are forgotten before they are erased,   *)
(* and those in use again are not erased.                                  *)
Erasable(d) == doomed[d] \ Live(d)
StartSync(d) ==
    /\ trigger[d] /\ push[d] = Idle /\ pull[d] = Idle
    /\ trigger' = [trigger EXCEPT ![d] = FALSE]
    /\ \/ /\ doomed' = [doomed EXCEPT ![d] = {}]
          /\ erase' = [erase EXCEPT ![d] = @ \cup ToErase(Erasable(d), {})]
          /\ push' = [push EXCEPT ![d] = Task("begun", {})]
          /\ pull' = [pull EXCEPT ![d] = Task("begun", {})]
          /\ hit' = hit \ {d}
          /\ UNCHANGED faults
       \/ /\ Fault(d)                                  \* the vault is locked
          /\ UNCHANGED <<doomed, push, pull, erase>>
    /\ UNCHANGED <<rows, list, dialog, begun, acts, newest, arrived>>

(* The application ends and starts again: ensure_loaded.                   *)
Restart(d) ==
    /\ Fault(d)
    /\ push' = [push EXCEPT ![d] = Idle] /\ pull' = [pull EXCEPT ![d] = Idle]
    /\ erase' = [erase EXCEPT ![d] = {}]
    /\ trigger' = [trigger EXCEPT ![d] = FALSE]
    /\ Closed(d)
    /\ UNCHANGED <<rows, list, doomed, begun, acts, newest, arrived>>

-----------------------------------------------------------------------------
(* What the server still has to lose.  It owes device d a name that was    *)
(* deleted or renamed away there as long as the row stands, or the device  *)
(* is about to write it, and the name is not in use again on the device.   *)
Owed(d, n) ==
    /\ rows[n] # NoRow \/ n \in NamesOf(push[d].left)
    /\ n \notin Live(d)

(* The task that was to erase the row of a name is hit by a fault: nothing *)
(* makes up for that.                                                      *)
Erased(d) ==
    {n \in Names : \E t \in erase[d] : n \in t.names \/ rows[n].rid \in t.rids}
Lost(d) == IF faults' = faults THEN {} ELSE Erased(d) \ Erased(d)'

(* History joined to every action: names go away on d.                     *)
Remember(d, names) ==
    gone' = [e \in Devices |->
       {n \in Names : /\ n \in gone[e] \ Lost(e) \/ (e = d /\ n \in names)
                      /\ Owed(e, n)'}]
Recall == \E d \in Devices : Remember(d, {})

Push(d)   == (PushReads(d) \/ PushWrites(d)) /\ Recall
Pull(d)   == PullLists(d) /\ Recall
Erase(d)  == (EraseLists(d) \/ EraseDeletes(d)) /\ Recall
Tick(d)   == (TakePull(d) \/ StartSync(d)) /\ Recall
User(d)   == \/ (Create(d) \/ Open(d) \/ SyncNow(d)) /\ Recall
             \/ Save(d) /\ Remember(d, {dialog[d].name})
             \/ Delete(d) /\ Remember(d, NamesOf(WithId(list[d], dialog[d].id)))
Faulty(d) == Restart(d) /\ Recall

Next == \E d \in Devices :
    Push(d) \/ Pull(d) \/ Erase(d) \/ Tick(d) \/ User(d) \/ Faulty(d)

(* Each task goes on, requests are answered or fail, and frames are drawn. *)
(* Nobody has to do anything.                                              *)
Fairness == \A d \in Devices :
    /\ WF_vars(Push(d)) /\ WF_vars(Pull(d)) /\ WF_vars(Erase(d))
    /\ WF_vars(Tick(d))

Spec == Init /\ [][Next]_vars /\ Fairness
-----------------------------------------------------------------------------
Projects == [id : Ids, name : Names, at : 1..begun.saves]
Stages   == {"idle", "begun", "listed", "done"}

(* The type invariant.                                                     *)
TypeOK ==
    /\ begun \in [projects : Ids, rows : Nat \ {0}, saves : Nat \ {0}]
    /\ rows \in [Names -> [rid : 0..begun.rows, holds : Projects \cup {NoProject}]]
    /\ list \in [Devices -> SUBSET Projects]
    /\ doomed \in [Devices -> SUBSET Names]
    /\ dialog \in [Devices -> Projects \cup {NoProject}]
    /\ trigger \in [Devices -> BOOLEAN]
    /\ push \in [Devices -> [stage : Stages, left : SUBSET Projects]]
    /\ pull \in [Devices -> [stage : Stages, left : SUBSET Projects]]
    /\ erase \in [Devices -> SUBSET [names : SUBSET Names,
                                      rids : SUBSET (1..begun.rows)]]
    /\ newest \in [Ids -> 0..begun.saves]
    /\ arrived \subseteq 1..begun.saves /\ hit \subseteq Devices
    /\ gone \in [Devices -> SUBSET Names]

(* The newest edit of a project that nobody has deleted since stays on     *)
(* some device, whatever order pushes, pulls, edits and faults come in: a  *)
(* push may overwrite it on the server (push_projects_to_server), but no   *)
(* pull overwrites it with an older one (merge_action).                    *)
NewestIsKept ==
    \A i \in Ids : newest[i] # 0 =>
       \E d \in Devices : \E p \in WithId(list[d], i) : p.at = newest[i]

(* Two projects of one name come to a device only with a project that was  *)
(* renamed elsewhere: validate_name and merge_action prevent the rest.     *)
Clash(projects) == \E p, q \in projects : p # q /\ p.name = q.name

OnlyRenamesClash ==
    [][\A d \in Devices : Clash(list'[d]) /\ ~Clash(list[d]) =>
          \E p \in list[d] \cup pull[d].left, q \in list'[d] :
             p.id = q.id /\ p.name # q.name /\ p.at < q.at]_vars

(* What was edited on a device reaches the server, also if a sync was      *)
(* under way (persist, tick), unless a fault hits the device: then the     *)
(* next sync brings it.                                                    *)
Behind(d) == \E p \in list[d] : p.at \notin arrived

EditsArrive == \A d \in Devices : Behind(d) ~> ~Behind(d) \/ d \in hit

(* The row that stood, or was being pushed, when its project was deleted   *)
(* or renamed on a device goes, unless the name comes into use there       *)
(* again: start_sync forgets no name before a task has it.  A fault may    *)
(* put that off until the next sync, and a task it hits gives up for good. *)
DeletionsArrive ==
    \A d \in Devices : \A n \in Names :
       n \in gone[d] ~> n \notin gone[d] \/ d \in hit
-----------------------------------------------------------------------------
(* What the code says and does not keep.                                   *)

(* "The same id: the newer updated_at wins", but a push does not look at   *)
(* it (sync_projects.rs:7).                                                *)
NewerRowStands ==
    [][\A n \in Names :
          rows'[n] # NoRow /\ rows'[n].holds.id = rows[n].holds.id
             => rows'[n].holds.at >= rows[n].holds.at]_vars

(* With one device: what was deleted is not there (project_ui.rs:1526).    *)
(* The pull of the very sync that erases its row brings it back.           *)
DeletedStaysAway == \A d \in Devices : \A p \in list[d] : newest[p.id] # 0

(* A device has one project of a name (project.rs:448).                    *)
NamesDiffer == \A d \in Devices : ~Clash(list[d])
=============================================================================
