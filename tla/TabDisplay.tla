------------------------------ MODULE TabDisplay ------------------------------
(***************************************************************************)
(* What the result grid shows while query tabs are opened, switched, moved *)
(* and closed.  The display state (rows, filter, connection, edits) is one *)
(* global set of fields; a tab keeps its own copy of rows and filter, and  *)
(* switch_to_tab exchanges them.  Rows are abstracted to the result they   *)
(* came with, numbered in the order the queries were started, 0 for an     *)
(* empty grid, and a filter to the tab it was typed in.  Connections,      *)
(* titles, texts, pages and the transaction dialog are left out.           *)
(***************************************************************************)
EXTENDS TabStrip

CONSTANTS MaxTabs,     \* tabs opened over a run
          MaxResults   \* queries started over a run

ASSUME DisplayAssumption == MaxTabs \in Nat \ {0} /\ MaxResults \in Nat

Tabs    == 1..MaxTabs
Results == 1..MaxResults

VARIABLES tabs,      \* query_tabs
          pinned,    \* the tabs with is_pinned
          active,    \* active_tab_index, from 1
          opened,    \* tabs opened so far (next_tab_id)
          shown,     \* the result in current_table_data
          kept,      \* the result in each tab's result_rows
          filter,    \* sql_filter_text and visual_filter
          stash,     \* the filter kept in each tab
          started,   \* queries started so far
          home,      \* the tab_id of each query's job
          running,   \* the jobs neither answered nor cancelled
          edits,     \* the result the first of pending_operations was made
                     \* on, 0 without any
          strayed    \* history: rows were left on the screen for a tab
                     \* they do not belong to

stripVars   == <<tabs, pinned, active, opened>>
rowVars     == <<shown, kept, strayed>>
filterVars  == <<filter, stash>>
jobVars     == <<started, home, running>>
vars == <<stripVars, rowVars, filterVars, jobVars, edits>>

Open   == {tabs[k] : k \in DOMAIN tabs}
Active == tabs[active]

TypeOK ==
    /\ tabs \in Seq(Tabs)
    /\ pinned \subseteq Tabs
    /\ active \in 1..Len(tabs)
    /\ opened \in Tabs
    /\ shown \in {0} \cup Results
    /\ kept \in [Tabs -> {0} \cup Results]
    /\ filter \in {0} \cup Tabs
    /\ stash \in [Tabs -> {0} \cup Tabs]
    /\ started \in 0..MaxResults
    /\ home \in [Results -> {0} \cup Tabs]
    /\ running \subseteq Results
    /\ edits \in {0} \cup Results
    /\ strayed \in BOOLEAN

(* The application starts with one empty tab.                              *)
Init ==
    /\ tabs = <<1>>
    /\ pinned = {}
    /\ active = 1
    /\ opened = 1
    /\ shown = 0
    /\ kept = [t \in Tabs |-> 0]
    /\ filter = 0
    /\ stash = [t \in Tabs |-> 0]
    /\ started = 0
    /\ home = [r \in Results |-> 0]
    /\ running = {}
    /\ edits = 0
    /\ strayed = FALSE
-----------------------------------------------------------------------------
(* stash_active_tab_filter, and what a tab just pushed starts with.        *)
StashFilter ==
    /\ stash' = [stash EXCEPT ![Active] = filter]
    /\ filter' = 0

(* The new tab is the last one and becomes active.                         *)
Push ==
    /\ opened < MaxTabs
    /\ opened' = opened + 1
    /\ tabs' = Append(tabs, opened + 1)
    /\ active' = Len(tabs) + 1
    /\ UNCHANGED pinned

(* create_new_tab: the grid is cleared, and the rows on it are not saved:  *)
(* what the old tab keeps is what process_query_result copied there, or    *)
(* what the last switch left in it.                                        *)
NewTab ==
    /\ Push
    /\ StashFilter
    /\ shown' = 0
    /\ strayed' = (strayed \/ kept[Active] # shown)
    /\ UNCHANGED <<kept, jobVars, edits>>

(* open_query_file: as create_new_tab, but the grid is not cleared.        *)
OpenFile ==
    /\ Push
    /\ StashFilter
    /\ strayed' = (strayed \/ shown # 0 \/ kept[Active] # shown)
    /\ UNCHANGED <<shown, kept, jobVars, edits>>
-----------------------------------------------------------------------------
CurrentView == [shown |-> shown, kept |-> kept, filter |-> filter,
                stash |-> stash]

(* switch_to_tab exchanges the rows on the screen with those of the tab it *)
(* leaves, and then with those of the tab it enters.                       *)
AfterSwitch(t) ==
    [shown  |-> IF t = Active THEN shown ELSE kept[t],
     kept   |-> IF t = Active THEN kept
                ELSE [kept EXCEPT ![Active] = shown, ![t] = kept[Active]],
     filter |-> IF t = Active THEN filter ELSE stash[t],
     stash  |-> IF t = Active THEN [stash EXCEPT ![t] = 0]
                ELSE [stash EXCEPT ![Active] = filter, ![t] = 0]]

Show(view) ==
    /\ shown' = view.shown
    /\ kept' = view.kept
    /\ filter' = view.filter
    /\ stash' = view.stash

SwitchTo(i) ==
    /\ active' = i
    /\ Show(AfterSwitch(tabs[i]))
    /\ UNCHANGED <<tabs, pinned, opened, jobVars, edits, strayed>>
-----------------------------------------------------------------------------
(* The tabs in gone are removed, with what they kept and with their jobs;  *)
(* the tab at index i stays active, and the screen shows the view.         *)
Dropped(f, gone) == [t \in Tabs |-> IF t \in gone THEN 0 ELSE f[t]]

Discard(gone, view) ==
    /\ tabs' = Without(tabs, gone)
    /\ pinned' = pinned \ gone
    /\ running' = {r \in running : home[r] \notin gone}
    /\ Show([view EXCEPT !.kept = Dropped(@, gone), !.stash = Dropped(@, gone)])
    /\ UNCHANGED <<opened, started, home, edits>>

Remove(gone, i, view) ==
    /\ Discard(gone, view)
    /\ active' = i - RemovedBefore(tabs, gone, i)
    /\ UNCHANGED strayed

(* close_tab of the only tab empties it.                                   *)
EmptyTheTab ==
    /\ Len(tabs) = 1
    /\ pinned' = pinned \ {Active}
    /\ shown' = 0
    /\ kept' = [kept EXCEPT ![Active] = 0]
    /\ filter' = 0
    /\ running' = {r \in running : home[r] # Active}
    /\ UNCHANGED <<tabs, active, opened, stash, started, home, edits, strayed>>

NextActive == IF active = Len(tabs) THEN tabs[active - 1] ELSE tabs[active + 1]


(* close_tab of the active tab: the next one, or the last, becomes active  *)
(* and gets its filter back, but the rows stay as they were.               *)
CloseActive ==
    /\ Len(tabs) > 1
    /\ Discard({Active}, [CurrentView EXCEPT !.filter = stash[NextActive],
                                            !.stash[NextActive] = 0])
    /\ active' = IF active = Len(tabs) THEN active - 1 ELSE active
    /\ strayed' = (strayed \/ shown # kept[NextActive])

CloseTab(i) ==
    \/ EmptyTheTab
    \/ i = active /\ CloseActive
    \/ i # active /\ Remove({tabs[i]}, active, CurrentView)

(* close_other_tabs: the tab kept is shown first; pinned tabs stay.        *)
CloseOthers(i) ==
    Remove(Open \ ({tabs[i]} \cup pinned), i,
           IF i = active THEN CurrentView ELSE AfterSwitch(tabs[i]))

(* close_tabs_to_the_right: an active tab that would be closed gives way   *)
(* to the tab at i first.                                                  *)
CloseRight(i) ==
    LET gone == {tabs[k] : k \in (i + 1)..Len(tabs)} \ pinned
    IN IF Active \in gone
       THEN Remove(gone, i, AfterSwitch(tabs[i]))
       ELSE Remove(gone, active, CurrentView)
-----------------------------------------------------------------------------
Rearranged(from, to) ==
    /\ tabs' = Moved(tabs, from, to)
    /\ active' = ActiveAfterMove(active, from, to)
    /\ UNCHANGED <<opened, rowVars, filterVars, jobVars, edits>>

(* reorder_tab and move_tab: a tab dragged to an insertion slot.           *)
Reorder(from, slot) ==
    LET to == DropTarget(Len(tabs), from, slot) IN
    /\ from # to
    /\ pinned' = PinsAfterMove(tabs, pinned, from, to)
    /\ Rearranged(from, to)

(* toggle_pin_tab: pin_tab or unpin_tab.                                   *)
TogglePin(i) ==
    IF tabs[i] \in pinned
    THEN /\ pinned' = pinned \ {tabs[i]}
         /\ Rearranged(i, UnpinTarget(tabs, pinned, i))
    ELSE /\ pinned' = pinned \cup {tabs[i]}
         /\ Rearranged(i, PinTarget(tabs, pinned, i))
-----------------------------------------------------------------------------
SetFilter ==
    /\ filter' = Active
    /\ UNCHANGED <<stripVars, rowVars, stash, jobVars, edits>>

RunQuery ==
    /\ started < MaxResults
    /\ started' = started + 1
    /\ home' = [home EXCEPT ![started + 1] = Active]
    /\ running' = running \cup {started + 1}
    /\ UNCHANGED <<stripVars, rowVars, filterVars, edits>>

(* handle_query_result_message.  For the tab on the screen the result goes *)
(* to the display, and process_query_result copies it into the tab, a page *)
(* of server pagination does not; for another tab apply_result_to_         *)
(* background_tab writes the tab's own copy.                               *)
ResultArrives(r, paged) ==
    /\ r \in running
    /\ running' = running \ {r}
    /\ shown' = IF home[r] = Active THEN r ELSE shown
    /\ kept' = IF home[r] = Active /\ paged THEN kept
               ELSE [kept EXCEPT ![home[r]] = r]
    /\ UNCHANGED <<stripVars, strayed, filterVars, started, home, edits>>

(* A cell of the grid is edited.                                           *)
EditCell ==
    /\ shown # 0
    /\ edits' = IF edits = 0 THEN shown ELSE edits
    /\ UNCHANGED <<stripVars, rowVars, filterVars, jobVars>>

(* The pending edits are saved to the current connection, or discarded.    *)
FlushEdits ==
    /\ edits # 0
    /\ edits' = 0
    /\ UNCHANGED <<stripVars, rowVars, filterVars, jobVars>>
-----------------------------------------------------------------------------
Positions == DOMAIN tabs

Next ==
    \/ NewTab
    \/ OpenFile
    \/ \E i \in Positions :
          \/ SwitchTo(i)
          \/ CloseTab(i)
          \/ CloseOthers(i)
          \/ CloseRight(i)
          \/ TogglePin(i)
          \/ \E slot \in 1..(Len(tabs) + 1) : Reorder(i, slot)
    \/ SetFilter
    \/ RunQuery
    \/ \E r \in Results, paged \in BOOLEAN : ResultArrives(r, paged)
    \/ EditCell
    \/ FlushEdits

Spec == Init /\ [][Next]_vars
-----------------------------------------------------------------------------
(* The strip keeps its ids apart, and the pinned tabs stand before the     *)
(* others whatever is dragged, pinned, unpinned or closed (move_tab,       *)
(* pin_tab and unpin_tab each restore it on their own).                    *)
StripIsOrdered ==
    /\ \A k, l \in DOMAIN tabs : tabs[k] = tabs[l] => k = l
    /\ PinnedFirst(tabs, pinned)

(* A filter is only ever on the screen, or kept, for the tab it was typed  *)
(* in.  As long as no tab was opened or closed over rows that were not its *)
(* own, the same holds for rows: the grid shows a result of the active     *)
(* tab, and no tab that is not on the screen keeps a result of another.    *)
(* The tests of stash_active_tab_filter and of apply_result_to_background_ *)
(* tab try one order of steps each.                                        *)
FilterStaysHome ==
    /\ filter \in {0, Active}
    /\ \A t \in Open : stash[t] \in {0, t}
    /\ filter # 0 => stash[Active] = 0
RowsStayHome ==
    ~strayed =>
        /\ shown # 0 => home[shown] = Active
        /\ \A t \in Open \ {Active} : kept[t] # 0 => home[kept[t]] = t
DisplayStaysHome == FilterStaysHome /\ RowsStayHome

(* What grid and tab promise without that condition: the comment in        *)
(* handle_query_result_message says that the display state holds the       *)
(* result of the active tab and that other tabs hold theirs.               *)
OwnRows == shown # 0 => home[shown] = Active

(* The pending edits belong to the rows on the screen: their row numbers   *)
(* mean nothing in others, and a save takes table and connection from the  *)
(* display, as the comment of grid_refuse_while_dirty warns.               *)
EditsMatchRows == edits \in {0, shown}
=============================================================================
