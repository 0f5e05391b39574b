------------------------------ MODULE GridEdits ------------------------------
(***************************************************************************)
(* Editing a table in the result grid and saving it: the operations of     *)
(* spreadsheet.rs and data_table/grid_state.rs on one grid, the save jobs  *)
(* of AtomicSave, the callback that handles their answer, and the reload   *)
(* that follows when the grid browses a table.                             *)
(*                                                                         *)
(* The grid is one page of one table.  The review dialog is left out (the  *)
(* statements are generated again when it is confirmed), and so are data   *)
(* rewind, joins, binary columns and engines without transactions.  A      *)
(* reload reads the rows and shows them in one step.                       *)
(***************************************************************************)
EXTENDS GridSheet, AtomicSave

CONSTANTS FirstRows,   \* the rows of the table in the beginning
          MaxRows,     \* rows in the grid
          MaxEdits     \* steps of the user that change the queue

\* A row of the table has a value in every column: Default is of the grid.
ASSUME GridAssumption == /\ MaxRows \in Nat /\ MaxEdits \in Nat
                         /\ FirstRows \in Seq([id : Nat, key : Nat \ {Default},
                                               val : Nat \ {Default}])

VARIABLES sheet,      \* the grid: rows, queue, undo, redo and cell
          reloads,    \* reloads asked for and not yet answered
          sent,       \* saved_ops_snapshot of each save
          ids,        \* ids given to rows so far
          edits,      \* edits so far
          loaded,     \* history: the rows as last loaded or saved
          replaced,   \* history: a reload replaced the rows under edits
          disturbed   \* history: the user did not wait for a save or a
                      \* reload, a save wrote without saying so, or a
                      \* discard could not undo all

gridVars == <<sheet, reloads, sent, ids, edits, loaded, replaced, disturbed>>
vars == <<gridVars, saveVars>>

Busy == reloads > 0 \/ \E j \in Saves : InFlight(j)

Init ==
    /\ SaveInit
    /\ table = FirstRows
    /\ sheet = Loaded(FirstRows)
    /\ reloads = 0
    /\ sent = [j \in Saves |-> <<>>]
    /\ ids = Len(FirstRows)
    /\ edits = 0
    /\ loaded = FirstRows
    /\ replaced = FALSE
    /\ disturbed = FALSE
-----------------------------------------------------------------------------
(* What is typed into the open cell before it is finished.                 *)
Typed == IF sheet.cell.row \in DOMAIN sheet.rows
         THEN Values \cup {sheet.rows[sheet.cell.row][sheet.cell.col]}
         ELSE Values

(* The sheets the current one becomes when the open cell is finished.      *)
FinishedSheets == IF sheet.cell = NoCell THEN {sheet}
                  ELSE {Finished(sheet, v) : v \in Typed}

(* The user changes the grid.                                              *)
Edits(s, newIds) ==
    /\ sheet' = s
    /\ Len(s.rows) <= MaxRows
    /\ edits < MaxEdits
    /\ ~replaced
    /\ \E j \in Saves : jobs[j].phase = "none" \/ InFlight(j)
    /\ edits' = edits + 1
    /\ ids' = ids + newIds
    /\ disturbed' = (disturbed \/ Busy)
    /\ UNCHANGED <<reloads, sent, loaded, replaced, saveVars>>

StartEdit ==
    \E s \in FinishedSheets : \E i \in DOMAIN s.rows, col \in Columns :
        Edits(Started(s, i, col), 0)

(* Enter or a click elsewhere, and Esc.                                    *)
FinishEdit ==
    /\ sheet.cell # NoCell
    /\ sheet' \in FinishedSheets \cup {Cancelled(sheet)}
    /\ disturbed' = (disturbed \/ Busy)
    /\ UNCHANGED <<reloads, sent, ids, edits, loaded, replaced, saveVars>>

AddRow == \E s \in FinishedSheets : Edits(RowAdded(s, ids + 1), 1)

DuplicateRow ==
    \E s \in FinishedSheets : \E i \in DOMAIN s.rows :
        Edits(Duplicated(s, i, ids + 1, keyed), 1)

ToggleDelete ==
    \E s \in FinishedSheets : \E S \in SUBSET DOMAIN s.rows \ {{}} :
        Edits(DeleteToggled(s, S), 0)

Undo == \E s \in FinishedSheets : s.undo # <<>> /\ Edits(Undone(s), 0)
Redo == \E s \in FinishedSheets : s.redo # <<>> /\ Edits(Redone(s), 0)

(* The grid is read again if it browses a table (is_table_browse_mode).    *)
AskReload == reloads' \in {reloads, reloads + 1}

(* Esc: discard_pending_changes.                                           *)
Discard ==
    /\ sheet.queue # <<>>
    /\ sheet' = Loaded(Unwound(sheet))
    /\ loaded' = sheet.base
    /\ AskReload
    /\ disturbed' = (disturbed \/ Busy \/ sheet.lost > 0)
    /\ UNCHANGED <<sent, ids, edits, replaced, saveVars>>
-----------------------------------------------------------------------------
(* The save shortcut, the review confirmed or skipped: request_save_review *)
(* and spreadsheet_save_changes.  Nothing looks for a save in flight.      *)
Save(j) ==
    \E s \in FinishedSheets :
        /\ s.queue # <<>> /\ Statements(s) # <<>>
        /\ Spawn(j, Statements(s))
        /\ sent' = [sent EXCEPT ![j] = s.queue]
        /\ sheet' = s
        /\ disturbed' = (disturbed \/ Busy)
        /\ UNCHANGED <<reloads, ids, edits, loaded, replaced>>

(* What the answer takes off the queue: saved_ops_snapshot, up to the      *)
(* length of the queue.  The queue is intact if it still starts with that. *)
Sent(j)   == SubSeq(sent[j], 1, Min({Len(sent[j]), Len(sheet.queue)}))
Plain(op) == [op EXCEPT !.snap.id = 0]
Intact(j) == \A k \in DOMAIN Sent(j) : Plain(sheet.queue[k]) = Plain(Sent(j)[k])

(* Faulty: the rows a save deleted stay in the grid.                       *)
DrainedOnly(j) ==
    HistoryCleared([sheet EXCEPT !.queue = SubSeq(@, Len(Sent(j)) + 1, Len(@))])

(* The grid after the callback of a save that succeeded: the edits made    *)
(* since stay pending, unless the queue is not intact.                     *)
Drained(j) ==
    LET rest == SubSeq(sheet.queue, Len(Sent(j)) + 1, Len(sheet.queue))
    IN HistoryCleared(
           IF Intact(j) THEN DeletedDropped([sheet EXCEPT !.queue = rest], Sent(j))
           ELSE [sheet EXCEPT !.queue = <<>>])

SaveSucceeded(j) ==
    /\ jobs[j].phase = "ended" /\ jobs[j].saved
    /\ Handled(j)
    /\ sheet' = Drained(j)
    /\ loaded' = Rewound(sheet')
    /\ AskReload
    /\ UNCHANGED <<sent, ids, edits, replaced, disturbed>>

(* The operations stay in the queue.                                       *)
SaveFailed(j) ==
    /\ jobs[j].phase = "ended" /\ ~jobs[j].saved
    /\ Handled(j)
    /\ disturbed' = (disturbed \/ jobs[j].committed)
    /\ UNCHANGED <<sheet, reloads, sent, ids, edits, loaded, replaced>>

(* The user cancels the save: its callback is never called.                *)
CancelSave(j) ==
    /\ Cancel(j)
    /\ disturbed' = (disturbed \/ jobs[j].committed)
    /\ UNCHANGED <<sheet, reloads, sent, ids, edits, loaded, replaced>>

(* The rows of refresh_current_table_data arrive, or an error does.        *)
Pristine == /\ sheet.queue = <<>> /\ sheet.undo = <<>> /\ sheet.redo = <<>>
            /\ sheet.cell = NoCell

Reload ==
    /\ reloads > 0
    /\ reloads' = reloads - 1
    /\ \/ /\ sheet' = [sheet EXCEPT !.rows = table, !.base = table]
          /\ loaded' = table
          /\ replaced' = (replaced \/ ~Pristine)
       \/ UNCHANGED <<sheet, loaded, replaced>>
    /\ UNCHANGED <<sent, ids, edits, disturbed, saveVars>>

SaveSteps(j) == SaveStep(j) /\ UNCHANGED gridVars

Next ==
    \/ StartEdit \/ FinishEdit \/ AddRow \/ DuplicateRow \/ ToggleDelete
    \/ Undo \/ Redo \/ Discard \/ Reload
    \/ \E j \in Saves : \/ Save(j) \/ SaveSteps(j) \/ CancelSave(j)
                        \/ SaveSucceeded(j) \/ SaveFailed(j)

Spec == Init /\ [][Next]_vars
-----------------------------------------------------------------------------
RowSet(rows) == \A k \in DOMAIN rows : rows[k] \in [id : Nat, key : Nat, val : Nat]

TypeOK ==
    /\ RowSet(table) /\ RowSet(sheet.rows) /\ RowSet(loaded)
    /\ \A k \in DOMAIN sheet.queue :
          /\ sheet.queue[k].kind \in {"update", "insert", "delete"}
          /\ sheet.queue[k].row \in Nat \ {0}
    /\ Len(sheet.undo) <= UndoLimit

(* Every pending operation names, by its position, the row it was made on, *)
(* whatever is copied, removed, undone or saved in between, also while a   *)
(* save is under way (shift_op_rows, grid_toggle_delete_rows,              *)
(* grid_drop_saved_deleted_rows); so does the cell being edited if the     *)
(* user waits for saves.  A reload that replaces the rows ends it.         *)
PositionsStayHome ==
    /\ ~replaced => \A k \in DOMAIN sheet.queue :
          /\ sheet.queue[k].row \in DOMAIN sheet.rows
          /\ sheet.rows[sheet.queue[k].row].id = sheet.queue[k].snap.id
    /\ ~disturbed /\ sheet.cell # NoCell =>
          sheet.rows[sheet.cell.row].id = sheet.cell.id

(* Undoing step by step leads back to the rows before the oldest step, and *)
(* its queues fit together; Esc therefore restores what was loaded, unless *)
(* steps were lost to UNDO_LIMIT (grid_undo, discard_pending_changes).     *)
UndoRestores ==
    /\ ~replaced =>
          /\ Unwound(sheet) = sheet.base
          /\ sheet.undo # <<>> => Last(sheet.undo).after = sheet.queue
          /\ \A k \in 2..Len(sheet.undo) :
                sheet.undo[k].before = sheet.undo[k - 1].after
    /\ ~disturbed /\ sheet.lost = 0 => sheet.base = loaded

(* The queue is the difference between what was loaded and what is shown:  *)
(* without new rows, and with the old values of its first edits, the grid  *)
(* is what was loaded.  The WHERE of a save is made from these values.     *)
QueueExplainsGrid == ~replaced => Rewound(sheet) = loaded

(* A row with DEFAULT in a column stands for any value of the server.      *)
Stored(r) == \E l \in DOMAIN table :
                /\ r.id = table[l].id
                /\ r.key \in {Default, table[l].key}
                /\ r.val \in {Default, table[l].val}

(* After a save the table holds the rows the grid shows as saved: what the *)
(* comment of spreadsheet_generate_statements wants of a WHERE made from   *)
(* the original values, "tetap cocok setelah kolom pertama berubah".       *)
SavedIsShown ==
    ~disturbed /\ ~Busy => /\ Len(loaded) = Len(table)
                          /\ \A k \in DOMAIN loaded : Stored(loaded[k])

(* The same as long as no save edits and deletes one row.                  *)
Crossed == \E j \in Saves : PendingRows(sent[j], "update")
                               \cap PendingRows(sent[j], "delete") # {}
LoadedIsStored == ~Crossed => SavedIsShown

(* "Edit yang dibuat selama proses simpan berjalan tidak boleh ikut        *)
(* terhapus saat simpan sukses" (execute_spreadsheet_statements): an       *)
(* operation that was not sent is still pending after the answer.          *)
StillPending(op) == \E k \in DOMAIN sheet'.queue :
                       sheet'.queue[k].kind = op.kind /\ sheet'.queue[k].snap = op.snap
LateEditsSurvive ==
    [][\A j \in Saves : SaveSucceeded(j) =>
          \A k \in DOMAIN sheet.queue :
              \/ \E l \in DOMAIN sent[j] : sheet.queue[k] = sent[j][l]
              \/ StillPending(sheet.queue[k])]_vars
=============================================================================
