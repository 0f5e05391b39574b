------------------------------ MODULE GridSheet ------------------------------
(***************************************************************************)
(* The editable result grid as values: the rows on the screen, the queue   *)
(* of pending edits, the undo and redo stacks and the cell being edited,   *)
(* with the operations of spreadsheet.rs and grid_state.rs on them, and    *)
(* the statements a save makes of the queue.  A row has two columns, key   *)
(* and val; 0 is the DEFAULT of a new row, which the server replaces.  The *)
(* id of a row is not in the code: it tells which row a position in the    *)
(* grid was meant to name.  A Rust index i is position i + 1.              *)
(***************************************************************************)
EXTENDS GridTable, SequencesExt

CONSTANTS UndoLimit,   \* UNDO_LIMIT
          Values       \* what can be typed into a cell

ASSUME SheetAssumption == UndoLimit \in Nat \ {0} /\ Values \subseteq Nat \ {0}

Default == 0
Columns == {"key", "val"}
NoRow   == [id |-> 0, key |-> 0, val |-> 0]
NoCell  == [row |-> 0, col |-> "val", id |-> 0]

-----------------------------------------------------------------------------
(* CellEditOperation.  snap is row_values of an Update, values otherwise.  *)
Update(i, col, old, new, snap) ==
    [kind |-> "update", row |-> i, col |-> col, old |-> old, new |-> new,
     snap |-> snap]
InsertRow(i, values) ==
    [kind |-> "insert", row |-> i, col |-> "val", old |-> 0, new |-> 0,
     snap |-> values]
DeleteRow(i, values) == [InsertRow(i, values) EXCEPT !.kind = "delete"]

PendingRows(ops, kind) ==
    {ops[k].row : k \in {j \in DOMAIN ops : ops[j].kind = kind}}

(* shift_op_rows *)
Shifted(ops, from, by) ==
    [k \in DOMAIN ops |->
        IF ops[k].row >= from THEN [ops[k] EXCEPT !.row = @ + by] ELSE ops[k]]

OpsOffRow(ops, i) == Picked(ops, {k \in DOMAIN ops : ops[k].row # i})
Restored(ops, i) ==
    Picked(ops, {k \in DOMAIN ops : ops[k].kind # "delete" \/ ops[k].row # i})

(* DataChange: one reversible change of the rows.                          *)
CellChange(i, col, was, now) ==
    [kind |-> "cell", row |-> i, col |-> col, was |-> was, now |-> now,
     values |-> NoRow]
RowInserted(i, values) ==
    [kind |-> "insert", row |-> i, col |-> "val", was |-> 0, now |-> 0,
     values |-> values]
RowRemoved(i, values) == [RowInserted(i, values) EXCEPT !.kind = "remove"]

(* grid_set_cell_raw, grid_insert_row_raw and grid_remove_row_raw.         *)
WithCell(rows, i, col, v) ==
    IF i \in DOMAIN rows THEN [rows EXCEPT ![i][col] = v] ELSE rows
WithRow(rows, i, values) ==
    InsertAt(rows, IF i > Len(rows) THEN Len(rows) + 1 ELSE i, values)
WithoutRow(rows, i) == IF i \in DOMAIN rows THEN RemoveAt(rows, i) ELSE rows

(* grid_apply_change *)
Applied(rows, c, forward) ==
    CASE c.kind = "cell" ->
            WithCell(rows, c.row, c.col, IF forward THEN c.now ELSE c.was)
      [] c.kind = (IF forward THEN "insert" ELSE "remove") ->
            WithRow(rows, c.row, c.values)
      [] OTHER -> WithoutRow(rows, c.row)

Replayed(rows, changes, forward) ==
    LET after[k \in 0..Len(changes)] ==
            IF k = 0 THEN rows ELSE Applied(after[k - 1], changes[k], forward)
    IN after[Len(changes)]
Forward(rows, changes)  == Replayed(rows, changes, TRUE)
Backward(rows, changes) == Replayed(rows, Reverse(changes), FALSE)
-----------------------------------------------------------------------------
(* A sheet: rows, queue (pending_operations), undo, redo and cell          *)
(* (editing_cell).  base and lost are history: the rows before the oldest  *)
(* step of undo, and the steps that fell off the stack since it was        *)
(* cleared.                                                                *)
Loaded(rows) == [rows |-> rows, queue |-> <<>>, undo |-> <<>>, redo |-> <<>>,
                 cell |-> NoCell, base |-> rows, lost |-> 0]

(* grid_clear_history *)
HistoryCleared(s) == [s EXCEPT !.undo = <<>>, !.redo = <<>>, !.base = s.rows,
                               !.lost = 0]


(* grid_record: the step from sheet s to rows and queue, done by changes.  *)
Recorded(s, rows, queue, changes) ==
    LET entry == [before |-> s.queue, after |-> queue, changes |-> changes]
        undo  == Append(s.undo, entry)
        next  == [s EXCEPT !.rows = rows, !.queue = queue, !.redo = <<>>,
                           !.undo = undo]
    IN IF changes = <<>> /\ queue = s.queue THEN [s EXCEPT !.rows = rows]
       ELSE IF Len(undo) <= UndoLimit THEN next
       ELSE [next EXCEPT !.undo = Tail(undo), !.lost = @ + 1,
                         !.base = Forward(@, Head(undo).changes)]

(* spreadsheet_start_cell_edit: not in a row marked for deletion.          *)
Started(s, i, col) ==
    IF i \in PendingRows(s.queue, "delete") THEN s
    ELSE [s EXCEPT !.cell = [row |-> i, col |-> col, id |-> s.rows[i].id]]

(* Faulty: the old value is read after the cell was set.                   *)
QueueAfterSet(s, i, col, v) == Append(s.queue, Update(i, col, v, v, s.rows[i]))

(* What an edit of a cell does to the queue: the values of a new row       *)
(* change in its InsertRow, any other row gets an Update.                  *)
QueueAfterEdit(s, i, col, v) ==
    LET k == SelectInSeq(s.queue, LAMBDA op : op.kind = "insert" /\ op.row = i)
    IN IF k # 0
       THEN [s.queue EXCEPT ![k].snap[col] = v]
       ELSE Append(s.queue, Update(i, col, s.rows[i][col], v, s.rows[i]))

(* spreadsheet_finish_cell_edit(true) with v typed, or (false).            *)
Cancelled(s) == [s EXCEPT !.cell = NoCell]
Finished(s, v) ==
    LET i   == s.cell.row
        col == s.cell.col
    IN IF i \notin DOMAIN s.rows \/ s.rows[i][col] = v THEN Cancelled(s)
       ELSE Recorded(Cancelled(s), WithCell(s.rows, i, col, v),
                     QueueAfterEdit(s, i, col, v),
                     <<CellChange(i, col, s.rows[i][col], v)>>)

(* spreadsheet_add_row: the new row is last, and its first cell is edited. *)
RowAdded(s, id) ==
    LET i   == Len(s.rows) + 1
        new == [NoRow EXCEPT !.id = id]
    IN Started(Recorded(s, WithRow(s.rows, i, new),
                        Append(s.queue, InsertRow(i, new)),
                        <<RowInserted(i, new)>>), i, "key")

(* Faulty: the operations below the copy keep their positions.             *)
DuplicatedUnshifted(s, i, id, keyed) ==
    LET new == [s.rows[i] EXCEPT !.id = id,
                                 !.key = IF keyed THEN Default ELSE @]
    IN Recorded(s, WithRow(s.rows, i + 1, new),
                Append(s.queue, InsertRow(i + 1, new)),
                <<RowInserted(i + 1, new)>>)

(* spreadsheet_duplicate_selected_row *)
Duplicated(s, i, id, keyed) ==
    LET new == [s.rows[i] EXCEPT !.id = id,
                                 !.key = IF keyed THEN Default ELSE @]
    IN Recorded(s, WithRow(s.rows, i + 1, new),
                Append(Shifted(s.queue, i + 1, 1), InsertRow(i + 1, new)),
                <<RowInserted(i + 1, new)>>)

(* Faulty: a new row leaves the grid but its removal is not recorded.      *)
ToggledForgetful(t, i) ==
    IF i \in PendingRows(t.queue, "insert")
    THEN [t EXCEPT !.rows = WithoutRow(@, i),
                   !.queue = Shifted(OpsOffRow(@, i), i + 1, -1)]
    ELSE IF i \in PendingRows(t.queue, "delete")
    THEN [t EXCEPT !.queue = Restored(@, i)]
    ELSE [t EXCEPT !.queue = Append(@, DeleteRow(i, t.rows[i]))]

(* One row of grid_toggle_delete_rows: a new row goes, a row marked for    *)
(* deletion is restored, any other is marked.                              *)
Toggled(t, i) ==
    IF i \in PendingRows(t.queue, "insert")
    THEN [t EXCEPT !.rows = WithoutRow(@, i),
                   !.queue = Shifted(OpsOffRow(@, i), i + 1, -1),
                   !.changes = Append(@, RowRemoved(i, t.rows[i]))]
    ELSE IF i \in PendingRows(t.queue, "delete")
    THEN [t EXCEPT !.queue = Restored(@, i)]
    ELSE [t EXCEPT !.queue = Append(@, DeleteRow(i, t.rows[i]))]

(* grid_toggle_delete_rows, from the last row to the first.                *)
DeleteToggled(s, S) ==
    LET n == Len(s.rows)
        t[k \in 0..n] ==
            IF k = 0 THEN [rows |-> s.rows, queue |-> s.queue, changes |-> <<>>]
            ELSE IF n + 1 - k \in S THEN Toggled(t[k - 1], n + 1 - k)
            ELSE t[k - 1]
        last == t[n]
    IN Recorded(s, last.rows, last.queue, last.changes)

Undone(s) ==
    IF s.undo = <<>> THEN s
    ELSE [s EXCEPT !.rows = Backward(@, Last(s.undo).changes),
                   !.queue = Last(s.undo).before,
                   !.undo = Front(@),
                   !.redo = Append(@, Last(s.undo))]

Redone(s) ==
    IF s.redo = <<>> THEN s
    ELSE [s EXCEPT !.rows = Forward(@, Last(s.redo).changes),
                   !.queue = Last(s.redo).after,
                   !.redo = Front(@),
                   !.undo = Append(@, Last(s.redo))]

(* The rows once every step that can be undone is undone.                  *)
Unwound(s) ==
    LET n == Len(s.undo)
        before[k \in 0..n] ==
            IF k = 0 THEN s.rows
            ELSE Backward(before[k - 1], s.undo[n + 1 - k].changes)
    IN before[n]

(* grid_drop_saved_deleted_rows *)
DroppedRow(s, i) == [s EXCEPT !.rows = WithoutRow(@, i),
                              !.queue = Shifted(@, i + 1, -1)]
DeletedDropped(s, saved) ==
    LET n == Len(s.rows)
        t[k \in 0..n] ==
            IF k = 0 THEN s
            ELSE IF n + 1 - k \in PendingRows(saved, "delete")
            THEN DroppedRow(t[k - 1], n + 1 - k)
            ELSE t[k - 1]
    IN t[n]
-----------------------------------------------------------------------------
FirstEdits(ops, i, col) ==
    {k \in DOMAIN ops : ops[k].kind = "update" /\ ops[k].row = i
                                               /\ ops[k].col = col}
(* The value a cell had, and the one it gets, by the edits in ops.         *)
OldValue(ops, i, col, default) ==
    LET edits == FirstEdits(ops, i, col)
    IN IF edits = {} THEN default ELSE ops[Min(edits)].old
NewValue(ops, i, col, default) ==
    LET edits == FirstEdits(ops, i, col)
    IN IF edits = {} THEN default ELSE ops[Max(edits)].new

(* spreadsheet_build_where_clause: the row with the original values.       *)
Original(ops, i, row) ==
    [row EXCEPT !.key = OldValue(ops, i, "key", @),
                !.val = OldValue(ops, i, "val", @)]

Statement(s, op) ==
    LET where == Original(s.queue, op.row, op.snap) IN
    CASE op.kind = "update" ->
            [kind |-> "update", where |-> where,
             to |-> [id |-> where.id,
                     key |-> NewValue(s.queue, op.row, "key", where.key),
                     val |-> NewValue(s.queue, op.row, "val", where.val)],
             set |-> {c \in Columns : FirstEdits(s.queue, op.row, c) # {}}]
      [] op.kind = "insert" ->
            [kind |-> "insert", where |-> NoRow, set |-> {},
             to |-> IF op.row \in DOMAIN s.rows THEN s.rows[op.row] ELSE op.snap]
      [] OTHER ->
            [kind |-> "delete", where |-> where, to |-> NoRow, set |-> {}]

(* spreadsheet_generate_statements: one UPDATE for all edits of a row.     *)
Statements(s) ==
    LET repeated(k) == /\ s.queue[k].kind = "update"
                       /\ \E j \in 1..(k - 1) : /\ s.queue[j].kind = "update"
                                                /\ s.queue[j].row = s.queue[k].row
        first == Picked(s.queue, {k \in DOMAIN s.queue : ~repeated(k)})
    IN [k \in DOMAIN first |-> Statement(s, first[k])]

(* The rows as they were before the edits in the queue.                    *)
Rewound(s) ==
    LET original == [i \in DOMAIN s.rows |-> Original(s.queue, i, s.rows[i])]
    IN Picked(original, DOMAIN s.rows \ PendingRows(s.queue, "insert"))
=============================================================================
