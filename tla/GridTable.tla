------------------------------ MODULE GridTable ------------------------------
(***************************************************************************)
(* A database table under the statements of a grid save: rows with a key   *)
(* and a value, and the id that tells which row is meant.  The table has a *)
(* primary key, by which the WHERE of a statement names a row, or none,    *)
(* and then all columns are compared.                                      *)
(***************************************************************************)
EXTENDS Integers, Sequences, FiniteSetsExt

(* The elements of s at the positions in S, in their order.                *)
Picked(s, S) ==
    [m \in 1..Cardinality(S) |->
        s[CHOOSE k \in S : Cardinality({j \in S : j < k}) = m - 1]]

(* Positions of the rows a WHERE with the values of w matches.             *)
Matching(rows, w, keyed) ==
    {k \in DOMAIN rows : rows[k].key = w.key /\ (keyed \/ rows[k].val = w.val)}

(* The server fills in what an INSERT leaves out: 0 is DEFAULT.            *)
NextKey(rows) == 1 + Max({0} \cup {rows[k].key : k \in DOMAIN rows})
Filled(rows, r) ==
    [r EXCEPT !.key = IF @ = 0 THEN NextKey(rows) ELSE @,
              !.val = IF @ = 0 THEN 1 ELSE @]

Assigned(r, to, cols) ==
    [r EXCEPT !.key = IF "key" \in cols THEN to.key ELSE @,
              !.val = IF "val" \in cols THEN to.val ELSE @]

(* The rows after a statement.                                             *)
After(rows, s, keyed) ==
    LET hit == Matching(rows, s.where, keyed) IN
        CASE s.kind = "update" ->
              [k \in DOMAIN rows |-> IF k \in hit THEN Assigned(rows[k], s.to, s.set)
                                     ELSE rows[k]]
         [] s.kind = "insert" -> Append(rows, Filled(rows, s.to))
         [] OTHER -> Picked(rows, DOMAIN rows \ hit)

(* rows_affected is checked for UPDATE and DELETE only (expected_rows).    *)
Expected(rows, s, keyed) ==
    s.kind = "insert" \/ \E k \in DOMAIN rows : Matching(rows, s.where, keyed) = {k}

KeysDiffer(rows) == \A k, l \in DOMAIN rows : rows[k].key = rows[l].key => k = l

(* The rows after the first n statements, and after all of them, in order. *)
AfterFirst(rows, stmts, keyed, n) ==
    LET after[k \in 0..Len(stmts)] ==
            IF k = 0 THEN rows ELSE After(after[k - 1], stmts[k], keyed)
    IN after[n]

AfterAll(rows, stmts, keyed) == AfterFirst(rows, stmts, keyed, Len(stmts))
=============================================================================
