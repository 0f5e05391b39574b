----------------------------- MODULE MCGridEdits -----------------------------
(***************************************************************************)
(* Instances of GridEdits: a table of one or two rows.                     *)
(***************************************************************************)
EXTENDS GridEdits

OneRow  == <<[id |-> 1, key |-> 1, val |-> 1]>>
TwoRows == <<[id |-> 1, key |-> 1, val |-> 1], [id |-> 2, key |-> 2, val |-> 1]>>
=============================================================================
