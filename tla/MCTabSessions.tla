---------------------------- MODULE MCTabSessions ----------------------------
(***************************************************************************)
(* Instances of TabSessions: what can be picked above the editor.          *)
(***************************************************************************)
EXTENDS TabSessions

OneTarget  == {[conn |-> 1, db |-> 1]}
TwoTargets == OneTarget \cup {[conn |-> 2, db |-> 1]}
Databases  == OneTarget \cup {[conn |-> 1, db |-> 2]}
AllTargets == TwoTargets \cup Databases
=============================================================================
