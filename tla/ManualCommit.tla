---------------------------- MODULE ManualCommit -----------------------------
(***************************************************************************)
(* What manual-commit mode promises the user of a tab, whatever runs it:   *)
(* statements join a transaction that is opened for them, and become       *)
(* durable all together when the user commits, or not at all.              *)
(* (docs/adr/0001, and the tooltip of the "Manual commit" box.)            *)
(***************************************************************************)
CONSTANT Statements

VARIABLES open,     \* a transaction is open
          pending,  \* the statements executed in it
          durable   \* the statements that are committed

vars == <<open, pending, durable>>

Init == open = FALSE /\ pending = {} /\ durable = {}

Begin == /\ ~open
         /\ open' = TRUE
         /\ UNCHANGED <<pending, durable>>

Run(s) == /\ open
          /\ s \notin durable
          /\ pending' = pending \cup {s}
          /\ UNCHANGED <<open, durable>>

Finish(kept) == /\ open
                /\ open' = FALSE
                /\ durable' = durable \cup kept
                /\ pending' = {}

(* All or nothing.                                                         *)
Commit   == Finish(pending)
Rollback == Finish({})

Next == Begin \/ (\E s \in Statements : Run(s)) \/ Commit \/ Rollback

Spec == Init /\ [][Next]_vars
=============================================================================
