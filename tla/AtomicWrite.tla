----------------------------- MODULE AtomicWrite -----------------------------
(***************************************************************************)
(* What execute_in_transaction promises a grid save: the table changes by  *)
(* all of its statements at once or not at all, at most once, and the      *)
(* answer is "saved" only after that.                                      *)
(***************************************************************************)
CONSTANTS Saves,
          AfterAll(_, _, _)   \* the rows after a batch of statements

VARIABLES table,    \* the rows
          keyed,    \* the table has a primary key
          batch,    \* the statements of each save, <<>> before it is submitted
          applied,  \* the saves that changed the table
          answered  \* the saves answered "saved"

writeVars == <<table, keyed, batch, applied, answered>>

Init ==
    /\ batch = [j \in Saves |-> <<>>]
    /\ applied = {}
    /\ answered = {}

Submit(j) ==
    /\ batch[j] = <<>>
    /\ batch' = [batch EXCEPT ![j] = batch'[j]]
    /\ UNCHANGED <<table, keyed, applied, answered>>

(* The answer is lost, or an error, although the rows are written.         *)
Apply(j) ==
    /\ batch[j] # <<>>
    /\ j \notin applied
    /\ applied' = applied \cup {j}
    /\ table' = AfterAll(table, batch[j], keyed)
    /\ answered' \in {answered, answered \cup {j}}
    /\ UNCHANGED <<keyed, batch>>

Next == \E j \in Saves : Submit(j) \/ Apply(j)

Spec == Init /\ [][Next]_writeVars
=============================================================================
