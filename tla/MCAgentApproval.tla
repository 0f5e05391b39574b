--------------------------- MODULE MCAgentApproval ---------------------------
(***************************************************************************)
(* AgentApproval for TLC: batches that are allowed, refused or queued      *)
(* depending on the level, one of them with a read beside a risky write.   *)
(* One call is enough for the two processes to race over its row; what     *)
(* several calls do to each other is left to the proofs.                   *)
(***************************************************************************)
EXTENDS AgentApproval

Write == [kind |-> "write", risky |-> FALSE]
Risky == [kind |-> "write", risky |-> TRUE]
Read  == [kind |-> "read", risky |-> TRUE]
Ddl   == [kind |-> "ddl", risky |-> FALSE]
Admin == [kind |-> "admin", risky |-> FALSE]

EveryBatch == {{Write}, {Read, Risky}, {Ddl}, {Admin}, {Read}}
OneWrite   == {{Write}}

AnyClient  == BOOLEAN
NoElicits  == {FALSE}
=============================================================================
