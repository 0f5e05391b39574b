----------------------------- MODULE MCTxSession -----------------------------
(***************************************************************************)
(* TxSession for TLC: one tab that submits up to MaxJobs commands, against *)
(* every engine.  MaxJobs = 3 is the least that shows the hazards: one     *)
(* statement to open the transaction, one that goes wrong, one after it.   *)
(***************************************************************************)
EXTENDS TxSession

EveryEngine == AllEngines
EveryQuirk  == AllQuirks
NoQuirk     == {}

(* The engines and behaviours of the runs that look for one disagreement.  *)
JustMySql    == {"mysql"}
JustPostgres == {"postgres"}
Autocommits  == {"ImplicitCommit"}
Refuses      == {"CommitFails"}
=============================================================================
