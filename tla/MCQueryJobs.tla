----------------------------- MODULE MCQueryJobs -----------------------------
(***************************************************************************)
(* QueryJobs for TLC.  Two tabs are the least for "another tab"; two jobs  *)
(* make a script; a third is a job beside a script.                        *)
(***************************************************************************)
EXTENDS QueryJobs

JustStatements      == {"query", "batch"}
ScriptsAndCallbacks == {"batch", "callback"}
Plain               == {"query", "batch", "callback"}
Pages               == {"paged", "query"}
Callbacks           == {"callback", "query"}
Everything          == AllKinds
=============================================================================
