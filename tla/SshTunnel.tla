------------------------------ MODULE SshTunnel ------------------------------
(***************************************************************************)
(* The ssh tunnel of one saved connection: the entry of its key in the     *)
(* registry TUNNELS, the lock of the key, and the callers of ensure_tunnel *)
(* on their blocking threads, which go on when nobody waits for them any   *)
(* more.  An ssh process has the name of the caller that spawned it.  The  *)
(* entry and its process go together here; the code kills and reaps the    *)
(* process on another thread (terminate_detached).                         *)
(***************************************************************************)
EXTENDS Integers, FiniteSets

CONSTANT Callers    \* the calls of ensure_tunnel

ASSUME CallersAssumption == Callers \subseteq Nat \ {0}

VARIABLES entry,    \* TUNNELS: the process registered for the key, or 0
          alive,    \* the ssh processes that run
          caller,   \* where each caller is
          port,     \* the process whose port it was given, or 0
          closing   \* a shutdown waits for the registry on a thread

tunnelVars == <<entry, alive, caller, port, closing>>

TunnelInit ==
    /\ entry = 0 /\ alive = {} /\ closing = FALSE
    /\ caller = [c \in Callers |-> "none"]
    /\ port = [c \in Callers |-> 0]

(* Inside ensure_tunnel_internal, past the lock of the key.                *)
Spawning == {c \in Callers : caller[c] = "spawning"}
Up(p) == p \in alive

(* spawn_blocking: c is about to take the lock of the key.                 *)
Calls(c) == caller' = [caller EXCEPT ![c] = "waiting"]

(* c holds the lock: a live tunnel is shared, a dead one replaced.         *)
Ensures(c) ==
    /\ IF Up(entry)
       THEN /\ caller' = [caller EXCEPT ![c] = "ready"]
            /\ port' = [port EXCEPT ![c] = entry]
            /\ UNCHANGED <<entry, alive>>
       ELSE /\ caller' = [caller EXCEPT ![c] = "spawning"]
            /\ alive' = alive \cup {c}
            /\ entry' = 0
            /\ UNCHANGED port
    /\ UNCHANGED closing

(* Faulty: nothing is locked while a tunnel is spawned.                    *)
EnsureUnlocked(c) == caller[c] = "waiting" /\ Ensures(c)

Ensure(c) ==
    /\ caller[c] = "waiting"
    /\ Spawning = {}
    /\ Ensures(c)

(* wait_until_ready saw the port accept a connection.                      *)
Spawned(c) ==
    /\ caller[c] = "spawning" /\ Up(c)
    /\ entry' = c
    /\ caller' = [caller EXCEPT ![c] = "ready"]
    /\ port' = [port EXCEPT ![c] = c]
    /\ UNCHANGED <<alive, closing>>

(* ssh exited, or 15 seconds have passed and it is killed.                 *)
SpawnFails(c) ==
    /\ caller[c] = "spawning"
    /\ caller' = [caller EXCEPT ![c] = "failed"]
    /\ alive' = alive \ {c}
    /\ UNCHANGED <<entry, port, closing>>

(* shutdown_by_id: at once, or, if the registry is in use, on a thread.    *)
Removed == entry' = 0 /\ alive' = alive \ {entry}

(* Faulty: the entry goes, its process does not.                           *)
RemovedOnly == entry' = 0 /\ UNCHANGED alive

ShutNow == Removed /\ UNCHANGED <<caller, port, closing>>
ShutLater == closing' = TRUE /\ UNCHANGED <<entry, alive, caller, port>>
ShutAtLast ==
    /\ closing
    /\ Removed
    /\ closing' = FALSE
    /\ UNCHANGED <<caller, port>>

(* ssh exits by itself: the network, or the other end.                     *)
TunnelDies ==
    /\ \E p \in alive : alive' = alive \ {p}
    /\ UNCHANGED <<entry, caller, port, closing>>

Thread(c) == Ensure(c) \/ Spawned(c) \/ SpawnFails(c)

(* Every ssh process is the one of the registry, which somebody can find   *)
(* and end, or is still being waited for by the caller that spawned it.    *)
NoTunnelIsLost == alive \subseteq {entry} \cup Spawning
=============================================================================
