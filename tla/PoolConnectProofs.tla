-------------------------- MODULE PoolConnectProofs --------------------------
(***************************************************************************)
(* What holds of a connection, its attempts and its tunnel for any number  *)
(* of attempts, steps and faults and all the Quirks: no ssh process runs   *)
(* unregistered; a cancellation hits no attempt begun after it, but for a  *)
(* sync that begins while the raised flag is registered; and, unless one   *)
(* of the named circumstances has happened, a connection that is called    *)
(* off stays off and no pool is handed out over a dead tunnel.             *)
(***************************************************************************)
EXTENDS PoolConnect, SequenceTheorems, TLAPS

CallerStages == {"none", "waiting", "spawning", "ready", "failed"}

(* One caller spawns at a time, for the key is locked; the entry is empty  *)
(* while it does.                                                          *)
TunnelInv ==
    /\ caller \in [Callers -> CallerStages]
    /\ port \in [Callers -> Nat]
    /\ entry \in Nat /\ alive \subseteq Callers /\ closing \in BOOLEAN
    /\ NoTunnelIsLost
    /\ \A c, d \in Spawning : c = d
    /\ Spawning # {} => entry = 0

Conn == [local : Nat, shared : Nat, pending : BOOLEAN, error : BOOLEAN,
         flag : Nat, raised : SUBSET Nat]

Attempt == [kind : {"none", "pool", "quick", "sync"}, stage : Stages,
            flag : Nat, exposed : BOOLEAN]

Look0 == [for : {"nothing", "query", "another pool", "picture", "data",
                 "quick"}, stale : Nat]

Numbers ==
    /\ begun \in 0..MaxAttempts
    /\ conn \in Conn
    /\ conn.local <= begun /\ conn.shared <= begun
    /\ conn.flag <= begun /\ conn.raised \subseteq 1..begun
    /\ attempts \in [Ids -> Attempt]
    /\ \A a \in Ids : attempts[a].flag <= begun
    /\ entry <= begun /\ alive \subseteq 1..begun
    /\ slow \subseteq Ids /\ answers \in Seq(BOOLEAN)
    /\ looking \in Look0
    /\ off \in BOOLEAN /\ calledoff \in 0..begun
    /\ stands \in BOOLEAN /\ served \in BOOLEAN
    /\ broken \subseteq {"off", "served"}

(* Where an attempt can be, and what the UI thread does in person.         *)
Attempts ==
    /\ \A a \in Ids :
          /\ attempts[a].stage = "none" <=> a > begun
          /\ attempts[a].kind = "none" <=> attempts[a].stage \in {"none", "ended"}
          /\ attempts[a].stage \in {"none", "queued"} => caller[a] = "none"
          /\ attempts[a].kind = "quick" => looking.for = "quick"
          /\ attempts[a].stage = "reading" => attempts[a].kind = "sync"
    /\ \A a, b \in Ids :
          attempts[a].kind = "quick" /\ attempts[b].kind = "quick" => a = b
    /\ looking.for = "nothing" => looking.stale = 0

(* Nobody has called the connection off since an attempt began: then       *)
(* neither the flag it has nor the one it would find now is raised.        *)
FlagInv ==
    /\ \A a \in UnderWay : Unaware(a) => ~Cancelled(conn) /\ ~Stopped(a)
    /\ stands

(* Unless attempts have overlapped, one is under way at most.              *)
Alone ==
    /\ \A a, b \in UnderWay \cup Calling : a = b
    /\ answers # <<>> => UnderWay = {}

(* What is under way when the connection is called off has its flag        *)
(* raised, and has not looked at it for the last time.                     *)
OffInv ==
    /\ Alone
    /\ slow = {}
    /\ \A a \in OfKind("pool") : conn.pending => conn.flag = a
    /\ off =>
          /\ ~HasPool(conn) /\ ~conn.pending
          /\ \A a \in UnderWay :
                /\ attempts[a].kind = "pool"
                /\ attempts[a].stage \in {"queued", "dialing", "made"}
                /\ ~conn.error
                /\ conn.flag = a /\ a \in conn.raised

(* The tunnel of pool a, if there is one, is the one a was made over.      *)
Linked(a) == Up(entry) => port[a] = entry

Pools == {conn.local, conn.shared} \ {0}

Past(a) == attempts[a].stage \in {"reading", "ended"}

(* Nobody asks for a tunnel while there is a pool, so that the pool's      *)
(* tunnel is the one of the registry; a pool found to be dead is not there *)
(* any more, and never comes again.                                        *)
ServedInv ==
    /\ Alone
    /\ served
    /\ Calling # {} => Pools = {}
    /\ \A a \in UnderWay :
          /\ attempts[a].stage \in {"dialing", "made", "passed"} => Pools = {}
          /\ attempts[a].stage = "queued" =>
                IF attempts[a].kind = "sync"
                THEN conn.local # 0 => conn.shared # 0 ELSE Pools = {}
          /\ attempts[a].stage \in {"made", "passed"} => caller[a] = "ready"
          /\ attempts[a].stage \in {"dialing", "made", "passed"}
                /\ caller[a] = "ready" => Linked(a)
    /\ \A a \in Pools : caller[a] = "ready" /\ Linked(a) /\ Past(a)
    /\ looking.stale # 0 =>
          looking.stale \in (1..begun) \ Pools /\ Past(looking.stale)

PoolInv ==
    /\ TunnelInv /\ Numbers /\ Attempts /\ FlagInv
    /\ "off" \notin broken => OffInv
    /\ "served" \notin broken => ServedInv
-----------------------------------------------------------------------------
(* The registry of tunnels.                                                *)
LEMMA CallersAreNumbers ==
    /\ MaxAttempts \in Nat /\ Callers = 1..MaxAttempts /\ Ids = Callers
    /\ Quirks \subseteq Reviving \cup Wearing
BY PoolsAssumption DEF Ids, Reviving, Wearing

LEMMA PoolInitially == Init => PoolInv
<1> SUFFICES ASSUME Init PROVE PoolInv
  OBVIOUS
<1> USE CallersAreNumbers
<1>1. begun = 0 /\ UnderWay = {} /\ Calling = {} /\ answers = <<>>
  BY DEF Init, TunnelInit, UnderWay, Calling
<1>2. TunnelInv
  BY DEF Init, TunnelInit, TunnelInv, NoTunnelIsLost, Spawning, CallerStages
<1>3. Numbers
  BY DEF Init, TunnelInit, Numbers, Conn, Attempt, Look0, NoLook, NoAttempt,
         Stages
<1>4. Attempts
  BY DEF Init, TunnelInit, Attempts, NoLook, NoAttempt
<1>5. FlagInv
  BY <1>1 DEF Init, FlagInv
<1>6. Alone
  BY <1>1 DEF Alone
<1>7. OffInv
  BY <1>1, <1>6 DEF Init, OffInv, OfKind, HasPool
<1>8. ServedInv
  BY <1>1, <1>6 DEF Init, ServedInv, Pools, NoLook
<1>9. QED
  BY <1>2, <1>3, <1>4, <1>5, <1>7, <1>8 DEF PoolInv

(* Whatever is done to the tunnel, by whomever.                            *)
LEMMA TunnelKeeps ==
    ASSUME TunnelInv,
           \/ UNCHANGED tunnelVars \/ ShutNow \/ ShutLater \/ ShutAtLast
           \/ TunnelDies
           \/ \E c \in Callers : Thread(c)
           \/ \E c \in Callers : /\ Calls(c) /\ caller[c] = "none"
                                 /\ UNCHANGED <<entry, alive, port, closing>>
           \/ /\ ~Up(entry) /\ entry' = 0 /\ closing' \in {closing, TRUE}
              /\ UNCHANGED <<alive, caller, port>>
    PROVE  TunnelInv'
<1> USE CallersAssumption DEF TunnelInv, NoTunnelIsLost, CallerStages
<1>1. CASE UNCHANGED tunnelVars
  BY <1>1 DEF tunnelVars, Spawning
<1>2. CASE ShutNow \/ ShutLater \/ ShutAtLast
  <2>1. /\ caller' = caller /\ port' = port /\ Spawning' = Spawning
        /\ closing' \in BOOLEAN
    BY <1>2 DEF ShutNow, ShutLater, ShutAtLast, Removed, Spawning
  <2>2. \/ entry' = entry /\ alive' = alive
        \/ entry' = 0 /\ alive' = alive \ {entry}
    BY <1>2 DEF ShutNow, ShutLater, ShutAtLast, Removed
  <2>3. caller' \in [Callers -> CallerStages] /\ port' \in [Callers -> Nat]
    BY <2>1
  <2>4. entry' \in Nat
    BY <2>2
  <2>5. alive' \subseteq Callers
    BY <2>2
  <2>6. NoTunnelIsLost'
    BY <2>1, <2>2
  <2>7. /\ \A c, d \in Spawning' : c = d
        /\ Spawning' # {} => entry' = 0
    BY <2>1, <2>2
  <2>8. QED
    BY <2>1, <2>2, <2>3, <2>4, <2>5, <2>6, <2>7
<1>3. CASE TunnelDies
  BY <1>3 DEF TunnelDies, Spawning
<1>4. ASSUME NEW c \in Callers, Ensure(c), Up(entry) PROVE TunnelInv'
  <2>1. /\ caller' = [caller EXCEPT ![c] = "ready"]
        /\ port' = [port EXCEPT ![c] = entry]
        /\ UNCHANGED <<entry, alive, closing>>
    BY <1>4 DEF Ensure, Ensures
  <2>2. Spawning' = Spawning
    BY <1>4, <2>1 DEF Ensure, Spawning
  <2>3. caller' \in [Callers -> CallerStages] /\ port' \in [Callers -> Nat]
    BY <2>1
  <2>4. QED
    BY <2>1, <2>2, <2>3
<1>5. ASSUME NEW c \in Callers, Ensure(c), ~Up(entry) PROVE TunnelInv'
  <2>1. /\ caller' = [caller EXCEPT ![c] = "spawning"]
        /\ alive' = alive \cup {c} /\ entry' = 0
        /\ UNCHANGED <<port, closing>>
    BY <1>5 DEF Ensure, Ensures
  <2>2. Spawning = {} /\ Spawning' = {c}
    BY <1>5, <2>1 DEF Ensure, Spawning
  <2>3. alive = {}
    BY <1>5, <2>2 DEF Up
  <2>4. NoTunnelIsLost'
    BY <2>1, <2>2, <2>3
  <2>5. caller' \in [Callers -> CallerStages] /\ port' \in [Callers -> Nat]
    BY <2>1
  <2>6. alive' \subseteq Callers /\ entry' \in Nat /\ closing' \in BOOLEAN
    BY <2>1
  <2>7. \A e, d \in Spawning' : e = d
    BY <2>2
  <2>8. QED
    BY <2>1, <2>4, <2>5, <2>6, <2>7
<1>6. ASSUME NEW c \in Callers, Spawned(c) PROVE TunnelInv'
  <2>1. c \in Spawning /\ Spawning = {c} /\ Spawning' = {}
    <3>1. c \in Spawning
      BY <1>6 DEF Spawned, Spawning
    <3>2. Spawning = {c}
      BY <3>1
    <3>3. caller' = [caller EXCEPT ![c] = "ready"]
      BY <1>6 DEF Spawned
    <3>4. Spawning' = Spawning \ {c}
      BY <3>3 DEF Spawning
    <3>5. QED
      BY <3>1, <3>2, <3>4
  <2>2. /\ alive' = alive /\ alive \subseteq {c} /\ entry' = c
        /\ caller' = [caller EXCEPT ![c] = "ready"]
        /\ port' = [port EXCEPT ![c] = c] /\ closing' = closing
    BY <1>6, <2>1 DEF Spawned
  <2>3. caller' \in [Callers -> CallerStages] /\ port' \in [Callers -> Nat]
    BY <2>2
  <2>4. NoTunnelIsLost' /\ entry' \in Nat
    BY <2>1, <2>2
  <2>5. QED
    BY <2>1, <2>2, <2>3, <2>4
<1>7. ASSUME NEW c \in Callers, SpawnFails(c) PROVE TunnelInv'
  <2>1. Spawning' = Spawning \ {c}
    BY <1>7 DEF SpawnFails, Spawning
  <2>2. QED
    BY <1>7, <2>1 DEF SpawnFails
<1>8. ASSUME NEW c \in Callers, Calls(c), caller[c] = "none",
             UNCHANGED <<entry, alive, port, closing>>
      PROVE  TunnelInv'
  BY <1>8 DEF Calls, Spawning
<1>9. CASE /\ ~Up(entry) /\ entry' = 0 /\ closing' \in {closing, TRUE}
           /\ UNCHANGED <<alive, caller, port>>
  BY <1>9 DEF Up, Spawning
<1>10. QED
  BY <1>1, <1>2, <1>3, <1>4, <1>5, <1>6, <1>7, <1>8, <1>9 DEF Thread
-----------------------------------------------------------------------------
(* A promise is unbroken after a step only if it was before and the step   *)
(* is not one of the circumstances.                                        *)
LEMMA Happens ==
    ASSUME NEW q, Happen(q)
    PROVE  /\ broken \subseteq broken'
           /\ broken' \subseteq broken \cup {"off", "served"}
           /\ "off" \notin broken' =>
                 "off" \notin broken /\ \A x \in Reviving : x \notin q
           /\ "served" \notin broken' =>
                 "served" \notin broken /\ \A x \in Wearing : x \notin q
BY DEF Happen

LEMMA IfItHolds ==
    ASSUME NEW condition, NEW quirk, quirk \notin If(condition, quirk)
    PROVE  ~condition
BY DEF If

(* What the UI thread does to its record, field by field.                  *)
Is(c, local, shared, pending, error, flag, raised) ==
    /\ c \in Conn
    /\ c.local = local /\ c.shared = shared
    /\ c.pending = pending /\ c.error = error
    /\ c.flag = flag /\ c.raised = raised

LEMMA Fields ==
    ASSUME NEW c \in Conn, NEW a \in Nat
    PROVE  /\ Is(Marked(c, a), c.local, c.shared, TRUE,
                 c.error, a, c.raised)
           /\ Is(Signalled(c), c.local, c.shared, c.pending, c.error,
                 c.flag, IF c.flag = 0 THEN c.raised ELSE c.raised \cup {c.flag})
           /\ Is(Forgotten(c), c.local, c.shared, c.pending, c.error,
                 0, c.raised)
           /\ Is(Unmarked(c), c.local, c.shared, FALSE, c.error,
                 c.flag, c.raised)
           /\ Is(NoPools(c), 0, 0, c.pending, c.error, c.flag, c.raised)
           /\ Is(Released(c), c.local, c.shared, FALSE, TRUE,
                 c.flag, c.raised)
<1> USE DEF Conn, Is
<1>1. Is(Marked(c, a), c.local, c.shared, TRUE, c.error, a, c.raised)
  BY DEF Marked
<1>2. Is(Signalled(c), c.local, c.shared, c.pending, c.error,
        c.flag, IF c.flag = 0 THEN c.raised ELSE c.raised \cup {c.flag})
  BY DEF Signalled
<1>3. Is(Forgotten(c), c.local, c.shared, c.pending, c.error, 0, c.raised)
  BY DEF Forgotten
<1>4. Is(Unmarked(c), c.local, c.shared, FALSE, c.error, c.flag, c.raised)
  BY DEF Unmarked
<1>5. Is(NoPools(c), 0, 0, c.pending, c.error, c.flag, c.raised)
  BY DEF NoPools
<1>6. Is(Released(c), c.local, c.shared, FALSE, TRUE, c.flag, c.raised)
  BY DEF Released
<1>7. QED
  BY <1>1, <1>2, <1>3, <1>4, <1>5, <1>6
-----------------------------------------------------------------------------
(* What is under way has begun.                                            *)
LEMMA UnderWayFacts ==
    ASSUME Numbers, NEW a \in UnderWay
    PROVE  /\ a \in Ids /\ a \in Callers /\ a # 0 /\ a <= begun
           /\ ~(a > begun) /\ attempts[a].stage # "ended"
BY CallersAreNumbers DEF UnderWay, Numbers

(* The tunnel is left alone, shut, or dies: nobody gets a tunnel.          *)
Quiet ==
    /\ caller' = caller /\ port' = port
    /\ alive' \subseteq alive /\ entry' \in {entry, 0}

LEMMA QuietTunnel ==
    ASSUME TunnelInv,
           \/ UNCHANGED tunnelVars \/ Shut \/ ShutAtLast \/ TunnelDies
           \/ /\ ~Up(entry) /\ entry' = 0 /\ closing' \in {closing, TRUE}
              /\ UNCHANGED <<alive, caller, port>>
    PROVE  TunnelInv' /\ Quiet
<1>1. TunnelInv'
  BY TunnelKeeps DEF Shut
<1>2. Quiet
  BY DEF tunnelVars, Shut, ShutNow, ShutLater, ShutAtLast, Removed,
         TunnelDies, Quiet
<1>3. QED
  BY <1>1, <1>2

LEMMA QuietLinks ==
    ASSUME TunnelInv, Quiet
    PROVE  /\ Calling' = Calling
           /\ \A x \in Callers : Linked(x) => Linked(x)'
BY CallersAssumption DEF TunnelInv, Quiet, Calling, Linked, Up

(* A step after which no more is under way than before.                    *)
LEMMA AloneKeeps ==
    ASSUME Alone, UnderWay' \cup Calling' \subseteq UnderWay \cup Calling,
           answers' = answers \/ UnderWay' = {}, UnderWay' \subseteq UnderWay
    PROVE  Alone'
BY DEF Alone
-----------------------------------------------------------------------------
(* The UI thread keeps or forgets what it knows.                           *)
Tamer ==
    /\ conn' \in Conn
    /\ conn'.local \in {conn.local, conn.shared, 0}
    /\ conn'.shared \in {conn.shared, 0}
    /\ conn'.pending => conn.pending
    /\ conn'.flag \in {conn.flag, 0}

(* Nothing begins, and at most what is marked is cancelled.                *)
Calmer ==
    /\ Quiet /\ Tamer
    /\ UNCHANGED <<begun, attempts, slow, stands>>
    /\ broken \subseteq broken' /\ broken' \subseteq {"off", "served"}
    /\ \/ off' = off /\ calledoff' = calledoff /\ conn'.raised = conn.raised
       \/ /\ off' = TRUE /\ calledoff' = begun
          /\ conn'.raised \subseteq conn.raised \cup ({conn.flag} \ {0})
    /\ answers' \in Seq(BOOLEAN)
    /\ answers' = answers \/ answers # <<>>
    /\ looking' \in Look0
    /\ looking.for = "quick" => looking'.for = "quick"
    /\ looking'.for = "nothing" => looking'.stale = 0
    /\ served' \in BOOLEAN

LEMMA CalmerKeeps ==
    ASSUME PoolInv, TunnelInv', Calmer
    PROVE  Numbers' /\ Attempts' /\ FlagInv'
<1> USE CallersAreNumbers DEF PoolInv
<1>1. begun' = begun /\ attempts' = attempts
  BY DEF Calmer
<1>2. Numbers'
  <2>1. /\ conn' \in Conn /\ conn'.local <= begun /\ conn'.shared <= begun
        /\ conn'.flag <= begun
    BY DEF Calmer, Tamer, Numbers, Conn
  <2>2. conn'.raised \subseteq 1..begun
    BY DEF Calmer, Numbers, Conn
  <2>3. entry' <= begun /\ alive' \subseteq 1..begun
    BY DEF Calmer, Quiet, Numbers, TunnelInv
  <2>4. off' \in BOOLEAN
    BY DEF Calmer, Numbers
  <2>5. calledoff' \in 0..begun
    BY DEF Calmer, Numbers
  <2>6. QED
    BY <1>1, <2>1, <2>2, <2>3, <2>4, <2>5 DEF Calmer, Numbers
<1>3. Attempts'
  <2>1. caller' = caller
    BY DEF Calmer, Quiet
  <2>2. \A a \in Ids : attempts[a].kind = "quick" => looking'.for = "quick"
    BY DEF Calmer, Attempts
  <2>3. looking'.for = "nothing" => looking'.stale = 0
    BY DEF Calmer
  <2>4. QED
    BY <1>1, <2>1, <2>2, <2>3 DEF Attempts
<1>4. FlagInv'
  <2>1. UnderWay' = UnderWay /\ stands'
    BY <1>1 DEF Calmer, UnderWay, FlagInv
  <2>2. ASSUME NEW a \in UnderWay, Unaware(a)'
        PROVE  ~Cancelled(conn)' /\ ~Stopped(a)'
    <3>1. a <= begun /\ a \in Nat /\ begun \in Nat
      BY UnderWayFacts DEF Numbers, Ids
    <3>2. calledoff' = calledoff /\ conn'.raised = conn.raised
      BY <1>1, <2>2, <3>1 DEF Calmer, Unaware
    <3>3. ~Cancelled(conn) /\ ~Stopped(a)
      BY <1>1, <2>2, <3>2 DEF FlagInv, Unaware
    <3>4. 0 \notin conn.raised
      BY DEF Numbers
    <3>5. QED
      BY <1>1, <3>2, <3>3, <3>4 DEF Calmer, Tamer, Cancelled, Stopped
  <2>3. QED
    BY <2>1, <2>2 DEF FlagInv
<1>5. QED
  BY <1>2, <1>3, <1>4

LEMMA CalmerAlone ==
    ASSUME PoolInv, Calmer, Alone
    PROVE  /\ UnderWay' = UnderWay /\ Calling' = Calling /\ Alone'
           /\ \A kind : OfKind(kind)' = OfKind(kind)
<1>1. UnderWay' = UnderWay /\ \A kind : OfKind(kind)' = OfKind(kind)
  BY DEF Calmer, UnderWay, OfKind
<1>2. Calling' = Calling
  BY QuietLinks DEF Calmer, PoolInv
<1>3. Alone'
  BY <1>1, <1>2, AloneKeeps DEF Calmer, Alone
<1>4. QED
  BY <1>1, <1>2, <1>3

(* The connection is not called off, and its flag is forgotten only when   *)
(* nobody is marked any more.                                              *)
LEMMA CalmerOff ==
    ASSUME PoolInv, OffInv, Calmer, off' = off, conn'.raised = conn.raised,
           UnderWay # {} /\ conn'.pending => conn'.flag = conn.flag,
           UnderWay # {} /\ ~HasPool(conn) /\ ~conn.pending /\ ~conn.error
              => conn'.flag = conn.flag /\ ~conn'.error
    PROVE  OffInv'
<1>1. /\ Alone' /\ UnderWay' = UnderWay
      /\ OfKind("pool")' = OfKind("pool") /\ OfKind("pool") \subseteq UnderWay
  BY CalmerAlone DEF OffInv, OfKind
<1>2. \A a \in OfKind("pool")' : conn'.pending => conn'.flag = a
  BY <1>1 DEF OffInv, Calmer, Tamer
<1>3. ASSUME off'
      PROVE  /\ ~HasPool(conn') /\ ~conn'.pending
             /\ \A a \in UnderWay' :
                   /\ attempts'[a].kind = "pool"
                   /\ attempts'[a].stage \in {"queued", "dialing", "made"}
                   /\ ~conn'.error
                   /\ conn'.flag = a /\ a \in conn'.raised
  BY <1>1, <1>3 DEF OffInv, Calmer, Tamer, HasPool
<1>4. QED
  BY <1>1, <1>2, <1>3 DEF OffInv, Calmer

(* A handler that hands out a pool hands out a good one.                   *)
LEMMA CalmerServed ==
    ASSUME PoolInv, ServedInv, Calmer, served',
           conn'.local # 0 /\ conn'.shared = 0 =>
              conn.local # 0 /\ conn.shared = 0,
           \/ looking'.stale \in {looking.stale, 0}
           \/ /\ looking'.stale \in (1..begun) \ Pools'
              /\ Past(looking'.stale)
    PROVE  ServedInv'
<1> USE DEF PoolInv
<1>1. /\ Alone' /\ UnderWay' = UnderWay /\ Calling' = Calling
      /\ begun' = begun /\ attempts' = attempts /\ caller' = caller
  BY CalmerAlone DEF ServedInv, Calmer, Quiet
<1>2. \A x \in Callers : Linked(x) => Linked(x)'
  BY QuietLinks DEF Calmer
<1>3. Pools' \subseteq Pools
  BY DEF Calmer, Tamer, Pools
<1>4. Pools \subseteq Callers /\ UnderWay \subseteq Callers
  BY CallersAreNumbers DEF Pools, Numbers, Conn, UnderWay
<1>5. Calling' # {} => Pools' = {}
  BY <1>1, <1>3 DEF ServedInv
<1>6. \A a \in UnderWay' :
         /\ attempts'[a].stage \in {"dialing", "made", "passed"} => Pools' = {}
         /\ attempts'[a].stage = "queued" =>
               IF attempts'[a].kind = "sync"
               THEN conn'.local # 0 => conn'.shared # 0 ELSE Pools' = {}
         /\ attempts'[a].stage \in {"made", "passed"} => caller'[a] = "ready"
         /\ attempts'[a].stage \in {"dialing", "made", "passed"}
               /\ caller'[a] = "ready" => Linked(a)'
  BY <1>1, <1>2, <1>3, <1>4 DEF ServedInv
<1>7. \A a \in Pools' : caller'[a] = "ready" /\ Linked(a)' /\ Past(a)'
  BY <1>1, <1>2, <1>3, <1>4 DEF ServedInv, Past
<1>8. ASSUME looking'.stale # 0
      PROVE  looking'.stale \in (1..begun') \ Pools' /\ Past(looking.stale)'
  <2>1. looking'.stale \in (1..begun) \ Pools' /\ Past(looking'.stale)
    BY <1>3, <1>8 DEF ServedInv
  <2>2. QED
    BY <1>1, <2>1 DEF Past
<1>9. served'
  OBVIOUS
<1>10. QED
  BY <1>1, <1>5, <1>6, <1>7, <1>8, <1>9 DEF ServedInv
-----------------------------------------------------------------------------
(* The frames of the UI thread.                                            *)
LEMMA TidiedKeeps ==
    ASSUME conn \in Conn, NEW c \in Tidied
    PROVE  /\ c \in Conn
           /\ c.local = conn.local /\ c.shared = conn.shared
           /\ c.raised = conn.raised
           /\ c.pending => conn.pending /\ c.flag = conn.flag
           /\ c.flag \in {conn.flag, 0}
           /\ ~HasPool(conn) /\ ~conn.pending /\ ~conn.error => c = conn
<1> DEFINE d == Settled(conn)
<1>1. /\ d \in Conn
      /\ d.local = conn.local /\ d.shared = conn.shared
      /\ d.raised = conn.raised
      /\ d.pending => conn.pending /\ d.flag = conn.flag
      /\ d.flag \in {conn.flag, 0}
      /\ ~HasPool(conn) /\ ~conn.pending /\ ~conn.error => d = conn
  <2>1. Is(Unmarked(conn), conn.local, conn.shared, FALSE, conn.error,
           conn.flag, conn.raised)
    BY Fields
  <2>2. Is(Forgotten(Unmarked(conn)), conn.local, conn.shared, FALSE,
           conn.error, 0, conn.raised)
    BY <2>1, Fields DEF Is
  <2>3. CASE conn.shared # 0 \/ conn.error
    BY <2>2, <2>3 DEF Settled, Is, HasPool
  <2>4. CASE ~(conn.shared # 0 \/ conn.error) /\ conn.local # 0
    BY <2>1, <2>4 DEF Settled, Is, HasPool
  <2>5. CASE ~(conn.shared # 0 \/ conn.error) /\ ~(conn.local # 0)
    BY <2>5 DEF Settled
  <2>6. QED
    BY <2>3, <2>4, <2>5
<1>2. CASE c = d
  BY <1>1, <1>2
<1>3. CASE c = Released(d) /\ d.pending
  <2>1. Is(c, d.local, d.shared, FALSE, TRUE, d.flag, d.raised)
    BY <1>1, <1>3, Fields
  <2>2. QED
    BY <1>1, <1>3, <2>1 DEF Is
<1>4. QED
  BY <1>2, <1>3 DEF Tidied

LEMMA CleanUpKeeps ==
    ASSUME PoolInv, CleanUp
    PROVE  PoolInv'
<1> USE DEF PoolInv, CleanUp
<1>1. TunnelInv' /\ Quiet
  BY QuietTunnel
<1>2. /\ conn' \in Conn
      /\ conn'.local = conn.local /\ conn'.shared = conn.shared
      /\ conn'.raised = conn.raised
      /\ conn'.pending => conn.pending /\ conn'.flag = conn.flag
      /\ conn'.flag \in {conn.flag, 0}
      /\ ~HasPool(conn) /\ ~conn.pending /\ ~conn.error => conn' = conn
  BY TidiedKeeps DEF Numbers
<1>3. Tamer
  BY <1>2 DEF Tamer
<1>4. Calmer
  BY <1>1, <1>2, <1>3 DEF Calmer, history, Numbers, Attempts
<1>5. Numbers' /\ Attempts' /\ FlagInv'
  BY <1>1, <1>4, CalmerKeeps
<1>6. "off" \notin broken' => OffInv'
  BY <1>2, <1>4, CalmerOff DEF history
<1>7. "served" \notin broken' => ServedInv'
  BY <1>2, <1>4, CalmerServed DEF history, ServedInv
<1>8. QED
  BY <1>1, <1>5, <1>6, <1>7

LEMMA ReceiveKeeps ==
    ASSUME PoolInv, Receive
    PROVE  PoolInv'
<1> USE DEF PoolInv, Receive
<1>1. TunnelInv' /\ Quiet
  BY QuietTunnel
<1>2. /\ conn' \in Conn
      /\ conn'.local = conn.local /\ conn'.shared = conn.shared
      /\ conn'.raised = conn.raised /\ conn'.pending = FALSE
      /\ conn'.flag = conn.flag
  BY DEF Numbers, Conn
<1>3. Tamer
  BY <1>2 DEF Tamer
<1>4. Calmer
  <2>1. answers' \in Seq(BOOLEAN)
    BY HeadTailProperties DEF Numbers
  <2>2. UNCHANGED <<looking, off, calledoff, stands, served, broken>>
    BY DEF history, uiVars
  <2>3. QED
    BY <1>1, <1>2, <1>3, <2>1, <2>2 DEF Calmer, Numbers, Attempts
<1>5. Numbers' /\ Attempts' /\ FlagInv'
  BY <1>1, <1>4, CalmerKeeps
<1>6. "off" \notin broken' => OffInv'
  BY <1>2, <1>4, CalmerOff DEF history, OffInv, Alone
<1>7. "served" \notin broken' => ServedInv'
  BY <1>2, <1>4, CalmerServed DEF history, uiVars, ServedInv
<1>8. QED
  BY <1>1, <1>5, <1>6, <1>7
-----------------------------------------------------------------------------
(* The user calls the connection off.                                      *)
CalledOff ==
    /\ conn' \in Conn
    /\ conn'.local \in {conn.local, 0} /\ conn'.shared \in {conn.shared, 0}
    /\ conn'.local = 0 \/ conn'.shared = conn.shared
    /\ ~conn'.pending
    /\ conn'.flag \in {conn.flag, 0}
    /\ conn'.raised \subseteq conn.raised \cup ({conn.flag} \ {0})
    /\ conn.pending => /\ conn'.flag = conn.flag
                       /\ conn.flag # 0 => conn.flag \in conn'.raised

LEMMA CallingOff ==
    ASSUME conn \in Conn,
           \/ conn' = [Unmarked(Signalled(conn)) EXCEPT !.error = TRUE]
           \/ conn.pending /\ conn' =
                 [NoPools(Unmarked(Signalled(conn))) EXCEPT !.error = FALSE]
           \/ ~conn.pending /\ conn' = NoPools(conn)
           \/ conn.pending /\ conn' = NoPools(Unmarked(Signalled(conn)))
           \/ /\ ~conn.pending
              /\ conn' = Forgotten(NoPools(Unmarked(Signalled(conn))))
    PROVE  CalledOff
<1> DEFINE s == Signalled(conn)
           raised == IF conn.flag = 0 THEN conn.raised
                     ELSE conn.raised \cup {conn.flag}
<1>1. Is(s, conn.local, conn.shared, conn.pending, conn.error, conn.flag,
         raised)
  BY Fields
<1> /\ raised \subseteq conn.raised \cup ({conn.flag} \ {0})
    /\ conn.flag # 0 => conn.flag \in raised
  OBVIOUS
<1> HIDE DEF s, raised
<1>2. Is(Unmarked(s), conn.local, conn.shared, FALSE, conn.error, conn.flag,
         raised)
  <2>1. Is(Unmarked(s), s.local, s.shared, FALSE, s.error, s.flag, s.raised)
    BY <1>1, Fields DEF Is
  <2>2. QED
    BY <1>1, <2>1 DEF Is
<1> DEFINE u == Unmarked(s)
<1> HIDE DEF u
<1>3. Is(NoPools(u), 0, 0, FALSE, conn.error, conn.flag, raised)
  <2>1. u \in Conn /\ Is(u, conn.local, conn.shared, FALSE, conn.error,
                         conn.flag, raised)
    BY <1>2 DEF Is, u
  <2>2. Is(NoPools(u), 0, 0, u.pending, u.error, u.flag, u.raised)
    BY <2>1, Fields
  <2>3. QED
    BY <2>1, <2>2 DEF Is
<1> DEFINE n == NoPools(u)
<1> HIDE DEF n
<1>4. Is(Forgotten(n), 0, 0, FALSE, conn.error, 0, raised)
  <2>1. n \in Conn /\ Is(n, 0, 0, FALSE, conn.error, conn.flag, raised)
    BY <1>3 DEF Is, n
  <2>2. Is(Forgotten(n), n.local, n.shared, n.pending, n.error, 0, n.raised)
    BY <2>1, Fields
  <2>3. QED
    BY <2>1, <2>2 DEF Is
<1>5. Is(NoPools(conn), 0, 0, conn.pending, conn.error, conn.flag,
         conn.raised)
  BY Fields
<1>6. CASE conn' = [Unmarked(s) EXCEPT !.error = TRUE]
  <2>1. Is(conn', conn.local, conn.shared, FALSE, TRUE, conn.flag, raised)
    BY <1>2, <1>6 DEF Is, Conn
  <2>2. QED
    BY <2>1 DEF Is, CalledOff
<1>7. CASE conn' = [NoPools(u) EXCEPT !.error = FALSE]
  <2>1. Is(conn', 0, 0, FALSE, FALSE, conn.flag, raised)
    BY <1>3, <1>7 DEF Is, Conn
  <2>2. QED
    BY <2>1 DEF Is, CalledOff
<1>8. CASE ~conn.pending /\ conn' = NoPools(conn)
  BY <1>5, <1>8 DEF Is, CalledOff
<1>9. CASE conn' = NoPools(u)
  BY <1>3, <1>9 DEF Is, CalledOff
<1>10. CASE ~conn.pending /\ conn' = Forgotten(n)
  BY <1>4, <1>10 DEF Is, CalledOff
<1>11. QED
  BY <1>6, <1>7, <1>8, <1>9, <1>10 DEF s, u, n

LEMMA CallOffKeeps ==
    ASSUME PoolInv, Cancel \/ Disconnect \/ Drop
    PROVE  PoolInv'
<1> USE DEF PoolInv
<1>1. CallOff /\ (Shut \/ UNCHANGED tunnelVars)
  BY DEF Cancel, Disconnect, Drop
<1>2. TunnelInv' /\ Quiet
  BY <1>1, QuietTunnel
<1>3. CalledOff
  BY CallingOff DEF Cancel, Disconnect, Drop, Numbers
<1>4. Tamer
  BY <1>3 DEF Tamer, CalledOff
<1> DEFINE q == If(conn'.error /\ UnderWay # {}, "shown")
                \cup If(OfKind("sync") # {}, "sync")
                \cup If(At({"passed"}) # {} \/ HasPool(conn'), "race")
                \cup If(~conn.pending /\ OfKind("pool") # {}, "unmarked")
                \cup Busy
<1>5. Happen(q)
  BY <1>1 DEF CallOff
<1>6. Idle /\ UNCHANGED <<begun, attempts, slow, answers, stands, served,
                          looking>> /\ off' = TRUE /\ calledoff' = begun
  BY <1>1 DEF CallOff, Acts
<1>7. broken \subseteq broken' /\ broken' \subseteq {"off", "served"}
  BY <1>5, Happens DEF Numbers
<1>8. Calmer
  BY <1>2, <1>3, <1>4, <1>6, <1>7 DEF Calmer, CalledOff, Numbers, Attempts
<1>9. Numbers' /\ Attempts' /\ FlagInv'
  BY <1>2, <1>8, CalmerKeeps
<1>10. ASSUME "off" \notin broken' PROVE OffInv'
  <2>1. "off" \notin broken /\ \A x \in Reviving : x \notin q
    BY <1>5, <1>10, Happens
  <2>2. OffInv
    BY <2>1
  <2>3. /\ ~(conn'.error /\ UnderWay # {}) /\ OfKind("sync") = {}
        /\ At({"passed"}) = {} /\ ~HasPool(conn')
        /\ conn.pending \/ OfKind("pool") = {}
    BY <2>1, IfItHolds DEF Reviving
  <2>4. UnderWay' = UnderWay /\ Alone' /\ OfKind("pool")' = OfKind("pool")
    BY <1>8, <2>2, CalmerAlone DEF OffInv
  <2>5. ASSUME NEW a \in UnderWay
        PROVE  /\ attempts'[a].kind = "pool"
               /\ attempts'[a].stage \in {"queued", "dialing", "made"}
               /\ ~conn'.error
               /\ conn'.flag = a /\ a \in conn'.raised
    <3>1. /\ a \in Ids /\ attempts[a] \in Attempt /\ a # 0 /\ ~(a > begun)
          /\ attempts[a].stage \notin {"ended", "passed"}
      <4>1. a \in Ids /\ a # 0 /\ ~(a > begun) /\ attempts[a].stage # "ended"
        BY UnderWayFacts
      <4>2. attempts[a].stage # "passed"
        BY <2>3 DEF At, UnderWay
      <4>3. QED
        BY <4>1, <4>2 DEF Numbers
    <3>2. attempts[a].kind \notin {"none", "quick", "sync"}
      <4>1. attempts[a].kind # "sync"
        BY <2>3 DEF OfKind
      <4>2. attempts[a].kind # "quick"
        BY <1>6, <3>1 DEF Idle, NoLook, Attempts
      <4>3. attempts[a].kind # "none"
        BY <3>1 DEF Attempts
      <4>4. QED
        BY <4>1, <4>2, <4>3
    <3>3. attempts[a].kind = "pool" /\ a \in OfKind("pool")
      BY <3>1, <3>2 DEF Attempt, OfKind
    <3>4. conn.pending /\ conn.flag = a
      BY <2>2, <2>3, <3>3 DEF OffInv
    <3>5. attempts[a].stage \in {"queued", "dialing", "made"}
      BY <3>1, <3>3 DEF Attempt, Stages, Attempts, Numbers
    <3>6. conn'.flag = a /\ a \in conn'.raised
      BY <1>3, <3>1, <3>4 DEF CalledOff
    <3>7. QED
      BY <1>6, <2>3, <3>3, <3>5, <3>6
  <2>6. QED
    BY <1>3, <1>6, <2>2, <2>3, <2>4, <2>5 DEF OffInv, CalledOff
<1>11. ASSUME "served" \notin broken' PROVE ServedInv'
  <2>1. ServedInv
    BY <1>5, <1>11, Happens
  <2>2. conn'.local # 0 /\ conn'.shared = 0 => conn.local # 0 /\ conn.shared = 0
    BY <1>3 DEF CalledOff
  <2>3. QED
    BY <1>6, <1>8, <2>1, <2>2, CalmerServed DEF ServedInv
<1>12. QED
  BY <1>2, <1>9, <1>10, <1>11
-----------------------------------------------------------------------------
(* A handler looks for a pool.                                             *)
LEMMA LookKeeps ==
    ASSUME PoolInv, NEW for \in {"query", "picture", "data"}, Look(for)
    PROVE  PoolInv'
<1> USE DEF PoolInv
<1>1. PICK c \in IF for = "query" THEN {conn} ELSE Tidied :
         /\ Evict(c)
         /\ looking' = [for |-> IF for = "query" /\ HasPool(c) /\ ~HasPool(conn')
                                THEN "another pool" ELSE for,
                        stale |-> IF c.pending \/ Works(c) THEN 0
                                  ELSE PoolOf(c)]
  BY DEF Look
<1>2. /\ Idle /\ UNCHANGED <<begun, attempts, slow, answers, off, calledoff,
                             stands, served>>
  BY DEF Look
<1>3. /\ c \in Conn
      /\ c.local = conn.local /\ c.shared = conn.shared
      /\ c.raised = conn.raised
      /\ c.pending => conn.pending /\ c.flag = conn.flag
      /\ c.flag \in {conn.flag, 0}
      /\ ~HasPool(conn) /\ ~conn.pending /\ ~conn.error => c = conn
  <2>1. conn \in Conn
    BY DEF Numbers
  <2>2. CASE for = "query"
    BY <2>1, <2>2
  <2>3. CASE for # "query"
    BY <2>1, <2>3, TidiedKeeps
  <2>4. QED
    BY <2>2, <2>3
<1>4. Is(NoPools(c), 0, 0, c.pending, c.error, c.flag, c.raised)
  BY <1>3, Fields
<1> DEFINE Evicts  == /\ Unusable(c) /\ conn' = NoPools(c)
                      /\ entry' = 0 /\ closing' \in {closing, TRUE}
                      /\ Happen(Busy)
                      /\ UNCHANGED <<alive, caller, port>>
           Misses  == /\ Unusable(c) /\ conn' = c
                      /\ Happen({"busy"}) /\ UNCHANGED tunnelVars
           Passes  == /\ ~Unusable(c) /\ conn' = c
                      /\ Happen({}) /\ UNCHANGED tunnelVars
<1>5. Evicts \/ Misses \/ Passes
  BY <1>1 DEF Evict
<1>6. TunnelInv' /\ Quiet
  BY <1>5, QuietTunnel DEF Unusable
<1>7. /\ conn' \in Conn
      /\ conn'.local \in {conn.local, 0} /\ conn'.shared \in {conn.shared, 0}
      /\ conn'.local = 0 \/ conn'.shared = conn.shared
      /\ conn'.raised = conn.raised
      /\ conn'.pending => conn.pending /\ conn'.flag = conn.flag
      /\ conn'.flag \in {conn.flag, 0}
      /\ ~HasPool(conn) /\ ~conn.pending /\ ~conn.error => conn' = conn
  <2>1. CASE conn' = c
    BY <1>3, <2>1
  <2>2. CASE Evicts
    BY <1>3, <1>4, <2>2 DEF Is, Unusable, HasPool
  <2>3. QED
    BY <1>5, <2>1, <2>2
<1>8. Tamer
  BY <1>7 DEF Tamer
<1>9. broken \subseteq broken' /\ broken' \subseteq {"off", "served"}
  BY <1>5, Happens DEF Numbers
<1>10. /\ looking' \in Look0 /\ looking'.for # "nothing"
       /\ looking'.stale \in {0, PoolOf(c)}
  BY <1>1, <1>3 DEF Look0, PoolOf, Conn
<1>11. Calmer
  BY <1>2, <1>6, <1>7, <1>8, <1>9, <1>10 DEF Calmer, Numbers, Idle, NoLook
<1>12. Numbers' /\ Attempts' /\ FlagInv'
  BY <1>6, <1>11, CalmerKeeps
<1>13. ASSUME "off" \notin broken' PROVE OffInv'
  <2>1. OffInv
    BY <1>5, <1>13, Happens
  <2>2. QED
    BY <1>2, <1>7, <1>11, <2>1, CalmerOff
<1>14. ASSUME "served" \notin broken' PROVE ServedInv'
  <2>1. ServedInv
    BY <1>5, <1>14, Happens
  <2>2. ~Misses
    BY <1>14, Happens DEF Wearing
  <2>3. ASSUME HasPool(c)
        PROVE  /\ PoolOf(c) \in Pools /\ PoolOf(c) \in 1..begun
               /\ Past(PoolOf(c)) /\ Linked(PoolOf(c))
    <3>1. PoolOf(c) \in Pools
      BY <1>3, <2>3 DEF HasPool, PoolOf, Pools
    <3>2. PoolOf(c) \in 1..begun
      BY <1>3, <2>3 DEF HasPool, PoolOf, Numbers, Conn
    <3>3. QED
      BY <2>1, <3>1, <3>2 DEF ServedInv
  <2>4. \/ looking'.stale = 0
        \/ /\ looking'.stale \in (1..begun) \ Pools'
           /\ Past(looking'.stale)
    <3>1. CASE c.pending \/ Works(c)
      BY <1>1, <3>1
    <3>2. CASE ~(c.pending \/ Works(c))
      <4>1. HasPool(c) /\ ~Up(port[PoolOf(c)]) /\ looking'.stale = PoolOf(c)
        BY <1>1, <3>2 DEF Works
      <4>2. Unusable(c)
        BY <2>3, <3>2, <4>1 DEF Unusable, Linked
      <4>3. Pools' = {}
        BY <1>4, <1>5, <2>2, <4>2 DEF Is, Pools
      <4>4. QED
        BY <2>3, <4>1, <4>3
    <3>3. QED
      BY <3>1, <3>2
  <2>5. conn'.local # 0 /\ conn'.shared = 0 => conn.local # 0 /\ conn.shared = 0
    BY <1>7
  <2>6. served'
    BY <1>2, <2>1 DEF ServedInv
  <2>7. QED
    BY <1>11, <2>1, <2>4, <2>5, <2>6, CalmerServed
<1>15. QED
  BY <1>6, <1>12, <1>13, <1>14
-----------------------------------------------------------------------------
(* Attempts begin.                                                         *)
LEMMA BeginKeeps ==
    ASSUME PoolInv, NEW n \in {1, 2}, NEW kind \in {"pool", "quick", "sync"},
           Begin(n, kind), UNCHANGED tunnelVars,
           conn' \in Conn, conn'.local = conn.local,
           conn'.shared = conn.shared, conn'.raised = conn.raised,
           IF kind = "sync"
           THEN conn'.flag = conn.flag ELSE conn'.flag = begun',
           looking.for # "quick", looking' \in Look0,
           kind = "quick" => n = 1 /\ looking'.for = "quick",
           looking'.for = "nothing" => looking'.stale = 0,
           looking'.stale \in {looking.stale, 0}, served' = served,
           broken \subseteq broken', broken' \subseteq {"off", "served"},
           ~({"off", "served"} \subseteq broken') =>
              n = 1 /\ UnderWay \cup Calling = {} /\ answers = <<>>,
           "served" \notin broken' =>
              IF kind = "sync" THEN conn.local # 0 => conn.shared # 0
              ELSE ~HasPool(conn)
    PROVE  PoolInv'
<1> USE CallersAreNumbers DEF PoolInv
<1> DEFINE new == begun + 1..begun + n
<1>1. /\ begun' = begun + n /\ begun' \in 0..MaxAttempts
      /\ new \subseteq Ids /\ new = {a \in Ids : a > begun /\ ~(a > begun')}
      /\ off' = FALSE
      /\ UNCHANGED <<slow, answers, calledoff, stands>>
  BY DEF Begin, Numbers
<1>2. /\ attempts' = [a \in Ids |->
            IF a \in new
            THEN [NoAttempt EXCEPT !.kind = kind, !.stage = "queued",
                                   !.exposed = kind = "sync" /\ Cancelled(conn)]
            ELSE attempts[a]]
      /\ DOMAIN attempts = Ids
  BY DEF Begin, Numbers
<1>3. \A a \in new : /\ attempts'[a].kind = kind
                     /\ attempts'[a].stage = "queued" /\ attempts'[a].flag = 0
                     /\ attempts'[a] \in Attempt
                     /\ kind = "sync" /\ Cancelled(conn)
                           => attempts'[a].exposed
  <2>1. \A x \in BOOLEAN :
           LET r == [NoAttempt EXCEPT !.kind = kind, !.stage = "queued",
                                      !.exposed = x]
           IN /\ r.kind = kind /\ r.stage = "queued" /\ r.flag = 0
              /\ r \in Attempt /\ r.exposed = x
    BY DEF NoAttempt, Attempt, Stages
  <2>2. QED
    BY <1>1, <1>2, <2>1
<1>4. \A a \in Ids \ new : attempts'[a] = attempts[a]
  BY <1>2
<1>5. /\ entry' = entry /\ alive' = alive /\ caller' = caller /\ port' = port
      /\ Calling' = Calling /\ TunnelInv'
  BY TunnelKeeps DEF tunnelVars, Calling
<1>6. UnderWay' = UnderWay \cup new
  <2>1. \A a \in 1..begun' : a \in new \/ a \in 1..begun
    BY <1>1 DEF Numbers
  <2>2. \A a \in 1..begun : a \in Ids \ new /\ a \in 1..begun'
    BY <1>1 DEF Numbers
  <2>3. \A a \in new : a \in 1..begun'
    BY <1>1 DEF Numbers
  <2>4. QED
    BY <1>3, <1>4, <2>1, <2>2, <2>3 DEF UnderWay
<1>7. Numbers'
  <2>1. attempts' \in [Ids -> Attempt]
    BY <1>2, <1>3, <1>4 DEF Numbers
  <2>2. \A a \in Ids : attempts'[a].flag <= begun'
    <3>1. begun \in Nat /\ begun' \in Nat /\ begun <= begun'
      BY <1>1 DEF Numbers
    <3>2. \A a \in Ids : attempts[a].flag \in Nat /\ attempts[a].flag <= begun
      BY DEF Numbers, Attempt
    <3>3. \A a \in new : attempts'[a].flag <= begun'
      BY <1>3, <3>1
    <3>4. \A a \in Ids \ new : attempts'[a].flag <= begun'
      BY <1>4, <3>1, <3>2
    <3>5. QED
      BY <3>3, <3>4
  <2>3. conn'.local <= begun' /\ conn'.shared <= begun' /\ conn'.flag <= begun'
    BY <1>1 DEF Numbers, Conn
  <2>4. conn'.raised \subseteq 1..begun' /\ alive' \subseteq 1..begun'
    BY <1>1, <1>5 DEF Numbers
  <2>5. entry' <= begun'
    BY <1>1, <1>5 DEF Numbers, TunnelInv
  <2>6. off' \in BOOLEAN /\ served' \in BOOLEAN
    BY <1>1 DEF Numbers
  <2>7. calledoff' \in 0..begun'
    BY <1>1 DEF Numbers
  <2>8. QED
    BY <1>1, <2>1, <2>2, <2>3, <2>4, <2>5, <2>6, <2>7 DEF Numbers
<1>8. \A a \in Ids : attempts[a].kind # "quick"
  BY DEF Attempts
<1>9. Attempts'
  <2>1. ASSUME NEW a \in Ids
        PROVE  /\ attempts'[a].stage = "none" <=> a > begun'
               /\ attempts'[a].kind = "none"
                     <=> attempts'[a].stage \in {"none", "ended"}
               /\ attempts'[a].stage \in {"none", "queued"} => caller'[a] = "none"
               /\ attempts'[a].kind = "quick" => looking'.for = "quick"
               /\ attempts'[a].stage = "reading" => attempts'[a].kind = "sync"
    <3>1. CASE a \in new
      <4>1. attempts[a].stage = "none" /\ ~(a > begun')
        BY <1>1, <3>1 DEF Attempts
      <4>2. caller'[a] = "none"
        BY <1>5, <4>1 DEF Attempts
      <4>3. QED
        BY <1>3, <3>1, <4>1, <4>2
    <3>2. CASE a \notin new
      <4>1. a > begun <=> a > begun'
        BY <1>1, <3>2 DEF Numbers
      <4>2. QED
        BY <1>4, <1>5, <1>8, <3>2, <4>1 DEF Attempts
    <3>3. QED
      BY <3>1, <3>2
  <2>2. ASSUME NEW a \in Ids, NEW b \in Ids,
               attempts'[a].kind = "quick", attempts'[b].kind = "quick"
        PROVE  a = b
    <3>1. a \in new /\ b \in new /\ kind = "quick"
      BY <1>3, <1>4, <1>8, <2>2
    <3>2. QED
      BY <1>1, <3>1 DEF Numbers
  <2>3. QED
    BY <2>1, <2>2 DEF Attempts
<1>10. FlagInv'
  <2>1. 0 \notin conn.raised /\ begun' \notin conn.raised
    BY <1>1 DEF Numbers
  <2>2. ASSUME NEW a \in UnderWay', Unaware(a)'
        PROVE  ~Cancelled(conn)' /\ ~Stopped(a)'
    <3>1. CASE a \in new
      <4>1. ~Stopped(a)'
        BY <1>3, <2>1, <3>1 DEF Stopped
      <4>2. kind = "sync" => ~Cancelled(conn)
        BY <1>3, <2>2, <3>1 DEF Unaware
      <4>3. ~Cancelled(conn)'
        BY <2>1, <4>2 DEF Cancelled
      <4>4. QED
        BY <4>1, <4>3
    <3>2. CASE a \notin new
      <4>1. a \in UnderWay /\ attempts'[a] = attempts[a]
        BY <1>4, <1>6, <3>2, UnderWayFacts
      <4>2. ~Cancelled(conn) /\ ~Stopped(a)
        BY <1>1, <2>2, <4>1 DEF FlagInv, Unaware
      <4>3. QED
        BY <2>1, <4>1, <4>2 DEF Cancelled, Stopped
    <3>3. QED
      BY <3>1, <3>2
  <2>3. QED
    BY <1>1, <2>2 DEF FlagInv
<1>11. ASSUME ~({"off", "served"} \subseteq broken')
       PROVE  /\ UnderWay' = {begun'} /\ Alone' /\ Calling' = {}
              /\ attempts'[begun'].kind = kind
              /\ attempts'[begun'].stage = "queued" /\ begun' \in new
  <2>1. n = 1 /\ UnderWay \cup Calling = {} /\ answers = <<>>
    BY <1>11
  <2>2. new = {begun'}
    BY <1>1, <2>1 DEF Numbers
  <2>3. QED
    BY <1>1, <1>3, <1>5, <1>6, <2>1, <2>2 DEF Alone
<1>12. ASSUME "off" \notin broken' PROVE OffInv'
  <2>1. OffInv
    BY <1>12
  <2>2. ASSUME NEW a \in OfKind("pool")' PROVE conn'.flag = a
    <3>1. a = begun' /\ kind = "pool"
      BY <1>11, <1>12 DEF OfKind
    <3>2. QED
      BY <3>1
  <2>3. QED
    BY <1>1, <1>11, <1>12, <2>1, <2>2 DEF OffInv
<1>13. ASSUME "served" \notin broken' PROVE ServedInv'
  <2>1. ServedInv
    BY <1>13
  <2>2. /\ UnderWay' = {begun'} /\ Alone' /\ Calling' = {}
        /\ attempts'[begun'].kind = kind
        /\ attempts'[begun'].stage = "queued"
    BY <1>11, <1>13
  <2>3. Pools' = Pools
    BY DEF Pools
  <2>4. IF kind = "sync" THEN conn'.local # 0 => conn'.shared # 0
        ELSE Pools' = {}
    BY <1>13, <2>3 DEF HasPool, Pools
  <2>5. \A a \in UnderWay' :
         /\ attempts'[a].stage \in {"dialing", "made", "passed"} => Pools' = {}
         /\ attempts'[a].stage = "queued" =>
               IF attempts'[a].kind = "sync"
               THEN conn'.local # 0 => conn'.shared # 0 ELSE Pools' = {}
         /\ attempts'[a].stage \in {"made", "passed"} => caller'[a] = "ready"
         /\ attempts'[a].stage \in {"dialing", "made", "passed"}
               /\ caller'[a] = "ready" => Linked(a)'
    BY <2>2, <2>4
  <2>6. \A a \in 1..begun : a \in Ids \ new
    BY <1>1 DEF Numbers
  <2>7. \A a \in 1..begun : Past(a) => Past(a)'
    BY <1>4, <2>6 DEF Past
  <2>8. \A a : Linked(a) => Linked(a)'
    BY <1>5 DEF Linked, Up
  <2>9. Pools \subseteq 1..begun
    BY DEF Pools, Numbers, Conn
  <2>10. \A a \in Pools' : caller'[a] = "ready" /\ Linked(a)' /\ Past(a)'
    BY <1>5, <2>1, <2>3, <2>7, <2>8, <2>9 DEF ServedInv
  <2>11. looking'.stale # 0 =>
            looking'.stale \in (1..begun') \ Pools' /\ Past(looking.stale)'
    <3>1. \A a \in 1..begun : a \in 1..begun'
      BY <1>1 DEF Numbers
    <3>2. looking'.stale # 0 =>
            looking'.stale \in (1..begun) \ Pools /\ Past(looking'.stale)
      BY <2>1 DEF ServedInv
    <3>3. QED
      BY <1>4, <2>3, <2>6, <3>1, <3>2 DEF Past
  <2>12. QED
    BY <2>1, <2>2, <2>5, <2>10, <2>11 DEF ServedInv
<1>14. QED
  BY <1>5, <1>7, <1>9, <1>10, <1>12, <1>13
-----------------------------------------------------------------------------
(* The handlers that ask for attempts, or hand out a pool.                 *)
LEMMA OverlapFree ==
    ASSUME "overlap" \notin Overlapping
    PROVE  UnderWay \cup Calling = {} /\ answers = <<>>
BY IfItHolds DEF Overlapping

LEMMA StartKeeps ==
    ASSUME PoolInv, NEW n \in {1, 2}, NEW c \in Conn, Start(c, n),
           c.local = conn.local, c.shared = conn.shared,
           c.raised = conn.raised, UNCHANGED tunnelVars, served' = served,
           looking.for # "quick", looking' \in {looking, NoLook}
    PROVE  PoolInv'
<1> DEFINE q == Overlapping \cup If(n > 1, "overlap") \cup If(HasPool(c), "renew")
<1>1. /\ Begin(n, "pool") /\ conn' = Marked(c, begun') /\ Happen(q)
  BY DEF Start
<1>2. begun' \in Nat
  BY <1>1, CallersAreNumbers DEF Begin, PoolInv, Numbers
<1>3. Is(conn', conn.local, conn.shared, TRUE, c.error, begun', conn.raised)
  BY <1>1, <1>2, Fields DEF Is
<1>4. broken \subseteq broken' /\ broken' \subseteq {"off", "served"}
  BY <1>1, Happens DEF PoolInv, Numbers
<1>5. ASSUME ~({"off", "served"} \subseteq broken')
      PROVE  n = 1 /\ UnderWay \cup Calling = {} /\ answers = <<>>
  <2>1. "overlap" \notin q
    <3>1. CASE "off" \notin broken'
      BY <1>1, <3>1, Happens DEF Reviving
    <3>2. CASE "served" \notin broken'
      BY <1>1, <3>2, Happens DEF Wearing
    <3>3. QED
      BY <1>5, <3>1, <3>2
  <2>2. n = 1
    BY <2>1 DEF If
  <2>3. QED
    BY <2>1, <2>2, OverlapFree
<1>6. "served" \notin broken' => ~HasPool(conn)
  <2>1. "served" \notin broken' => "renew" \notin q
    BY <1>1, Happens DEF Wearing
  <2>2. QED
    BY <2>1, IfItHolds DEF HasPool
<1>7. /\ looking' \in Look0
      /\ looking'.for = "nothing" => looking'.stale = 0
      /\ looking'.stale \in {looking.stale, 0}
  <2>1. CASE looking' = looking
    BY <2>1 DEF PoolInv, Numbers, Attempts
  <2>2. CASE looking' = NoLook
    BY <2>2 DEF NoLook, Look0
  <2>3. QED
    BY <2>1, <2>2
<1>8. QED
  BY <1>1, <1>3, <1>4, <1>5, <1>6, <1>7, BeginKeeps DEF Is

(* What a handler does to its record before it looks at it.                *)
LEMMA ErrorForgotten ==
    ASSUME conn \in Conn
    PROVE  Is([conn EXCEPT !.error = FALSE], conn.local, conn.shared,
              conn.pending, FALSE, conn.flag, conn.raised)
BY DEF Is, Conn

LEMMA WantKeeps ==
    ASSUME PoolInv, Want \/ Click
    PROVE  PoolInv'
<1>1. conn \in Conn
  BY DEF PoolInv, Numbers
<1>2. Acts /\ served' = served /\ UNCHANGED tunnelVars
  BY DEF Want, Click
<1>3. looking.for # "quick" /\ looking' = looking
  BY <1>2 DEF Acts, Idle, NoLook
<1>4. PICK c \in {conn, [conn EXCEPT !.error = FALSE]}, n \in {1, 2} :
         Start(c, n)
  BY DEF Want, Click, EnsurePool
<1>5. /\ c \in Conn /\ c.local = conn.local /\ c.shared = conn.shared
      /\ c.raised = conn.raised
  BY <1>1, <1>4, ErrorForgotten DEF Is
<1>6. QED
  BY <1>2, <1>3, <1>4, <1>5, StartKeeps

LEMMA SyncKeeps ==
    ASSUME PoolInv, Sync
    PROVE  PoolInv'
<1> DEFINE q == Overlapping \cup If(conn.local # 0 /\ conn.shared = 0, "renew")
<1>1. /\ Begin(1, "sync") /\ Happen(q) /\ served' = served
      /\ UNCHANGED tunnelVars /\ Acts
  BY DEF Sync
<1>2. looking.for # "quick" /\ looking' = looking
  BY <1>1 DEF Acts, Idle, NoLook
<1>3. /\ conn' \in Conn /\ conn'.local = conn.local
      /\ conn'.shared = conn.shared /\ conn'.raised = conn.raised
      /\ conn'.flag = conn.flag
  <2>1. conn \in Conn
    BY DEF PoolInv, Numbers
  <2>2. CASE conn' = conn
    BY <2>1, <2>2
  <2>3. CASE conn' = [conn EXCEPT !.error = FALSE]
    BY <2>1, <2>3, ErrorForgotten DEF Is
  <2>4. QED
    BY <2>2, <2>3 DEF Sync
<1>4. broken \subseteq broken' /\ broken' \subseteq {"off", "served"}
  BY <1>1, Happens DEF PoolInv, Numbers
<1>5. ASSUME ~({"off", "served"} \subseteq broken')
      PROVE  UnderWay \cup Calling = {} /\ answers = <<>>
  <2>1. CASE "off" \notin broken'
    BY <1>1, <2>1, Happens, OverlapFree DEF Reviving
  <2>2. CASE "served" \notin broken'
    BY <1>1, <2>2, Happens, OverlapFree DEF Wearing
  <2>3. QED
    BY <1>5, <2>1, <2>2
<1>6. "served" \notin broken' => (conn.local # 0 => conn.shared # 0)
  <2>1. "served" \notin broken' => "renew" \notin q
    BY <1>1, Happens DEF Wearing
  <2>2. QED
    BY <2>1, IfItHolds
<1>7. looking' \in Look0 /\ (looking'.for = "nothing" => looking'.stale = 0)
  BY <1>2 DEF PoolInv, Numbers, Attempts
<1>8. QED
  BY <1>1, <1>2, <1>3, <1>4, <1>5, <1>6, <1>7, BeginKeeps

(* Nothing begins, and the handler is done.                                *)
LEMMA StandKeeps ==
    ASSUME PoolInv, Tamer, Nothing, Happen({}), UNCHANGED tunnelVars,
           conn'.raised = conn.raised, looking' = NoLook,
           looking.for # "quick",
           conn'.pending => conn'.flag = conn.flag,
           ~HasPool(conn) /\ ~conn.pending => conn' = conn,
           conn'.local # 0 /\ conn'.shared = 0 =>
              conn.local # 0 /\ conn.shared = 0,
           served' \in BOOLEAN, "served" \notin broken => served'
    PROVE  PoolInv'
<1> USE DEF PoolInv
<1>1. TunnelInv' /\ Quiet
  BY QuietTunnel
<1>2. broken' = broken
  BY DEF Happen
<1>3. Calmer
  BY <1>1, <1>2 DEF Calmer, Nothing, NoLook, Look0, Numbers
<1>4. Numbers' /\ Attempts' /\ FlagInv'
  BY <1>1, <1>3, CalmerKeeps
<1>5. "off" \notin broken' => OffInv'
  BY <1>2, <1>3, CalmerOff DEF Nothing
<1>6. "served" \notin broken' => ServedInv'
  BY <1>2, <1>3, CalmerServed DEF NoLook
<1>7. QED
  BY <1>1, <1>4, <1>5, <1>6

(* The pool that is handed out is not the one that was found to be dead.   *)
LEMMA HandedWorks ==
    ASSUME PoolInv, Hand(conn), HasPool(conn)
    PROVE  /\ Nothing /\ Happen({}) /\ served' \in BOOLEAN
           /\ "served" \notin broken => served'
<1>1. PoolOf(conn) \in Pools /\ PoolOf(conn) # 0
  BY DEF HasPool, PoolOf, Pools
<1>2. QED
  BY <1>1 DEF Hand, PoolInv, ServedInv

(* The pool found by others becomes the UI thread's own.                   *)
LEMMA Adopted ==
    ASSUME conn \in Conn
    PROVE  /\ Is([Forgotten(Unmarked(conn)) EXCEPT !.local = conn.shared],
                 conn.shared, conn.shared, FALSE, conn.error, 0, conn.raised)
           /\ Is([Unmarked(conn) EXCEPT !.local = conn.shared],
                 conn.shared, conn.shared, FALSE, conn.error, conn.flag,
                 conn.raised)
<1> DEFINE u == Unmarked(conn)
           f == Forgotten(u)
<1>1. Is(u, conn.local, conn.shared, FALSE, conn.error, conn.flag,
         conn.raised)
  BY Fields
<1> HIDE DEF u
<1>2. Is(f, conn.local, conn.shared, FALSE, conn.error, 0, conn.raised)
  <2>1. Is(f, u.local, u.shared, u.pending, u.error, 0, u.raised)
    BY <1>1, Fields DEF Is
  <2>2. QED
    BY <1>1, <2>1 DEF Is
<1> HIDE DEF f
<1>3. conn.shared \in Nat
  BY DEF Conn
<1>4. Is([u EXCEPT !.local = conn.shared], conn.shared, conn.shared, FALSE,
         conn.error, conn.flag, conn.raised)
  BY <1>1, <1>3 DEF Is, Conn
<1>5. Is([f EXCEPT !.local = conn.shared], conn.shared, conn.shared, FALSE,
         conn.error, 0, conn.raised)
  BY <1>2, <1>3 DEF Is, Conn
<1>6. QED
  BY <1>4, <1>5 DEF u, f

(* What the handlers of a frame have in common.                            *)
LEMMA HandlerKeeps ==
    ASSUME PoolInv, UNCHANGED tunnelVars, looking' = NoLook,
           looking.for # "quick",
           \/ conn' = conn /\ HandNothing
           \/ conn' = conn /\ HasPool(conn) /\ Hand(conn)
           \/ /\ HasPool(conn) /\ conn.local = 0 /\ Hand(conn)
              /\ \/ conn' = [Unmarked(conn) EXCEPT !.local = conn.shared]
                 \/ conn' = [Forgotten(Unmarked(conn)) EXCEPT
                                !.local = conn.shared]
    PROVE  PoolInv'
<1>1. conn \in Conn
  BY DEF PoolInv, Numbers
<1>2. CASE conn' = conn /\ HandNothing
  <2>1. Tamer /\ conn'.raised = conn.raised
    BY <1>1, <1>2 DEF Tamer
  <2>2. Nothing /\ Happen({}) /\ served' = served
    BY <1>2 DEF HandNothing
  <2>3. served' \in BOOLEAN /\ ("served" \notin broken => served')
    BY <2>2 DEF PoolInv, Numbers, ServedInv
  <2>4. QED
    BY <1>2, <2>1, <2>2, <2>3, StandKeeps
<1>3. CASE conn' = conn /\ HasPool(conn) /\ Hand(conn)
  <2>1. Tamer /\ conn'.raised = conn.raised
    BY <1>1, <1>3 DEF Tamer
  <2>2. QED
    BY <1>3, <2>1, HandedWorks, StandKeeps
<1>4. CASE /\ HasPool(conn) /\ conn.local = 0 /\ Hand(conn)
           /\ \/ conn' = [Unmarked(conn) EXCEPT !.local = conn.shared]
              \/ conn' = [Forgotten(Unmarked(conn)) EXCEPT
                             !.local = conn.shared]
  <2>1. /\ conn' \in Conn /\ conn'.local = conn.shared
        /\ conn'.shared = conn.shared /\ conn'.pending = FALSE
        /\ conn'.flag \in {conn.flag, 0} /\ conn'.raised = conn.raised
    BY <1>1, <1>4, Adopted DEF Is
  <2>2. Tamer
    BY <2>1 DEF Tamer
  <2>3. QED
    BY <1>4, <2>1, <2>2, HandedWorks, StandKeeps
<1>5. QED
  BY <1>2, <1>3, <1>4

LEMMA QueryKeeps ==
    ASSUME PoolInv, Query \/ Requery \/ Render
    PROVE  PoolInv'
<1>1. /\ looking' = NoLook /\ looking.for # "quick" /\ UNCHANGED tunnelVars
      /\ conn \in Conn
  BY DEF Query, Requery, Render, Looked, PoolInv, Numbers
<1>2. CASE Query
  BY <1>1, <1>2, HandlerKeeps DEF Query, HandNothing
<1>3. ASSUME EnsurePool(conn), served' = served PROVE PoolInv'
  <2>1. CASE Startable(conn)
    BY <1>1, <1>3, <2>1, StartKeeps DEF EnsurePool
  <2>2. CASE ~Startable(conn)
    BY <1>1, <1>3, <2>2, HandlerKeeps DEF EnsurePool, HandNothing
  <2>3. QED
    BY <2>1, <2>2
<1>4. CASE Requery
  BY <1>3, <1>4 DEF Requery
<1>5. CASE Render
  <2>1. CASE conn.local # 0
    BY <1>1, <1>5, <2>1, HandlerKeeps DEF Render, HasPool
  <2>2. CASE conn.local = 0 /\ conn.shared # 0
    BY <1>1, <1>5, <2>2, HandlerKeeps DEF Render, HasPool
  <2>3. CASE conn.local = 0 /\ conn.shared = 0 /\ conn.error
    BY <1>1, <1>5, <2>3, HandlerKeeps DEF Render, HandNothing
  <2>4. CASE conn.local = 0 /\ conn.shared = 0 /\ ~conn.error
    BY <1>3, <1>5, <2>4 DEF Render
  <2>5. QED
    BY <2>1, <2>2, <2>3, <2>4
<1>6. QED
  BY <1>2, <1>4, <1>5

LEMMA FetchKeeps ==
    ASSUME PoolInv, Fetch
    PROVE  PoolInv'
<1>1. /\ looking.for = "data" /\ UNCHANGED tunnelVars /\ conn \in Conn
  BY DEF Fetch, PoolInv, Numbers
<1>2. CASE HasPool(conn)
  BY <1>1, <1>2, HandlerKeeps DEF Fetch, HasPool
<1>3. CASE ~HasPool(conn) /\ conn.pending
  BY <1>1, <1>3, HandlerKeeps DEF Fetch, HandNothing
<1>4. CASE ~HasPool(conn) /\ ~conn.pending
  <2>1. /\ Begin(1, "quick") /\ conn' = Marked(conn, begun')
        /\ Happen(Overlapping) /\ served' = served
        /\ looking' = [looking EXCEPT !.for = "quick"]
    BY <1>4 DEF Fetch
  <2>2. begun' \in Nat
    BY <2>1, CallersAreNumbers DEF Begin, PoolInv, Numbers
  <2>3. Is(conn', conn.local, conn.shared, TRUE, conn.error, begun',
           conn.raised)
    BY <1>1, <2>1, <2>2, Fields
  <2>4. looking' \in Look0 /\ looking'.for = "quick"
        /\ looking'.stale = looking.stale
    BY <2>1 DEF PoolInv, Numbers, Look0
  <2>5. broken \subseteq broken' /\ broken' \subseteq {"off", "served"}
    BY <2>1, Happens DEF PoolInv, Numbers
  <2>6. ASSUME ~({"off", "served"} \subseteq broken')
        PROVE  UnderWay \cup Calling = {} /\ answers = <<>>
    <3>1. CASE "off" \notin broken'
      BY <2>1, <3>1, Happens, OverlapFree DEF Reviving
    <3>2. CASE "served" \notin broken'
      BY <2>1, <3>2, Happens, OverlapFree DEF Wearing
    <3>3. QED
      BY <2>6, <3>1, <3>2
  <2>7. QED
    BY <1>1, <1>4, <2>1, <2>3, <2>4, <2>5, <2>6, BeginKeeps DEF Is
<1>5. QED
  BY <1>2, <1>3, <1>4
-----------------------------------------------------------------------------
(* What happens by itself.                                                 *)
LEMMA ByItselfKeeps ==
    ASSUME PoolInv,
           \/ Expire
           \/ Die
           \/ UNCHANGED vars
           \/ /\ ShutAtLast
              /\ UNCHANGED <<conn, begun, attempts, slow, answers, uiVars,
                             history>>
    PROVE  PoolInv'
<1> USE DEF PoolInv
<1>1. /\ UNCHANGED <<begun, attempts, slow, answers, looking, history>>
      /\ UNCHANGED tunnelVars \/ TunnelDies \/ ShutAtLast
  BY DEF Expire, Die, uiVars, vars
<1>2. TunnelInv' /\ Quiet
  BY <1>1, QuietTunnel
<1>3. conn' = conn \/ (UnderWay \subseteq slow /\ conn' = Forgotten(conn))
  <2>1. CASE Expire
    BY <2>1 DEF Expire
  <2>2. CASE Die
    <3>1. conn' = conn
      BY <2>2 DEF Die
    <3>2. QED
      BY <3>1
  <2>3. CASE UNCHANGED <<conn, begun, attempts, slow, answers, uiVars, history>>
    BY <2>3
  <2>4. CASE UNCHANGED vars
    <3>1. conn' = conn
      BY <2>4 DEF vars
    <3>2. QED
      BY <3>1
  <2>5. QED
    BY <2>1, <2>2, <2>3, <2>4
<1>4. /\ conn' \in Conn
      /\ conn'.local = conn.local /\ conn'.shared = conn.shared
      /\ conn'.pending = conn.pending /\ conn'.error = conn.error
      /\ conn'.raised = conn.raised /\ conn'.flag \in {conn.flag, 0}
  <2>1. conn \in Conn
    BY DEF Numbers
  <2>2. CASE conn' = conn
    BY <2>1, <2>2
  <2>3. CASE conn' = Forgotten(conn)
    BY <2>1, <2>3, Fields DEF Is
  <2>4. QED
    BY <1>3, <2>2, <2>3
<1>5. Tamer
  BY <1>4 DEF Tamer
<1>6. Calmer
  BY <1>1, <1>2, <1>4, <1>5 DEF Calmer, history, Numbers, Attempts
<1>7. Numbers' /\ Attempts' /\ FlagInv'
  BY <1>2, <1>6, CalmerKeeps
<1>8. ASSUME "off" \notin broken' PROVE OffInv'
  <2>1. OffInv /\ off' = off
    BY <1>1, <1>8 DEF history
  <2>2. UnderWay # {} => conn' = conn
    BY <1>3, <2>1 DEF OffInv
  <2>3. QED
    BY <1>4, <1>6, <2>1, <2>2, CalmerOff DEF HasPool, OffInv
<1>9. "served" \notin broken' => ServedInv'
  BY <1>1, <1>4, <1>6, CalmerServed DEF history, ServedInv
<1>10. QED
  BY <1>2, <1>7, <1>8, <1>9

LEMMA StallKeeps ==
    ASSUME PoolInv, NEW a \in 1..begun, Stall(a)
    PROVE  PoolInv'
<1> USE DEF PoolInv
<1>1. /\ UNCHANGED <<conn, begun, attempts, answers, looking, off, calledoff,
                     stands, served>>
      /\ UNCHANGED <<entry, alive, caller, port, closing>>
      /\ slow' = slow \cup {a} /\ Happen({"stall"})
  BY DEF Stall, uiVars, tunnelVars
<1>2. /\ broken \subseteq broken' /\ broken' \subseteq {"off", "served"}
      /\ "off" \in broken'
      /\ "served" \notin broken' => "served" \notin broken
  BY <1>1, Happens DEF Numbers, Reviving
<1>3. TunnelInv'
  BY <1>1 DEF TunnelInv, NoTunnelIsLost, Spawning
<1>4. Numbers'
  <2>1. a \in Ids
    BY CallersAreNumbers DEF Numbers
  <2>2. QED
    BY <1>1, <1>2, <2>1 DEF Numbers
<1>5. Attempts' /\ FlagInv'
  BY <1>1 DEF Attempts, FlagInv, UnderWay, Unaware, Cancelled, Stopped
<1>6. "served" \notin broken' => ServedInv'
  <2>1. /\ UnderWay' = UnderWay /\ Calling' = Calling /\ Pools' = Pools
        /\ Alone' <=> Alone
    BY <1>1 DEF Alone, UnderWay, Calling, Pools
  <2>2. \A x : (Linked(x)' <=> Linked(x)) /\ (Past(x)' <=> Past(x))
    BY <1>1 DEF Linked, Up, Past
  <2>3. Past(looking.stale)' <=> Past(looking.stale)
    BY <1>1 DEF Past
  <2>4. QED
    BY <1>1, <1>2, <2>1, <2>2, <2>3 DEF ServedInv
<1>7. QED
  BY <1>2, <1>3, <1>4, <1>5, <1>6

(* A caller of the tunnel goes on.                                         *)
LEMMA ThreadKeeps ==
    ASSUME PoolInv, NEW c \in Callers, Thread(c),
           UNCHANGED <<conn, begun, attempts, slow, answers, uiVars, history>>
    PROVE  PoolInv'
<1> USE CallersAreNumbers DEF PoolInv
<1>1. /\ UNCHANGED <<conn, begun, attempts, slow, answers, looking>>
      /\ UNCHANGED <<off, calledoff, stands, served, broken>>
  BY DEF uiVars, history
<1>2. TunnelInv'
  BY TunnelKeeps
<1>3. /\ c \in Calling /\ caller[c] \in {"waiting", "spawning"}
      /\ \A x \in Callers : x # c => /\ caller'[x] = caller[x]
                                     /\ port'[x] = port[x]
      /\ caller'[c] \in {"spawning", "ready", "failed"}
      /\ caller'[c] = "ready" => port'[c] = entry'
      /\ entry' \in {entry, 0, c} /\ alive' \subseteq alive \cup {c}
  <2>1. CASE Ensure(c) /\ Up(entry)
    BY <2>1 DEF Ensure, Ensures, Calling, TunnelInv
  <2>2. CASE Ensure(c) /\ ~Up(entry)
    BY <2>2 DEF Ensure, Ensures, Calling, TunnelInv
  <2>3. CASE Spawned(c)
    BY <2>3 DEF Spawned, Calling, TunnelInv
  <2>4. CASE SpawnFails(c)
    BY <2>4 DEF SpawnFails, Calling, TunnelInv
  <2>5. QED
    BY <2>1, <2>2, <2>3, <2>4 DEF Thread
<1>4. Calling' \subseteq Calling
  BY <1>3 DEF Calling
<1>5. c \in Ids /\ attempts[c].stage \notin {"none", "queued"} /\ c \in 1..begun
  <2>1. c \in Ids /\ attempts[c].stage \notin {"none", "queued"}
    BY <1>3 DEF Attempts
  <2>2. ~(c > begun)
    BY <2>1 DEF Attempts
  <2>3. QED
    BY <2>1, <2>2 DEF Numbers
<1>6. Numbers'
  <2>1. entry' <= begun
    BY <1>3, <1>5 DEF Numbers
  <2>2. alive' \subseteq 1..begun
    BY <1>3, <1>5 DEF Numbers
  <2>3. QED
    BY <1>1, <2>1, <2>2 DEF Numbers
<1>7. Attempts'
  <2>1. \A a \in Ids : attempts[a].stage \in {"none", "queued"} =>
                          caller'[a] = "none"
    BY <1>3, <1>5 DEF Attempts
  <2>2. QED
    BY <1>1, <2>1 DEF Attempts
<1>8. FlagInv'
  BY <1>1 DEF FlagInv, UnderWay, Unaware, Cancelled, Stopped
<1>9. UnderWay' = UnderWay /\ OfKind("pool")' = OfKind("pool")
  BY <1>1 DEF UnderWay, OfKind
<1>10. Alone => Alone'
  BY <1>1, <1>4, <1>9, AloneKeeps
<1>11. ASSUME "off" \notin broken' PROVE OffInv'
  BY <1>1, <1>9, <1>10, <1>11 DEF OffInv
<1>12. ASSUME "served" \notin broken' PROVE ServedInv'
  <2>1. ServedInv /\ Alone'
    BY <1>1, <1>10, <1>12 DEF ServedInv
  <2>2. Pools = {} /\ Pools' = {}
    BY <1>1, <1>3, <2>1 DEF ServedInv, Pools
  <2>3. ASSUME NEW a \in UnderWay
        PROVE  /\ a = c /\ attempts[a].stage \notin {"queued", "made", "passed"}
               /\ caller'[a] = "ready" => Linked(a)'
    <3>1. a = c
      BY <1>3, <2>1 DEF ServedInv, Alone
    <3>2. attempts[a].stage \notin {"made", "passed"}
      BY <1>3, <2>1, <3>1 DEF ServedInv
    <3>3. QED
      BY <1>3, <1>5, <3>1, <3>2 DEF Linked
  <2>4. QED
    BY <1>1, <1>9, <2>1, <2>2, <2>3 DEF ServedInv, Past
<1>13. QED
  BY <1>2, <1>6, <1>7, <1>8, <1>11, <1>12
-----------------------------------------------------------------------------
(* The attempts on their threads.  An attempt ends; it leaves its pool     *)
(* behind, or nothing.                                                     *)
LEMMA EndKeeps ==
    ASSUME PoolInv, TunnelInv', Quiet, NEW a \in UnderWay,
           attempts' = [attempts EXCEPT ![a] = Ended],
           begun' = begun, slow' \subseteq slow, answers' \in Seq(BOOLEAN),
           conn' \in Conn, conn'.raised = conn.raised,
           conn'.flag \in {conn.flag, 0}, conn'.pending => conn.pending,
           \/ conn'.local = conn.local /\ conn'.shared = conn.shared
           \/ /\ conn'.local \in {conn.local, a}
              /\ conn'.shared \in {conn.shared, a}
              /\ \/ attempts[a].stage = "passed"
                 \/ attempts[a].stage = "made" /\ attempts[a].kind = "quick",
           UNCHANGED <<off, calledoff>>, stands',
           \/ looking' = looking
           \/ looking' = NoLook /\ attempts[a].kind = "quick",
           served' \in {served, TRUE},
           broken \subseteq broken', broken' \subseteq {"off", "served"}
    PROVE  PoolInv'
<1> USE CallersAreNumbers DEF PoolInv
<1>1. a \in Ids /\ a \in Callers /\ a # 0 /\ a <= begun /\ ~(a > begun)
  BY UnderWayFacts
<1>2. /\ attempts'[a] = Ended
      /\ \A x \in Ids : x # a => attempts'[x] = attempts[x]
      /\ Ended \in Attempt /\ Ended.stage = "ended" /\ Ended.kind = "none"
      /\ Ended.flag = 0
  BY <1>1 DEF Numbers, Ended, NoAttempt, Attempt, Stages
<1>3. /\ entry' \in {entry, 0} /\ alive' \subseteq alive /\ caller' = caller
      /\ Calling' = Calling /\ \A x \in Callers : Linked(x) => Linked(x)'
  BY QuietLinks DEF Quiet
<1>4. UnderWay' = UnderWay \ {a}
  <2>1. \A x \in 1..begun : x \in Ids
    BY DEF Numbers
  <2>2. QED
    BY <1>1, <1>2, <2>1 DEF UnderWay
<1>5. Numbers'
  <2>1. attempts' \in [Ids -> Attempt]
    BY <1>1, <1>2 DEF Numbers
  <2>2. \A x \in Ids : attempts'[x].flag <= begun'
    BY <1>2 DEF Numbers
  <2>3. conn'.local <= begun' /\ conn'.shared <= begun' /\ conn'.flag <= begun'
    BY <1>1 DEF Numbers, Conn
  <2>4. entry' <= begun'
    BY <1>3 DEF Numbers
  <2>5. looking' \in Look0
    <3>1. NoLook \in Look0
      BY DEF NoLook, Look0
    <3>2. QED
      BY <3>1 DEF Numbers
  <2>6. alive' \subseteq 1..begun' /\ slow' \subseteq Ids
    BY <1>3 DEF Numbers
  <2>7. stands' \in BOOLEAN /\ served' \in BOOLEAN
    BY DEF Numbers
  <2>8. QED
    BY <2>1, <2>2, <2>3, <2>4, <2>5, <2>6, <2>7 DEF Numbers
<1>6. Attempts'
  <2>1. ASSUME NEW x \in Ids
        PROVE  /\ attempts'[x].stage = "none" <=> x > begun'
               /\ attempts'[x].kind = "none"
                     <=> attempts'[x].stage \in {"none", "ended"}
               /\ attempts'[x].stage \in {"none", "queued"} => caller'[x] = "none"
               /\ attempts'[x].kind = "quick" => looking'.for = "quick"
               /\ attempts'[x].stage = "reading" => attempts'[x].kind = "sync"
    <3>1. CASE x = a
      BY <1>1, <1>2, <3>1
    <3>2. CASE x # a
      BY <1>1, <1>2, <1>3, <3>2 DEF Attempts
    <3>3. QED
      BY <3>1, <3>2
  <2>2. \A x, y \in Ids : attempts'[x].kind = "quick"
                             /\ attempts'[y].kind = "quick" => x = y
    BY <1>2 DEF Attempts
  <2>3. looking'.for = "nothing" => looking'.stale = 0
    BY DEF Attempts, NoLook
  <2>4. QED
    BY <2>1, <2>2, <2>3 DEF Attempts
<1>7. FlagInv'
  <2>1. 0 \notin conn.raised
    BY DEF Numbers
  <2>2. \A x \in UnderWay' : x \in UnderWay /\ attempts'[x] = attempts[x]
    BY <1>2, <1>4, UnderWayFacts
  <2>3. \A x \in UnderWay' : Unaware(x)' => ~Cancelled(conn)' /\ ~Stopped(x)'
    BY <2>1, <2>2 DEF FlagInv, Unaware, Cancelled, Stopped
  <2>4. QED
    BY <2>3 DEF FlagInv
<1>8. ASSUME Alone PROVE Alone' /\ UnderWay' = {} /\ UnderWay = {a}
  <2>1. UnderWay = {a} /\ UnderWay' = {}
    BY <1>4, <1>8 DEF Alone
  <2>2. QED
    BY <1>3, <1>8, <2>1, AloneKeeps
<1>9. ASSUME "off" \notin broken' PROVE OffInv'
  <2>1. OffInv
    BY <1>9
  <2>2. Alone' /\ UnderWay' = {} /\ OfKind("pool")' = {}
    BY <1>8, <2>1 DEF OffInv, OfKind
  <2>3. off' => ~HasPool(conn') /\ ~conn'.pending
    BY <2>1 DEF OffInv, HasPool
  <2>4. QED
    BY <2>1, <2>2, <2>3 DEF OffInv
<1>10. ASSUME "served" \notin broken' PROVE ServedInv'
  <2>1. ServedInv
    BY <1>10
  <2>2. Alone' /\ UnderWay' = {} /\ UnderWay = {a}
    BY <1>8, <2>1 DEF ServedInv
  <2>3. \/ Pools' = Pools
        \/ /\ Pools = {} /\ Pools' \subseteq {a} /\ Calling = {}
           /\ caller[a] = "ready" /\ Linked(a) /\ ~Past(a)
    <3>1. CASE conn'.local = conn.local /\ conn'.shared = conn.shared
      BY <3>1 DEF Pools
    <3>2. CASE /\ conn'.local \in {conn.local, a}
               /\ conn'.shared \in {conn.shared, a}
               /\ attempts[a].stage \in {"made", "passed"}
      <4>1. Pools = {} /\ caller[a] = "ready" /\ Linked(a)
        BY <2>1, <3>2 DEF ServedInv
      <4>2. Calling = {}
        BY <2>1, <4>1 DEF ServedInv, Alone, Calling
      <4>3. Pools' \subseteq {a}
        BY <3>2, <4>1 DEF Pools
      <4>4. QED
        BY <3>2, <4>1, <4>2, <4>3 DEF Past
    <3>3. QED
      BY <3>1, <3>2
  <2>4. Calling' # {} => Pools' = {}
    BY <1>3, <2>1, <2>3 DEF ServedInv
  <2>5. Pools \subseteq Callers
    BY DEF Pools, Numbers, Conn
  <2>6. \A x \in Callers : Past(x) \/ x = a => Past(x)'
    BY <1>2 DEF Past
  <2>7. \A x \in Pools' : caller'[x] = "ready" /\ Linked(x)' /\ Past(x)'
    BY <1>1, <1>3, <2>1, <2>3, <2>5, <2>6 DEF ServedInv
  <2>8. looking'.stale # 0 =>
           looking'.stale \in (1..begun') \ Pools' /\ Past(looking.stale)'
    <3>1. ASSUME looking'.stale # 0
          PROVE  /\ looking'.stale \in (1..begun) \ Pools
                 /\ Past(looking'.stale) /\ looking'.stale \in Callers
      BY <2>1, <3>1 DEF ServedInv, NoLook, Numbers
    <3>2. QED
      BY <1>2, <2>3, <3>1 DEF Past
  <2>9. served'
    BY <2>1 DEF ServedInv
  <2>10. QED
    BY <2>1, <2>2, <2>4, <2>7, <2>8, <2>9 DEF ServedInv
<1>11. QED
  BY <1>5, <1>6, <1>7, <1>9, <1>10

(* An attempt goes on without its tunnel.                                  *)
LEMMA GoKeeps ==
    ASSUME PoolInv, NEW a \in UnderWay, NEW stage \in {"made", "passed", "reading"},
           Goes(a, stage), UNCHANGED <<answers, stands, tunnelVars>>,
           stage = "reading" => attempts[a].kind = "sync",
           stage # "reading" => /\ attempts[a].stage \in {"dialing", "made"}
                                /\ ServedInv => caller[a] = "ready",
           \/ conn' = conn
           \/ /\ conn' = [conn EXCEPT !.shared = a]
              /\ stage = "reading" /\ attempts[a].stage = "passed",
           OffInv /\ off => stage = "made",
           broken \subseteq broken', broken' \subseteq {"off", "served"}
    PROVE  PoolInv'
<1> USE CallersAreNumbers DEF PoolInv
<1>1. a \in Ids /\ a \in Callers /\ a # 0 /\ a <= begun /\ ~(a > begun)
      /\ attempts[a].stage # "ended"
  BY UnderWayFacts
<1>2. /\ attempts' = [attempts EXCEPT ![a].stage = stage]
      /\ UNCHANGED <<begun, slow, looking, off, calledoff, served>>
      /\ UNCHANGED <<entry, alive, caller, port, closing>>
  BY DEF Goes, uiVars, tunnelVars
<1>3. /\ attempts'[a].stage = stage /\ attempts'[a].kind = attempts[a].kind
      /\ attempts'[a].flag = attempts[a].flag
      /\ attempts'[a].exposed = attempts[a].exposed
      /\ \A x \in Ids : x # a => attempts'[x] = attempts[x]
      /\ attempts'[a] \in Attempt
  BY <1>1, <1>2 DEF Numbers, Attempt, Stages
<1>4. TunnelInv'
  BY TunnelKeeps
<1>5. \A x \in 1..begun : x \in Ids
  BY DEF Numbers
<1>6. UnderWay' = UnderWay /\ OfKind("pool")' = OfKind("pool")
  <2>1. \A x \in 1..begun : attempts'[x].stage # "ended"
                               <=> attempts[x].stage # "ended"
    BY <1>1, <1>3, <1>5
  <2>2. UnderWay' = UnderWay
    BY <1>2, <2>1 DEF UnderWay
  <2>3. \A x \in UnderWay : attempts'[x].kind = attempts[x].kind
    BY <1>3, UnderWayFacts
  <2>4. QED
    BY <2>2, <2>3 DEF OfKind
<1>7. /\ conn' \in Conn /\ conn'.local = conn.local
      /\ conn'.pending = conn.pending /\ conn'.error = conn.error
      /\ conn'.flag = conn.flag /\ conn'.raised = conn.raised
      /\ conn'.shared \in {conn.shared, a}
      /\ conn'.shared # conn.shared =>
            stage = "reading" /\ attempts[a].stage = "passed"
  <2>1. conn \in Conn /\ a \in Nat
    BY <1>1 DEF Numbers
  <2>2. CASE conn' = conn
    <3>1. conn'.shared = conn.shared
      BY <2>2
    <3>2. QED
      BY <2>1, <2>2, <3>1
  <2>3. CASE conn' = [conn EXCEPT !.shared = a] /\ conn' # conn
    BY <2>1, <2>3 DEF Conn
  <2>4. QED
    BY <2>2, <2>3
<1>8. Numbers'
  <2>1. attempts' \in [Ids -> Attempt]
    BY <1>1, <1>2, <1>3 DEF Numbers
  <2>2. \A x \in Ids : attempts'[x].flag <= begun'
    BY <1>2, <1>3 DEF Numbers
  <2>3. conn'.local <= begun' /\ conn'.shared <= begun' /\ conn'.flag <= begun'
    BY <1>1, <1>2, <1>7 DEF Numbers
  <2>4. QED
    BY <1>2, <1>7, <2>1, <2>2, <2>3 DEF Numbers
<1>9. Attempts'
  <2>1. ASSUME NEW x \in Ids
        PROVE  /\ attempts'[x].stage = "none" <=> x > begun'
               /\ attempts'[x].kind = "none"
                     <=> attempts'[x].stage \in {"none", "ended"}
               /\ attempts'[x].stage \in {"none", "queued"} => caller'[x] = "none"
               /\ attempts'[x].kind = "quick" => looking'.for = "quick"
               /\ attempts'[x].stage = "reading" => attempts'[x].kind = "sync"
    <3>1. CASE x = a
      <4>1. attempts[a].stage # "none" /\ attempts[a].kind # "none"
        BY <1>1 DEF Attempts
      <4>2. QED
        BY <1>1, <1>2, <1>3, <3>1, <4>1 DEF Attempts
    <3>2. CASE x # a
      BY <1>2, <1>3, <3>2 DEF Attempts
    <3>3. QED
      BY <3>1, <3>2
  <2>2. \A x, y \in Ids : attempts'[x].kind = "quick"
                             /\ attempts'[y].kind = "quick" => x = y
    BY <1>3 DEF Attempts
  <2>3. QED
    BY <1>2, <2>1, <2>2 DEF Attempts
<1>10. FlagInv'
  <2>1. \A x \in UnderWay : /\ attempts'[x].flag = attempts[x].flag
                            /\ attempts'[x].exposed = attempts[x].exposed
    BY <1>3, UnderWayFacts
  <2>2. \A x \in UnderWay : Unaware(x)' => ~Cancelled(conn)' /\ ~Stopped(x)'
    BY <1>2, <1>7, <2>1 DEF FlagInv, Unaware, Cancelled, Stopped
  <2>3. QED
    BY <1>6, <2>2 DEF FlagInv
<1>11. Calling' = Calling
  BY <1>2 DEF Calling
<1>12. Alone => Alone'
  BY <1>6, <1>11, AloneKeeps
<1>13. ASSUME "off" \notin broken' PROVE OffInv'
  <2>1. OffInv
    BY <1>13
  <2>2. ASSUME off
        PROVE  /\ ~HasPool(conn') /\ ~conn'.pending
               /\ \A x \in UnderWay :
                     /\ attempts'[x].kind = "pool"
                     /\ attempts'[x].stage \in {"queued", "dialing", "made"}
                     /\ ~conn'.error
                     /\ conn'.flag = x /\ x \in conn'.raised
    <3>1. stage = "made"
      BY <2>1, <2>2
    <3>2. ~HasPool(conn') /\ ~conn'.pending
      BY <1>7, <2>1, <2>2, <3>1 DEF OffInv, HasPool
    <3>3. \A x \in UnderWay :
                     /\ attempts'[x].kind = "pool"
                     /\ attempts'[x].stage \in {"queued", "dialing", "made"}
      BY <1>3, <2>1, <2>2, <3>1, UnderWayFacts DEF OffInv
    <3>4. QED
      BY <1>7, <2>1, <2>2, <3>2, <3>3 DEF OffInv
  <2>3. QED
    BY <1>2, <1>6, <1>7, <1>12, <2>1, <2>2 DEF OffInv
<1>14. ASSUME "served" \notin broken' PROVE ServedInv'
  <2>1. ServedInv
    BY <1>14
  <2>2. UnderWay = {a}
    BY <2>1 DEF ServedInv, Alone
  <2>3. \A x : Linked(x)' <=> Linked(x)
    BY <1>2 DEF Linked, Up
  <2>4. stage # "reading" => /\ Pools = {} /\ Pools' = {} /\ Linked(a)
                              /\ caller[a] = "ready"
    BY <1>7, <2>1 DEF ServedInv, Pools
  <2>5. \/ Pools' = Pools
        \/ /\ Pools = {} /\ Pools' \subseteq {a} /\ Calling = {}
           /\ caller[a] = "ready" /\ Linked(a) /\ ~Past(a)
    <3>1. CASE conn'.shared = conn.shared
      BY <1>7, <3>1 DEF Pools
    <3>2. CASE conn'.shared = a /\ attempts[a].stage = "passed"
      <4>1. Pools = {} /\ caller[a] = "ready" /\ Linked(a)
        BY <2>1, <3>2 DEF ServedInv
      <4>2. Calling = {}
        BY <2>1, <4>1 DEF ServedInv, Alone, Calling
      <4>3. Pools' \subseteq {a}
        BY <1>7, <3>2, <4>1 DEF Pools
      <4>4. QED
        BY <3>2, <4>1, <4>2, <4>3 DEF Past
    <3>3. QED
      BY <1>7, <3>1, <3>2
  <2>6. Pools \subseteq Callers
    BY DEF Pools, Numbers, Conn
  <2>7. \A x \in Callers : x # a /\ Past(x) => Past(x)'
    BY <1>3 DEF Past
  <2>8. Past(a) => Past(a)'
    BY <1>3 DEF Past
  <2>9. \A x \in Callers : Past(x) => Past(x)'
    BY <2>7, <2>8
  <2>10. stage = "reading" => Past(a)'
    BY <1>3 DEF Past
  <2>11. \A x \in Pools' : caller'[x] = "ready" /\ Linked(x)' /\ Past(x)'
    <3>1. CASE Pools' = Pools
      BY <1>2, <2>1, <2>3, <2>6, <2>9, <3>1 DEF ServedInv
    <3>2. CASE Pools' # Pools
      BY <1>2, <1>7, <2>3, <2>4, <2>5, <2>10, <3>2
    <3>3. QED
      BY <3>1, <3>2
  <2>12. Calling' # {} => Pools' = {}
    BY <1>11, <2>1, <2>5 DEF ServedInv
  <2>13. /\ attempts'[a].stage = stage
         /\ stage \in {"made", "passed"} => caller'[a] = "ready"
         /\ stage \in {"made", "passed"} => Pools' = {} /\ Linked(a)'
    BY <1>2, <1>3, <2>3, <2>4
  <2>14. looking.stale # 0 =>
            looking.stale \in (1..begun) \ Pools' /\ Past(looking.stale)'
    <3>1. ASSUME looking.stale # 0
          PROVE  /\ looking.stale \in (1..begun) \ Pools
                 /\ Past(looking.stale) /\ looking.stale \in Callers
      BY <1>5, <2>1, <3>1 DEF ServedInv
    <3>2. looking.stale \in Callers /\ Past(looking.stale) =>
             Past(looking.stale)'
      BY <1>2, <1>3 DEF Past
    <3>3. looking.stale # 0 => looking.stale \notin Pools'
      BY <2>5, <3>1
    <3>4. QED
      BY <3>1, <3>2, <3>3
  <2>15. \A x \in UnderWay' :
         /\ attempts'[x].stage \in {"dialing", "made", "passed"} => Pools' = {}
         /\ attempts'[x].stage = "queued" =>
               IF attempts'[x].kind = "sync"
               THEN conn'.local # 0 => conn'.shared # 0 ELSE Pools' = {}
         /\ attempts'[x].stage \in {"made", "passed"} => caller'[x] = "ready"
         /\ attempts'[x].stage \in {"dialing", "made", "passed"}
               /\ caller'[x] = "ready" => Linked(x)'
    BY <1>6, <2>2, <2>13
  <2>16. QED
    BY <1>2, <1>12, <2>1, <2>11, <2>12, <2>14, <2>15 DEF ServedInv
<1>15. QED
  BY <1>4, <1>8, <1>9, <1>10, <1>13, <1>14

(* An attempt asks for the tunnel, with the flag that is there by then.    *)
LEMMA DialKeeps ==
    ASSUME PoolInv, NEW a \in UnderWay, attempts[a].stage = "queued",
           attempts[a].kind = "sync" => conn.shared = 0,
           attempts' = [attempts EXCEPT ![a].stage = "dialing",
                                        ![a].flag = conn.flag],
           Calls(a), UNCHANGED <<entry, alive, port, closing, begun, slow,
                                 looking, off, calledoff, served, conn,
                                 answers, stands>>,
           broken \subseteq broken', broken' \subseteq {"off", "served"}
    PROVE  PoolInv'
<1> USE CallersAreNumbers DEF PoolInv
<1>1. /\ a \in Ids /\ a \in Callers /\ a # 0 /\ a <= begun /\ ~(a > begun)
      /\ attempts[a].stage # "ended"
  BY UnderWayFacts
<1>2. /\ attempts'[a].stage = "dialing"
      /\ attempts'[a].kind = attempts[a].kind
      /\ attempts'[a].flag = conn.flag
      /\ attempts'[a].exposed = attempts[a].exposed
      /\ \A x \in Ids : x # a => attempts'[x] = attempts[x]
      /\ attempts'[a] \in Attempt
  <2>1. attempts[a] \in Attempt /\ conn.flag \in Nat
    BY <1>1 DEF Numbers, Conn
  <2>2. attempts'[a] = [attempts[a] EXCEPT !.stage = "dialing",
                                           !.flag = conn.flag]
    BY <1>1 DEF Numbers
  <2>3. \A x \in Ids : x # a => attempts'[x] = attempts[x]
    BY DEF Numbers
  <2>4. "dialing" \in Stages
    BY DEF Stages
  <2>5. [attempts[a] EXCEPT !.stage = "dialing"] \in Attempt
    BY <2>1, <2>4 DEF Attempt
  <2>6. /\ attempts'[a].stage = "dialing"
        /\ attempts'[a].kind = attempts[a].kind
        /\ attempts'[a].flag = conn.flag
        /\ attempts'[a].exposed = attempts[a].exposed
        /\ attempts'[a] \in Attempt
    <3> DEFINE r == [attempts[a] EXCEPT !.stage = "dialing"]
    <3>1. attempts'[a] = [r EXCEPT !.flag = conn.flag]
      BY <2>2
    <3>2. /\ r \in Attempt /\ r.stage = "dialing"
          /\ r.kind = attempts[a].kind /\ r.exposed = attempts[a].exposed
      BY <2>1, <2>5 DEF Attempt
    <3> HIDE DEF r
    <3>3. QED
      BY <2>1, <3>1, <3>2 DEF Attempt
  <2>7. QED
    BY <2>3, <2>6
<1>3. caller[a] = "none"
  BY <1>1 DEF Attempts
<1>4. TunnelInv'
  BY <1>1, <1>3, TunnelKeeps
<1>5. /\ caller'[a] = "waiting"
      /\ \A x \in Callers : x # a => caller'[x] = caller[x]
  BY <1>1 DEF Calls, TunnelInv
<1>6. \A x \in 1..begun : x \in Ids
  BY DEF Numbers
<1>7. UnderWay' = UnderWay /\ OfKind("pool")' = OfKind("pool")
  <2>1. \A x \in 1..begun : attempts'[x].stage # "ended"
                               <=> attempts[x].stage # "ended"
    BY <1>1, <1>2, <1>6
  <2>2. UnderWay' = UnderWay
    BY <2>1 DEF UnderWay
  <2>3. \A x \in UnderWay : attempts'[x].kind = attempts[x].kind
    BY <1>2, UnderWayFacts
  <2>4. QED
    BY <2>2, <2>3 DEF OfKind
<1>8. Numbers'
  <2>1. attempts' \in [Ids -> Attempt]
    BY <1>1, <1>2 DEF Numbers
  <2>2. \A x \in Ids : attempts'[x].flag <= begun'
    BY <1>2 DEF Numbers
  <2>3. QED
    BY <2>1, <2>2 DEF Numbers
<1>9. Attempts'
  <2>1. ASSUME NEW x \in Ids
        PROVE  /\ attempts'[x].stage = "none" <=> x > begun'
               /\ attempts'[x].kind = "none"
                     <=> attempts'[x].stage \in {"none", "ended"}
               /\ attempts'[x].stage \in {"none", "queued"} => caller'[x] = "none"
               /\ attempts'[x].kind = "quick" => looking'.for = "quick"
               /\ attempts'[x].stage = "reading" => attempts'[x].kind = "sync"
    <3> looking' = looking /\ begun' = begun
      OBVIOUS
    <3>1. CASE x = a
      <4>1. attempts[a].kind # "none"
        BY <1>1 DEF Attempts
      <4>2. QED
        BY <1>1, <1>2, <3>1, <4>1 DEF Attempts
    <3>2. CASE x # a
      <4>1. attempts'[x] = attempts[x] /\ caller'[x] = caller[x]
        BY <1>2, <1>5, <3>2
      <4>2. QED
        BY <4>1 DEF Attempts
    <3>3. QED
      BY <3>1, <3>2
  <2>2. \A x, y \in Ids : attempts'[x].kind = "quick"
                             /\ attempts'[y].kind = "quick" => x = y
    <3>1. \A x \in Ids : attempts'[x].kind = attempts[x].kind
      BY <1>2
    <3>2. QED
      BY <3>1 DEF Attempts
  <2>3. QED
    BY <2>1, <2>2 DEF Attempts
<1>10. FlagInv'
  <2>1. \A x \in UnderWay :
           /\ attempts'[x].flag \in {attempts[x].flag, conn.flag}
           /\ attempts'[x].exposed = attempts[x].exposed
    BY <1>2, UnderWayFacts
  <2>2. \A x \in UnderWay : Unaware(x)' => ~Cancelled(conn)' /\ ~Stopped(x)'
    BY <2>1 DEF FlagInv, Unaware, Cancelled, Stopped
  <2>3. QED
    BY <1>7, <2>2 DEF FlagInv
<1>11. Calling' \subseteq Calling \cup {a}
  BY <1>5 DEF Calling
<1>12. Alone => Alone'
  BY <1>7, <1>11, AloneKeeps
<1>13. ASSUME "off" \notin broken' PROVE OffInv'
  <2>1. OffInv
    BY <1>13
  <2>2. \A x \in UnderWay : /\ attempts'[x].kind = attempts[x].kind
                            /\ attempts'[x].stage \in {attempts[x].stage, "dialing"}
    BY <1>2, UnderWayFacts
  <2>3. UNCHANGED <<slow, conn, off>> /\ Alone'
    BY <1>12, <2>1 DEF OffInv
  <2>4. \A x \in OfKind("pool")' : conn'.pending => conn'.flag = x
    BY <1>7, <2>1, <2>3 DEF OffInv
  <2>5. ASSUME off, NEW x \in UnderWay'
        PROVE  /\ attempts'[x].kind = "pool"
               /\ attempts'[x].stage \in {"queued", "dialing", "made"}
               /\ ~conn'.error
               /\ conn'.flag = x /\ x \in conn'.raised
    <3>1. conn' = conn /\ x \in UnderWay
      BY <1>7, <2>3
    <3>2. /\ attempts[x].kind = "pool"
          /\ attempts[x].stage \in {"queued", "dialing", "made"}
          /\ ~conn.error /\ conn.flag = x /\ x \in conn.raised
      BY <2>1, <2>5, <3>1 DEF OffInv
    <3>3. /\ attempts'[x].kind = "pool"
          /\ attempts'[x].stage \in {"queued", "dialing", "made"}
      BY <2>2, <3>1, <3>2
    <3>4. QED
      BY <3>1, <3>2, <3>3
  <2>6. off => ~HasPool(conn') /\ ~conn'.pending
    BY <2>1, <2>3 DEF OffInv, HasPool
  <2>7. slow' = {} /\ off' = off
    BY <2>1, <2>3 DEF OffInv
  <2>8. ASSUME off'
        PROVE
          /\ ~HasPool(conn') /\ ~conn'.pending
          /\ \A x \in UnderWay' :
                /\ attempts'[x].kind = "pool"
                /\ attempts'[x].stage \in {"queued", "dialing", "made"}
                /\ ~conn'.error
                /\ conn'.flag = x /\ x \in conn'.raised
    <3>1. off
      BY <2>7, <2>8
    <3>2. ~HasPool(conn') /\ ~conn'.pending
      BY <2>6, <3>1
    <3>3. QED
      BY <2>5, <3>1, <3>2
  <2>9. QED
    BY <2>3, <2>4, <2>7, <2>8 DEF OffInv
<1>14. ASSUME "served" \notin broken' PROVE ServedInv'
  <2>1. ServedInv
    BY <1>14
  <2>2. UnderWay = {a} /\ Pools' = Pools
    BY <2>1 DEF ServedInv, Alone, Pools
  <2>3. Pools = {}
    BY <2>1 DEF ServedInv, Pools
  <2>4. looking.stale # 0 =>
            looking.stale \in (1..begun) \ Pools' /\ Past(looking.stale)'
    <3>1. ASSUME looking.stale # 0
          PROVE  /\ looking.stale \in (1..begun) \ Pools
                 /\ Past(looking.stale) /\ looking.stale \in Ids
      BY <1>6, <2>1, <3>1 DEF ServedInv
    <3>2. looking.stale \in Ids /\ Past(looking.stale) =>
             Past(looking.stale)'
      BY <1>2 DEF Past
    <3>3. QED
      BY <2>2, <3>1, <3>2
  <2>5. \A x \in UnderWay' :
         /\ attempts'[x].stage \in {"dialing", "made", "passed"} => Pools' = {}
         /\ attempts'[x].stage = "queued" =>
               IF attempts'[x].kind = "sync"
               THEN conn'.local # 0 => conn'.shared # 0 ELSE Pools' = {}
         /\ attempts'[x].stage \in {"made", "passed"} => caller'[x] = "ready"
         /\ attempts'[x].stage \in {"dialing", "made", "passed"}
               /\ caller'[x] = "ready" => Linked(x)'
    BY <1>2, <1>5, <1>7, <2>2, <2>3
  <2>6. QED
    BY <1>12, <2>1, <2>2, <2>3, <2>4, <2>5 DEF ServedInv
<1>15. QED
  BY <1>4, <1>8, <1>9, <1>10, <1>13, <1>14

(* The UI thread gives up, and an attempt in the background begins.        *)
LEMMA QuickFailsKeeps ==
    ASSUME PoolInv, NEW a \in UnderWay, QuickFails(a),
           broken \subseteq broken', broken' \subseteq {"off", "served"},
           Calling = {} \/ {"off", "served"} \subseteq broken'
    PROVE  PoolInv'
<1> USE CallersAreNumbers DEF PoolInv
<1> DEFINE new == [NoAttempt EXCEPT !.kind = "pool", !.stage = "queued"]
<1>1. /\ a \in Ids /\ a \in Callers /\ a # 0 /\ a <= begun /\ ~(a > begun)
      /\ attempts[a].stage # "ended"
  BY UnderWayFacts
<1>2. /\ attempts[a].stage \in {"queued", "dialing"}
      /\ attempts[a].kind = "quick" /\ looking' = NoLook
      /\ begun' = begun + 1 /\ begun' \in 0..MaxAttempts
      /\ attempts' = [attempts EXCEPT ![a] = Ended, ![begun'] = new]
      /\ conn' = Marked(conn, begun')
      /\ UNCHANGED <<slow, answers, off, calledoff, served>>
      /\ stands' = (stands /\ ~(Stopped(a) /\ Unaware(a)))
      /\ UNCHANGED <<entry, alive, caller, port, closing>>
  BY DEF QuickFails, Numbers, tunnelVars
<1> DEFINE b == begun'
<1>3. b \in Ids /\ b # a /\ b > begun /\ b \in Nat /\ begun \in Nat
  BY <1>1, <1>2 DEF Numbers
<1>4. /\ attempts'[a].stage = "ended" /\ attempts'[a].kind = "none"
      /\ attempts'[a].flag = 0 /\ attempts'[a] \in Attempt
      /\ attempts'[b].stage = "queued" /\ attempts'[b].kind = "pool"
      /\ attempts'[b].flag = 0 /\ attempts'[b] \in Attempt
      /\ \A x \in Ids : x # a /\ x # b => attempts'[x] = attempts[x]
  <2>1. DOMAIN attempts = Ids
    BY DEF Numbers
  <2>2. attempts'[a] = Ended /\ attempts'[b] = new
    BY <1>1, <1>2, <1>3, <2>1
  <2>3. /\ Ended.stage = "ended" /\ Ended.kind = "none" /\ Ended.flag = 0
        /\ Ended \in Attempt
    BY DEF Ended, NoAttempt, Attempt, Stages
  <2>4. /\ new.stage = "queued" /\ new.kind = "pool" /\ new.flag = 0
        /\ new \in Attempt
    BY DEF NoAttempt, Attempt, Stages
  <2>5. \A x \in Ids : x # a /\ x # b => attempts'[x] = attempts[x]
    BY <1>2, <2>1
  <2>6. QED
    BY <2>2, <2>3, <2>4, <2>5
<1>5. Is(conn', conn.local, conn.shared, TRUE, conn.error, b, conn.raised)
  BY <1>2, <1>3, Fields DEF Numbers
<1>6. TunnelInv'
  BY <1>2, TunnelKeeps DEF tunnelVars
<1>7. \A x \in 1..b : x \in Ids /\ (x = b \/ x \in 1..begun)
  BY <1>2, <1>3 DEF Numbers
<1>8. UnderWay' = (UnderWay \ {a}) \cup {b}
  <2>1. \A x \in 1..begun : x \in 1..b /\ x # b
    BY <1>2, <1>3
  <2>2. \A x \in 1..begun : x # a => attempts'[x] = attempts[x]
    BY <1>4, <1>7, <2>1
  <2>3. b \in 1..b
    BY <1>3
  <2>4. QED
    BY <1>1, <1>4, <1>7, <2>1, <2>2, <2>3 DEF UnderWay
<1>9. Numbers'
  <2>1. attempts' \in [Ids -> Attempt]
    BY <1>2, <1>4 DEF Numbers
  <2>2. \A x \in Ids : attempts'[x].flag <= b
    BY <1>2, <1>3, <1>4 DEF Numbers, Attempt
  <2>3. conn'.local <= b /\ conn'.shared <= b /\ conn'.flag <= b
    BY <1>2, <1>3, <1>5 DEF Numbers, Is, Conn
  <2>4. conn'.raised \subseteq 1..b /\ alive' \subseteq 1..b
    BY <1>2, <1>3, <1>5 DEF Numbers, Is
  <2>5. entry' <= b
    BY <1>2, <1>3 DEF Numbers, TunnelInv
  <2>6. calledoff' \in 0..b
    BY <1>2, <1>3 DEF Numbers
  <2>7. looking' \in Look0
    BY <1>2 DEF NoLook, Look0
  <2>8. conn' \in Conn /\ b \in 0..MaxAttempts /\ stands' \in BOOLEAN
    BY <1>2, <1>5 DEF Is
  <2>9. QED
    BY <1>2, <2>1, <2>2, <2>3, <2>4, <2>5, <2>6, <2>7, <2>8 DEF Numbers
<1>10. attempts[b].stage = "none" /\ attempts[b].kind = "none"
  BY <1>3 DEF Attempts
<1>11. \A x \in Ids : x # a => attempts[x].kind # "quick"
  BY <1>1, <1>2 DEF Attempts
<1>12. Attempts'
  <2>1. ASSUME NEW x \in Ids
        PROVE  /\ attempts'[x].stage = "none" <=> x > b
               /\ attempts'[x].kind = "none"
                     <=> attempts'[x].stage \in {"none", "ended"}
               /\ attempts'[x].stage \in {"none", "queued"} => caller'[x] = "none"
               /\ attempts'[x].kind # "quick"
               /\ attempts'[x].stage = "reading" => attempts'[x].kind = "sync"
    <3>1. CASE x = a
      BY <1>1, <1>2, <1>3, <1>4, <3>1
    <3>2. CASE x = b
      <4>1. caller'[b] = "none" /\ ~(b > b)
        BY <1>2, <1>3, <1>10 DEF Attempts
      <4>2. QED
        BY <1>4, <3>2, <4>1
    <3>3. CASE x # a /\ x # b
      <4>1. x > b <=> x > begun
        BY <1>2, <1>3, <3>3
      <4>2. QED
        <5>1. attempts'[x] = attempts[x] /\ caller'[x] = caller[x]
          BY <1>2, <1>4, <3>3
        <5>2. QED
          BY <1>11, <3>3, <4>1, <5>1 DEF Attempts
    <3>4. QED
      BY <3>1, <3>2, <3>3
  <2>2. QED
    BY <1>2, <2>1 DEF Attempts, NoLook
<1>13. FlagInv'
  <2>1. 0 \notin conn.raised /\ b \notin conn.raised
    BY <1>3 DEF Numbers
  <2>2. ~Cancelled(conn)'
    BY <1>5, <2>1 DEF Cancelled, Is
  <2>3. ASSUME NEW x \in UnderWay', Unaware(x)' PROVE ~Stopped(x)'
    <3>1. CASE x = b
      BY <1>4, <1>5, <2>1, <3>1 DEF Stopped, Is
    <3>2. CASE x # b
      <4>1. x \in UnderWay /\ attempts'[x] = attempts[x]
        BY <1>4, <1>8, <3>2, UnderWayFacts
      <4>2. ~Stopped(x)
        BY <1>2, <2>3, <4>1 DEF FlagInv, Unaware
      <4>3. QED
        BY <1>5, <4>1, <4>2 DEF Stopped, Is
    <3>3. QED
      BY <3>1, <3>2
  <2>4. stands'
    BY <1>2 DEF FlagInv
  <2>5. QED
    BY <2>2, <2>3, <2>4 DEF FlagInv
<1>14. Calling' = Calling
  BY <1>2 DEF Calling
<1>15. ASSUME Alone, Calling = {} PROVE Alone' /\ UnderWay' = {b}
  <2>1. UnderWay = {a} /\ answers = <<>>
    BY <1>15 DEF Alone
  <2>2. UnderWay' = {b} /\ answers' = <<>>
    BY <1>2, <1>8, <2>1
  <2>3. QED
    BY <1>14, <1>15, <2>2 DEF Alone
<1>16. ASSUME "off" \notin broken' PROVE OffInv'
  <2>1. OffInv
    BY <1>16
  <2>2. Alone' /\ UnderWay' = {b}
    BY <1>15, <1>16, <2>1 DEF OffInv
  <2>3. ~off'
    BY <1>2, <2>1 DEF OffInv
  <2>4. \A x \in OfKind("pool")' : conn'.flag = x
    BY <1>5, <2>2 DEF Is, OfKind
  <2>5. QED
    BY <1>2, <2>1, <2>2, <2>3, <2>4 DEF OffInv
<1>17. ASSUME "served" \notin broken' PROVE ServedInv'
  <2>1. ServedInv
    BY <1>17
  <2>2. Alone' /\ UnderWay' = {b} /\ Calling' = {}
    BY <1>14, <1>15, <1>17, <2>1 DEF ServedInv
  <2>3. Pools = {} /\ Pools' = {}
    BY <1>2, <1>5, <2>1 DEF ServedInv, Pools, Is
  <2>4. QED
    BY <1>2, <1>4, <2>1, <2>2, <2>3 DEF ServedInv, NoLook
<1>18. QED
  BY <1>6, <1>9, <1>12, <1>13, <1>16, <1>17

LEMMA EndsFacts ==
    ASSUME PoolInv, NEW a, NEW reply \in Seq(BOOLEAN), Ends(a, reply)
    PROVE  /\ attempts' = [attempts EXCEPT ![a] = Ended]
           /\ begun' = begun /\ slow' \subseteq slow
           /\ answers' \in Seq(BOOLEAN) /\ looking' = looking
           /\ off' = off /\ calledoff' = calledoff /\ served' = served
<1>1. answers' \in Seq(BOOLEAN)
  BY DEF Ends, PoolInv, Numbers
<1>2. QED
  BY <1>1 DEF Ends, uiVars

LEMMA WorkerKeeps ==
    ASSUME PoolInv, NEW a \in 1..begun, Worker(a)
    PROVE  PoolInv'
<1> USE CallersAreNumbers DEF PoolInv
<1> DEFINE q == Busy \cup If(begun' > begun /\ Calling # {}, "overlap")
<1>1. Happen(q) /\ stands /\ conn \in Conn
  BY DEF Worker, FlagInv, Numbers
<1>2. broken \subseteq broken' /\ broken' \subseteq {"off", "served"}
  BY <1>1, Happens DEF Numbers
<1>3. a \in Ids /\ a \in Nat
  BY DEF Numbers
<1>4. ASSUME attempts[a].stage # "ended"
      PROVE  a \in UnderWay
  BY <1>4 DEF UnderWay
<1>5. Failed \in Seq(BOOLEAN) /\ <<>> \in Seq(BOOLEAN)
  BY DEF Failed
<1>6. ASSUME UNCHANGED tunnelVars PROVE TunnelInv' /\ Quiet
  BY <1>6, QuietTunnel
<1>7. CASE Refused(a)
  <2>1. /\ Ends(a, Failed) /\ a \in UnderWay
        /\ UNCHANGED <<conn, stands, tunnelVars>>
    BY <1>4, <1>7 DEF Refused
  <2>2. QED
    BY <1>1, <1>2, <1>5, <1>6, <2>1, EndsFacts, EndKeeps
<1>8. CASE Dial(a)
  <2>1. attempts[a].stage = "queued" /\ a \in UnderWay
    BY <1>4, <1>8 DEF Dial
  <2>2. CASE attempts[a].kind = "sync" /\ conn.shared # 0
    <3>1. /\ Goes(a, "reading") /\ conn' = conn
          /\ UNCHANGED <<answers, stands, tunnelVars>>
      BY <1>8, <2>2 DEF Dial
    <3>2. ~(OffInv /\ off)
      BY <2>1, <2>2 DEF OffInv
    <3>3. QED
      BY <1>2, <2>1, <2>2, <3>1, <3>2, GoKeeps
  <2>3. CASE ~(attempts[a].kind = "sync" /\ conn.shared # 0)
    <3>1. /\ attempts' = [attempts EXCEPT ![a].stage = "dialing",
                                          ![a].flag = conn.flag]
          /\ Calls(a)
          /\ UNCHANGED <<entry, alive, port, closing, begun, slow, uiVars,
                         off, calledoff, served, conn, answers, stands>>
      BY <1>8, <2>3 DEF Dial
    <3>2. looking' = looking
      BY <3>1 DEF uiVars
    <3>3. QED
      BY <1>2, <2>1, <2>3, <3>1, <3>2, DialKeeps
  <2>4. QED
    BY <2>2, <2>3
<1>9. CASE Connect(a)
  <2> DEFINE stage == IF attempts[a].kind = "sync" THEN "passed" ELSE "made"
  <2>1. /\ attempts[a].stage = "dialing" /\ caller[a] = "ready"
        /\ Goes(a, stage) /\ conn' = conn
        /\ UNCHANGED <<answers, stands, tunnelVars>> /\ a \in UnderWay
    BY <1>4, <1>9 DEF Connect
  <2>2. OffInv /\ off => stage = "made"
    BY <2>1 DEF OffInv
  <2>3. stage \in {"made", "passed"}
    OBVIOUS
  <2> HIDE DEF stage
  <2>4. QED
    BY <1>2, <2>1, <2>2, <2>3, GoKeeps
<1>10. CASE GiveUp(a)
  <2>1. /\ attempts[a].stage = "dialing" /\ a \in UnderWay
        /\ Ends(a, Failed) /\ UNCHANGED tunnelVars
        /\ conn' \in {conn, Forgotten(conn)}
        /\ stands' = (stands /\ ~(Stopped(a) /\ Unaware(a)))
    BY <1>4, <1>10 DEF GiveUp
  <2>2. ~(Stopped(a) /\ Unaware(a))
    BY <2>1 DEF FlagInv
  <2>3. stands'
    BY <1>1, <2>1, <2>2
  <2>4. /\ conn' \in Conn /\ conn'.raised = conn.raised
        /\ conn'.flag \in {conn.flag, 0} /\ (conn'.pending => conn.pending)
        /\ conn'.local = conn.local /\ conn'.shared = conn.shared
    <3>1. CASE conn' = conn
      BY <1>1, <3>1
    <3>2. CASE conn' = Forgotten(conn)
      BY <1>1, <3>2, Fields DEF Is
    <3>3. QED
      BY <2>1, <3>1, <3>2
  <2>5. QED
    BY <1>2, <1>5, <1>6, <2>1, <2>3, <2>4, EndsFacts, EndKeeps
<1>11. CASE Check(a)
  <2>1. /\ attempts[a].stage = "made" /\ a \in UnderWay
        /\ attempts[a].kind = "pool" /\ a \in OfKind("pool")
    BY <1>4, <1>11 DEF Check, OfKind
  <2>2. CASE Cancelled(conn)
    <3>1. stands'
      BY <1>1, <1>11, <2>1, <2>2 DEF Check, FlagInv
    <3>2. CASE Ends(a, Failed) /\ conn' = Forgotten(conn) /\ Shut
      <4>1. TunnelInv' /\ Quiet
        BY <3>2, QuietTunnel
      <4>2. /\ conn' \in Conn /\ conn'.raised = conn.raised
            /\ conn'.flag = 0 /\ conn'.pending = conn.pending
            /\ conn'.local = conn.local /\ conn'.shared = conn.shared
        BY <1>1, <3>2, Fields DEF Is
      <4>3. QED
        BY <1>2, <1>5, <2>1, <3>1, <3>2, <4>1, <4>2, EndsFacts, EndKeeps
    <3>3. CASE Ends(a, <<>>) /\ UNCHANGED <<conn, tunnelVars>>
      BY <1>1, <1>2, <1>5, <1>6, <2>1, <3>1, <3>3, EndsFacts, EndKeeps
    <3>4. QED
      BY <1>11, <2>2, <3>2, <3>3 DEF Check
  <2>3. CASE ~Cancelled(conn)
    <3>1. /\ Goes(a, "passed") /\ conn' = conn
          /\ UNCHANGED <<answers, stands, tunnelVars>>
      BY <1>11, <2>3 DEF Check
    <3>2. ~(OffInv /\ off)
      BY <2>1, <2>3 DEF OffInv, Cancelled
    <3>3. ServedInv => caller[a] = "ready"
      BY <2>1 DEF ServedInv
    <3>4. QED
      BY <1>2, <2>1, <3>1, <3>2, <3>3, GoKeeps
  <2>4. QED
    BY <2>2, <2>3
<1>12. CASE Land(a)
  <2>1. /\ attempts[a].stage = "passed" /\ a \in UnderWay
        /\ conn' = [conn EXCEPT !.shared = a]
        /\ UNCHANGED <<stands, tunnelVars>>
    BY <1>4, <1>12 DEF Land
  <2>2. CASE attempts[a].kind = "sync"
    <3>1. Goes(a, "reading") /\ answers' = answers
      BY <1>12, <2>2 DEF Land
    <3>2. ~(OffInv /\ off)
      BY <2>1 DEF OffInv
    <3>3. QED
      BY <1>2, <2>1, <2>2, <3>1, <3>2, GoKeeps
  <2>3. CASE attempts[a].kind # "sync"
    <3>1. Ends(a, <<>>)
      BY <1>12, <2>3 DEF Land
    <3>2. /\ conn' \in Conn /\ conn'.raised = conn.raised
          /\ conn'.flag = conn.flag /\ conn'.pending = conn.pending
          /\ conn'.local = conn.local /\ conn'.shared = a
      BY <1>1, <1>3, <2>1 DEF Conn
    <3>3. QED
      BY <1>1, <1>2, <1>5, <1>6, <2>1, <3>1, <3>2, EndsFacts, EndKeeps
  <2>4. QED
    BY <2>2, <2>3
<1>13. CASE Read(a)
  <2>1. PICK ok \in BOOLEAN : Ends(a, <<ok>>)
    BY <1>13 DEF Read
  <2>2. a \in UnderWay /\ UNCHANGED <<conn, stands, tunnelVars>>
    BY <1>4, <1>13 DEF Read
  <2>3. <<ok>> \in Seq(BOOLEAN)
    OBVIOUS
  <2>4. QED
    BY <1>1, <1>2, <1>6, <2>1, <2>2, <2>3, EndsFacts, EndKeeps
<1>14. CASE QuickMade(a)
  <2>1. /\ attempts[a].stage = "made" /\ attempts[a].kind = "quick"
        /\ a \in UnderWay /\ attempts' = [attempts EXCEPT ![a] = Ended]
        /\ conn' = [Forgotten(Unmarked(conn)) EXCEPT !.local = a]
        /\ looking' = NoLook /\ served' = TRUE
        /\ UNCHANGED <<begun, slow, answers, off, calledoff, stands,
                       tunnelVars>>
    BY <1>4, <1>14 DEF QuickMade
  <2> DEFINE u == Unmarked(conn)
             f == Forgotten(u)
  <2>2. Is(u, conn.local, conn.shared, FALSE, conn.error, conn.flag,
           conn.raised)
    BY <1>1, Fields
  <2> HIDE DEF u
  <2>3. Is(f, u.local, u.shared, u.pending, u.error, 0, u.raised)
    BY <2>2, Fields DEF Is
  <2> HIDE DEF f
  <2>4. conn' = [f EXCEPT !.local = a] /\ f \in Conn
    BY <2>1, <2>3 DEF f, u, Is
  <2>5. /\ conn' \in Conn /\ conn'.raised = f.raised
        /\ conn'.flag = f.flag /\ conn'.pending = f.pending
        /\ conn'.local = a /\ conn'.shared = f.shared
    BY <1>3, <2>4 DEF Conn
  <2>6. /\ conn'.raised = conn.raised /\ conn'.flag = 0
        /\ conn'.pending = FALSE /\ conn'.shared = conn.shared
    BY <2>2, <2>3, <2>5 DEF Is
  <2>7. answers' \in Seq(BOOLEAN)
    BY <2>1 DEF Numbers
  <2>8. QED
    BY <1>1, <1>2, <1>6, <2>1, <2>5, <2>6, <2>7, EndKeeps
<1>15. CASE QuickFails(a)
  <2>1. a \in UnderWay /\ begun' = begun + 1
    BY <1>4, <1>15 DEF QuickFails
  <2>2. begun' > begun
    BY <2>1 DEF Numbers
  <2>3. Calling = {} \/ "overlap" \in q
    BY <2>2 DEF If
  <2>4. Calling = {} \/ {"off", "served"} \subseteq broken'
    BY <1>1, <2>3, Happens DEF Reviving, Wearing
  <2>5. QED
    BY <1>2, <1>15, <2>1, <2>4, QuickFailsKeeps
<1>16. QED
  BY <1>7, <1>8, <1>9, <1>10, <1>11, <1>12, <1>13, <1>14, <1>15 DEF Worker
-----------------------------------------------------------------------------
(* Every step keeps the invariant.                                         *)
LEMMA PoolKept == PoolInv /\ [Next]_vars => PoolInv'
<1> SUFFICES ASSUME PoolInv, [Next]_vars PROVE PoolInv'
  OBVIOUS
<1>1. CASE Want \/ Click
  BY <1>1, WantKeeps
<1>2. CASE Sync
  BY <1>2, SyncKeeps
<1>3. CASE Cancel \/ Disconnect \/ Drop
  BY <1>3, CallOffKeeps
<1>4. ASSUME NEW for \in {"query", "picture", "data"}, Look(for) PROVE PoolInv'
  BY <1>4, LookKeeps
<1>5. CASE CleanUp
  BY <1>5, CleanUpKeeps
<1>6. CASE Receive
  BY <1>6, ReceiveKeeps
<1>7. CASE Query \/ Requery \/ Render
  BY <1>7, QueryKeeps
<1>8. CASE Fetch
  BY <1>8, FetchKeeps
<1>9. CASE Threads
  BY <1>9, ThreadKeeps, ByItselfKeeps DEF Threads
<1>10. CASE Expire \/ Die
  BY <1>10, ByItselfKeeps
<1>11. ASSUME NEW a \in 1..begun, Worker(a) \/ Stall(a) PROVE PoolInv'
  BY <1>11, WorkerKeeps, StallKeeps
<1>12. CASE UNCHANGED vars
  BY <1>12, ByItselfKeeps
<1>13. QED
  BY <1>1, <1>2, <1>3, <1>4, <1>5, <1>6, <1>7, <1>8, <1>9, <1>10, <1>11,
     <1>12 DEF Next, User, UI

LEMMA PoolAlways == Spec => []PoolInv
<1>1. QED
  BY PoolInitially, PoolKept, PTL DEF Spec

(* The UI thread knows only of attempts that have begun, and so do the     *)
(* registries of flags and of tunnels.                                     *)
THEOREM PoolsTypeCorrect == Spec => []TypeOK
<1>1. PoolInv => TypeOK
  <2> SUFFICES ASSUME PoolInv PROVE TypeOK
    OBVIOUS
  <2> USE CallersAreNumbers DEF PoolInv
  <2>1. conn \in [local : 0..begun, shared : 0..begun, pending : BOOLEAN,
                  error : BOOLEAN, flag : 0..begun, raised : SUBSET (1..begun)]
    BY DEF Numbers, Conn
  <2>2. attempts \in [Ids -> [kind : {"none", "pool", "quick", "sync"},
                              stage : Stages, flag : 0..begun,
                              exposed : BOOLEAN]]
    BY DEF Numbers, Attempt
  <2>3. entry \in 0..begun /\ alive \subseteq 1..begun
    BY DEF Numbers, TunnelInv
  <2>4. QED
    BY <2>1, <2>2, <2>3 DEF TypeOK
<1>2. QED
  BY <1>1, PoolAlways, PTL

(* Whatever is interrupted, shut or dies, no ssh process runs that the     *)
(* registry does not hold and no caller waits for.                         *)
THEOREM NoTunnelLost == Spec => []NoTunnelIsLost
<1>1. PoolInv => NoTunnelIsLost
  BY DEF PoolInv, TunnelInv
<1>2. QED
  BY <1>1, PoolAlways, PTL

(* No attempt of any kind that begins after the user cancelled is ended by *)
(* that cancellation, however late the flags are read and forgotten, but   *)
(* for a sync that begins while the raised flag is still registered.       *)
THEOREM NewOnesStand == Spec => []NewAttemptsStand
<1>1. PoolInv => NewAttemptsStand
  BY DEF PoolInv, FlagInv, NewAttemptsStand
<1>2. QED
  BY <1>1, PoolAlways, PTL

(* A connection the user has closed does not come back to life, unless in  *)
(* one of the circumstances Quirks names.                                  *)
THEOREM ClosedStays == Spec => []StaysOff
<1>1. PoolInv => StaysOff
  BY DEF PoolInv, OffInv, StaysOff, ClosedStaysClosed
<1>2. QED
  BY <1>1, PoolAlways, PTL

(* No pool is handed out over a tunnel that had died by then, unless in    *)
(* one of the circumstances Quirks names.                                  *)
THEOREM ServedOverLive == Spec => []ServedPoolsWork
<1>1. PoolInv => ServedPoolsWork
  BY DEF PoolInv, ServedInv, ServedPoolsWork
<1>2. QED
  BY <1>1, PoolAlways, PTL
=============================================================================
