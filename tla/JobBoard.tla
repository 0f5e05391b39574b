------------------------------ MODULE JobBoard -------------------------------
(***************************************************************************)
(* What the background jobs promise the user, whatever runs them: a job    *)
(* belongs to the tab it was started in, it is delivered there or not at   *)
(* all, and what was withdrawn (cancelled, or its tab closed) stays so.    *)
(***************************************************************************)
CONSTANTS Jobs, Tabs, NoTab

VARIABLES home,  \* the tab a job was started in
          fate,  \* "unborn", "waiting", "delivered", "withdrawn"
          seen   \* the tabs that showed its result

vars == <<home, fate, seen>>

Init == /\ home = [j \in Jobs |-> NoTab]
        /\ fate = [j \in Jobs |-> "unborn"]
        /\ seen = [j \in Jobs |-> {}]

(* Jobs are started in a tab; one that cannot be started is told at once.  *)
Begin(new, tab, f) ==
    /\ new # {}
    /\ \A j \in new : fate[j] = "unborn"
    /\ home' = [j \in Jobs |-> IF j \in new THEN tab ELSE home[j]]
    /\ fate' = [j \in Jobs |-> IF j \in new THEN f ELSE fate[j]]
    /\ UNCHANGED seen

(* The result goes to the tab, or to the callback that asked for it.       *)
Deliver(j) ==
    /\ fate[j] = "waiting"
    /\ fate' = [fate EXCEPT ![j] = "delivered"]
    /\ seen' \in {seen, [seen EXCEPT ![j] = {home[j]}]}
    /\ UNCHANGED home

Withdraw(old) ==
    /\ old # {}
    /\ \A j \in old : fate[j] = "waiting"
    /\ fate' = [j \in Jobs |-> IF j \in old THEN "withdrawn" ELSE fate[j]]
    /\ UNCHANGED <<home, seen>>

Next == \/ \E new \in SUBSET Jobs, tab \in Tabs, f \in {"waiting", "delivered"} :
              Begin(new, tab, f)
        \/ \E j \in Jobs : Deliver(j)
        \/ \E old \in SUBSET Jobs : Withdraw(old)

(* Nobody waits for ever.                                                  *)
Settles == \A j \in Jobs : fate[j] = "waiting" ~> fate[j] # "waiting"

Spec == Init /\ [][Next]_vars /\ Settles
=============================================================================
