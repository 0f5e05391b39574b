------------------------------- MODULE TabStrip -------------------------------
(***************************************************************************)
(* The strip of query tabs of editor.rs as pure operators: a sequence of   *)
(* tab ids, the set of the pinned ones and the index of the active tab.    *)
(* A Rust index i is position i + 1 here.                                  *)
(***************************************************************************)
EXTENDS Integers, Sequences, FiniteSets

(* Vec::remove(from) followed by Vec::insert(to, _).                       *)
Moved(s, from, to) ==
    [k \in DOMAIN s |->
        IF k = to THEN s[from]
        ELSE IF from <= k /\ k < to THEN s[k + 1]
        ELSE IF to < k /\ k <= from THEN s[k - 1]
        ELSE s[k]]

(* Faulty: a move to the right forgets the tab at the target itself.       *)
ActiveBeforeTarget(a, from, to) ==
    IF a = from THEN to
    ELSE IF from < a /\ a < to THEN a - 1
    ELSE IF to <= a /\ a < from THEN a + 1
    ELSE a

(* Where the active index goes when the tab at from moves to to.           *)
ActiveAfterMove(a, from, to) ==
    IF a = from THEN to
    ELSE IF from < a /\ a <= to THEN a - 1
    ELSE IF to <= a /\ a < from THEN a + 1
    ELSE a

(* reorder_tab: the position a tab dropped at an insertion slot takes.     *)
DropTarget(n, from, slot) ==
    LET to == IF slot > from THEN slot - 1 ELSE slot
    IN IF to > n THEN n ELSE to

NumPinned(s, pins) == Cardinality({k \in DOMAIN s : s[k] \in pins})

(* move_tab: crossing the boundary of the pinned tabs pins or unpins.      *)
PinsAfterMove(s, pins, from, to) ==
    IF to <= NumPinned(s, pins) THEN pins \cup {s[from]} ELSE pins \ {s[from]}

(* pin_tab: to the first place that is not pinned, if that is before it.   *)
PinTarget(s, pins, i) ==
    LET free == {k \in DOMAIN s : s[k] \notin pins \cup {s[i]}}
        first == IF free = {} THEN Len(s) + 1
                 ELSE CHOOSE k \in free : \A l \in free : k <= l
    IN IF i > first THEN first ELSE i

(* Faulty: the tab stays where it is.                                      *)
UnpinInPlace(s, pins, i) == i

(* unpin_tab: to the place of the last tab still pinned, if that is after. *)
UnpinTarget(s, pins, i) ==
    LET held == {k \in DOMAIN s : s[k] \in pins \ {s[i]}}
    IN IF \E k \in held : k > i
       THEN CHOOSE k \in held : \A l \in held : l <= k
       ELSE i

RemovedBefore(s, gone, i) == Cardinality({k \in 1..(i - 1) : s[k] \in gone})

(* The tabs whose ids are in gone leave the strip, and the others close up. *)
Without(s, gone) ==
    LET stay == {k \in DOMAIN s : s[k] \notin gone}
    IN [n \in 1..Cardinality(stay) |->
           s[CHOOSE k \in stay : k - RemovedBefore(s, gone, k) = n]]

(* Pinned tabs stand before the others.                                    *)
PinnedFirst(s, pins) ==
    \A k, l \in DOMAIN s : k < l /\ s[l] \in pins => s[k] \in pins
=============================================================================
