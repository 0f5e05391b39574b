--------------------------- MODULE TabDisplayProofs ---------------------------
(***************************************************************************)
(* Dragging, pinning and unpinning a tab in a strip of any length: the ids *)
(* stay apart, the pinned tabs stay in front, and the active index follows *)
(* the tab it names.  Then the same for tabs that are closed, wherever     *)
(* they stand, and from both that what the display shows, and what the     *)
(* tabs keep, is at home at the tab it is shown or kept for.               *)
(***************************************************************************)
EXTENDS TabDisplay, TLAPS, FiniteSetTheorems, WellFoundedInduction

LEMMA LeastNat ==
    ASSUME NEW S \in SUBSET Nat, S # {}
    PROVE  \E m \in S : \A k \in S : m <= k
<1>1. PICK x \in S : \A y \in S : ~(<<y, x>> \in OpToRel(<, Nat))
  BY WFMin, NatLessThanWellFounded
<1>2. \A y \in S : ~(<<y, x>> \in OpToRel(<, Nat)) => ~(y < x)
  BY DEF OpToRel
<1>3. \A y \in S : ~(y < x)
  BY <1>1, <1>2
<1>4. \A y \in S : x <= y
  BY <1>3
<1>5. QED
  BY <1>4

(* A set of positions has a last one.                                      *)
LEMMA LastPosition ==
    ASSUME NEW n \in Nat, NEW S \in SUBSET (1..n), S # {}
    PROVE  \E m \in S : \A k \in S : k <= m
<1> DEFINE Bounds == {b \in Nat : \A k \in S : k <= b}
<1>1. n \in Bounds
  OBVIOUS
<1>2. PICK m \in Bounds : \A b \in Bounds : m <= b
  <2>1. Bounds \in SUBSET Nat /\ Bounds # {}
    BY <1>1
  <2> HIDE DEF Bounds
  <2>2. QED
    BY <2>1, LeastNat
<1>3. m \in S
  <2>1. SUFFICES ASSUME m \notin S PROVE FALSE
    OBVIOUS
  <2>2. m \in Nat /\ \A k \in S : k <= m
    BY <1>2
  <2>3. \A k \in S : k \in Nat /\ k <= m - 1 /\ 1 <= k
    BY <2>1, <2>2
  <2>4. m - 1 \in Bounds
    <3>1. PICK k \in S : TRUE
      OBVIOUS
    <3>2. k \in Nat /\ k <= m - 1 /\ 1 <= k
      BY <2>3
    <3>3. m - 1 \in Nat
      BY <2>2, <3>2
    <3>4. QED
      BY <2>3, <3>3
  <2>5. QED
    BY <1>2, <2>2, <2>4
<1>4. QED
  BY <1>2, <1>3
-----------------------------------------------------------------------------
Apart(s) == \A k, l \in DOMAIN s : s[k] = s[l] => k = l

(* Moving a tab loses none and doubles none, and the index of any tab      *)
(* moves along with it (ActiveAfterMove).                                  *)
LEMMA MoveKeepsTabs ==
    ASSUME NEW T, NEW s \in Seq(T), NEW from \in 1..Len(s), NEW to \in 1..Len(s)
    PROVE  /\ Moved(s, from, to) \in Seq(T)
           /\ Len(Moved(s, from, to)) = Len(s)
           /\ Apart(s) => Apart(Moved(s, from, to))
           /\ \A a \in 1..Len(s) :
                 /\ ActiveAfterMove(a, from, to) \in 1..Len(s)
                 /\ Moved(s, from, to)[ActiveAfterMove(a, from, to)] = s[a]
<1> DEFINE m == Moved(s, from, to)
           was(k) == IF k = to THEN from
                     ELSE IF from <= k /\ k < to THEN k + 1
                     ELSE IF to < k /\ k <= from THEN k - 1 ELSE k
<1>1. DOMAIN s = 1..Len(s) /\ DOMAIN m = 1..Len(s) /\ Len(s) \in Nat
  BY DEF Moved
<1>2. \A k \in 1..Len(s) : was(k) \in 1..Len(s) /\ m[k] = s[was(k)]
  BY <1>1 DEF Moved
<1>3. m \in Seq(T) /\ Len(m) = Len(s)
  <2>1. \A k \in 1..Len(s) : m[k] \in T
    BY <1>2
  <2>2. m = [k \in 1..Len(s) |-> m[k]]
    BY <1>1 DEF Moved
  <2> HIDE DEF m
  <2>3. QED
    BY <1>1, <2>1, <2>2
<1>4. ASSUME Apart(s) PROVE Apart(m)
  <2>1. \A k, l \in 1..Len(s) : was(k) = was(l) => k = l
    OBVIOUS
  <2> HIDE DEF was, m
  <2>2. QED
    BY <1>1, <1>2, <1>4, <2>1 DEF Apart
<1>5. ASSUME NEW a \in 1..Len(s)
      PROVE  /\ ActiveAfterMove(a, from, to) \in 1..Len(s)
             /\ m[ActiveAfterMove(a, from, to)] = s[a]
  BY <1>1 DEF ActiveAfterMove, Moved
<1>6. QED
  BY <1>3, <1>4, <1>5

(* The pinned tabs of an ordered strip are its first ones, and NumPinned   *)
(* counts them.                                                            *)
LEMMA PinnedPrefix ==
    ASSUME NEW T, NEW s \in Seq(T), NEW pins, PinnedFirst(s, pins)
    PROVE  /\ NumPinned(s, pins) \in 0..Len(s)
           /\ \A k \in 1..Len(s) : s[k] \in pins <=> k <= NumPinned(s, pins)
<1> DEFINE held == {k \in DOMAIN s : s[k] \in pins}
<1>1. DOMAIN s = 1..Len(s) /\ Len(s) \in Nat
  OBVIOUS
<1>2. \E n \in 0..Len(s) : held = 1..n
  <2>1. CASE held = {}
    <3>1. held = 1..0
      BY <2>1
    <3>2. QED
      BY <1>1, <3>1
  <2>2. CASE held # {}
    <3>1. PICK n \in held : \A k \in held : k <= n
      BY <1>1, <2>2, LastPosition
    <3>2. held = 1..n
      BY <1>1, <3>1 DEF PinnedFirst
    <3>3. QED
      BY <1>1, <3>1, <3>2
  <2>3. QED
    BY <2>1, <2>2
<1>3. PICK n \in 0..Len(s) : held = 1..n
  BY <1>2
<1>4. Cardinality(held) = n
  <2>1. n \in Int /\ 1 \in Int
    BY <1>1
  <2>2. Cardinality(1..n) = IF 1 > n THEN 0 ELSE n - 1 + 1
    BY <2>1, FS_Interval
  <2>3. Cardinality(1..n) = n
    BY <1>1, <2>2
  <2> HIDE DEF held
  <2>4. QED
    BY <1>3, <2>3
<1>5. NumPinned(s, pins) = n
  BY <1>4 DEF NumPinned
<1>6. QED
  BY <1>1, <1>3, <1>5

(* A tab dropped behind the last pinned tab is unpinned, one dropped among *)
(* them is pinned (move_tab).                                              *)
LEMMA MoveKeepsPins ==
    ASSUME NEW T, NEW s \in Seq(T), NEW pins, PinnedFirst(s, pins), Apart(s),
           NEW from \in 1..Len(s), NEW to \in 1..Len(s)
    PROVE  PinnedFirst(Moved(s, from, to), PinsAfterMove(s, pins, from, to))
<1> DEFINE n == NumPinned(s, pins)
           m == Moved(s, from, to)
           after == PinsAfterMove(s, pins, from, to)
           was(k) == IF k = to THEN from
                     ELSE IF from <= k /\ k < to THEN k + 1
                     ELSE IF to < k /\ k <= from THEN k - 1 ELSE k
<1>1. n \in 0..Len(s) /\ \A k \in 1..Len(s) : s[k] \in pins <=> k <= n
  BY PinnedPrefix
<1>2. DOMAIN s = 1..Len(s) /\ DOMAIN m = 1..Len(s) /\ Len(s) \in Nat
  BY DEF Moved
<1>3. \A k \in 1..Len(s) : was(k) \in 1..Len(s) /\ m[k] = s[was(k)]
  BY <1>2 DEF Moved
<1>4. \A k \in 1..Len(s) :
          m[k] \in after <=> IF was(k) = from THEN to <= n ELSE was(k) <= n
  <2>1. after = IF to <= n THEN pins \cup {s[from]} ELSE pins \ {s[from]}
    BY DEF PinsAfterMove
  <2>2. \A k \in 1..Len(s) : s[was(k)] = s[from] <=> was(k) = from
    BY <1>2, <1>3 DEF Apart
  <2> HIDE DEF n, m, after, was
  <2>3. QED
    BY <1>1, <1>3, <2>1, <2>2
<1>5. \A k, l \in 1..Len(s) :
          /\ k < l
          /\ IF was(l) = from THEN to <= n ELSE was(l) <= n
          => IF was(k) = from THEN to <= n ELSE was(k) <= n
  <2> HIDE DEF n
  <2>1. QED
    BY <1>1, <1>2
<1>6. QED
  <2> HIDE DEF n, m, after, was
  <2>1. PinnedFirst(m, after)
    BY <1>2, <1>4, <1>5 DEF PinnedFirst
  <2>2. QED
    BY <2>1 DEF m, after

(* pin_tab moves a tab right behind the pinned ones.                       *)
LEMMA PinsBehind ==
    ASSUME NEW T, NEW s \in Seq(T), NEW pins, PinnedFirst(s, pins), Apart(s),
           NEW i \in 1..Len(s), s[i] \notin pins
    PROVE  PinTarget(s, pins, i) = NumPinned(s, pins) + 1
<1> DEFINE n == NumPinned(s, pins)
           free == {k \in DOMAIN s : s[k] \notin pins \cup {s[i]}}
           first == IF free = {} THEN Len(s) + 1
                    ELSE CHOOSE k \in free : \A l \in free : k <= l
<1>1. DOMAIN s = 1..Len(s) /\ Len(s) \in Nat
  OBVIOUS
<1>2. n \in 0..Len(s) /\ \A k \in 1..Len(s) : s[k] \in pins <=> k <= n
  BY PinnedPrefix
<1>3. i > n
  BY <1>2
<1>4. free = {k \in 1..Len(s) : k > n /\ k # i}
  BY <1>1, <1>2 DEF Apart
<1>5. CASE free = {}
  <2>1. first = Len(s) + 1
    BY <1>5
  <2>2. i = n + 1
    BY <1>1, <1>2, <1>3, <1>4, <1>5
  <2>3. QED
    BY <1>1, <1>2, <2>1, <2>2 DEF PinTarget
<1>6. CASE free # {}
  <2>1. \E k \in free : \A l \in free : k <= l
    <3>1. free \in SUBSET Nat
      BY <1>1
    <3> HIDE DEF free
    <3>2. QED
      BY <1>6, <3>1, LeastNat
  <2>2. first \in free /\ \A l \in free : first <= l
    BY <1>6, <2>1
  <2>3. PinTarget(s, pins, i) = IF i > first THEN first ELSE i
    BY DEF PinTarget
  <2> HIDE DEF n, first, free
  <2>4. first \in 1..Len(s) /\ first > n /\ first # i
    BY <1>4, <2>2
  <2>5. \A l \in 1..Len(s) : l > n /\ l # i => first <= l
    BY <1>4, <2>2
  <2>6. CASE i = n + 1
    BY <1>1, <1>2, <2>3, <2>4, <2>6 DEF n
  <2>7. CASE i # n + 1
    <3>1. n + 1 \in 1..Len(s)
      BY <1>1, <1>2, <1>3
    <3>2. first = n + 1
      BY <1>1, <1>2, <2>4, <2>5, <2>7, <3>1
    <3>3. QED
      BY <1>1, <1>2, <1>3, <2>3, <2>7, <3>2 DEF n
  <2>8. QED
    BY <2>6, <2>7
<1>7. QED
  BY <1>5, <1>6

(* unpin_tab moves a tab to the place of the last pinned one.              *)
LEMMA UnpinsLast ==
    ASSUME NEW T, NEW s \in Seq(T), NEW pins, PinnedFirst(s, pins), Apart(s),
           NEW i \in 1..Len(s), s[i] \in pins
    PROVE  UnpinTarget(s, pins, i) = NumPinned(s, pins)
<1> DEFINE n == NumPinned(s, pins)
           held == {k \in DOMAIN s : s[k] \in pins \ {s[i]}}
           last == CHOOSE k \in held : \A l \in held : l <= k
<1>1. DOMAIN s = 1..Len(s) /\ Len(s) \in Nat
  OBVIOUS
<1>2. n \in 0..Len(s) /\ \A k \in 1..Len(s) : s[k] \in pins <=> k <= n
  BY PinnedPrefix
<1>3. i <= n
  BY <1>2
<1>4. held = {k \in 1..Len(s) : k <= n /\ k # i}
  BY <1>1, <1>2 DEF Apart
<1>5. UnpinTarget(s, pins, i) = IF \E k \in held : k > i THEN last ELSE i
  BY DEF UnpinTarget
<1>6. CASE i = n
  BY <1>2, <1>4, <1>5, <1>6
<1>7. CASE i # n
  <2>1. n \in held /\ n > i
    BY <1>1, <1>2, <1>3, <1>4, <1>7
  <2>2. \A l \in held : l <= n
    BY <1>4
  <2>3. last \in held /\ \A l \in held : l <= last
    BY <2>1, <2>2
  <2> HIDE DEF last
  <2>4. last = n
    BY <1>2, <1>4, <2>1, <2>2, <2>3
  <2>5. QED
    BY <1>5, <2>1, <2>4
<1>8. QED
  BY <1>6, <1>7

(* A tab moved behind the pinned ones and pinned, or to the last of them   *)
(* and unpinned, leaves them in front.                                     *)
LEMMA PinKeepsPins ==
    ASSUME NEW T, NEW s \in Seq(T), NEW pins, PinnedFirst(s, pins), Apart(s),
           NEW i \in 1..Len(s)
    PROVE  IF s[i] \in pins
           THEN PinnedFirst(Moved(s, i, NumPinned(s, pins)), pins \ {s[i]})
           ELSE PinnedFirst(Moved(s, i, NumPinned(s, pins) + 1), pins \cup {s[i]})
<1> DEFINE n == NumPinned(s, pins)
<1>1. DOMAIN s = 1..Len(s) /\ Len(s) \in Nat
  OBVIOUS
<1>2. n \in 0..Len(s) /\ \A k \in 1..Len(s) : s[k] \in pins <=> k <= n
  BY PinnedPrefix
<1> HIDE DEF n
<1>3. ASSUME s[i] \in pins
      PROVE  PinnedFirst(Moved(s, i, n), pins \ {s[i]})
  <2>1. i <= n
    BY <1>2, <1>3
  <2>2. \A k \in 1..Len(s) : Moved(s, i, n)[k] =
            IF k = n THEN s[i] ELSE IF i <= k /\ k < n THEN s[k + 1] ELSE s[k]
    BY <1>1, <1>2, <2>1 DEF Moved
  <2>3. DOMAIN Moved(s, i, n) = 1..Len(s)
    BY <1>1 DEF Moved
  <2>4. \A k \in 1..Len(s) : Moved(s, i, n)[k] \in pins \ {s[i]} <=> k < n
    BY <1>1, <1>2, <2>1, <2>2 DEF Apart
  <2>5. QED
    BY <1>2, <2>3, <2>4 DEF PinnedFirst
<1>4. ASSUME s[i] \notin pins
      PROVE  PinnedFirst(Moved(s, i, n + 1), pins \cup {s[i]})
  <2>1. i > n
    BY <1>2, <1>4
  <2>2. \A k \in 1..Len(s) : Moved(s, i, n + 1)[k] =
            IF k = n + 1 THEN s[i]
            ELSE IF n + 1 < k /\ k <= i THEN s[k - 1] ELSE s[k]
    BY <1>1, <1>2, <2>1 DEF Moved
  <2>3. DOMAIN Moved(s, i, n + 1) = 1..Len(s)
    BY <1>1 DEF Moved
  <2>4. \A k \in 1..Len(s) :
            Moved(s, i, n + 1)[k] \in pins \cup {s[i]} <=> k <= n + 1
    BY <1>1, <1>2, <2>1, <2>2 DEF Apart
  <2>5. QED
    BY <1>2, <2>3, <2>4 DEF PinnedFirst
<1>5. QED
  BY <1>3, <1>4 DEF n
-----------------------------------------------------------------------------
(* Dragging a tab anywhere keeps the ids apart, the pinned tabs in front   *)
(* and the active tab active (reorder_tab, move_tab).                      *)
THEOREM DraggingKeepsOrder ==
    ASSUME TypeOK, StripIsOrdered, NEW from \in Positions,
           NEW slot \in 1..(Len(tabs) + 1), Reorder(from, slot)
    PROVE  StripIsOrdered' /\ tabs'[active'] = Active
<1> DEFINE to == DropTarget(Len(tabs), from, slot)
<1>1. /\ tabs \in Seq(Tabs) /\ Len(tabs) \in Nat
      /\ DOMAIN tabs = 1..Len(tabs)
      /\ active \in 1..Len(tabs)
      /\ from \in 1..Len(tabs)
      /\ Apart(tabs) /\ PinnedFirst(tabs, pinned)
  BY DEF TypeOK, StripIsOrdered, Apart, Positions
<1>2. to \in 1..Len(tabs)
  BY <1>1 DEF DropTarget
<1>3. /\ pinned' = PinsAfterMove(tabs, pinned, from, to)
      /\ tabs' = Moved(tabs, from, to)
      /\ active' = ActiveAfterMove(active, from, to)
  BY DEF Reorder, Rearranged
<1> HIDE DEF to
<1>4. Apart(tabs') /\ tabs'[active'] = tabs[active]
  BY <1>1, <1>2, <1>3, MoveKeepsTabs
<1>5. PinnedFirst(tabs', pinned')
  BY <1>1, <1>2, <1>3, MoveKeepsPins
<1>6. QED
  BY <1>4, <1>5 DEF StripIsOrdered, Apart, Active

(* So does pinning or unpinning one (pin_tab, unpin_tab).                  *)
THEOREM PinningKeepsOrder ==
    ASSUME TypeOK, StripIsOrdered, NEW i \in Positions, TogglePin(i)
    PROVE  StripIsOrdered' /\ tabs'[active'] = Active
<1> DEFINE n == NumPinned(tabs, pinned)
<1>1. /\ tabs \in Seq(Tabs) /\ Len(tabs) \in Nat
      /\ DOMAIN tabs = 1..Len(tabs)
      /\ active \in 1..Len(tabs)
      /\ i \in 1..Len(tabs)
      /\ Apart(tabs) /\ PinnedFirst(tabs, pinned)
  BY DEF TypeOK, StripIsOrdered, Apart, Positions
<1>2. n \in 0..Len(tabs) /\ \A k \in 1..Len(tabs) : tabs[k] \in pinned <=> k <= n
  BY <1>1, PinnedPrefix
<1> DEFINE to == IF tabs[i] \in pinned THEN n ELSE n + 1
<1>3. /\ pinned' = IF tabs[i] \in pinned THEN pinned \ {tabs[i]}
                   ELSE pinned \cup {tabs[i]}
      /\ tabs' = Moved(tabs, i, to)
      /\ active' = ActiveAfterMove(active, i, to)
  BY <1>1, PinsBehind, UnpinsLast DEF TogglePin, Rearranged
<1>4. to \in 1..Len(tabs)
  BY <1>1, <1>2
<1>5. PinnedFirst(tabs', pinned')
  BY <1>1, <1>3, PinKeepsPins
<1> HIDE DEF to
<1>6. Apart(tabs') /\ tabs'[active'] = tabs[active]
  BY <1>1, <1>3, <1>4, MoveKeepsTabs
<1>7. QED
  BY <1>5, <1>6 DEF StripIsOrdered, Apart, Active
-----------------------------------------------------------------------------
(* Tabs that leave the strip.  A tab that stays, and the end of the strip, *)
(* move by the number of those removed before: Place is where it goes.     *)
Stay(s, gone) == {k \in DOMAIN s : s[k] \notin gone}
Place(s, gone, k) == k - RemovedBefore(s, gone, k)
Ids(s) == {s[k] : k \in DOMAIN s}

LEMMA RemovedCounts ==
    ASSUME NEW s, NEW gone, NEW i \in Nat
    PROVE  /\ IsFiniteSet({k \in 1..(i - 1) : s[k] \in gone})
           /\ RemovedBefore(s, gone, i) \in Nat
<1>1. IsFiniteSet(1..(i - 1))
  BY FS_Interval
<1>2. IsFiniteSet({k \in 1..(i - 1) : s[k] \in gone})
  BY <1>1, FS_Subset
<1>3. QED
  BY <1>2, FS_CardinalityType DEF RemovedBefore

(* One place further, one tab more or less.                                *)
LEMMA PlacesByOne ==
    ASSUME NEW s, NEW gone, NEW i \in Nat \ {0}
    PROVE  /\ Place(s, gone, i) \in Int /\ Place(s, gone, i + 1) \in Int
           /\ Place(s, gone, 1) = 1
           /\ s[i] \in gone => Place(s, gone, i + 1) = Place(s, gone, i)
           /\ s[i] \notin gone => Place(s, gone, i + 1) = Place(s, gone, i) + 1
<1> DEFINE before(j) == {k \in 1..(j - 1) : s[k] \in gone}
<1>1. /\ RemovedBefore(s, gone, i) = Cardinality(before(i))
      /\ RemovedBefore(s, gone, i + 1) = Cardinality(before(i + 1))
      /\ RemovedBefore(s, gone, 1) = Cardinality(before(1))
  BY DEF RemovedBefore
<1>2. /\ IsFiniteSet(before(i)) /\ RemovedBefore(s, gone, i) \in Nat
      /\ RemovedBefore(s, gone, i + 1) \in Nat
  <2>1. IsFiniteSet(before(i)) /\ RemovedBefore(s, gone, i) \in Nat
    BY RemovedCounts
  <2>2. i + 1 \in Nat
    OBVIOUS
  <2>3. RemovedBefore(s, gone, i + 1) \in Nat
    BY <2>2, RemovedCounts
  <2>4. QED
    BY <2>1, <2>3
<1>3. before(1) = {}
  <2>1. 1..(1 - 1) = {}
    OBVIOUS
  <2>2. QED
    BY <2>1
<1>4. i + 1 - 1 = i /\ i \notin before(i)
  <2>1. i + 1 - 1 = i /\ i \notin 1..(i - 1)
    OBVIOUS
  <2>2. QED
    BY <2>1
<1>5. s[i] \in gone => before(i + 1) = before(i) \cup {i}
  BY <1>4
<1>6. s[i] \notin gone => before(i + 1) = before(i)
  BY <1>4
<1> HIDE DEF before
<1>7. Cardinality(before(1)) = 0
  BY <1>3, FS_EmptySet
<1>8. s[i] \in gone => Cardinality(before(i + 1)) = Cardinality(before(i)) + 1
  BY <1>2, <1>4, <1>5, FS_AddElement
<1>9. QED
  BY <1>1, <1>2, <1>6, <1>7, <1>8 DEF Place

(* Those that stay keep their order.                                       *)
LEMMA PlacesRise ==
    ASSUME NEW s, NEW gone, NEW i \in Nat \ {0}, NEW j \in Nat, i < j,
           s[i] \notin gone
    PROVE  Place(s, gone, i) < Place(s, gone, j)
<1> DEFINE Bad == {l \in Nat : l > i /\ ~(Place(s, gone, i) < Place(s, gone, l))}
<1>1. SUFFICES ASSUME Bad # {} PROVE FALSE
  OBVIOUS
<1>2. PICK l \in Bad : \A m \in Bad : l <= m
  <2>1. Bad \in SUBSET Nat /\ Bad # {}
    BY <1>1
  <2> HIDE DEF Bad
  <2>2. QED
    BY <2>1, LeastNat
<1>3. l \in Nat /\ l > i /\ ~(Place(s, gone, i) < Place(s, gone, l))
  OBVIOUS
<1>4. l # i + 1
  BY <1>3, PlacesByOne
<1>5. l - 1 \in Nat \ {0} /\ l - 1 > i /\ ~(l <= l - 1)
  BY <1>3, <1>4
<1>6. l - 1 \notin Bad
  BY <1>2, <1>5
<1>7. Place(s, gone, i) < Place(s, gone, l - 1)
  BY <1>5, <1>6
<1>8. /\ Place(s, gone, l) = Place(s, gone, l - 1) \/ Place(s, gone, l) = Place(s, gone, l - 1) + 1
      /\ Place(s, gone, l - 1) \in Int
  <2>1. l - 1 + 1 = l
    BY <1>3
  <2>2. QED
    BY <1>5, <2>1, PlacesByOne
<1>9. Place(s, gone, i) \in Int
  BY PlacesByOne
<1>10. QED
  BY <1>3, <1>7, <1>8, <1>9

(* And every place is taken.                                               *)
LEMMA PlacesAreTaken ==
    ASSUME NEW T, NEW s \in Seq(T), NEW gone,
           NEW n \in Nat \ {0}, n < Place(s, gone, Len(s) + 1)
    PROVE  \E k \in Stay(s, gone) : Place(s, gone, k) = n
<1> DEFINE Beyond == {k \in Nat \ {0} : n < Place(s, gone, k)}
<1>1. PICK k \in Beyond : \A l \in Beyond : k <= l
  <2>1. Beyond \in SUBSET Nat /\ Len(s) + 1 \in Beyond
    OBVIOUS
  <2> HIDE DEF Beyond
  <2>2. QED
    BY <2>1, LeastNat
<1>2. k \in Nat \ {0} /\ n < Place(s, gone, k) /\ k <= Len(s) + 1
  BY <1>1
<1>3. k # 1
  BY <1>2, PlacesByOne
<1>4. k - 1 \in Nat \ {0} /\ k - 1 \notin Beyond /\ k - 1 + 1 = k /\ k - 1 \in 1..Len(s)
  BY <1>1, <1>2, <1>3
<1>5. ~(n < Place(s, gone, k - 1))
  BY <1>4
<1>6. /\ Place(s, gone, k - 1) \in Int /\ Place(s, gone, k) \in Int
      /\ s[k - 1] \in gone => Place(s, gone, k) = Place(s, gone, k - 1)
      /\ s[k - 1] \notin gone => Place(s, gone, k) = Place(s, gone, k - 1) + 1
  BY <1>4, PlacesByOne
<1>7. s[k - 1] \notin gone /\ Place(s, gone, k - 1) = n
  BY <1>2, <1>5, <1>6
<1>8. k - 1 \in Stay(s, gone)
  BY <1>4, <1>7 DEF Stay
<1>9. QED
  BY <1>7, <1>8

LEMMA StayCounts ==
    ASSUME NEW T, NEW s \in Seq(T), NEW gone
    PROVE  /\ Cardinality(Stay(s, gone)) \in Nat
           /\ Place(s, gone, Len(s) + 1) = Cardinality(Stay(s, gone)) + 1
<1> DEFINE left == {k \in 1..Len(s) : s[k] \in gone}
<1>1. Len(s) \in Nat /\ DOMAIN s = 1..Len(s) /\ Len(s) + 1 - 1 = Len(s)
  OBVIOUS
<1>2. IsFiniteSet(1..Len(s)) /\ Cardinality(1..Len(s)) = Len(s)
  <2>1. 1 \in Int /\ Len(s) \in Int
    BY <1>1
  <2>2. IsFiniteSet(1..Len(s)) /\ Cardinality(1..Len(s)) = IF 1 > Len(s) THEN 0 ELSE Len(s) - 1 + 1
    BY <2>1, FS_Interval
  <2>3. QED
    BY <1>1, <2>2
<1>3. RemovedBefore(s, gone, Len(s) + 1) = Cardinality(left)
  BY <1>1 DEF RemovedBefore
<1>4. Stay(s, gone) = (1..Len(s)) \ left /\ left = (1..Len(s)) \cap left
  BY <1>1 DEF Stay
<1>5. left \subseteq 1..Len(s)
  OBVIOUS
<1> HIDE DEF left
<1>6. IsFiniteSet(left) /\ IsFiniteSet(Stay(s, gone))
  BY <1>2, <1>4, <1>5, FS_Subset
<1>7. Cardinality((1..Len(s)) \ left) = Cardinality(1..Len(s)) - Cardinality((1..Len(s)) \cap left)
  BY <1>2, FS_Difference
<1>8. Cardinality(left) \in Nat /\ Cardinality(Stay(s, gone)) \in Nat
  BY <1>6, FS_CardinalityType
<1>9. Cardinality(Stay(s, gone)) = Len(s) - Cardinality(left)
  BY <1>2, <1>4, <1>7
<1>10. QED
  BY <1>1, <1>3, <1>8, <1>9 DEF Place

(* What is left of a strip: the tabs that stay, each once, in their order. *)
LEMMA WithoutKeeps ==
    ASSUME NEW T, NEW s \in Seq(T), NEW gone
    PROVE  LET w == Without(s, gone) IN
           /\ w \in Seq(T)
           /\ \A k \in Stay(s, gone) : /\ Place(s, gone, k) \in 1..Len(w)
                                       /\ w[Place(s, gone, k)] = s[k]
           /\ \A n \in 1..Len(w) : \E k \in Stay(s, gone) : Place(s, gone, k) = n
           /\ \A j, k \in Stay(s, gone) :
                 j < k <=> Place(s, gone, j) < Place(s, gone, k)
<1> DEFINE w == Without(s, gone)
           stay == Stay(s, gone)
           P(k) == Place(s, gone, k)
           At(n) == CHOOSE k \in stay : P(k) = n
           N == Cardinality(stay)
<1>1. Len(s) \in Nat /\ DOMAIN s = 1..Len(s) /\ \A k \in 1..Len(s) : s[k] \in T
  OBVIOUS
<1>2. \A k \in stay : k \in 1..Len(s) /\ k \in Nat \ {0} /\ s[k] \notin gone /\ k < Len(s) + 1
  BY <1>1 DEF Stay
<1>3. w = [n \in 1..N |-> s[At(n)]]
  BY DEF Without, Stay, Place
<1>4. N \in Nat /\ P(Len(s) + 1) = N + 1
  BY StayCounts
<1>5. \A k \in stay : P(k) \in Int
  BY <1>2, PlacesByOne
<1>6. \A j, k \in stay : j < k => P(j) < P(k)
  BY <1>2, PlacesRise
<1>7. \A k \in stay : P(k) < N + 1
  BY <1>1, <1>2, <1>4, PlacesRise
<1>8. \A k \in stay : P(k) >= 1
  <2>1. TAKE k \in stay
  <2>2. k \in Nat \ {0}
    BY <1>2
  <2>3. RemovedBefore(s, gone, k) <= k - 1
    <3>1. IsFiniteSet(1..(k - 1)) /\ Cardinality(1..(k - 1)) = k - 1
      <4>1. 1 \in Int /\ k - 1 \in Int
        BY <2>2
      <4>2. IsFiniteSet(1..(k - 1)) /\ Cardinality(1..(k - 1)) = IF 1 > k - 1 THEN 0 ELSE k - 1 - 1 + 1
        BY <4>1, FS_Interval
      <4>3. QED
        BY <2>2, <4>2
    <3>2. {l \in 1..(k - 1) : s[l] \in gone} \subseteq 1..(k - 1)
      OBVIOUS
    <3>3. Cardinality({l \in 1..(k - 1) : s[l] \in gone}) <= Cardinality(1..(k - 1))
      BY <3>1, <3>2, FS_Subset
    <3>4. QED
      BY <3>1, <3>3 DEF RemovedBefore
  <2>4. RemovedBefore(s, gone, k) \in Nat
    BY <2>2, RemovedCounts
  <2>5. QED
    BY <2>2, <2>3, <2>4 DEF Place
<1>9. \A n \in 1..N : \E k \in stay : P(k) = n
  <2>1. TAKE n \in 1..N
  <2>2. n \in Nat \ {0} /\ n < P(Len(s) + 1)
    BY <1>4
  <2>3. QED
    BY <2>2, PlacesAreTaken
<1> HIDE DEF P, stay, N, w
<1>10. \A j, k \in stay : P(j) = P(k) => j = k
  <2>1. \A j, k \in stay : j = k \/ j < k \/ k < j
    BY <1>2
  <2>2. QED
    BY <1>5, <1>6, <2>1
<1>11. \A j, k \in stay : j < k <=> P(j) < P(k)
  <2>1. \A j, k \in stay : j = k \/ j < k \/ k < j
    BY <1>2
  <2>2. QED
    BY <1>5, <1>6, <2>1
<1>12. \A k \in stay : P(k) \in 1..N /\ At(P(k)) = k
  BY <1>4, <1>5, <1>7, <1>8, <1>10
<1>13. \A n \in 1..N : At(n) \in stay
  BY <1>9
<1> HIDE DEF At
<1>14. w \in Seq(T) /\ Len(w) = N
  <2>1. \A n \in 1..N : s[At(n)] \in T
    BY <1>1, <1>2, <1>13
  <2>2. QED
    BY <1>3, <1>4, <2>1
<1>15. \A k \in stay : P(k) \in 1..Len(w) /\ w[P(k)] = s[k]
  BY <1>3, <1>12, <1>14
<1>16. QED
  BY <1>9, <1>11, <1>14, <1>15 DEF P, stay, w

(* An ordered strip stays so.                                              *)
LEMMA WithoutOrdered ==
    ASSUME NEW T, NEW s \in Seq(T), NEW gone, NEW pins, Apart(s), PinnedFirst(s, pins)
    PROVE  /\ Apart(Without(s, gone)) /\ PinnedFirst(Without(s, gone), pins \ gone)
           /\ Ids(Without(s, gone)) = Ids(s) \ gone
<1> DEFINE w == Without(s, gone)
           stay == Stay(s, gone)
           P(k) == Place(s, gone, k)
<1>1. /\ w \in Seq(T)
      /\ \A k \in stay : P(k) \in 1..Len(w) /\ w[P(k)] = s[k]
      /\ \A n \in 1..Len(w) : \E k \in stay : P(k) = n
      /\ \A j, k \in stay : j < k <=> P(j) < P(k)
  BY WithoutKeeps
<1>2. DOMAIN w = 1..Len(w) /\ DOMAIN s = 1..Len(s)
  BY <1>1
<1>3. \A k : k \in stay <=> k \in DOMAIN s /\ s[k] \notin gone
  BY DEF Stay
<1> HIDE DEF w, stay, P
<1>4. Apart(w)
  BY <1>1, <1>2, <1>3 DEF Apart
<1>5. PinnedFirst(w, pins \ gone)
  <2>1. SUFFICES ASSUME NEW m \in DOMAIN w, NEW n \in DOMAIN w, m < n,
                        w[n] \in pins \ gone
                 PROVE  w[m] \in pins \ gone
    BY DEF PinnedFirst
  <2>2. PICK j \in stay, k \in stay : P(j) = m /\ P(k) = n
    BY <1>1, <1>2
  <2>3. j < k /\ w[m] = s[j] /\ w[n] = s[k]
    BY <1>1, <2>1, <2>2
  <2>4. QED
    BY <1>3, <2>1, <2>2, <2>3 DEF PinnedFirst
<1>6. Ids(w) = Ids(s) \ gone
  <2>1. \A n \in DOMAIN w : \E k \in DOMAIN s : w[n] = s[k] /\ s[k] \notin gone
    BY <1>1, <1>2, <1>3
  <2>2. \A k \in DOMAIN s : s[k] \notin gone => \E n \in DOMAIN w : w[n] = s[k]
    BY <1>1, <1>2, <1>3
  <2>3. QED
    BY <2>1, <2>2 DEF Ids
<1>7. QED
  BY <1>4, <1>5, <1>6 DEF w
-----------------------------------------------------------------------------
(* The invariant.  Ids grow and are never used again; what is on the       *)
(* screen and in the tabs came from queries that were started; and all of  *)
(* it is at home: at the tab t it is for, among the tabs that are open.    *)
StripInv ==
    /\ tabs \in Seq(Tabs) /\ pinned \subseteq Tabs
    /\ active \in 1..Len(tabs) /\ opened \in Tabs
    /\ StripIsOrdered
    /\ Open \cup pinned \subseteq 1..opened

JobsInv ==
    /\ started \in 0..MaxResults
    /\ home \in [Results -> {0} \cup Tabs]
    /\ running \subseteq Results \cap (1..started)
    /\ edits \in {0} \cup Results
    /\ strayed \in BOOLEAN

Fit(sh, ke, fi, st, n, last) ==
    /\ sh \in {0} \cup Results /\ sh <= n
    /\ ke \in [Tabs -> {0} \cup Results] /\ \A t \in Tabs : ke[t] <= n
    /\ fi \in {0} \cup Tabs
    /\ st \in [Tabs -> {0} \cup Tabs] /\ \A t \in Tabs : t > last => st[t] = 0

FilterHome(fi, st, t, open) ==
    /\ fi \in {0, t}
    /\ \A u \in open : st[u] \in {0, u}
    /\ st[t] = 0

RowsHome(sh, ke, t, open, h) ==
    /\ sh # 0 => h[sh] = t
    /\ \A u \in open \ {t} : ke[u] # 0 => h[ke[u]] = u

ShowInv ==
    /\ StripInv /\ JobsInv
    /\ Fit(shown, kept, filter, stash, started, opened)
    /\ FilterHome(filter, stash, Active, Open)
    /\ ~strayed => RowsHome(shown, kept, Active, Open, home)

LEMMA ShowInitially == Init => ShowInv
<1> SUFFICES ASSUME Init PROVE ShowInv
  OBVIOUS
<1>1. MaxTabs \in Nat /\ 1 \in Tabs /\ MaxResults \in Nat
  BY DisplayAssumption DEF Tabs
<1>2. tabs = <<1>> /\ Len(tabs) = 1 /\ DOMAIN tabs = {1} /\ tabs[1] = 1
  BY DEF Init
<1>3. Open = {1} /\ Active = 1
  BY <1>2 DEF Init, Open, Active
<1>4. StripInv
  <2>1. tabs \in Seq(Tabs)
    BY <1>1, <1>2
  <2>2. StripIsOrdered
    BY <1>2 DEF Init, StripIsOrdered, PinnedFirst
  <2>3. active \in 1..Len(tabs) /\ opened \in Tabs /\ pinned \subseteq Tabs
    BY <1>1, <1>2 DEF Init
  <2>4. Open \cup pinned \subseteq 1..opened
    BY <1>3 DEF Init
  <2>5. QED
    BY <2>1, <2>2, <2>3, <2>4 DEF StripInv
<1>5. JobsInv
  <2>1. started = 0 /\ edits = 0 /\ strayed = FALSE
    BY DEF Init
  <2>5. started \in 0..MaxResults
    BY <1>1, <2>1
  <2>6. edits \in {0} \cup Results
    BY <2>1
  <2>7. strayed \in BOOLEAN
    BY <2>1
  <2>2. home \in [Results -> {0} \cup Tabs]
    BY DEF Init
  <2>3. running \subseteq Results \cap (1..started)
    BY DEF Init
  <2>4. QED
    BY <2>2, <2>3, <2>5, <2>6, <2>7 DEF JobsInv
<1>6. Fit(shown, kept, filter, stash, started, opened)
  BY DEF Init, Fit
<1>7. FilterHome(filter, stash, Active, Open)
  BY <1>1, <1>3 DEF Init, FilterHome
<1>8. RowsHome(shown, kept, Active, Open, home)
  BY <1>1, <1>3 DEF Init, RowsHome
<1>9. QED
  BY <1>4, <1>5, <1>6, <1>7, <1>8 DEF ShowInv

LEMMA StripTyped ==
    ASSUME StripInv
    PROVE  /\ DOMAIN tabs = 1..Len(tabs) /\ Len(tabs) \in Nat
           /\ tabs \in Seq(Tabs) /\ active \in 1..Len(tabs)
           /\ Active \in Open /\ Open \subseteq Tabs /\ Tabs \subseteq Nat \ {0}
           /\ \A k \in 1..Len(tabs) : tabs[k] \in Open
           /\ Apart(tabs) /\ PinnedFirst(tabs, pinned)
           /\ opened \in Nat /\ opened + 1 \notin Open \cup pinned
<1>1. DOMAIN tabs = 1..Len(tabs) /\ Len(tabs) \in Nat /\ \A k \in 1..Len(tabs) : tabs[k] \in Tabs
  BY DEF StripInv
<1>2. Tabs \subseteq Nat \ {0} /\ opened \in Nat
  BY DisplayAssumption DEF Tabs, StripInv
<1>3. /\ Active \in Open /\ Open \subseteq Tabs
      /\ \A k \in 1..Len(tabs) : tabs[k] \in Open
  BY <1>1 DEF StripInv, Active, Open
<1>4. Apart(tabs) /\ PinnedFirst(tabs, pinned)
  BY DEF StripInv, StripIsOrdered, Apart
<1>5. opened + 1 \notin Open \cup pinned
  BY <1>2 DEF StripInv
<1>6. tabs \in Seq(Tabs) /\ active \in 1..Len(tabs)
  BY DEF StripInv
<1>7. QED
  BY <1>1, <1>2, <1>3, <1>4, <1>5, <1>6

(* A new tab at the end.                                                   *)
LEMMA PushStrip ==
    ASSUME StripInv, Push
    PROVE  /\ StripInv' /\ opened + 1 \in Tabs /\ opened' = opened + 1
           /\ Open' = Open \cup {opened + 1} /\ Active' = opened + 1
<1> USE StripTyped
<1>1. /\ opened < MaxTabs /\ opened' = opened + 1 /\ pinned' = pinned
      /\ tabs' = Append(tabs, opened + 1) /\ active' = Len(tabs) + 1
  BY DEF Push
<1>2. opened + 1 \in Tabs
  BY <1>1, DisplayAssumption DEF Tabs
<1>3. tabs \in Seq(Tabs)
  BY DEF StripInv
<1>4. /\ tabs' \in Seq(Tabs) /\ Len(tabs') = Len(tabs) + 1
      /\ tabs'[Len(tabs) + 1] = opened + 1
      /\ \A k \in 1..Len(tabs) : tabs'[k] = tabs[k]
  BY <1>1, <1>2, <1>3
<1>5. DOMAIN tabs' = (1..Len(tabs)) \cup {Len(tabs) + 1}
  BY <1>4
<1>6. Open' = Open \cup {opened + 1} /\ Active' = opened + 1
  <2>1. Open' = {tabs'[k] : k \in 1..Len(tabs)} \cup {opened + 1}
    BY <1>4, <1>5 DEF Open
  <2>2. {tabs'[k] : k \in 1..Len(tabs)} = {tabs[k] : k \in 1..Len(tabs)}
    BY <1>4
  <2>3. Active' = opened + 1
    BY <1>1, <1>4 DEF Active
  <2>4. QED
    BY <2>1, <2>2, <2>3 DEF Open
<1>7. Apart(tabs')
  BY <1>4, <1>5 DEF Apart
<1>8. PinnedFirst(tabs', pinned')
  <2>1. \A k \in DOMAIN tabs' : tabs'[k] \in pinned' => k \in 1..Len(tabs) /\ tabs[k] \in pinned
    BY <1>1, <1>4, <1>5
  <2>2. \A k, l \in DOMAIN tabs' : k < l /\ l \in 1..Len(tabs) => k \in 1..Len(tabs)
    BY <1>5
  <2>3. QED
    BY <1>1, <1>4, <1>5, <2>1, <2>2 DEF PinnedFirst
<1>9. StripInv'
  <2>1. StripIsOrdered'
    BY <1>7, <1>8 DEF StripIsOrdered, Apart
  <2>2. active' \in 1..Len(tabs')
    BY <1>1, <1>4
  <2>3. (Open \cup pinned)' \subseteq 1..opened'
    BY <1>1, <1>6 DEF StripInv
  <2>4. QED
    BY <1>1, <1>2, <1>4, <2>1, <2>2, <2>3 DEF StripInv
<1>10. QED
  BY <1>1, <1>2, <1>6, <1>9

(* Tabs that are moved.                                                    *)
LEMMA MoveStrip ==
    ASSUME StripInv, TypeOK, NEW i \in Positions,
           TogglePin(i) \/ \E slot \in 1..(Len(tabs) + 1) : Reorder(i, slot)
    PROVE  StripInv' /\ Open' \subseteq Open /\ Active' = Active
<1> USE StripTyped
<1>1. i \in 1..Len(tabs) /\ StripIsOrdered
  BY DEF Positions, StripInv
<1>2. StripIsOrdered' /\ tabs'[active'] = Active
  BY <1>1, DraggingKeepsOrder, PinningKeepsOrder
<1>3. PICK to \in 1..Len(tabs) : /\ Rearranged(i, to)
                                 /\ pinned' \subseteq pinned \cup {tabs[i]}
  <2>1. CASE TogglePin(i)
    <3>1. NumPinned(tabs, pinned) \in 0..Len(tabs)
          /\ \A k \in 1..Len(tabs) : tabs[k] \in pinned <=> k <= NumPinned(tabs, pinned)
      BY PinnedPrefix
    <3>2. CASE tabs[i] \in pinned
      <4>1. UnpinTarget(tabs, pinned, i) = NumPinned(tabs, pinned)
        BY <1>1, <3>2, UnpinsLast
      <4>2. UnpinTarget(tabs, pinned, i) \in 1..Len(tabs)
        BY <1>1, <3>1, <3>2, <4>1
      <4>3. QED
        BY <2>1, <3>2, <4>2 DEF TogglePin
    <3>3. CASE tabs[i] \notin pinned
      <4>1. PinTarget(tabs, pinned, i) = NumPinned(tabs, pinned) + 1
        BY <1>1, <3>3, PinsBehind
      <4>2. PinTarget(tabs, pinned, i) \in 1..Len(tabs)
        BY <1>1, <3>1, <3>3, <4>1
      <4>3. QED
        BY <2>1, <3>3, <4>2 DEF TogglePin
    <3>4. QED
      BY <3>2, <3>3
  <2>2. ASSUME NEW slot \in 1..(Len(tabs) + 1), Reorder(i, slot)
        PROVE  \E to \in 1..Len(tabs) : /\ Rearranged(i, to)
                                        /\ pinned' \subseteq pinned \cup {tabs[i]}
    <3>1. DropTarget(Len(tabs), i, slot) \in 1..Len(tabs)
      BY <1>1 DEF DropTarget
    <3>2. /\ Rearranged(i, DropTarget(Len(tabs), i, slot))
          /\ pinned' = PinsAfterMove(tabs, pinned, i, DropTarget(Len(tabs), i, slot))
      BY <2>2 DEF Reorder
    <3>3. pinned' \subseteq pinned \cup {tabs[i]}
      BY <3>2 DEF PinsAfterMove
    <3>4. QED
      BY <3>1, <3>2, <3>3
  <2>3. QED
    BY <2>1, <2>2
<1>4. /\ tabs' = Moved(tabs, i, to) /\ active' = ActiveAfterMove(active, i, to)
      /\ opened' = opened
  BY <1>3 DEF Rearranged
<1>5. tabs \in Seq(Tabs) /\ active \in 1..Len(tabs)
  BY DEF StripInv
<1>6. tabs' \in Seq(Tabs) /\ Len(tabs') = Len(tabs) /\ active' \in 1..Len(tabs')
  <2>1. /\ Moved(tabs, i, to) \in Seq(Tabs) /\ Len(Moved(tabs, i, to)) = Len(tabs)
        /\ ActiveAfterMove(active, i, to) \in 1..Len(tabs)
    BY <1>1, <1>5, MoveKeepsTabs
  <2>2. QED
    BY <1>4, <2>1
<1>7. Open' \subseteq Open
  <2>1. \A k \in 1..Len(tabs) : tabs'[k] \in Open
    BY <1>1, <1>4 DEF Moved
  <2>2. DOMAIN tabs' = 1..Len(tabs)
    BY <1>6
  <2>3. Open' = {tabs'[k] : k \in 1..Len(tabs)}
    BY <2>2 DEF Open
  <2>4. QED
    BY <2>1, <2>3
<1>8. Active' = Active
  BY <1>2 DEF Active
<1>9. StripInv'
  <2>1. pinned' \subseteq pinned \cup Open
    BY <1>1, <1>3
  <2>2. QED
    BY <1>2, <1>4, <1>6, <1>7, <2>1 DEF StripInv
<1>10. QED
  BY <1>7, <1>8, <1>9

(* Tabs that go, while one at i stays.                                     *)
LEMMA RemoveStrip ==
    ASSUME StripInv, NEW gone, NEW i \in 1..Len(tabs), tabs[i] \notin gone,
           tabs' = Without(tabs, gone), pinned' = pinned \ gone, opened' = opened,
           active' = i - RemovedBefore(tabs, gone, i)
    PROVE  StripInv' /\ Open' = Open \ gone /\ Active' = tabs[i]
<1> USE StripTyped
<1>1. tabs \in Seq(Tabs)
  BY DEF StripInv
<1>2. i \in Stay(tabs, gone) /\ active' = Place(tabs, gone, i)
  BY DEF Stay, Place
<1>3. /\ tabs' \in Seq(Tabs) /\ active' \in 1..Len(tabs') /\ tabs'[active'] = tabs[i]
  BY <1>1, <1>2, WithoutKeeps
<1>4. /\ Apart(tabs') /\ PinnedFirst(tabs', pinned')
      /\ Ids(tabs') = Ids(tabs) \ gone
  <2>1. /\ Apart(Without(tabs, gone)) /\ PinnedFirst(Without(tabs, gone), pinned \ gone)
        /\ Ids(Without(tabs, gone)) = Ids(tabs) \ gone
    <3>1. Apart(tabs) /\ PinnedFirst(tabs, pinned)
      OBVIOUS
    <3>2. QED
      BY ONLY <1>1, <3>1, WithoutOrdered
  <2>2. tabs' = Without(tabs, gone) /\ pinned' = pinned \ gone
    OBVIOUS
  <2>3. QED
    BY <2>1, <2>2, Zenon
<1>5. Open' = Open \ gone /\ Active' = tabs[i]
  BY <1>3, <1>4 DEF Open, Active, Ids
<1>6. StripIsOrdered'
  BY <1>4 DEF StripIsOrdered, Apart
<1>7. StripInv'
  BY <1>3, <1>5, <1>6 DEF StripInv
<1>8. QED
  BY <1>5, <1>7

(* The index that close_tab gives the tab that takes over.                 *)
LEMMA NextTakesOver ==
    ASSUME StripInv, Len(tabs) > 1
    PROVE  \E i \in 1..Len(tabs) :
              /\ i # active /\ tabs[i] = NextActive /\ NextActive # Active
              /\ (IF active = Len(tabs) THEN active - 1 ELSE active)
                    = i - RemovedBefore(tabs, {Active}, i)
<1> USE StripTyped
<1> DEFINE i == IF active = Len(tabs) THEN active - 1 ELSE active + 1
           before == {k \in 1..(i - 1) : tabs[k] \in {Active}}
<1>1. active \in 1..Len(tabs) /\ Len(tabs) \in Nat
  OBVIOUS
<1>2. /\ active = Len(tabs) => i = active - 1
      /\ active # Len(tabs) => i = active + 1
  OBVIOUS
<1>3. tabs[i] = NextActive
  BY DEF NextActive
<1> HIDE DEF i
<1>4. i \in 1..Len(tabs) /\ i # active /\ i \in Nat
  <2>1. CASE active = Len(tabs)
    <3>1. i = active - 1 /\ active \in Nat /\ active > 1
      BY <1>1, <1>2, <2>1
    <3>2. QED
      BY ONLY <1>1, <2>1, <3>1
  <2>2. CASE active # Len(tabs)
    <3>1. i = active + 1 /\ active \in Nat
      BY ONLY <1>1, <1>2, <2>2
    <3>2. QED
      BY ONLY <1>1, <2>2, <3>1
  <2>3. QED
    BY <2>1, <2>2
<1>5. \A k \in 1..Len(tabs) : tabs[k] = Active <=> k = active
  BY <1>1 DEF Active, Apart
<1>6. NextActive # Active
  BY <1>3, <1>4, <1>5
<1>7. before = {k \in 1..(i - 1) : k = active}
  <2>1. 1..(i - 1) \subseteq 1..Len(tabs)
    BY <1>1, <1>4
  <2>2. QED
    BY <1>5, <2>1
<1>8. RemovedBefore(tabs, {Active}, i) = Cardinality(before)
  BY DEF RemovedBefore
<1>9. (IF active = Len(tabs) THEN active - 1 ELSE active)
         = i - RemovedBefore(tabs, {Active}, i)
  <2>1. CASE active = Len(tabs)
    <3>1. active \notin 1..(i - 1)
      BY <1>1, <1>2, <2>1
    <3>2. before = {}
      BY <1>7, <3>1
    <3>3. RemovedBefore(tabs, {Active}, i) = 0
      BY <1>8, <3>2, FS_EmptySet
    <3>4. QED
      BY <1>1, <1>2, <2>1, <3>3
  <2>2. CASE active # Len(tabs)
    <3>5. i = active + 1 /\ active \in Nat \ {0}
      BY ONLY <1>1, <1>2, <2>2
    <3>1. active \in 1..(i - 1)
      BY ONLY <3>5
    <3>2. before = {active}
      BY <1>7, <3>1
    <3>3. RemovedBefore(tabs, {Active}, i) = 1
      BY <1>8, <3>2, FS_Singleton
    <3>4. QED
      BY ONLY <2>2, <3>3, <3>5
  <2>3. QED
    BY <2>1, <2>2
<1>10. QED
  BY <1>3, <1>4, <1>6, <1>9
-----------------------------------------------------------------------------
(* What the view of switch_to_tab brings is at home at the tab entered.    *)
LEMMA SwitchHome ==
    ASSUME ShowInv, NEW t \in Open
    PROVE  /\ Fit(AfterSwitch(t).shown, AfterSwitch(t).kept, AfterSwitch(t).filter,
                  AfterSwitch(t).stash, started, opened)
           /\ FilterHome(AfterSwitch(t).filter, AfterSwitch(t).stash, t, Open)
           /\ ~strayed =>
                 RowsHome(AfterSwitch(t).shown, AfterSwitch(t).kept, t, Open, home)
<1>1. t \in Tabs /\ Active \in Tabs /\ Active \in Open /\ Open \subseteq Tabs
  BY StripTyped DEF ShowInv
<1>2. /\ Fit(shown, kept, filter, stash, started, opened)
      /\ FilterHome(filter, stash, Active, Open)
      /\ ~strayed => RowsHome(shown, kept, Active, Open, home)
  BY DEF ShowInv
<1>3. CASE t = Active
  <2>1. /\ AfterSwitch(t).shown = shown /\ AfterSwitch(t).kept = kept
        /\ AfterSwitch(t).filter = filter
        /\ AfterSwitch(t).stash = [stash EXCEPT ![t] = 0]
    BY <1>3 DEF AfterSwitch
  <2>2. Fit(shown, kept, filter, [stash EXCEPT ![t] = 0], started, opened)
    BY <1>1, <1>2 DEF Fit
  <2>3. FilterHome(filter, [stash EXCEPT ![t] = 0], t, Open)
    BY <1>1, <1>2, <1>3 DEF FilterHome, Fit
  <2>4. QED
    BY <1>2, <1>3, <2>1, <2>2, <2>3
<1>4. CASE t # Active
  <2> DEFINE k == [kept EXCEPT ![Active] = shown, ![t] = kept[Active]]
             f == [stash EXCEPT ![Active] = filter, ![t] = 0]
  <2>1. /\ AfterSwitch(t).shown = kept[t] /\ AfterSwitch(t).kept = k
        /\ AfterSwitch(t).filter = stash[t] /\ AfterSwitch(t).stash = f
    BY <1>4 DEF AfterSwitch
  <2>2. /\ DOMAIN k = Tabs /\ k[Active] = shown /\ k[t] = kept[Active]
        /\ \A u \in Tabs \ {Active, t} : k[u] = kept[u]
        /\ k \in [Tabs -> {0} \cup Results]
    BY <1>1, <1>2, <1>4 DEF Fit
  <2>3. /\ DOMAIN f = Tabs /\ f[Active] = filter /\ f[t] = 0
        /\ \A u \in Tabs \ {Active, t} : f[u] = stash[u]
        /\ f \in [Tabs -> {0} \cup Tabs]
    BY <1>1, <1>2, <1>4 DEF Fit
  <2> HIDE DEF k, f
  <2>4. kept[t] \in {0} \cup Results /\ kept[t] <= started /\ stash[t] \in {0} \cup Tabs
    BY <1>1, <1>2 DEF Fit
  <2>5. \A u \in Tabs : k[u] <= started
    BY <1>1, <1>2, <2>2 DEF Fit
  <2>6. \A u \in Tabs : u > opened => f[u] = 0
    <3>1. ~(Active > opened)
      BY <1>1 DEF ShowInv, StripInv, Tabs
    <3>2. QED
      BY <1>1, <1>2, <2>3, <3>1 DEF Fit
  <2>7. Fit(kept[t], k, stash[t], f, started, opened)
    BY <2>2, <2>3, <2>4, <2>5, <2>6 DEF Fit
  <2>8. FilterHome(stash[t], f, t, Open)
    BY <1>1, <1>2, <2>3 DEF FilterHome
  <2>9. ~strayed => RowsHome(kept[t], k, t, Open, home)
    BY <1>1, <1>2, <1>4, <2>2 DEF RowsHome
  <2>10. QED
    BY <2>1, <2>7, <2>8, <2>9
<1>5. QED
  BY <1>3, <1>4

(* Removing the other tabs loses nothing that is at home at those left.    *)
LEMMA DropHome ==
    ASSUME NEW sh, NEW ke, NEW fi, NEW st, NEW n, NEW last, NEW t, NEW open,
           NEW h, NEW gone, n \in Nat,
           Fit(sh, ke, fi, st, n, last), FilterHome(fi, st, t, open),
           open \subseteq Tabs, t \in open, t \notin gone
    PROVE  /\ Fit(sh, Dropped(ke, gone), fi, Dropped(st, gone), n, last)
           /\ FilterHome(fi, Dropped(st, gone), t, open \ gone)
           /\ RowsHome(sh, ke, t, open \ gone, h) =>
                 RowsHome(sh, Dropped(ke, gone), t, open \ gone, h)
<1>1. /\ Dropped(ke, gone) \in [Tabs -> {0} \cup Results]
      /\ \A u \in Tabs : Dropped(ke, gone)[u] = IF u \in gone THEN 0 ELSE ke[u]
  BY DEF Dropped, Fit
<1>2. /\ Dropped(st, gone) \in [Tabs -> {0} \cup Tabs]
      /\ \A u \in Tabs : Dropped(st, gone)[u] = IF u \in gone THEN 0 ELSE st[u]
  BY DEF Dropped, Fit
<1>3. Fit(sh, Dropped(ke, gone), fi, Dropped(st, gone), n, last)
  BY <1>1, <1>2 DEF Fit
<1>4. FilterHome(fi, Dropped(st, gone), t, open \ gone)
  BY <1>2 DEF FilterHome
<1>5. RowsHome(sh, ke, t, open \ gone, h) =>
         RowsHome(sh, Dropped(ke, gone), t, open \ gone, h)
  BY <1>1 DEF RowsHome
<1>6. QED
  BY <1>3, <1>4, <1>5

(* A view that is at home at the tab staying active may be shown while     *)
(* tabs in gone are discarded.                                             *)
LEMMA DiscardKeeps ==
    ASSUME ShowInv, NEW gone, NEW view, NEW i \in 1..Len(tabs), tabs[i] \notin gone,
           view = [shown |-> view.shown, kept |-> view.kept,
                   filter |-> view.filter, stash |-> view.stash],
           Fit(view.shown, view.kept, view.filter, view.stash, started, opened),
           FilterHome(view.filter, view.stash, tabs[i], Open),
           ~strayed' => RowsHome(view.shown, view.kept, tabs[i], Open \ gone, home),
           strayed' \in BOOLEAN, Discard(gone, view),
           active' = i - RemovedBefore(tabs, gone, i)
    PROVE  ShowInv'
<1> USE StripTyped DEF ShowInv
<1>1. /\ tabs' = Without(tabs, gone) /\ pinned' = pinned \ gone /\ opened' = opened
      /\ running' = {r \in running : home[r] \notin gone}
      /\ started' = started /\ home' = home /\ edits' = edits
  BY DEF Discard
<1>2. StripInv' /\ Open' = Open \ gone /\ Active' = tabs[i]
  <2>1. StripInv
    OBVIOUS
  <2>2. QED
    BY ONLY <1>1, <2>1, tabs[i] \notin gone, i \in 1..Len(tabs),
            active' = i - RemovedBefore(tabs, gone, i), RemoveStrip
<1>3. /\ shown' = view.shown /\ kept' = Dropped(view.kept, gone)
      /\ filter' = view.filter /\ stash' = Dropped(view.stash, gone)
  BY DEF Discard, Show
<1>4. JobsInv'
  BY <1>1 DEF JobsInv
<1>5. started \in Nat /\ tabs[i] \in Open /\ Open \subseteq Tabs
  BY DisplayAssumption DEF JobsInv
<1>6. /\ Fit(view.shown, Dropped(view.kept, gone), view.filter,
             Dropped(view.stash, gone), started, opened)
      /\ FilterHome(view.filter, Dropped(view.stash, gone), tabs[i], Open \ gone)
      /\ RowsHome(view.shown, view.kept, tabs[i], Open \ gone, home) =>
            RowsHome(view.shown, Dropped(view.kept, gone), tabs[i], Open \ gone, home)
  BY <1>5, DropHome
<1>7. QED
  BY <1>1, <1>2, <1>3, <1>4, <1>6
-----------------------------------------------------------------------------
(* Steps that leave the strip alone.                                       *)
LEMMA SameStrip ==
    ASSUME ShowInv, UNCHANGED stripVars
    PROVE  StripInv' /\ Active' = Active /\ Open' = Open /\ opened' = opened
<1>1. tabs' = tabs /\ pinned' = pinned /\ active' = active /\ opened' = opened
  BY DEF stripVars
<1>2. Active' = Active /\ Open' = Open
  BY <1>1 DEF Active, Open
<1>3. StripIsOrdered' <=> StripIsOrdered
  BY <1>1 DEF StripIsOrdered
<1>4. QED
  BY <1>1, <1>2, <1>3 DEF ShowInv, StripInv

LEMMA NewTabKeeps ==
    ASSUME ShowInv, Push, StashFilter, UNCHANGED <<kept, jobVars, edits>>,
           shown' \in {0, shown}, strayed' \in BOOLEAN,
           ~strayed' => ~strayed /\ shown' = 0 /\ kept[Active] = shown
    PROVE  ShowInv'
<1>1. /\ StripInv' /\ opened + 1 \in Tabs /\ opened' = opened + 1
      /\ Open' = Open \cup {opened + 1} /\ Active' = opened + 1
  BY PushStrip DEF ShowInv
<1>2. /\ kept' = kept /\ started' = started /\ home' = home /\ running' = running
      /\ edits' = edits /\ filter' = 0 /\ stash' = [stash EXCEPT ![Active] = filter]
  BY DEF StashFilter, jobVars
<1>3. /\ opened \in Nat /\ opened + 1 \notin Open /\ Active \in Open /\ Active \in Tabs
      /\ Open \subseteq Tabs /\ Tabs \subseteq Nat \ {0} /\ ~(Active > opened)
  <2>1. StripInv
    BY DEF ShowInv
  <2>2. /\ opened \in Nat /\ opened + 1 \notin Open /\ Active \in Open /\ Active \in Tabs
        /\ Open \subseteq Tabs /\ Tabs \subseteq Nat \ {0}
    BY <2>1, StripTyped
  <2>3. Active \in 1..opened
    BY <2>1, <2>2 DEF StripInv
  <2>4. QED
    BY <2>2, <2>3
<1>4. /\ Fit(shown, kept, filter, stash, started, opened)
      /\ FilterHome(filter, stash, Active, Open)
      /\ ~strayed => RowsHome(shown, kept, Active, Open, home)
      /\ JobsInv
  BY DEF ShowInv
<1>5. JobsInv'
  BY <1>2, <1>4 DEF JobsInv
<1>6. /\ stash' \in [Tabs -> {0} \cup Tabs] /\ stash'[Active] = filter
      /\ \A u \in Tabs : u # Active => stash'[u] = stash[u]
  BY <1>2, <1>3, <1>4 DEF Fit
<1>7. Fit(shown', kept', filter', stash', started', opened')
  <2>1. shown' \in {0} \cup Results /\ shown' <= started
    BY <1>4, DisplayAssumption DEF Fit, JobsInv
  <2>2. \A u \in Tabs : u > opened + 1 => stash'[u] = 0
    <3>1. \A u \in Tabs : u > opened + 1 => u > opened /\ u # Active
      BY <1>3
    <3>2. QED
      BY <1>4, <1>6, <3>1 DEF Fit
  <2>3. QED
    BY <1>1, <1>2, <1>4, <1>6, <2>1, <2>2 DEF Fit
<1>8. FilterHome(filter', stash', Active', Open')
  <2>1. \A u \in Open : stash'[u] \in {0, u}
    BY <1>3, <1>4, <1>6 DEF FilterHome
  <2>2. stash'[opened + 1] = 0
    <3>1. opened + 1 # Active /\ opened + 1 > opened
      BY <1>3
    <3>2. QED
      BY <1>1, <1>4, <1>6, <3>1 DEF Fit
  <2>3. QED
    BY <1>1, <1>2, <2>1, <2>2 DEF FilterHome
<1>9. ~strayed' => RowsHome(shown', kept', Active', Open', home')
  BY <1>1, <1>2, <1>3, <1>4 DEF RowsHome
<1>10. QED
  BY <1>1, <1>5, <1>7, <1>8, <1>9 DEF ShowInv

LEMMA SwitchKeeps ==
    ASSUME ShowInv, NEW i \in Positions, SwitchTo(i)
    PROVE  ShowInv'
<1>1. i \in 1..Len(tabs) /\ tabs[i] \in Open
  BY StripTyped DEF ShowInv, Positions
<1>2. /\ active' = i /\ tabs' = tabs /\ pinned' = pinned /\ opened' = opened
      /\ started' = started /\ home' = home /\ running' = running
      /\ edits' = edits /\ strayed' = strayed /\ Show(AfterSwitch(tabs[i]))
  BY DEF SwitchTo, jobVars
<1>3. Open' = Open /\ Active' = tabs[i]
  BY <1>2 DEF Open, Active
<1>4. StripInv'
  <2>1. StripIsOrdered' <=> StripIsOrdered
    BY <1>2 DEF StripIsOrdered
  <2>2. QED
    BY <1>1, <1>2, <1>3, <2>1 DEF ShowInv, StripInv
<1>5. JobsInv'
  BY <1>2 DEF ShowInv, JobsInv
<1>6. /\ shown' = AfterSwitch(tabs[i]).shown /\ kept' = AfterSwitch(tabs[i]).kept
      /\ filter' = AfterSwitch(tabs[i]).filter /\ stash' = AfterSwitch(tabs[i]).stash
  BY <1>2 DEF Show
<1>7. /\ Fit(shown', kept', filter', stash', started, opened)
      /\ FilterHome(filter', stash', tabs[i], Open)
      /\ ~strayed => RowsHome(shown', kept', tabs[i], Open, home)
  BY <1>1, <1>6, SwitchHome
<1>8. QED
  BY <1>2, <1>3, <1>4, <1>5, <1>7 DEF ShowInv

(* Tabs discarded while one at i stays, or becomes, active.                *)
LEMMA RemoveKeeps ==
    ASSUME ShowInv, NEW gone, NEW i \in Positions, tabs[i] \notin gone,
           \/ tabs[i] = Active /\ Remove(gone, i, CurrentView)
           \/ Remove(gone, i, AfterSwitch(tabs[i]))
    PROVE  ShowInv'
<1>1. i \in 1..Len(tabs) /\ tabs[i] \in Open
  BY StripTyped DEF ShowInv, Positions
<1>2. strayed \in BOOLEAN
  BY DEF ShowInv, JobsInv
<1>3. CASE tabs[i] = Active /\ Remove(gone, i, CurrentView)
  <2> DEFINE view == CurrentView
  <2>1. /\ view.shown = shown /\ view.kept = kept /\ view.filter = filter
        /\ view.stash = stash
        /\ view = [shown |-> view.shown, kept |-> view.kept,
                   filter |-> view.filter, stash |-> view.stash]
    BY DEF CurrentView
  <2>2. /\ Discard(gone, view) /\ strayed' = strayed
        /\ active' = i - RemovedBefore(tabs, gone, i)
    BY <1>3 DEF Remove
  <2>3. /\ Fit(view.shown, view.kept, view.filter, view.stash, started, opened)
        /\ FilterHome(view.filter, view.stash, tabs[i], Open)
        /\ ~strayed' => RowsHome(view.shown, view.kept, tabs[i], Open \ gone, home)
    BY <1>3, <2>1, <2>2 DEF ShowInv, RowsHome
  <2> HIDE DEF view
  <2>4. QED
    BY <1>1, <1>2, <2>1, <2>2, <2>3, DiscardKeeps
<1>4. CASE Remove(gone, i, AfterSwitch(tabs[i]))
  <2> DEFINE view == AfterSwitch(tabs[i])
  <2>1. view = [shown |-> view.shown, kept |-> view.kept,
                filter |-> view.filter, stash |-> view.stash]
    BY DEF AfterSwitch
  <2>2. /\ Discard(gone, view) /\ strayed' = strayed
        /\ active' = i - RemovedBefore(tabs, gone, i)
    BY <1>4 DEF Remove
  <2>3. /\ Fit(view.shown, view.kept, view.filter, view.stash, started, opened)
        /\ FilterHome(view.filter, view.stash, tabs[i], Open)
        /\ ~strayed' => RowsHome(view.shown, view.kept, tabs[i], Open \ gone, home)
    BY <1>1, <2>2, SwitchHome DEF RowsHome
  <2> HIDE DEF view
  <2>4. QED
    BY <1>1, <1>2, <2>1, <2>2, <2>3, DiscardKeeps
<1>5. QED
  BY <1>3, <1>4

LEMMA CloseActiveKeeps ==
    ASSUME ShowInv, CloseActive
    PROVE  ShowInv'
<1> DEFINE v == [CurrentView EXCEPT !.filter = stash[NextActive], !.stash[NextActive] = 0]
<1>1. /\ StripInv /\ Len(tabs) > 1 /\ Discard({Active}, v)
      /\ active' = IF active = Len(tabs) THEN active - 1 ELSE active
      /\ strayed' = (strayed \/ shown # kept[NextActive])
  BY DEF ShowInv, CloseActive
<1>2. PICK i \in 1..Len(tabs) :
         /\ i # active /\ tabs[i] = NextActive /\ NextActive # Active
         /\ (IF active = Len(tabs) THEN active - 1 ELSE active)
               = i - RemovedBefore(tabs, {Active}, i)
  BY <1>1, NextTakesOver
<1>3. /\ tabs[i] \in Open /\ tabs[i] \in Tabs /\ Active \in Open /\ Open \subseteq Tabs
  BY <1>1, StripTyped
<1>4. active' = i - RemovedBefore(tabs, {Active}, i) /\ tabs[i] \notin {Active}
  <2>1. active' = i - RemovedBefore(tabs, {Active}, i)
    BY <1>1, <1>2, Zenon
  <2>2. tabs[i] \notin {Active}
    BY <1>2, Zenon
  <2>3. QED
    BY <2>1, <2>2
<1>5. /\ Fit(shown, kept, filter, stash, started, opened)
      /\ FilterHome(filter, stash, Active, Open)
      /\ ~strayed => RowsHome(shown, kept, Active, Open, home)
      /\ strayed \in BOOLEAN
  BY DEF ShowInv, JobsInv
<1> DEFINE n == [stash EXCEPT ![tabs[i]] = 0]
<1>6. /\ v.shown = shown /\ v.kept = kept /\ v.filter = stash[tabs[i]] /\ v.stash = n
      /\ v = [shown |-> v.shown, kept |-> v.kept, filter |-> v.filter, stash |-> v.stash]
  <2>1. v = [CurrentView EXCEPT !.filter = stash[tabs[i]],
                                !.stash = [stash EXCEPT ![tabs[i]] = 0]]
    BY <1>2 DEF CurrentView
  <2> HIDE DEF v
  <2>2. v = [shown |-> shown, kept |-> kept, filter |-> stash[tabs[i]], stash |-> n]
    BY <2>1 DEF CurrentView
  <2> HIDE DEF n
  <2>3. QED
    BY <2>2
<1>7. /\ n \in [Tabs -> {0} \cup Tabs] /\ n[tabs[i]] = 0
      /\ \A u \in Tabs : u # tabs[i] => n[u] = stash[u]
  BY <1>3, <1>5 DEF Fit
<1> HIDE DEF v, n
<1>8. Fit(v.shown, v.kept, v.filter, v.stash, started, opened)
  <2>1. stash[tabs[i]] \in {0} \cup Tabs
    BY <1>3, <1>5 DEF Fit
  <2>2. \A u \in Tabs : u > opened => n[u] = 0
    BY <1>5, <1>7 DEF Fit
  <2>3. QED
    BY <1>5, <1>6, <1>7, <2>1, <2>2 DEF Fit
<1>9. FilterHome(v.filter, v.stash, tabs[i], Open)
  BY <1>3, <1>5, <1>6, <1>7 DEF FilterHome
<1>10. ~strayed' => RowsHome(v.shown, v.kept, tabs[i], Open \ {Active}, home)
  <2>1. SUFFICES ASSUME ~strayed' PROVE RowsHome(shown, kept, tabs[i], Open \ {Active}, home)
    BY <1>6
  <2>2. ~strayed /\ shown = kept[tabs[i]]
    BY <1>1, <1>2, <2>1, Zenon
  <2>3. RowsHome(shown, kept, Active, Open, home)
    BY <1>5, <2>2
  <2>4. shown # 0 => home[shown] = tabs[i]
    <3>1. tabs[i] \in Open \ {Active}
      BY <1>3, <1>4
    <3>2. kept[tabs[i]] # 0 => home[kept[tabs[i]]] = tabs[i]
      BY <2>3, <3>1 DEF RowsHome
    <3>3. QED
      BY <2>2, <3>2
  <2>5. QED
    BY <2>3, <2>4 DEF RowsHome
<1>11. strayed' \in BOOLEAN
  BY <1>1
<1>12. QED
  BY <1>1, <1>4, <1>6, <1>8, <1>9, <1>10, <1>11, DiscardKeeps

LEMMA EmptyKeeps ==
    ASSUME ShowInv, EmptyTheTab
    PROVE  ShowInv'
<1>1. /\ Len(tabs) = 1 /\ pinned' = pinned \ {Active} /\ shown' = 0
      /\ kept' = [kept EXCEPT ![Active] = 0] /\ filter' = 0
      /\ running' = {r \in running : home[r] # Active}
      /\ tabs' = tabs /\ active' = active /\ opened' = opened /\ stash' = stash
      /\ started' = started /\ home' = home /\ edits' = edits /\ strayed' = strayed
  BY DEF EmptyTheTab
<1>2. /\ StripInv /\ JobsInv /\ Fit(shown, kept, filter, stash, started, opened)
      /\ FilterHome(filter, stash, Active, Open)
      /\ ~strayed => RowsHome(shown, kept, Active, Open, home)
  BY DEF ShowInv
<1>3. Active' = Active /\ Open' = Open
  BY <1>1 DEF Active, Open
<1>4. /\ Active \in Open /\ Open \subseteq Tabs /\ DOMAIN tabs = 1..Len(tabs)
      /\ started \in Nat
  BY <1>2, StripTyped, DisplayAssumption DEF JobsInv
<1>5. StripInv'
  <2>1. StripIsOrdered'
    <3>1. \A k, l \in DOMAIN tabs : k = l
      BY <1>1, <1>4
    <3>2. \A k, l \in DOMAIN tabs : ~(k < l)
      BY <1>1, <1>4
    <3>3. QED
      BY <1>1, <3>1, <3>2 DEF StripIsOrdered, PinnedFirst
  <2>2. QED
    BY <1>1, <1>2, <1>3, <2>1 DEF StripInv
<1>6. JobsInv'
  BY <1>1, <1>2 DEF JobsInv
<1>7. /\ kept' \in [Tabs -> {0} \cup Results]
      /\ \A u \in Tabs : kept'[u] \in {0, kept[u]}
  BY <1>1, <1>2, <1>4 DEF Fit
<1>8. Fit(shown', kept', filter', stash', started', opened')
  <2>1. \A u \in Tabs : kept'[u] <= started
    BY <1>2, <1>4, <1>7 DEF Fit
  <2>2. QED
    BY <1>1, <1>2, <1>4, <1>7, <2>1 DEF Fit
<1>9. FilterHome(filter', stash', Active', Open')
  BY <1>1, <1>2, <1>3 DEF FilterHome
<1>10. ~strayed' => RowsHome(shown', kept', Active', Open', home')
  BY <1>1, <1>2, <1>3, <1>4, <1>7 DEF RowsHome
<1>11. QED
  BY <1>5, <1>6, <1>8, <1>9, <1>10 DEF ShowInv

LEMMA CloseTabKeeps ==
    ASSUME ShowInv, NEW i \in Positions, CloseTab(i)
    PROVE  ShowInv'
<1>1. /\ i \in 1..Len(tabs) /\ active \in 1..Len(tabs) /\ DOMAIN tabs = 1..Len(tabs)
      /\ Apart(tabs)
  BY StripTyped DEF ShowInv, Positions
<1>2. CASE EmptyTheTab
  BY <1>2, EmptyKeeps
<1>3. CASE CloseActive
  BY <1>3, CloseActiveKeeps
<1>4. CASE i # active /\ Remove({tabs[i]}, active, CurrentView)
  <2>1. tabs[active] \notin {tabs[i]} /\ tabs[active] = Active /\ active \in Positions
    BY <1>1, <1>4 DEF Apart, Active, Positions
  <2>2. QED
    BY <1>4, <2>1, RemoveKeeps
<1>5. QED
  BY <1>2, <1>3, <1>4 DEF CloseTab

LEMMA CloseOthersKeeps ==
    ASSUME ShowInv, NEW i \in Positions, CloseOthers(i)
    PROVE  ShowInv'
<1> DEFINE gone == Open \ ({tabs[i]} \cup pinned)
<1>1. tabs[i] \notin gone
  OBVIOUS
<1>2. \/ tabs[i] = Active /\ Remove(gone, i, CurrentView)
      \/ Remove(gone, i, AfterSwitch(tabs[i]))
  <2>1. CASE i = active
    BY <2>1 DEF CloseOthers, Active
  <2>2. CASE i # active
    BY <2>2 DEF CloseOthers
  <2>3. QED
    BY <2>1, <2>2
<1> HIDE DEF gone
<1>3. QED
  BY <1>1, <1>2, RemoveKeeps

LEMMA CloseRightKeeps ==
    ASSUME ShowInv, NEW i \in Positions, CloseRight(i)
    PROVE  ShowInv'
<1> DEFINE gone == {tabs[k] : k \in (i + 1)..Len(tabs)} \ pinned
<1>1. /\ i \in 1..Len(tabs) /\ active \in Positions /\ DOMAIN tabs = 1..Len(tabs)
      /\ Len(tabs) \in Nat /\ Apart(tabs) /\ tabs[active] = Active
  BY StripTyped DEF ShowInv, Positions, Active
<1>2. tabs[i] \notin gone
  <2>1. \A k \in (i + 1)..Len(tabs) : k \in DOMAIN tabs /\ k # i
    BY <1>1
  <2>2. QED
    BY <1>1, <2>1 DEF Apart
<1>3. \/ Remove(gone, i, AfterSwitch(tabs[i]))
      \/ Active \notin gone /\ Remove(gone, active, CurrentView)
  BY DEF CloseRight
<1> HIDE DEF gone
<1>4. QED
  BY <1>1, <1>2, <1>3, RemoveKeeps

LEMMA ShowTyped == ShowInv => TypeOK
<1> SUFFICES ASSUME ShowInv PROVE TypeOK
  OBVIOUS
<1>1. /\ tabs \in Seq(Tabs) /\ pinned \subseteq Tabs /\ active \in 1..Len(tabs)
      /\ opened \in Tabs
  BY DEF ShowInv, StripInv
<1>2. /\ shown \in {0} \cup Results /\ kept \in [Tabs -> {0} \cup Results]
      /\ filter \in {0} \cup Tabs /\ stash \in [Tabs -> {0} \cup Tabs]
  BY DEF ShowInv, Fit
<1>3. /\ started \in 0..MaxResults /\ home \in [Results -> {0} \cup Tabs]
      /\ running \subseteq Results /\ edits \in {0} \cup Results /\ strayed \in BOOLEAN
  BY DEF ShowInv, JobsInv
<1>4. QED
  BY <1>1, <1>2, <1>3 DEF TypeOK

LEMMA MoveKeeps ==
    ASSUME ShowInv, NEW i \in Positions,
           TogglePin(i) \/ \E slot \in 1..(Len(tabs) + 1) : Reorder(i, slot)
    PROVE  ShowInv'
<1>1. TypeOK /\ StripInv
  BY ShowTyped DEF ShowInv
<1>2. StripInv' /\ Open' \subseteq Open /\ Active' = Active
  BY <1>1, MoveStrip
<1>3. \E k, l : Rearranged(k, l)
  BY DEF TogglePin, Reorder
<1>4. /\ opened' = opened /\ shown' = shown /\ kept' = kept /\ strayed' = strayed
      /\ filter' = filter /\ stash' = stash /\ started' = started /\ home' = home
      /\ running' = running /\ edits' = edits
  BY <1>3 DEF Rearranged, rowVars, filterVars, jobVars
<1>5. JobsInv'
  BY <1>4 DEF ShowInv, JobsInv
<1>6. Fit(shown', kept', filter', stash', started', opened')
  BY <1>4 DEF ShowInv
<1>7. FilterHome(filter', stash', Active', Open')
  BY <1>2, <1>4 DEF ShowInv, FilterHome
<1>8. ~strayed' => RowsHome(shown', kept', Active', Open', home')
  BY <1>2, <1>4 DEF ShowInv, RowsHome
<1>9. QED
  BY <1>2, <1>5, <1>6, <1>7, <1>8 DEF ShowInv

LEMMA SetFilterKeeps ==
    ASSUME ShowInv, SetFilter
    PROVE  ShowInv'
<1>1. /\ filter' = Active /\ shown' = shown /\ kept' = kept /\ strayed' = strayed
      /\ stash' = stash /\ started' = started /\ home' = home
      /\ running' = running /\ edits' = edits /\ UNCHANGED stripVars
  BY DEF SetFilter, rowVars, jobVars
<1>2. StripInv' /\ Active' = Active /\ Open' = Open /\ opened' = opened
  BY <1>1, SameStrip
<1>3. Active \in Tabs
  BY StripTyped DEF ShowInv
<1>4. JobsInv'
  BY <1>1 DEF ShowInv, JobsInv
<1>5. Fit(shown', kept', filter', stash', started', opened')
  BY <1>1, <1>2, <1>3 DEF ShowInv, Fit
<1>6. FilterHome(filter', stash', Active', Open')
  BY <1>1, <1>2 DEF ShowInv, FilterHome
<1>7. ~strayed' => RowsHome(shown', kept', Active', Open', home')
  BY <1>1, <1>2 DEF ShowInv
<1>8. QED
  BY <1>2, <1>4, <1>5, <1>6, <1>7 DEF ShowInv

(* A query is numbered beyond all that is shown or kept.                   *)
LEMMA RunQueryKeeps ==
    ASSUME ShowInv, RunQuery
    PROVE  ShowInv'
<1>1. /\ started < MaxResults /\ started' = started + 1
      /\ home' = [home EXCEPT ![started + 1] = Active]
      /\ running' = running \cup {started + 1}
      /\ filter' = filter /\ shown' = shown /\ kept' = kept /\ strayed' = strayed
      /\ stash' = stash /\ edits' = edits /\ UNCHANGED stripVars
  BY DEF RunQuery, rowVars, filterVars
<1>2. StripInv' /\ Active' = Active /\ Open' = Open /\ opened' = opened
  BY <1>1, SameStrip
<1>3. /\ Active \in Tabs /\ Open \subseteq Tabs /\ JobsInv
      /\ Fit(shown, kept, filter, stash, started, opened)
      /\ ~strayed => RowsHome(shown, kept, Active, Open, home)
  BY StripTyped DEF ShowInv
<1>4. /\ started \in Nat /\ MaxResults \in Nat
      /\ started + 1 \in 0..MaxResults /\ started + 1 \in Results
  BY <1>1, <1>3, DisplayAssumption DEF JobsInv, Results
<1>5. /\ home' \in [Results -> {0} \cup Tabs]
      /\ \A r \in Results : r <= started => home'[r] = home[r]
  BY <1>1, <1>3, <1>4 DEF JobsInv
<1>6. JobsInv'
  <2>1. started' \in 0..MaxResults
    BY <1>1, <1>4
  <2>2. running' \subseteq Results \cap (1..started')
    BY <1>1, <1>3, <1>4 DEF JobsInv
  <2>3. edits' \in {0} \cup Results
    BY <1>1, <1>3 DEF JobsInv
  <2>4. strayed' \in BOOLEAN
    BY <1>1, <1>3 DEF JobsInv
  <2>5. QED
    BY <1>5, <2>1, <2>2, <2>3, <2>4 DEF JobsInv
<1>7. Fit(shown', kept', filter', stash', started', opened')
  <2>1. Results \subseteq Nat
    BY DEF Results
  <2>2. shown' <= started'
    BY <1>1, <1>3, <1>4, <2>1 DEF Fit
  <2>3. \A u \in Tabs : kept'[u] <= started'
    <3>1. \A u \in Tabs : kept[u] \in Nat /\ kept[u] <= started
      <4>1. kept \in [Tabs -> {0} \cup Results]
        BY <1>3, Zenon DEF Fit
      <4>2. \A u \in Tabs : kept[u] <= started
        BY <1>3, Zenon DEF Fit
      <4>3. \A u \in Tabs : kept[u] \in {0} \cup Results
        BY <4>1, Zenon
      <4>4. \A u \in Tabs : kept[u] \in Nat
        <5>1. \A r \in {0} \cup Results : r \in Nat
          BY <2>1
        <5>2. QED
          BY <4>3, <5>1, Zenon
      <4>5. QED
        BY ONLY <4>2, <4>4
    <3>2. kept' = kept /\ started' = started + 1
      BY <1>1
    <3>3. QED
      BY <1>4, <3>1, <3>2
  <2>4. QED
    BY <1>1, <1>2, <1>3, <2>2, <2>3 DEF Fit
<1>8. FilterHome(filter', stash', Active', Open')
  BY <1>1, <1>2 DEF ShowInv
<1>9. ~strayed' => RowsHome(shown', kept', Active', Open', home')
  <2>1. SUFFICES ASSUME ~strayed' PROVE RowsHome(shown, kept, Active, Open, home')
    BY <1>1, <1>2
  <2>2. RowsHome(shown, kept, Active, Open, home)
    BY <1>1, <1>3, <2>1
  <2>3. shown # 0 => home'[shown] = home[shown]
    BY <1>3, <1>5 DEF Fit
  <2>4. \A u \in Tabs : kept[u] # 0 => home'[kept[u]] = home[kept[u]]
    BY <1>3, <1>5 DEF Fit
  <2>5. QED
    BY <1>3, <2>2, <2>3, <2>4 DEF RowsHome
<1>10. QED
  BY <1>2, <1>6, <1>7, <1>8, <1>9 DEF ShowInv

LEMMA ResultKeeps ==
    ASSUME ShowInv, NEW r \in Results, NEW paged \in BOOLEAN, ResultArrives(r, paged)
    PROVE  ShowInv'
<1>1. /\ r \in running /\ running' = running \ {r}
      /\ shown' = IF home[r] = Active THEN r ELSE shown
      /\ kept' \in {kept, [kept EXCEPT ![home[r]] = r]}
      /\ started' = started /\ home' = home /\ strayed' = strayed
      /\ filter' = filter /\ stash' = stash /\ edits' = edits /\ UNCHANGED stripVars
  BY DEF ResultArrives, filterVars
<1>2. StripInv' /\ Active' = Active /\ Open' = Open /\ opened' = opened
  BY <1>1, SameStrip
<1>3. /\ Active \in Tabs /\ Open \subseteq Tabs /\ JobsInv
      /\ Fit(shown, kept, filter, stash, started, opened)
      /\ ~strayed => RowsHome(shown, kept, Active, Open, home)
  BY StripTyped DEF ShowInv
<1>4. r <= started /\ r \in Results /\ Results \subseteq Nat
  BY <1>1, <1>3 DEF JobsInv, Results
<1>5. /\ kept' \in [Tabs -> {0} \cup Results]
      /\ \A u \in Tabs : kept'[u] = kept[u] \/ (kept'[u] = r /\ home[r] = u)
  BY <1>1, <1>3, <1>4 DEF Fit
<1>6. JobsInv'
  BY <1>1, <1>3 DEF JobsInv
<1>7. Fit(shown', kept', filter', stash', started', opened')
  <2>1. shown' \in {0} \cup Results /\ shown' <= started
    BY <1>1, <1>3, <1>4 DEF Fit
  <2>2. \A u \in Tabs : kept'[u] <= started
    BY <1>3, <1>4, <1>5 DEF Fit
  <2>3. QED
    BY <1>1, <1>2, <1>3, <1>5, <2>1, <2>2 DEF Fit
<1>8. FilterHome(filter', stash', Active', Open')
  BY <1>1, <1>2 DEF ShowInv
<1>9. ~strayed' => RowsHome(shown', kept', Active', Open', home')
  <2>1. SUFFICES ASSUME ~strayed' PROVE RowsHome(shown', kept', Active, Open, home)
    BY <1>1, <1>2
  <2>2. RowsHome(shown, kept, Active, Open, home)
    BY <1>1, <1>3, <2>1
  <2>3. shown' # 0 => home[shown'] = Active
    BY <1>1, <2>2 DEF RowsHome
  <2>4. \A u \in Open \ {Active} : kept'[u] # 0 => home[kept'[u]] = u
    BY <1>3, <1>5, <2>2 DEF RowsHome
  <2>5. QED
    BY <2>3, <2>4 DEF RowsHome
<1>10. QED
  BY <1>2, <1>6, <1>7, <1>8, <1>9 DEF ShowInv

LEMMA OnlyEdits ==
    ASSUME ShowInv, UNCHANGED <<stripVars, rowVars, filterVars, jobVars>>,
           edits' \in {0, edits, shown}
    PROVE  ShowInv'
<1>1. /\ started' = started /\ home' = home /\ running' = running
      /\ shown' = shown /\ kept' = kept /\ strayed' = strayed
      /\ filter' = filter /\ stash' = stash /\ UNCHANGED stripVars
  BY DEF rowVars, filterVars, jobVars
<1>2. StripInv' /\ Active' = Active /\ Open' = Open /\ opened' = opened
  BY <1>1, SameStrip
<1>3. JobsInv'
  BY <1>1 DEF ShowInv, JobsInv, Fit
<1>4. QED
  BY <1>1, <1>2, <1>3 DEF ShowInv

LEMMA ShowStep ==
    ASSUME ShowInv, [Next]_vars
    PROVE  ShowInv'
<1>0. strayed \in BOOLEAN
  BY DEF ShowInv, JobsInv
<1>1. CASE NewTab
  <2>1. /\ Push /\ StashFilter /\ UNCHANGED <<kept, jobVars, edits>> /\ shown' = 0
        /\ strayed' = (strayed \/ kept[Active] # shown)
    BY <1>1 DEF NewTab
  <2>2. strayed' \in BOOLEAN
    BY <2>1
  <2>3. ~strayed' => ~strayed /\ shown' = 0 /\ kept[Active] = shown
    BY <2>1, Zenon
  <2>4. QED
    BY <2>1, <2>2, <2>3, NewTabKeeps
<1>2. CASE OpenFile
  <2>1. /\ Push /\ StashFilter /\ UNCHANGED <<kept, jobVars, edits>> /\ shown' = shown
        /\ strayed' = (strayed \/ shown # 0 \/ kept[Active] # shown)
    BY <1>2 DEF OpenFile
  <2>2. strayed' \in BOOLEAN
    BY <2>1
  <2>3. ~strayed' => ~strayed /\ shown' = 0 /\ kept[Active] = shown
    BY <2>1, Zenon
  <2>4. QED
    BY <2>1, <2>2, <2>3, NewTabKeeps
<1>3. ASSUME NEW i \in Positions,
             \/ SwitchTo(i) \/ CloseTab(i) \/ CloseOthers(i) \/ CloseRight(i)
             \/ TogglePin(i) \/ \E slot \in 1..(Len(tabs) + 1) : Reorder(i, slot)
      PROVE  ShowInv'
  BY <1>3, SwitchKeeps, CloseTabKeeps, CloseOthersKeeps, CloseRightKeeps, MoveKeeps
<1>4. CASE SetFilter
  BY <1>4, SetFilterKeeps
<1>5. CASE RunQuery
  BY <1>5, RunQueryKeeps
<1>6. CASE \E r \in Results, paged \in BOOLEAN : ResultArrives(r, paged)
  BY <1>6, ResultKeeps
<1>7. CASE EditCell \/ FlushEdits
  <2>1. UNCHANGED <<stripVars, rowVars, filterVars, jobVars>>
    BY <1>7, Zenon DEF EditCell, FlushEdits
  <2>2. edits' \in {0, edits, shown}
    BY <1>7 DEF EditCell, FlushEdits
  <2>3. QED
    BY <2>1, <2>2, OnlyEdits
<1>8. CASE UNCHANGED vars
  BY <1>8, OnlyEdits DEF vars
<1>9. QED
  BY <1>1, <1>2, <1>3, <1>4, <1>5, <1>6, <1>7, <1>8 DEF Next

LEMMA ShowInvariant == Spec => []ShowInv
<1>1. ShowInv /\ [Next]_vars => ShowInv'
  BY ShowStep
<1>2. QED
  BY ShowInitially, <1>1, PTL DEF Spec
-----------------------------------------------------------------------------
(* Every field of the display keeps its type.                              *)
THEOREM DisplayTypeCorrect == Spec => []TypeOK
<1>1. QED
  BY ShowInvariant, ShowTyped, PTL

(* Whatever is opened, closed, dragged, pinned and unpinned, no tab is     *)
(* twice on the strip and the pinned tabs stand in front.                  *)
THEOREM StripStaysOrdered == Spec => []StripIsOrdered
<1>1. ShowInv => StripIsOrdered
  BY DEF ShowInv, StripInv
<1>2. QED
  BY ShowInvariant, <1>1, PTL

(* Filters are only ever on the screen or kept for the tab they were typed *)
(* in, and, until a tab is opened or closed over rows that are not its     *)
(* own, so are rows.                                                       *)
THEOREM ShowsItsOwn == Spec => []DisplayStaysHome
<1>1. ShowInv => DisplayStaysHome
  BY DEF ShowInv, DisplayStaysHome, FilterStaysHome, RowsStayHome, FilterHome, RowsHome
<1>2. QED
  BY ShowInvariant, <1>1, PTL
=============================================================================
