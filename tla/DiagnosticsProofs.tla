-------------------------- MODULE DiagnosticsProofs --------------------------
(***************************************************************************)
(* Marks stay on their words, for every text, every set of tabs, contexts  *)
(* and tables, and any number of edits: as long as tick notices them, a    *)
(* mark that is drawn stands on the word it was found at.                  *)
(*                                                                         *)
(* The argument is that everything the state knows of a text is knowledge  *)
(* of d.seen in d.context: the local marks and statements, because an edit *)
(* moves them; the verdicts, because their keys hold the words; what is on *)
(* its way, because an analysis of the present generation is of that text. *)
(***************************************************************************)
EXTENDS Diagnostics, TLAPS, SequenceTheorems, WellFoundedInduction

LEMMA LeastOf ==
    ASSUME NEW S \in SUBSET Nat, S # {}
    PROVE  Min(S) \in S
<1>1. PICK n \in S : \A k \in S : ~(<<k, n>> \in OpToRel(<, Nat))
  BY WFMin, NatLessThanWellFounded
<1>2. \A k \in S : ~(<<k, n>> \in OpToRel(<, Nat)) => ~(k < n)
  BY DEF OpToRel
<1>3. ASSUME NEW k \in S PROVE n <= k
  <2>1. n \in Nat /\ k \in Nat
    OBVIOUS
  <2>2. ~(k < n)
    BY <1>1, <1>2
  <2>3. QED
    BY <2>1, <2>2
<1>4. QED
  BY <1>3 DEF Min

LEMMA LargestOf ==
    ASSUME NEW n \in Nat, NEW S \in SUBSET (0..n), S # {}
    PROVE  Max(S) \in S
<1> DEFINE Left == {k \in Nat : n - k \in S /\ k <= n}
<1>1. Left # {} /\ Left \in SUBSET Nat
  <2>1. PICK m \in S : TRUE
    OBVIOUS
  <2>2. m \in 0..n
    OBVIOUS
  <2>3. n - m \in Nat /\ n - (n - m) = m /\ n - m <= n
    BY <2>2
  <2>4. n - m \in Left
    BY <2>1, <2>3
  <2>5. QED
    BY <2>4
<1>2. PICK k \in Left : \A j \in Left : ~(<<j, k>> \in OpToRel(<, Nat))
  BY <1>1, WFMin, NatLessThanWellFounded
<1>3. \A j \in Left : k <= j
  <2> HIDE DEF Left
  <2>1. \A j \in Left : ~(<<j, k>> \in OpToRel(<, Nat)) => ~(j < k)
    BY <1>1 DEF OpToRel
  <2>2. ASSUME NEW j \in Left PROVE k <= j
    <3>1. k \in Nat /\ j \in Nat
      BY <1>1
    <3>2. ~(j < k)
      BY <1>2, <2>1
    <3>3. QED
      BY <3>1, <3>2
  <2>3. QED
    BY <2>2
<1>4. k \in Nat /\ n - k \in S
  BY <1>2
<1>5. \A m \in S : n - k >= m
  <2> SUFFICES ASSUME NEW m \in S PROVE n - k >= m
    OBVIOUS
  <2>1. m \in 0..n
    OBVIOUS
  <2>2. n - m \in Nat /\ n - (n - m) = m /\ n - m <= n
    BY <2>1
  <2>3. n - m \in Left
    BY <2>2
  <2>4. k <= n - m
    BY <1>3, <2>3
  <2>5. QED
    BY <1>4, <2>1, <2>4
<1>6. QED
  BY <1>4, <1>5 DEF Max
-----------------------------------------------------------------------------
(* A mark stands on its word, a statement on its words.                    *)
Fits(m, t, c) ==
    /\ m = Mark(m.at, m.word, m.source, c)
    /\ m.at \in 1..Len(t)
    /\ m.word = t[m.at]

StandsIn(q, t) ==
    /\ q.from \in 1..Len(t)
    /\ q.to \in q.from..Len(t)
    /\ q.words = SubSeq(t, q.from, q.to)
    /\ DOMAIN q = {"from", "to", "words"}

(* What two texts share.                                                   *)
LEMMA FrontIsShared ==
    ASSUME NEW old \in Seq(Tokens), NEW new \in Seq(Tokens)
    PROVE  /\ Shorter(old, new) \in Nat
           /\ Shorter(old, new) <= Len(old) /\ Shorter(old, new) <= Len(new)
           /\ SharedFront(old, new) \in 0..Shorter(old, new)
           /\ \A i \in 1..SharedFront(old, new) : old[i] = new[i]
<1> DEFINE n == Shorter(old, new)
           S == {k \in 0..n : \A i \in 1..k : old[i] = new[i]}
<1>1. Len(old) \in Nat /\ Len(new) \in Nat
  OBVIOUS
<1>2. n \in Nat /\ n <= Len(old) /\ n <= Len(new)
  BY <1>1 DEF Shorter
<1>3. SharedFront(old, new) = Max(S)
  BY DEF SharedFront
<1> HIDE DEF n
<1>4. 0 \in S
  BY <1>2
<1>5. Max(S) \in S
  BY <1>2, <1>4, LargestOf
<1>6. QED
  BY <1>2, <1>3, <1>5 DEF n

LEMMA BackIsShared ==
    ASSUME NEW old \in Seq(Tokens), NEW new \in Seq(Tokens)
    PROVE  /\ SharedBack(old, new)
                 \in 0..(Shorter(old, new) - SharedFront(old, new))
           /\ \A i \in 1..SharedBack(old, new) :
                 old[Len(old) + 1 - i] = new[Len(new) + 1 - i]
<1> DEFINE n == Shorter(old, new) - SharedFront(old, new)
           S == {k \in 0..n : \A i \in 1..k :
                    old[Len(old) + 1 - i] = new[Len(new) + 1 - i]}
<1>1. n \in Nat
  BY FrontIsShared
<1>2. SharedBack(old, new) = Max(S)
  BY DEF SharedBack
<1> HIDE DEF n
<1>3. 0 \in S
  BY <1>1
<1>4. Max(S) \in S
  BY <1>1, <1>3, LargestOf
<1>5. QED
  BY <1>2, <1>4 DEF n

(* Where a surviving range goes, it finds what stood there.                *)
LEMMA ShiftedKeeps ==
    ASSUME NEW old \in Seq(Tokens), NEW new \in Seq(Tokens),
           NEW from \in 1..Len(old), NEW to \in from..Len(old),
           Survives(old, new, from, to)
    PROVE  /\ Shifted(old, new, from) \in 1..Len(new)
           /\ Shifted(old, new, to) \in Shifted(old, new, from)..Len(new)
           /\ \A i \in 0..(to - from) :
                 new[Shifted(old, new, from) + i] = old[from + i]
           /\ Shifted(old, new, to) - Shifted(old, new, from) = to - from
<1> DEFINE f == SharedFront(old, new)
           b == SharedBack(old, new)
           n == Shorter(old, new)
<1>1. /\ Len(old) \in Nat /\ Len(new) \in Nat /\ n \in Nat
      /\ n <= Len(old) /\ n <= Len(new)
      /\ f \in 0..n /\ b \in 0..(n - f)
      /\ \A i \in 1..f : old[i] = new[i]
  <2>1. Len(old) \in Nat /\ Len(new) \in Nat
    OBVIOUS
  <2>2. /\ n \in Nat /\ n <= Len(old) /\ n <= Len(new) /\ f \in 0..n
        /\ \A i \in 1..f : old[i] = new[i]
    BY FrontIsShared
  <2>3. b \in 0..(n - f)
    BY BackIsShared
  <2>4. QED
    BY <2>1, <2>2, <2>3
<1>2. \A i \in 1..b : old[Len(old) + 1 - i] = new[Len(new) + 1 - i]
  BY BackIsShared
<1>3. /\ Survives(old, new, from, to) <=> (to <= f \/ from > Len(old) - b)
      /\ \A i : Shifted(old, new, i) = IF i <= f THEN i
                                       ELSE i + Len(new) - Len(old)
  BY DEF Survives, Shifted
<1> HIDE DEF f, b, n
<1>4. CASE to <= f
  <2>1. Shifted(old, new, from) = from /\ Shifted(old, new, to) = to
    BY <1>1, <1>3, <1>4
  <2>2. \A i \in 0..(to - from) : from + i \in 1..f
    BY <1>1, <1>4
  <2>3. QED
    BY <1>1, <1>4, <2>1, <2>2
<1>5. CASE from > Len(old) - b
  <2>1. from > f /\ to > f
    BY <1>1, <1>5
  <2>2. /\ Shifted(old, new, from) = from + Len(new) - Len(old)
        /\ Shifted(old, new, to) = to + Len(new) - Len(old)
    BY <1>1, <1>3, <2>1
  <2>3. ASSUME NEW i \in 0..(to - from)
        PROVE  new[Shifted(old, new, from) + i] = old[from + i]
    <3> DEFINE j == Len(old) + 1 - (from + i)
    <3>1. /\ j \in 1..b
          /\ Len(old) + 1 - j = from + i
          /\ Len(new) + 1 - j = from + Len(new) - Len(old) + i
      BY <1>1, <1>5
    <3>2. old[Len(old) + 1 - j] = new[Len(new) + 1 - j]
      BY <1>2, <3>1
    <3> HIDE DEF j
    <3>3. QED
      BY <2>2, <3>1, <3>2
  <2>4. /\ from + Len(new) - Len(old) \in 1..Len(new)
        /\ to + Len(new) - Len(old) \in (from + Len(new) - Len(old))..Len(new)
        /\ (to + Len(new) - Len(old)) - (from + Len(new) - Len(old)) = to - from
    BY <1>1, <1>5
  <2>5. QED
    BY <2>2, <2>3, <2>4
<1>6. QED
  BY <1>3, <1>4, <1>5

(* Rebased marks stand on their words in the new text (rebase).            *)
LEMMA RebasedFits ==
    ASSUME NEW old \in Seq(Tokens), NEW new \in Seq(Tokens), NEW c, NEW marks,
           \A m \in marks : Fits(m, old, c)
    PROVE  \A m \in Rebased(old, new, marks) : Fits(m, new, c)
<1> SUFFICES ASSUME NEW n \in marks, Survives(old, new, n.at, n.at)
             PROVE  Fits([n EXCEPT !.at = Shifted(old, new, @)], new, c)
  BY DEF Rebased
<1> DEFINE at == Shifted(old, new, n.at)
<1>1. Fits(n, old, c)
  OBVIOUS
<1>2. n.at \in 1..Len(old) /\ n.at \in n.at..Len(old) /\ n.at - n.at = 0
  BY <1>1 DEF Fits
<1>3. at \in 1..Len(new) /\ new[at] = old[n.at]
  <2>1. /\ at \in 1..Len(new)
        /\ \A i \in 0..(n.at - n.at) : new[at + i] = old[n.at + i]
    BY <1>2, ShiftedKeeps
  <2>2. new[at + 0] = old[n.at + 0]
    BY <1>2, <2>1
  <2> HIDE DEF at
  <2>3. at + 0 = at /\ n.at + 0 = n.at
    BY <1>2, <2>1
  <2>4. QED
    BY <2>1, <2>2, <2>3
<1>4. new[at] = n.word
  BY <1>1, <1>3 DEF Fits
<1> HIDE DEF at
<1>5. [n EXCEPT !.at = at] = Mark(at, n.word, n.source, c)
  BY <1>1 DEF Fits, Mark
<1>6. Fits([n EXCEPT !.at = at], new, c)
  BY <1>3, <1>4, <1>5 DEF Fits, Mark
<1>7. QED
  BY <1>6 DEF at

(* So do rebased statements (rebase_statements).                           *)
LEMMA RebasedStand ==
    ASSUME NEW old \in Seq(Tokens), NEW new \in Seq(Tokens), NEW stmts,
           \A q \in stmts : StandsIn(q, old)
    PROVE  \A q \in RebasedStatements(old, new, stmts) : StandsIn(q, new)
<1> SUFFICES ASSUME NEW q \in stmts, Survives(old, new, q.from, q.to)
             PROVE  StandsIn([q EXCEPT !.from = Shifted(old, new, @),
                                       !.to = Shifted(old, new, @)], new)
  BY DEF RebasedStatements
<1> DEFINE a == Shifted(old, new, q.from)
           z == Shifted(old, new, q.to)
<1>1. /\ q.from \in 1..Len(old) /\ q.to \in q.from..Len(old)
      /\ q.words = SubSeq(old, q.from, q.to)
      /\ DOMAIN q = {"from", "to", "words"}
  BY DEF StandsIn
<1>2. /\ a \in 1..Len(new) /\ z \in a..Len(new) /\ z - a = q.to - q.from
      /\ \A i \in 0..(q.to - q.from) : new[a + i] = old[q.from + i]
  BY <1>1, ShiftedKeeps
<1> HIDE DEF a, z
<1>3. SubSeq(new, a, z) = SubSeq(old, q.from, q.to)
  <2> DEFINE s == SubSeq(old, q.from, q.to)
             t == SubSeq(new, a, z)
  <2>0. Len(old) \in Nat /\ Len(new) \in Nat
    OBVIOUS
  <2>1. /\ q.from \in Int /\ q.to \in Int /\ q.from <= q.to
        /\ \A i \in q.from..q.to : old[i] \in Tokens
    BY <1>1, <2>0, ElementOfSeq
  <2>2. /\ a \in Int /\ z \in Int /\ a <= z
        /\ \A i \in a..z : new[i] \in Tokens
    BY <1>2, <2>0, ElementOfSeq
  <2>3. /\ s \in Seq(Tokens) /\ Len(s) = q.to - q.from + 1
        /\ \A i \in 1..(q.to - q.from + 1) : s[i] = old[q.from + i - 1]
    BY <2>1, SubSeqProperties
  <2>4. /\ t \in Seq(Tokens) /\ Len(t) = z - a + 1
        /\ \A i \in 1..(z - a + 1) : t[i] = new[a + i - 1]
    BY <2>2, SubSeqProperties
  <2> HIDE DEF s, t
  <2>5. Len(s) = Len(t)
    BY <1>2, <2>1, <2>2, <2>3, <2>4
  <2>6. ASSUME NEW i \in 1..Len(s) PROVE s[i] = t[i]
    <3>1. /\ i - 1 \in 0..(q.to - q.from)
          /\ q.from + i - 1 = q.from + (i - 1) /\ a + i - 1 = a + (i - 1)
      BY <2>1, <2>2, <2>3
    <3>2. new[a + (i - 1)] = old[q.from + (i - 1)]
      BY <1>2, <3>1
    <3>3. s[i] = old[q.from + i - 1] /\ t[i] = new[a + i - 1]
      BY <2>3, <2>4, <2>5
    <3>4. QED
      BY <3>1, <3>2, <3>3
  <2>7. s = t
    BY <2>3, <2>4, <2>5, <2>6, SeqEqual
  <2>8. QED
    BY <2>7 DEF s, t
<1> DEFINE moved == [q EXCEPT !.from = a, !.to = z]
<1>4. /\ moved.from = a /\ moved.to = z /\ moved.words = q.words
      /\ DOMAIN moved = {"from", "to", "words"}
  BY <1>1
<1> HIDE DEF moved
<1>5. StandsIn(moved, new)
  BY <1>1, <1>2, <1>3, <1>4 DEF StandsIn
<1>6. QED
  BY <1>5 DEF a, z, moved

(* An analysis finds statements and marks where they stand.                *)
LEMMA StatementsStand ==
    ASSUME NEW t \in Seq(Tokens)
    PROVE  \A q \in Statements(t) : StandsIn(q, t)
<1> SUFFICES ASSUME NEW i \in 1..Len(t), NEW j \in 1..Len(t), i <= j
             PROVE  StandsIn(Statement(t, i, j), t)
  BY DEF Statements
<1>1. j \in i..Len(t)
  OBVIOUS
<1>2. QED
  BY <1>1 DEF StandsIn, Statement

LEMMA FindingsFit ==
    ASSUME NEW t \in Seq(Tokens), NEW schema, NEW c
    PROVE  \A m \in Findings(t, schema, c) : Fits(m, t, c)
<1>1. ASSUME NEW q \in Statements(t), NEW i \in q.from..q.to, NEW source
      PROVE  Fits(Mark(i, t[i], source, c), t, c)
  <2>1. Len(t) \in Nat
    OBVIOUS
  <2>2. q.from \in 1..Len(t) /\ q.to \in q.from..Len(t)
    BY StatementsStand DEF StandsIn
  <2>3. i \in 1..Len(t)
    BY <2>1, <2>2
  <2>4. QED
    BY <2>3 DEF Fits, Mark
<1>2. ASSUME NEW m \in Misspellings(t, c) PROVE Fits(m, t, c)
  <2>1. PICK q \in Statements(t) :
            \E i \in Misspelt(t, q) : m = Mark(i, t[i], "syntax", c)
    BY DEF Misspellings
  <2>2. Misspelt(t, q) \in SUBSET (q.from..q.to)
    BY DEF Misspelt
  <2>3. QED
    BY <1>1, <2>1, <2>2
<1>3. ASSUME NEW m \in Absences(t, schema, c) PROVE Fits(m, t, c)
  <2>1. PICK q \in Statements(t) :
            \E i \in Absent(t, q, schema) : m = Mark(i, t[i], "schema", c)
    BY DEF Absences
  <2>2. Absent(t, q, schema) \in SUBSET (q.from..q.to)
    BY DEF Absent
  <2>3. QED
    BY <1>1, <2>1, <2>2
<1>4. QED
  BY <1>2, <1>3 DEF Findings
-----------------------------------------------------------------------------
(* A verdict on words marks one of them.                                   *)
Right(verdict, words, c) ==
    verdict.is = "invalid" => Fits(verdict.mark, words, c)

LEMMA ServerMarkFits ==
    ASSUME NEW t \in Seq(Tokens), NEW c, NEW q, StandsIn(q, t),
           NEW mark, Fits(mark, q.words, c)
    PROVE  Fits([mark EXCEPT !.at = @ + q.from - 1], t, c)
<1>1. Len(t) \in Nat
  OBVIOUS
<1>2. /\ q.from \in 1..Len(t) /\ q.to \in q.from..Len(t)
      /\ q.words = SubSeq(t, q.from, q.to)
  BY DEF StandsIn
<1>3. /\ q.from \in Int /\ q.to \in Int /\ q.from <= q.to
      /\ \A i \in q.from..q.to : t[i] \in Tokens
  BY <1>1, <1>2, ElementOfSeq
<1>4. /\ Len(q.words) = q.to - q.from + 1
      /\ \A i \in 1..(q.to - q.from + 1) : q.words[i] = t[q.from + i - 1]
  BY <1>2, <1>3, SubSeqProperties
<1>5. mark.at \in 1..(q.to - q.from + 1) /\ mark.word = q.words[mark.at]
  BY <1>4 DEF Fits
<1> DEFINE at == mark.at + q.from - 1
<1>6. at \in 1..Len(t) /\ at = q.from + mark.at - 1
  BY <1>1, <1>2, <1>3, <1>5
<1>7. mark.word = t[at]
  BY <1>4, <1>5, <1>6
<1> HIDE DEF at
<1>8. [mark EXCEPT !.at = at] = Mark(at, mark.word, mark.source, c)
  BY DEF Fits, Mark
<1>9. Fits([mark EXCEPT !.at = at], t, c)
  BY <1>6, <1>7, <1>8 DEF Fits, Mark
<1>10. QED
  BY <1>9 DEF at

(* merge adds no mark that does not fit.                                   *)
LEMMA MergedFits ==
    ASSUME NEW t \in Seq(Tokens), NEW c, NEW local, NEW verdict, NEW active,
           \A m \in local : Fits(m, t, c),
           \A q \in DOMAIN verdict : /\ StandsIn(q, t)
                                     /\ Right(verdict[q], q.words, c)
    PROVE  \A m \in Merged(local, verdict, active) : Fits(m, t, c)
<1>1. \A m \in ServerMarks(verdict) : Fits(m, t, c)
  <2> SUFFICES ASSUME NEW q \in DOMAIN verdict, verdict[q].is = "invalid"
               PROVE  Fits([verdict[q].mark EXCEPT !.at = @ + q.from - 1], t, c)
    BY DEF ServerMarks
  <2>1. StandsIn(q, t) /\ Fits(verdict[q].mark, q.words, c)
    BY DEF Right
  <2>2. QED
    BY <2>1, ServerMarkFits
<1>2. \A m \in Merged(local, verdict, active) :
         m \in local \/ m \in ServerMarks(verdict)
  BY DEF Merged
<1>3. QED
  BY <1>1, <1>2
-----------------------------------------------------------------------------
Fields == {"tab", "context", "seen", "generation", "dirty", "inFlight", "local",
           "statements", "fingerprint", "server", "pending", "retry", "active",
           "merge", "quiet", "due", "items"}

(* All that is known is known of d.seen in d.context, and so are the marks *)
(* that are drawn, unless they are about to be merged anew.                *)
Sound(s) ==
    /\ DOMAIN s = Fields
    /\ s.seen \in Seq(Tokens)
    /\ s.generation \in Nat \ {0}
    /\ s.merge \in BOOLEAN
    /\ \A m \in s.local : Fits(m, s.seen, s.context)
    /\ \A q \in s.statements : StandsIn(q, s.seen)
    /\ \A k \in DOMAIN s.server : Right(s.server[k], k[2], k[1])
    /\ s.merge = FALSE => \A m \in s.items : Fits(m, s.seen, s.context)

(* A message is a right verdict, or an analysis: one of the present        *)
(* generation is of the text that was seen.                                *)
Told(m, s) ==
    IF m.kind = "analysis"
    THEN /\ m.text \in Seq(Tokens)
         /\ m.generation \in Nat
         /\ m.generation <= s.generation
         /\ m.generation = s.generation => m.text = s.seen /\ m.context = s.context
    ELSE Right(m.verdict, m.words, m.context)

(* A later state is of a later generation or of the same text.             *)
Later(s, r) ==
    /\ s.generation <= r.generation
    /\ s.generation = r.generation => r.seen = s.seen /\ r.context = s.context

LEMMA ToldLater ==
    ASSUME NEW s, NEW r, Sound(s), Sound(r), Later(s, r), NEW m, Told(m, s)
    PROVE  Told(m, r)
<1>1. s.generation \in Nat /\ r.generation \in Nat
  BY DEF Sound
<1>2. QED
  BY <1>1 DEF Told, Later

(* A step that changes nothing of what is known.                           *)
Kept(s, r) ==
    /\ r.tab = s.tab /\ r.context = s.context /\ r.seen = s.seen
    /\ r.generation = s.generation
Alike(s, r) ==
    /\ DOMAIN r = Fields
    /\ Kept(s, r)
    /\ r.local = s.local /\ r.statements = s.statements /\ r.server = s.server
    /\ r.items = s.items
    /\ r.merge = s.merge \/ r.merge = TRUE

LEMMA AlikeIsSound ==
    ASSUME NEW s, NEW r, Sound(s), Alike(s, r)
    PROVE  Sound(r)
BY DEF Sound, Alike, Kept

LEMMA KeptIsLater ==
    ASSUME NEW s, NEW r, Sound(s), Kept(s, r)
    PROVE  Later(s, r)
BY DEF Sound, Kept, Later

(* The steps of tick that only keep the books.                             *)
LEMMA BooksAlike ==
    ASSUME NEW s, Sound(s)
    PROVE  /\ Alike(s, Rechecked(s))
           /\ Alike(s, Allowed(s))
           /\ Alike(s, Started(s))
           /\ \A picked : Alike(s, Pending(s, picked))
<1>1. DOMAIN s = Fields
  BY DEF Sound
<1>2. Alike(s, Rechecked(s))
  BY <1>1 DEF Rechecked, Alike, Kept, Fields
<1>3. Alike(s, Allowed(s))
  BY <1>1 DEF Allowed, Alike, Kept, Fields
<1>4. Alike(s, Started(s))
  BY <1>1 DEF Started, Alike, Kept, Fields
<1>5. ASSUME NEW picked PROVE Alike(s, Pending(s, picked))
  BY <1>1 DEF Pending, Alike, Kept, Fields
<1>6. QED
  BY <1>2, <1>3, <1>4, <1>5

(* drain, one message and all of them.                                     *)
LEMMA TakeIsSound ==
    ASSUME NEW s, Sound(s), NEW m, Told(m, s)
    PROVE  Sound(Take(s, m)) /\ Kept(s, Take(s, m))
<1>1. DOMAIN s = Fields
  BY DEF Sound
<1>2. CASE m.kind = "analysis"
  <2>1. Take(s, m) = TakeAnalysis(s, m)
    BY <1>2 DEF Take
  <2>2. CASE m.generation # s.generation
    <3>1. Alike(s, TakeAnalysis(s, m))
      BY <1>1, <2>2 DEF TakeAnalysis, Alike, Kept, Fields
    <3>2. QED
      BY <2>1, <3>1, AlikeIsSound DEF Alike
  <2>3. CASE m.generation = s.generation
    <3>1. m.text = s.seen /\ m.context = s.context /\ m.text \in Seq(Tokens)
      BY <1>2, <2>3 DEF Told
    <3> DEFINE found == Findings(m.text, m.schema, m.context)
               stmts == Statements(m.text)
               prints == Cardinality(m.schema)
               r == [s EXCEPT !.inFlight = FALSE, !.local = found,
                              !.statements = stmts, !.fingerprint = prints,
                              !.merge = TRUE]
    <3>2. /\ \A n \in found : Fits(n, s.seen, s.context)
          /\ \A q \in stmts : StandsIn(q, s.seen)
      BY <3>1, FindingsFit, StatementsStand
    <3>3. TakeAnalysis(s, m) = [[s EXCEPT !.inFlight = FALSE] EXCEPT
                                   !.local = found, !.statements = stmts,
                                   !.fingerprint = prints, !.merge = TRUE]
      BY <2>3 DEF TakeAnalysis
    <3> HIDE DEF found, stmts, prints
    <3> DEFINE u == TakeAnalysis(s, m)
    <3>4. /\ DOMAIN u = Fields /\ Kept(s, u)
          /\ u.local = found /\ u.statements = stmts /\ u.merge = TRUE
          /\ u.server = s.server
      BY <1>1, <3>3 DEF Kept, Fields
    <3> HIDE DEF u
    <3>5. Sound(u)
      BY <3>2, <3>4 DEF Sound, Kept
    <3>6. QED
      BY <2>1, <3>4, <3>5 DEF u
  <2>4. QED
    BY <2>2, <2>3
<1>3. CASE m.kind # "analysis"
  <2> DEFINE key == <<m.context, m.words>>
             room == IF Cardinality(DOMAIN s.server) >= CacheLimit THEN <<>>
                     ELSE s.server
             r == TakeVerdict(s, m)
  <2>1. Take(s, m) = r
    BY <1>3 DEF Take
  <2>2. Right(m.verdict, key[2], key[1])
    BY <1>3 DEF Told
  <2>3. CASE m.verdict.is = "busy"
    <3>1. Alike(s, r)
      BY <1>1, <2>3 DEF TakeVerdict, Alike, Kept, Fields
    <3>2. QED
      BY <2>1, <3>1, AlikeIsSound DEF Alike
  <2>4. CASE m.verdict.is # "busy"
    <3>1. /\ DOMAIN r = Fields /\ Kept(s, r)
          /\ r.local = s.local /\ r.statements = s.statements
          /\ r.merge = TRUE
          /\ r.server = With(room, key, m.verdict)
      BY <1>1, <2>4 DEF TakeVerdict, Kept, Fields
    <3>2. \A k \in DOMAIN room : Right(room[k], k[2], k[1])
      BY DEF Sound
    <3> HIDE DEF r, room, key
    <3>3. \A k \in DOMAIN r.server : Right(r.server[k], k[2], k[1])
      BY <2>2, <3>1, <3>2 DEF With
    <3>4. Sound(r)
      BY <3>1, <3>3 DEF Sound, Kept
    <3>5. QED
      BY <2>1, <3>1, <3>4
  <2>5. QED
    BY <2>3, <2>4
<1>4. QED
  BY <1>2, <1>3

(* Induction on n, by the least number for which the claim fails.          *)
LEMMA EveryNumber ==
    ASSUME NEW S \in SUBSET Nat, 0 \in S, \A n \in S : n + 1 \in S
    PROVE  \A n \in Nat : n \in S
<1> DEFINE Fails == Nat \ S
<1>1. SUFFICES ASSUME Fails # {} PROVE FALSE
  OBVIOUS
<1>2. PICK n \in Fails : \A k \in Fails : ~(<<k, n>> \in OpToRel(<, Nat))
  BY <1>1, WFMin, NatLessThanWellFounded
<1>3. \A k \in Fails : ~(<<k, n>> \in OpToRel(<, Nat)) => ~(k < n)
  BY DEF OpToRel
<1>4. n \in Nat /\ n # 0
  OBVIOUS
<1>5. n - 1 \in Nat /\ n - 1 < n
  BY <1>4
<1>6. n - 1 \in S
  BY <1>2, <1>3, <1>5
<1>7. n \in S
  BY <1>4, <1>6
<1>8. QED
  BY <1>7

(* The states of drain, up to the n-th message.                            *)
Through(f, s, n) ==
    f = [k \in 0..n |-> IF k = 0 THEN s ELSE Take(f[k - 1], inbox[k])]

LEMMA DrainGoesOn ==
    ASSUME NEW s
    PROVE  \A n \in Nat : \E f : Through(f, s, n)
<1> DEFINE S == {n \in Nat : \E f : Through(f, s, n)}
<1>1. 0 \in S
  <2>1. Through([k \in 0..0 |-> s], s, 0)
    BY DEF Through
  <2>2. QED
    BY <2>1
<1>2. ASSUME NEW n \in S PROVE n + 1 \in S
  <2>1. n \in Nat
    OBVIOUS
  <2>2. PICK f : Through(f, s, n)
    OBVIOUS
  <2> DEFINE g == [k \in 0..(n + 1) |->
                      IF k = n + 1 THEN Take(f[n], inbox[n + 1]) ELSE f[k]]
  <2>3. \A k \in 0..n : f[k] = IF k = 0 THEN s ELSE Take(f[k - 1], inbox[k])
    BY <2>2 DEF Through
  <2>4. \A k \in 0..n : g[k] = f[k]
    BY <2>1
  <2>5. g[n + 1] = Take(g[n], inbox[n + 1])
    BY <2>1, <2>4
  <2>6. \A k \in 0..(n + 1) : g[k] = IF k = 0 THEN s
                                     ELSE Take(g[k - 1], inbox[k])
    <3> SUFFICES ASSUME NEW k \in 0..(n + 1)
                 PROVE  g[k] = IF k = 0 THEN s ELSE Take(g[k - 1], inbox[k])
      OBVIOUS
    <3> HIDE DEF g
    <3>1. CASE k = n + 1
      BY <2>1, <2>5, <3>1
    <3>2. CASE k \in 1..n
      <4>1. k - 1 \in 0..n /\ k \in 0..n
        BY <2>1, <3>2
      <4>2. g[k] = f[k] /\ g[k - 1] = f[k - 1]
        BY <2>4, <4>1
      <4>3. QED
        BY <2>3, <3>2, <4>1, <4>2
    <3>3. CASE k = 0
      BY <2>1, <2>3, <2>4, <3>3
    <3>4. QED
      BY <2>1, <3>1, <3>2, <3>3
  <2>7. Through(g, s, n + 1)
    <3>1. g = [k \in 0..(n + 1) |-> g[k]]
      OBVIOUS
    <3> HIDE DEF g
    <3>2. QED
      BY <2>6, <3>1 DEF Through
  <2>8. QED
    BY <2>1, <2>7
<1>3. QED
  <2> HIDE DEF S
  <2>1. S \in SUBSET Nat
    BY DEF S
  <2>2. \A n \in Nat : n \in S
    BY <1>1, <1>2, <2>1, EveryNumber
  <2>3. QED
    BY <2>2 DEF S

LEMMA DrainedIsSound ==
    ASSUME NEW s, Sound(s), Len(inbox) \in Nat,
           \A k \in 1..Len(inbox) : Told(inbox[k], s)
    PROVE  Sound(Drained(s)) /\ Kept(s, Drained(s))
<1> DEFINE N == Len(inbox)
           f == CHOOSE g : g = [k \in 0..N |-> IF k = 0 THEN s
                                              ELSE Take(g[k - 1], inbox[k])]
<1>1. Drained(s) = f[N]
  BY DEF Drained
<1>2. \E g : g = [k \in 0..N |-> IF k = 0 THEN s ELSE Take(g[k - 1], inbox[k])]
  <2> HIDE DEF N, f
  <2>1. N \in Nat
    BY DEF N
  <2>2. PICK g : Through(g, s, N)
    BY <2>1, DrainGoesOn
  <2>3. QED
    BY <2>2 DEF Through
<1>3. f = [k \in 0..N |-> IF k = 0 THEN s ELSE Take(f[k - 1], inbox[k])]
  <2> HIDE DEF N
  <2>1. QED
    BY <1>2
<1> HIDE DEF f
<1> DEFINE S == {n \in Nat : n <= N => Sound(f[n]) /\ Kept(s, f[n])}
<1>4. 0 \in S
  <2>1. f[0] = s
    BY <1>3
  <2>2. Kept(s, s)
    BY DEF Kept
  <2>3. QED
    BY <2>1, <2>2
<1>5. ASSUME NEW n \in S PROVE n + 1 \in S
  <2>1. SUFFICES ASSUME n + 1 <= N PROVE Sound(f[n + 1]) /\ Kept(s, f[n + 1])
    OBVIOUS
  <2>2. n \in Nat /\ n <= N /\ Sound(f[n]) /\ Kept(s, f[n])
    BY <2>1
  <2>3. n + 1 \in 1..N /\ n + 1 \in 0..N /\ (n + 1) - 1 = n /\ n + 1 # 0
    BY <2>1, <2>2
  <2>4. f[n + 1] = Take(f[n], inbox[n + 1])
    BY <1>3, <2>3
  <2>5. Told(inbox[n + 1], f[n])
    BY <2>2, <2>3, KeptIsLater, ToldLater
  <2>6. Sound(f[n + 1]) /\ Kept(f[n], f[n + 1])
    BY <2>2, <2>4, <2>5, TakeIsSound
  <2>7. QED
    BY <2>2, <2>6 DEF Kept
<1>6. N \in S
  <2>1. S \in SUBSET Nat
    OBVIOUS
  <2> HIDE DEF S
  <2>2. QED
    BY <1>4, <1>5, <2>1, EveryNumber
<1>7. QED
  BY <1>1, <1>6

(* A state whose marks are to be merged anew is sound if what it knows is. *)
LEMMA MergeIsSound ==
    ASSUME NEW s, Sound(s), NEW r, DOMAIN r = Fields, r.merge = TRUE,
           r.seen \in Seq(Tokens), r.generation = s.generation + 1,
           \A m \in r.local : Fits(m, r.seen, r.context),
           \A q \in r.statements : StandsIn(q, r.seen), r.server = s.server
    PROVE  Sound(r)
<1>1. r.generation \in Nat \ {0}
  BY DEF Sound
<1>2. \A k \in DOMAIN r.server : Right(r.server[k], k[2], k[1])
  BY DEF Sound
<1>3. QED
  BY <1>1, <1>2 DEF Sound

(* Whatever changed, tick goes on with the text and the context of now.    *)
LEMMA NoticedIsSound ==
    ASSUME NEW s, Sound(s), Text \in Seq(Tokens), revised \in BOOLEAN,
           ~revised /\ s.tab = shown => Text = s.seen
    PROVE  /\ Sound(Noticed(s)) /\ Later(s, Noticed(s))
           /\ Noticed(s).tab = shown /\ Noticed(s).context = Here
           /\ Noticed(s).seen = Text
<1>1. DOMAIN s = Fields /\ s.generation \in Nat \ {0}
  BY DEF Sound
<1> DEFINE r == Noticed(s)
<1>2. CASE s.tab # shown \/ s.context # Here
  <2>1. r = [Cleared(s) EXCEPT !.tab = shown, !.context = Here, !.seen = Text,
                               !.dirty = TRUE, !.quiet = 1, !.merge = TRUE]
    BY <1>2 DEF Noticed
  <2> HIDE DEF r
  <2>2. /\ DOMAIN r = Fields
        /\ r.tab = shown /\ r.context = Here /\ r.seen = Text
        /\ r.local = {} /\ r.statements = {} /\ r.server = s.server
        /\ r.generation = s.generation + 1 /\ r.merge = TRUE
    BY <1>1, <2>1 DEF Cleared, Fields
  <2>3. Sound(r)
    BY <2>2, MergeIsSound
  <2>4. Later(s, r)
    BY <1>1, <2>2 DEF Later
  <2>5. QED
    BY <2>2, <2>3, <2>4 DEF r
<1>3. CASE s.tab = shown /\ s.context = Here /\ revised /\ Text # s.seen
  <2> DEFINE marks == Rebased(s.seen, Text, s.local)
             stmts == RebasedStatements(s.seen, Text, s.statements)
  <2>1. r = [s EXCEPT !.local = marks, !.statements = stmts, !.seen = Text,
                      !.dirty = TRUE, !.quiet = 0,
                      !.generation = @ + 1, !.merge = TRUE]
    BY <1>3 DEF Noticed
  <2>2. /\ \A m \in marks : Fits(m, Text, s.context)
        /\ \A q \in stmts : StandsIn(q, Text)
    BY RebasedFits, RebasedStand DEF Sound
  <2> HIDE DEF r, marks, stmts
  <2>3. /\ DOMAIN r = Fields
        /\ r.tab = shown /\ r.context = s.context /\ r.context = Here
        /\ r.seen = Text
        /\ r.local = marks /\ r.statements = stmts /\ r.server = s.server
        /\ r.generation = s.generation + 1 /\ r.merge = TRUE
    BY <1>1, <1>3, <2>1 DEF Fields
  <2>4. Sound(r)
    BY <2>2, <2>3, MergeIsSound
  <2>5. Later(s, r)
    BY <1>1, <2>3 DEF Later
  <2>6. QED
    BY <2>3, <2>4, <2>5 DEF r
<1>4. CASE s.tab = shown /\ s.context = Here /\ (~revised \/ Text = s.seen)
  <2>1. r = s /\ Text = s.seen
    BY <1>4 DEF Noticed
  <2>2. Later(s, s)
    BY <1>1 DEF Later
  <2>3. QED
    BY <1>4, <2>1, <2>2
<1>5. QED
  BY <1>2, <1>3, <1>4

(* What is drawn fits.                                                     *)
LEMMA DrawnIsSound ==
    ASSUME NEW s, Sound(s)
    PROVE  Sound(Drawn(s)) /\ Kept(s, Drawn(s)) /\ Drawn(s).merge = FALSE
<1>1. DOMAIN s = Fields
  BY DEF Sound
<1>2. CASE s.merge = FALSE
  BY <1>2 DEF Drawn, Kept
<1>3. CASE s.merge = TRUE
  <2> DEFINE all == Merged(s.local, Verdicts(s), s.active)
             few == {m \in all : m.at <= Len(Text)}
             r == Drawn(s)
  <2>1. \A q \in DOMAIN Verdicts(s) : /\ StandsIn(q, s.seen)
                                      /\ Right(Verdicts(s)[q], q.words, s.context)
    <3> SUFFICES ASSUME NEW q \in s.statements
                 PROVE  /\ StandsIn(q, s.seen)
                        /\ Right(Verdicts(s)[q], q.words, s.context)
      BY DEF Verdicts
    <3> DEFINE key == <<s.context, q.words>>
    <3>1. CASE key \in DOMAIN s.server
      <4>1. Verdicts(s)[q] = s.server[key]
        BY <3>1 DEF Verdicts
      <4>2. Right(s.server[key], key[2], key[1])
        BY <3>1 DEF Sound
      <4>3. QED
        BY <4>1, <4>2 DEF Sound
    <3>2. CASE key \notin DOMAIN s.server
      <4>1. Verdicts(s)[q] = Unasked
        BY <3>2 DEF Verdicts
      <4>2. QED
        BY <4>1 DEF Sound, Right, Unasked
    <3>3. QED
      BY <3>1, <3>2
  <2>2. \A m \in all : Fits(m, s.seen, s.context)
    <3>1. s.seen \in Seq(Tokens) /\ \A m \in s.local : Fits(m, s.seen, s.context)
      BY DEF Sound
    <3>2. QED
      BY <2>1, <3>1, MergedFits
  <2>3. r = [s EXCEPT !.merge = FALSE, !.items = few]
    BY <1>3 DEF Drawn
  <2>4. \A m \in few : Fits(m, s.seen, s.context)
    <3> HIDE DEF all
    <3>1. QED
      BY <2>2
  <2> HIDE DEF r, few
  <2>5. /\ DOMAIN r = Fields /\ Kept(s, r) /\ r.merge = FALSE
        /\ r.items = few /\ r.local = s.local
        /\ r.statements = s.statements /\ r.server = s.server
    BY <1>1, <2>3 DEF Kept, Fields
  <2>6. Sound(r)
    BY <2>4, <2>5 DEF Sound, Kept
  <2>7. QED
    BY <2>5, <2>6 DEF r
<1>4. QED
  BY <1>2, <1>3 DEF Sound
-----------------------------------------------------------------------------
(* As long as no change of a text went unnoticed: what is seen is the text *)
(* unless tick has yet to look, and every message tells of what is seen.   *)
TextsInv ==
    /\ text \in [Tabs -> Seq(Tokens)]
    /\ shown \in Tabs
    /\ revised \in BOOLEAN
    /\ ~revised /\ d.tab = shown => Text = d.seen

TasksInv ==
    /\ analysis.kind = "analysis" /\ Told(analysis, d)
    /\ \E S : inbox \in Seq(S)
    /\ \A k \in 1..Len(inbox) : Told(inbox[k], d)
    /\ \E S : asked \in Seq(S)
    /\ \A k \in 1..Len(asked) : /\ asked[k].words \in Seq(Tokens)
                                /\ asked[k].sent = asked[k].words

Inv ==
    /\ blind \in BOOLEAN
    /\ blind = FALSE => Sound(d) /\ d.merge = FALSE /\ TextsInv /\ TasksInv

LEMMA InitInv == Init => Inv
<1> SUFFICES ASSUME Init PROVE Inv
  OBVIOUS
<1>1. /\ DOMAIN d = Fields /\ d.tab = 0 /\ d.seen = <<>> /\ d.generation = 1
      /\ d.local = {} /\ d.statements = {} /\ d.server = <<>>
      /\ d.merge = FALSE /\ d.items = {}
  BY DEF Init, Fields
<1>2. Sound(d)
  <2>1. <<>> \in Seq(Tokens) /\ 1 \in Nat \ {0} /\ DOMAIN <<>> = {}
    OBVIOUS
  <2>2. QED
    BY <1>1, <2>1 DEF Sound
<1>3. TextsInv
  <2>1. text \in [Tabs -> Seq(Tokens)]
    BY DiagnosticsAssumption DEF Init
  <2>2. shown \in Tabs /\ shown # 0
    BY DiagnosticsAssumption DEF Init
  <2>3. QED
    BY <1>1, <2>1, <2>2 DEF TextsInv, Init
<1>4. TasksInv
  <2>1. analysis.kind = "analysis" /\ Told(analysis, d)
    BY <1>1 DEF Init, Idle, Analysis, Told
  <2>2. /\ inbox = <<>> /\ asked = <<>> /\ Len(<<>>) = 0 /\ <<>> \in Seq({})
        /\ 1..0 = {}
    BY DEF Init
  <2>3. QED
    BY <2>1, <2>2 DEF TasksInv
<1>5. QED
  BY <1>1, <1>2, <1>3, <1>4 DEF Inv, Init

(* A step of the state that leaves the messages as they are.               *)
LEMMA LaterTasks ==
    ASSUME Sound(d), TasksInv, Sound(d'), Later(d, d'), UNCHANGED taskVars
    PROVE  TasksInv'
<1>1. ASSUME NEW m, Told(m, d) PROVE Told(m, d')
  BY <1>1, ToldLater
<1>2. analysis' = analysis /\ asked' = asked /\ inbox' = inbox
  BY DEF taskVars
<1>3. Told(analysis, d') /\ \A k \in 1..Len(inbox) : Told(inbox[k], d')
  BY <1>1 DEF TasksInv
<1>4. QED
  BY <1>2, <1>3 DEF TasksInv

(* Time passes.                                                            *)
LEMMA ClockInv ==
    ASSUME Sound(d), d.merge = FALSE, TextsInv, TasksInv, Clock
    PROVE  Sound(d') /\ d'.merge = FALSE /\ TextsInv' /\ TasksInv'
<1>1. Alike(d, d') /\ d'.merge = FALSE
  <2>1. DOMAIN d = Fields
    BY DEF Sound
  <2>2. CASE Quieter
    BY <2>1, <2>2 DEF Quieter, Alike, Kept, Fields
  <2>3. CASE FallsDue
    BY <2>1, <2>3 DEF FallsDue, Alike, Kept, Fields
  <2>4. CASE RetryComes
    BY <2>1, <2>4 DEF RetryComes, Alike, Kept, Fields
  <2>5. QED
    BY <2>2, <2>3, <2>4 DEF Clock
<1>2. UNCHANGED <<userVars, taskVars>>
  BY DEF Clock, Quieter, FallsDue, RetryComes
<1>3. Sound(d') /\ Kept(d, d') /\ Later(d, d')
  BY <1>1, AlikeIsSound, KeptIsLater DEF Alike
<1>4. TextsInv'
  BY <1>2, <1>3 DEF TextsInv, userVars, Text, Kept
<1>5. TasksInv'
  BY <1>2, <1>3, LaterTasks
<1>6. QED
  BY <1>1, <1>3, <1>4, <1>5

(* The user acts.                                                          *)
LEMMA UserInv ==
    ASSUME Sound(d), TextsInv, TasksInv, User, blind' = FALSE
    PROVE  UNCHANGED <<d, taskVars>> /\ TextsInv' /\ TasksInv'
<1>1. UNCHANGED <<d, taskVars>>
  BY DEF User, Step, Type, WriteUnseen, SwitchTab, PickContext, Toggle,
         ChangeAllowed, LoadSchema, CreateTable
<1>2. TextsInv'
  <2>1. CASE Type
    <3>1. PICK new \in Texts : text' = [text EXCEPT ![shown] = new]
      BY <2>1 DEF Type
    <3>2. new \in Seq(Tokens)
      BY DiagnosticsAssumption
    <3>3. text' \in [Tabs -> Seq(Tokens)]
      BY <3>1, <3>2 DEF TextsInv
    <3>4. QED
      BY <1>1, <2>1, <3>3 DEF Type, TextsInv
  <2>2. CASE WriteUnseen
    <3>1. PICK new \in Texts : text' = [text EXCEPT ![shown] = new]
      BY <2>2 DEF WriteUnseen
    <3>2. new \in Seq(Tokens)
      BY DiagnosticsAssumption
    <3>3. text' \in [Tabs -> Seq(Tokens)]
      BY <3>1, <3>2 DEF TextsInv
    <3>4. revised' = TRUE /\ shown' = shown
      BY <2>2 DEF WriteUnseen, TextsInv
    <3>5. QED
      BY <1>1, <3>3, <3>4 DEF TextsInv
  <2>3. CASE SwitchTab
    BY <1>1, <2>3 DEF SwitchTab, TextsInv
  <2>4. CASE PickContext \/ Toggle \/ ChangeAllowed \/ LoadSchema \/ CreateTable
    <3>1. UNCHANGED <<text, shown, revised>>
      BY <2>4 DEF PickContext, Toggle, ChangeAllowed, LoadSchema, CreateTable
    <3>2. QED
      BY <1>1, <3>1 DEF TextsInv, Text
  <2>5. QED
    BY <2>1, <2>2, <2>3, <2>4 DEF User
<1>3. TasksInv'
  BY <1>1 DEF TasksInv, taskVars
<1>4. QED
  BY <1>1, <1>2, <1>3

(* The answers of the background tasks.                                    *)
LEMMA ReceivedTold ==
    ASSUME TasksInv, NEW m, Told(m, d), inbox' = Append(inbox, m), d' = d
    PROVE  /\ \E S : inbox' \in Seq(S)
           /\ \A k \in 1..Len(inbox') : Told(inbox'[k], d')
<1>1. PICK S : inbox \in Seq(S)
  BY DEF TasksInv
<1>2. inbox \in Seq(S \cup {m})
  BY <1>1
<1>3. /\ inbox' \in Seq(S \cup {m})
      /\ Len(inbox) \in Nat /\ Len(inbox') = Len(inbox) + 1
      /\ \A k \in 1..Len(inbox) : inbox'[k] = inbox[k]
      /\ inbox'[Len(inbox) + 1] = m
  BY <1>2, AppendProperties, LenProperties
<1>4. \A k \in 1..Len(inbox') : k \in 1..Len(inbox) \/ k = Len(inbox) + 1
  BY <1>3
<1>5. \A k \in 1..Len(inbox') : Told(inbox'[k], d)
  BY <1>3, <1>4 DEF TasksInv
<1>6. QED
  BY <1>3, <1>5

LEMMA AnalysedInv ==
    ASSUME Sound(d), TextsInv, TasksInv, Analysed
    PROVE  UNCHANGED <<d, userVars>> /\ TasksInv'
<1>1. /\ UNCHANGED <<d, userVars, asked>>
      /\ inbox' = Append(inbox, analysis) /\ analysis' = Idle
  BY DEF Analysed
<1>2. analysis'.kind = "analysis" /\ Told(analysis', d')
  BY <1>1 DEF Idle, Analysis, Told, Sound
<1>3. Told(analysis, d)
  BY DEF TasksInv
<1>4. /\ \E S : inbox' \in Seq(S)
      /\ \A k \in 1..Len(inbox') : Told(inbox'[k], d')
  BY <1>1, <1>3, ReceivedTold
<1>5. QED
  BY <1>1, <1>2, <1>4 DEF TasksInv

(* The server marks a word of what it was sent.                            *)
LEMMA OpinionIsRight ==
    ASSUME NEW r, r.words \in Seq(Tokens), r.sent = r.words
    PROVE  Right(Opinion(r), r.words, r.context)
<1> DEFINE bad == {i \in DOMAIN r.sent :
                      \/ r.sent[i] \in Typos
                      \/ /\ r.context \notin Deferred
                         /\ r.sent[i] \in Tables \ catalog[r.context]}
<1>1. DOMAIN r.sent = 1..Len(r.words) /\ Len(r.words) \in Nat
  BY LenProperties
<1>2. bad \in SUBSET (1..Len(r.words)) /\ bad \in SUBSET Nat
  BY <1>1
<1>3. CASE bad # {}
  <2>1. Opinion(r) = [is |-> "invalid",
                      mark |-> Mark(Min(bad), r.sent[Min(bad)], "server", r.context)]
    BY <1>3 DEF Opinion
  <2> HIDE DEF bad
  <2>2. Min(bad) \in bad
    BY <1>2, <1>3, LeastOf
  <2>3. Min(bad) \in 1..Len(r.words)
    BY <1>2, <2>2
  <2> DEFINE i == Min(bad)
  <2> HIDE DEF i
  <2>4. Opinion(r).mark = Mark(i, r.words[i], "server", r.context)
    BY <2>1 DEF i
  <2>5. i \in 1..Len(r.words)
    BY <2>3 DEF i
  <2>6. QED
    BY <2>4, <2>5 DEF Right, Fits, Mark
<1>4. CASE bad = {}
  <2>1. Opinion(r) = [is |-> IF r.context \in Deferred THEN "syntax" ELSE "valid"]
    BY <1>4 DEF Opinion
  <2>2. QED
    BY <2>1 DEF Right
<1>5. QED
  BY <1>3, <1>4

LEMMA AnswerInv ==
    ASSUME Sound(d), TextsInv, TasksInv,
           NEW k \in DOMAIN asked, NEW verdict,
           Right(verdict, asked[k].words, asked[k].context), Answer(k, verdict)
    PROVE  UNCHANGED <<d, userVars>> /\ TasksInv'
<1> DEFINE m == [kind |-> "verdict", context |-> asked[k].context,
                 words |-> asked[k].words, verdict |-> verdict]
           others == [i \in 1..(Len(asked) - 1) |->
                         IF i < k THEN asked[i] ELSE asked[i + 1]]
<1>1. /\ UNCHANGED <<d, userVars, analysis>>
      /\ inbox' = Append(inbox, m) /\ asked' = others
  BY DEF Answer
<1>2. Told(m, d)
  BY DEF Told
<1> HIDE DEF m
<1>3. /\ \E S : inbox' \in Seq(S)
      /\ \A i \in 1..Len(inbox') : Told(inbox'[i], d')
  BY <1>1, <1>2, ReceivedTold
<1>4. PICK S : asked \in Seq(S)
  BY DEF TasksInv
<1>5. /\ Len(asked) \in Nat /\ DOMAIN asked = 1..Len(asked)
      /\ \A i \in 1..Len(asked) : asked[i] \in S
  BY <1>4, LenProperties, ElementOfSeq
<1>6. /\ Len(asked) - 1 \in Nat
      /\ \A i \in 1..(Len(asked) - 1) : i \in 1..Len(asked) /\ i + 1 \in 1..Len(asked)
  BY <1>5
<1>7. others \in Seq(S) /\ Len(others) = Len(asked) - 1
  <2> DEFINE n == Len(asked) - 1
  <2>1. n \in Nat /\ others \in [1..n -> S]
    BY <1>5, <1>6
  <2> HIDE DEF n, others
  <2>2. others \in Seq(S) /\ Len(others) = n
    BY <2>1
  <2>3. QED
    BY <2>2 DEF n
<1>8. \A i \in 1..Len(others) :
         others[i] = asked[i] \/ others[i] = asked[i + 1]
  BY <1>7
<1> HIDE DEF others
<1>9. \A i \in 1..Len(others) : /\ others[i].words \in Seq(Tokens)
                                /\ others[i].sent = others[i].words
  BY <1>6, <1>7, <1>8 DEF TasksInv
<1>10. analysis'.kind = "analysis" /\ Told(analysis', d')
  BY <1>1 DEF TasksInv
<1>11. QED
  BY <1>1, <1>3, <1>7, <1>9, <1>10 DEF TasksInv

(* What is asked is what stands in the text now.                           *)
LEMMA RequestsAreRight ==
    ASSUME TasksInv, Text \in Seq(Tokens),
           NEW s, \A q \in s.statements : StandsIn(q, Text), NEW picked \in Picks(s),
           asked' = asked \o [k \in DOMAIN picked |-> Request(picked[k])]
    PROVE  /\ \E S : asked' \in Seq(S)
           /\ \A k \in 1..Len(asked') : /\ asked'[k].words \in Seq(Tokens)
                                        /\ asked'[k].sent = asked'[k].words
<1>1. PICK n \in 0..MaxInFlight : picked \in [1..n -> Unknown(s)]
  BY DEF Picks
<1>2. ASSUME NEW q \in s.statements
      PROVE  /\ Request(q).words \in Seq(Tokens)
             /\ Request(q).sent = Request(q).words
  <2>1. /\ q.from \in 1..Len(Text) /\ q.to \in q.from..Len(Text)
        /\ q.words = SubSeq(Text, q.from, q.to)
    BY DEF StandsIn
  <2>2. Len(Text) \in Nat
    BY LenProperties
  <2>3. /\ q.from \in Int /\ q.to \in Int
        /\ \A i \in q.from..q.to : Text[i] \in Tokens
    BY <2>1, <2>2, ElementOfSeq
  <2>4. q.words \in Seq(Tokens)
    BY <2>1, <2>3, SubSeqProperties
  <2>5. Request(q).words = q.words /\ Request(q).sent = q.words
    BY <2>1 DEF Request
  <2>6. QED
    BY <2>4, <2>5
<1> DEFINE new == [k \in DOMAIN picked |-> Request(picked[k])]
           R == {Request(q) : q \in s.statements}
<1>3. \A k \in 1..n : picked[k] \in s.statements
  BY <1>1 DEF Unknown
<1>4. n \in Nat /\ new \in [1..n -> R]
  BY <1>1, <1>3 DEF MaxInFlight
<1>5. new \in Seq(R)
  <2> HIDE DEF new, R
  <2>1. QED
    BY <1>4
<1>6. \A r \in R : r.words \in Seq(Tokens) /\ r.sent = r.words
  BY <1>2
<1>7. PICK S : asked \in Seq(S)
  BY DEF TasksInv
<1> HIDE DEF new, R
<1>8. asked \in Seq(S \cup R) /\ new \in Seq(S \cup R)
  BY <1>5, <1>7
<1>9. asked' = asked \o new
  BY DEF new
<1>10. /\ Len(asked) \in Nat /\ Len(new) \in Nat
       /\ asked' \in Seq(S \cup R) /\ Len(asked') = Len(asked) + Len(new)
       /\ \A k \in 1..(Len(asked) + Len(new)) :
             asked'[k] = IF k <= Len(asked) THEN asked[k] ELSE new[k - Len(asked)]
  <2>1. Len(asked) \in Nat /\ Len(new) \in Nat
    BY <1>8, LenProperties
  <2>2. /\ asked \o new \in Seq(S \cup R)
        /\ Len(asked \o new) = Len(asked) + Len(new)
        /\ \A k \in 1..(Len(asked) + Len(new)) :
              (asked \o new)[k] = IF k <= Len(asked) THEN asked[k]
                                  ELSE new[k - Len(asked)]
    BY <1>8, ConcatProperties
  <2>3. QED
    BY <1>9, <2>1, <2>2
<1>11. ASSUME NEW k \in 1..Len(asked')
       PROVE  asked'[k].words \in Seq(Tokens) /\ asked'[k].sent = asked'[k].words
  <2>1. CASE k <= Len(asked)
    <3>1. k \in 1..Len(asked) /\ asked'[k] = asked[k]
      BY <1>10, <2>1
    <3>2. QED
      BY <3>1 DEF TasksInv
  <2>2. CASE ~(k <= Len(asked))
    <3>1. k - Len(asked) \in 1..Len(new) /\ asked'[k] = new[k - Len(asked)]
      BY <1>10, <2>2
    <3>2. new[k - Len(asked)] \in R
      BY <1>5, <3>1, ElementOfSeq
    <3>3. QED
      BY <1>6, <3>1, <3>2
  <2>3. QED
    BY <2>1, <2>2
<1>12. QED
  BY <1>10, <1>11

(* A frame that looks at the editor.                                       *)
LEMMA WatchInv ==
    ASSUME Sound(d), TextsInv, TasksInv, Watch,
           UNCHANGED <<text, shown, place>>
    PROVE  /\ Sound(d') /\ d'.merge = FALSE /\ TextsInv' /\ TasksInv'
           /\ d'.seen = Text' /\ d'.context = Here'
<1>0. Text \in Seq(Tokens)
  BY DEF TextsInv, Text
<1> DEFINE drained == Drained(d)
           noticed == Noticed(drained)
           known == Allowed(Rechecked(noticed))
           ready == Started(known)
<1>1. PICK picked \in Picks(ready) :
          /\ d' = Drawn(Pending(ready, picked))
          /\ analysis' = IF Starts(known)
                         THEN Analysis(Text, cached[Here], Here, ready.generation)
                         ELSE analysis
          /\ asked' = asked \o [k \in DOMAIN picked |-> Request(picked[k])]
          /\ inbox' = <<>>
          /\ revised' = FALSE
  BY DEF Watch
<1>2. Sound(drained) /\ Kept(d, drained)
  <2>1. Len(inbox) \in Nat /\ \A k \in 1..Len(inbox) : Told(inbox[k], d)
    BY LenProperties DEF TasksInv
  <2>2. QED
    BY <2>1, DrainedIsSound
<1> HIDE DEF drained
<1>3. /\ Sound(noticed) /\ Later(drained, noticed)
      /\ noticed.tab = shown /\ noticed.context = Here /\ noticed.seen = Text
  <2>1. revised \in BOOLEAN /\ (~revised /\ drained.tab = shown => Text = drained.seen)
    BY <1>2 DEF TextsInv, Kept
  <2>2. QED
    BY <1>0, <1>2, <2>1, NoticedIsSound
<1> HIDE DEF noticed
<1>4. Sound(known) /\ Kept(noticed, known)
  <2>1. Alike(noticed, Rechecked(noticed))
    BY <1>3, BooksAlike
  <2>2. Sound(Rechecked(noticed))
    BY <1>3, <2>1, AlikeIsSound
  <2>3. Alike(Rechecked(noticed), known)
    BY <2>2, BooksAlike
  <2>4. Sound(known)
    BY <2>2, <2>3, AlikeIsSound
  <2>5. QED
    BY <2>1, <2>3, <2>4 DEF Alike, Kept
<1> HIDE DEF known
<1>5. Sound(ready) /\ Kept(noticed, ready)
  <2>1. Alike(known, ready)
    BY <1>4, BooksAlike
  <2>2. QED
    BY <1>4, <2>1, AlikeIsSound DEF Alike, Kept
<1> HIDE DEF ready
<1>6. Sound(d') /\ Kept(noticed, d') /\ d'.merge = FALSE
  <2>1. Alike(ready, Pending(ready, picked))
    BY <1>5, BooksAlike
  <2>2. Sound(Pending(ready, picked))
    BY <1>5, <2>1, AlikeIsSound
  <2>3. /\ Sound(d') /\ Kept(Pending(ready, picked), d') /\ d'.merge = FALSE
    BY <1>1, <2>2, DrawnIsSound
  <2>4. QED
    BY <1>5, <2>1, <2>3 DEF Alike, Kept
<1>7. Text' = Text /\ Here' = Here
  BY DEF Text, Here
<1>8. d'.seen = Text' /\ d'.context = Here'
  BY <1>3, <1>6, <1>7 DEF Kept
<1>9. TextsInv'
  BY <1>1, <1>8 DEF TextsInv
<1>10. analysis'.kind = "analysis" /\ Told(analysis', d')
  <2>1. CASE Starts(known)
    <3>1. analysis' = Analysis(Text, cached[Here], Here, ready.generation)
      BY <1>1, <2>1
    <3>2. d'.generation = ready.generation /\ ready.generation \in Nat
      BY <1>5, <1>6 DEF Kept, Sound
    <3>3. d'.seen = Text /\ d'.context = Here
      BY <1>7, <1>8
    <3>4. QED
      BY <1>0, <3>1, <3>2, <3>3 DEF Analysis, Told
  <2>2. CASE ~Starts(known)
    <3>1. analysis' = analysis /\ analysis.kind = "analysis" /\ Told(analysis, d)
      BY <1>1, <2>2 DEF TasksInv
    <3>2. Told(analysis, drained)
      BY <1>2, <3>1, KeptIsLater, ToldLater
    <3>3. Told(analysis, noticed)
      BY <1>2, <1>3, <3>2, ToldLater
    <3>4. Told(analysis, d')
      BY <1>3, <1>6, <3>3, KeptIsLater, ToldLater
    <3>5. QED
      BY <3>1, <3>4
  <2>3. QED
    BY <2>1, <2>2
<1>11. TasksInv'
  <2>1. \A q \in ready.statements : StandsIn(q, Text)
    BY <1>3, <1>5 DEF Sound, Kept
  <2>2. /\ \E S : asked' \in Seq(S)
        /\ \A k \in 1..Len(asked') : /\ asked'[k].words \in Seq(Tokens)
                                     /\ asked'[k].sent = asked'[k].words
    BY <1>0, <1>1, <2>1, RequestsAreRight
  <2>3. inbox' \in Seq({}) /\ 1..Len(inbox') = {}
    BY <1>1
  <2>4. QED
    BY <1>10, <2>2, <2>3 DEF TasksInv
<1>12. QED
  BY <1>6, <1>8, <1>9, <1>11

(* A frame with the diagnostics switched off clears them.                  *)
LEMMA OffInv ==
    ASSUME Sound(d), d.merge = FALSE, TextsInv, TasksInv,
           d' = IF d.items # {} \/ d.tab # 0 THEN Cleared(d) ELSE d,
           UNCHANGED <<text, shown, revised, taskVars>>
    PROVE  /\ Sound(d') /\ d'.merge = FALSE /\ TextsInv' /\ TasksInv'
           /\ d'.items = {}
<1>1. DOMAIN d = Fields /\ d.generation \in Nat \ {0}
  BY DEF Sound
<1>2. Text' = Text
  BY DEF Text
<1>3. CASE d' = d /\ d.items = {}
  BY <1>2, <1>3 DEF TextsInv, TasksInv, taskVars
<1>4. CASE d' = Cleared(d)
  <2>1. /\ DOMAIN d' = Fields /\ d'.merge = FALSE /\ d'.items = {}
        /\ d'.local = {} /\ d'.statements = {} /\ d'.server = d.server
        /\ d'.tab = 0 /\ d'.seen = d.seen /\ d'.generation = d.generation + 1
    BY <1>1, <1>4 DEF Cleared, Fields
  <2>2. Sound(d')
    <3>1. d'.generation \in Nat \ {0} /\ d'.seen \in Seq(Tokens)
      BY <1>1, <2>1 DEF Sound
    <3>2. \A k \in DOMAIN d'.server : Right(d'.server[k], k[2], k[1])
      BY <2>1 DEF Sound
    <3>3. QED
      BY <2>1, <3>1, <3>2 DEF Sound
  <2>3. Later(d, d')
    BY <1>1, <2>1 DEF Later
  <2>4. TextsInv'
    BY <1>2, <2>1, DiagnosticsAssumption DEF TextsInv
  <2>5. TasksInv'
    BY <2>2, <2>3, LaterTasks
  <2>6. QED
    BY <2>1, <2>2, <2>4, <2>5
<1>5. QED
  BY <1>3, <1>4

LEMMA TickInv ==
    ASSUME Sound(d), d.merge = FALSE, TextsInv, TasksInv, Tick
    PROVE  /\ Sound(d') /\ d'.merge = FALSE /\ TextsInv' /\ TasksInv'
           /\ MarksFit'
<1>1. CASE on /\ Watch
  <2>1. UNCHANGED <<text, shown, place>>
    BY DEF Tick
  <2>2. /\ Sound(d') /\ d'.merge = FALSE /\ TextsInv' /\ TasksInv'
        /\ d'.seen = Text' /\ d'.context = Here'
    BY <1>1, <2>1, WatchInv
  <2>3. \A m \in d'.items : Fits(m, Text', Here')
    BY <2>2 DEF Sound
  <2>4. Text' \in Seq(Tokens) /\ DOMAIN (Text') = 1..Len(Text')
    BY <2>2, LenProperties DEF Sound
  <2>5. \A m \in d'.items : /\ m.at \in DOMAIN (Text') /\ m.word = (Text')[m.at]
                            /\ m.context = Here'
    BY <2>3, <2>4 DEF Fits, Mark
  <2>6. MarksFit'
    BY <2>5 DEF MarksFit
  <2>7. QED
    BY <2>2, <2>6
<1>2. CASE ~on /\ ~(on /\ Watch)
  <2>1. /\ d' = IF d.items # {} \/ d.tab # 0 THEN Cleared(d) ELSE d
        /\ UNCHANGED <<text, shown, revised, taskVars>>
    BY <1>2 DEF Tick, taskVars
  <2>2. /\ Sound(d') /\ d'.merge = FALSE /\ TextsInv' /\ TasksInv'
        /\ d'.items = {}
    BY <2>1, OffInv
  <2>3. QED
    BY <2>2 DEF MarksFit
<1>3. QED
  BY <1>1, <1>2 DEF Tick

LEMMA NextInv == Inv /\ [Next]_vars => Inv'
<1> SUFFICES ASSUME Inv, [Next]_vars PROVE Inv'
  OBVIOUS
<1>1. blind' \in BOOLEAN /\ (blind' = FALSE => blind = FALSE)
  BY DEF Inv, Next, Tick, Analysed, Answered, Answer, Unanswered, Clock, Quieter,
         FallsDue, RetryComes, User, Type, WriteUnseen, SwitchTab, PickContext,
         Toggle, ChangeAllowed, LoadSchema, CreateTable, vars
<1>2. SUFFICES ASSUME blind' = FALSE
               PROVE  Sound(d') /\ d'.merge = FALSE /\ TextsInv' /\ TasksInv'
  BY <1>1 DEF Inv
<1>3. Sound(d) /\ d.merge = FALSE /\ TextsInv /\ TasksInv
  BY <1>1, <1>2 DEF Inv
<1>4. ASSUME UNCHANGED <<d, userVars>> PROVE Sound(d') /\ d'.merge = FALSE /\ TextsInv'
  <2>1. UNCHANGED <<d, text, shown, revised>>
    BY <1>4 DEF userVars
  <2>2. QED
    BY <1>3, <2>1 DEF TextsInv, Text
<1>5. CASE Tick
  BY <1>3, <1>5, TickInv
<1>6. CASE Analysed
  BY <1>3, <1>4, <1>6, AnalysedInv
<1>7. CASE Answered
  <2>1. PICK k \in DOMAIN asked : Answer(k, Opinion(asked[k]))
    BY <1>7 DEF Answered
  <2>2. asked[k].words \in Seq(Tokens) /\ asked[k].sent = asked[k].words
    BY <1>3, LenProperties DEF TasksInv
  <2>3. Right(Opinion(asked[k]), asked[k].words, asked[k].context)
    BY <2>2, OpinionIsRight
  <2>4. QED
    BY <1>3, <1>4, <2>1, <2>3, AnswerInv
<1>8. CASE Unanswered
  <2>1. PICK k \in DOMAIN asked, is \in {"busy", "unavailable"} :
            Answer(k, [is |-> is])
    BY <1>8 DEF Unanswered
  <2>2. Right([is |-> is], asked[k].words, asked[k].context)
    BY DEF Right
  <2>3. QED
    BY <1>3, <1>4, <2>1, <2>2, AnswerInv
<1>9. CASE Clock
  BY <1>3, <1>9, ClockInv
<1>10. CASE User
  <2>1. UNCHANGED <<d, taskVars>> /\ TextsInv' /\ TasksInv'
    BY <1>2, <1>3, <1>10, UserInv
  <2>2. QED
    BY <1>3, <2>1
<1>11. CASE UNCHANGED vars
  <2>1. UNCHANGED <<d, userVars>> /\ UNCHANGED taskVars
    BY <1>11 DEF vars
  <2>2. TasksInv'
    BY <1>3, <2>1 DEF TasksInv, taskVars
  <2>3. QED
    BY <1>4, <2>1, <2>2
<1>12. QED
  BY <1>5, <1>6, <1>7, <1>8, <1>9, <1>10, <1>11 DEF Next

(* As long as tick notices every change of a text, every mark it draws     *)
(* stands on the word it was found at, in the context of the tab on the    *)
(* screen (tick, drain and merge of diagnostics_jobs.rs; rebase and merge  *)
(* of query_diagnostics/mod.rs).                                           *)
THEOREM MarksAreWhereTheyWereFound == Spec => MarksStayOnTheirWords
<1>1. Inv /\ [Next]_vars => [Tick /\ ~blind => MarksFit']_vars
  <2> SUFFICES ASSUME Inv, Tick, ~blind PROVE MarksFit'
    BY Zenon DEF Inv
  <2>1. Sound(d) /\ d.merge = FALSE /\ TextsInv /\ TasksInv
    BY DEF Inv
  <2>2. QED
    BY <2>1, TickInv
<1>2. Spec => []Inv
  BY InitInv, NextInv, PTL DEF Spec
<1>3. QED
  BY <1>1, <1>2, PTL DEF Spec, MarksStayOnTheirWords
=============================================================================
