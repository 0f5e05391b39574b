------------------------------ MODULE LiveMarks -------------------------------
(***************************************************************************)
(* The pure half of query_diagnostics: what an analysis finds in a text,   *)
(* how its findings move with an edit, and how they are merged with the    *)
(* verdicts of the server.  A text is a sequence of tokens: names of       *)
(* tables, misspelt keywords (Typos) and Sep, the semicolon.  Between two  *)
(* tokens there is a space, so a byte range is a range of tokens here and  *)
(* an edit never touches a token it leaves alone.                          *)
(***************************************************************************)
EXTENDS Integers, Sequences, FiniteSets, FiniteSetsExt

CONSTANTS Tables, Typos, Sep

Tokens == Tables \cup Typos \cup {Sep}

(* The statements of a text with their ranges.  Their words stand for the  *)
(* hash: two statements of the same text share it.                         *)
Statement(text, i, j) ==
    [from |-> i, to |-> j, words |-> SubSeq(text, i, j)]

Statements(text) ==
    LET Ends(i, j) == /\ i > 1 => text[i - 1] = Sep
                      /\ j < Len(text) => text[j + 1] = Sep
    IN {Statement(text, r[1], r[2]) :
           r \in {p \in (1..Len(text)) \X (1..Len(text)) :
                     /\ p[1] <= p[2] /\ Ends(p[1], p[2])
                     /\ \A k \in p[1]..p[2] : text[k] # Sep}}

(* Only a statement that begins with a keyword is sent to the server.      *)
Validatable(s) == s.words[1] \notin Typos

(* What analyze marks: every misspelt word, and, in a statement without    *)
(* one, the tables that the cached schema of the context lacks.  An empty  *)
(* schema is one that is not known yet.                                    *)
Mark(i, word, source, context) ==
    [at |-> i, word |-> word, source |-> source, context |-> context]

Misspelt(text, s) == {i \in s.from..s.to : text[i] \in Typos}

Misspellings(text, context) ==
    UNION {{Mark(i, text[i], "syntax", context) : i \in Misspelt(text, s)} :
              s \in Statements(text)}

Absent(text, s, schema) == {i \in s.from..s.to : text[i] \notin schema}

Absences(text, schema, context) ==
    UNION {{Mark(i, text[i], "schema", context) : i \in Absent(text, s, schema)} :
              s \in {q \in Statements(text) :
                        schema # {} /\ Misspelt(text, q) = {}}}

Findings(text, schema, context) ==
    Misspellings(text, context) \cup Absences(text, schema, context)

Tentative(m) == m.source = "schema"
-----------------------------------------------------------------------------
(* Edit::between: how many tokens two texts share at the front, and, among *)
(* those left, at the back.                                                *)
Shorter(old, new) == IF Len(old) <= Len(new) THEN Len(old) ELSE Len(new)

SharedFront(old, new) ==
    Max({k \in 0..Shorter(old, new) : \A i \in 1..k : old[i] = new[i]})

SharedBack(old, new) ==
    Max({k \in 0..(Shorter(old, new) - SharedFront(old, new)) :
            \A i \in 1..k : old[Len(old) + 1 - i] = new[Len(new) + 1 - i]})

(* Edit::map: a range before the edit stays, one behind it moves with the  *)
(* text, one that the edit touches is dropped.                             *)
Survives(old, new, from, to) ==
    \/ to <= SharedFront(old, new)
    \/ from > Len(old) - SharedBack(old, new)

Shifted(old, new, i) ==
    IF i <= SharedFront(old, new) THEN i ELSE i + Len(new) - Len(old)

Rebased(old, new, marks) ==
    {[m EXCEPT !.at = Shifted(old, new, @)] :
        m \in {n \in marks : Survives(old, new, n.at, n.at)}}

RebasedStatements(old, new, stmts) ==
    {[s EXCEPT !.from = Shifted(old, new, @), !.to = Shifted(old, new, @)] :
        s \in {q \in stmts : Survives(old, new, q.from, q.to)}}
-----------------------------------------------------------------------------
Unasked == [is |-> "unasked"]

(* The marks the server gave, moved to where the statement stands.         *)
ServerMarks(verdict) ==
    {[verdict[s].mark EXCEPT !.at = @ + s.from - 1] :
        s \in {q \in DOMAIN verdict :
                  Validatable(q) /\ verdict[q].is = "invalid"}}

(* Whether a local mark in statement s is shown beside the verdict on s.   *)
Stands(m, s, verdict, serverActive) ==
    CASE ~Validatable(s)               -> TRUE
      [] verdict[s].is = "valid"       -> FALSE
      [] verdict[s].is = "syntax"      -> m.source = "schema"
      [] verdict[s].is = "invalid"     ->
             \A n \in ServerMarks(verdict) : n.at # m.at
      [] verdict[s].is = "unavailable" -> TRUE
      [] verdict[s].is = "unasked"     -> ~(serverActive /\ Tentative(m))

(* merge, with the verdict on every statement: a tentative mark waits      *)
(* while the server is being asked, and one outside every statement, which *)
(* is being edited, waits for the analysis.                                *)
Merged(local, verdict, serverActive) ==
    LET Around(m) == {s \in DOMAIN verdict : s.from <= m.at /\ m.at <= s.to}
    IN {m \in local :
           IF Around(m) = {} THEN ~(serverActive /\ Tentative(m))
           ELSE \A s \in Around(m) : Stands(m, s, verdict, serverActive)}
       \cup ServerMarks(verdict)
=============================================================================
