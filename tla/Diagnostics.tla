----------------------------- MODULE Diagnostics ------------------------------
(***************************************************************************)
(* Live diagnostics of the query editor (diagnostics_jobs.rs): in every    *)
(* frame tick takes the answers of the background tasks, notices what the  *)
(* user changed, starts an analysis of the text on a thread and statement  *)
(* validations on the server, and merges what it knows into the marks the  *)
(* editor draws.  Time is how quiet the editor has been: 1 after the local *)
(* debounce, 2 after the server's.  Left out: the mark of the last run,    *)
(* MongoDB collections, the columns an analysis asks for, quick fixes.     *)
(***************************************************************************)
EXTENDS LiveMarks

CONSTANTS Tabs,        \* query tabs, each with a text
          Contexts,    \* connection, database and schema of a tab
          Deferred,    \* the contexts whose server checks no names (MsSQL)
          Texts,       \* the texts a tab may have
          FirstTexts,  \* those it begins with
          FirstCatalog, \* the tables of each context at the start
          CacheLimit,  \* SERVER_CACHE_LIMIT
          MaxSteps     \* what the user, the schema cache and a server that
                       \* does not answer do over a run

ASSUME DiagnosticsAssumption ==
    /\ Tabs # {} /\ 0 \notin Tabs
    /\ Contexts # {}
    /\ Texts \subseteq Seq(Tokens) /\ FirstTexts \subseteq Texts
    /\ FirstCatalog \in [Contexts -> SUBSET Tables]
    /\ CacheLimit \in Nat /\ MaxSteps \in Nat

MaxInFlight == 2       \* MAX_SERVER_IN_FLIGHT

VARIABLES text,      \* editor.text of each tab
          shown,     \* the active tab
          place,     \* the context of each tab
          on,        \* live_diagnostics
          allowed,   \* server_allowed, with a pool to ask
          catalog,   \* the tables each context has on the server
          cached,    \* those in the schema cache, {} before it is loaded
          revised,   \* the text's revision or length is not d.seen_key
          d,         \* DiagnosticsState
          analysis,  \* the text, schema and generation on the thread, or Idle
          asked,     \* the validations on their way
          inbox,     \* the answers not yet drained
          blind,     \* history: a text was changed unnoticed
          steps      \* counts towards MaxSteps

userVars == <<text, shown, place, on, allowed, catalog, cached, revised>>
taskVars == <<analysis, asked, inbox>>
vars == <<userVars, d, taskVars, blind, steps>>

Analysis(t, schema, context, generation) ==
    [kind |-> "analysis", text |-> t, schema |-> schema, context |-> context,
     generation |-> generation]
Idle == Analysis(<<>>, {}, 0, 0)
Here == place[shown]
Text == text[shown]

Init ==
    /\ text \in [Tabs -> FirstTexts]
    /\ shown = CHOOSE t \in Tabs : TRUE
    /\ place = [t \in Tabs |-> CHOOSE c \in Contexts : TRUE]
    /\ on = TRUE
    /\ allowed = TRUE
    /\ catalog = FirstCatalog
    /\ cached = [c \in Contexts |-> {}]
    /\ revised = FALSE
    /\ d = [tab |-> 0, context |-> 0, seen |-> <<>>, generation |-> 1,
            dirty |-> FALSE, inFlight |-> FALSE, local |-> {},
            statements |-> {}, fingerprint |-> 0, server |-> <<>>,
            pending |-> {}, retry |-> FALSE, active |-> FALSE,
            merge |-> FALSE, quiet |-> 2, due |-> FALSE, items |-> {}]
    /\ analysis = Idle
    /\ asked = <<>>
    /\ inbox = <<>>
    /\ blind = FALSE
    /\ steps = 0
-----------------------------------------------------------------------------
(* DiagnosticsState::clear: the cache of verdicts and the tasks on their   *)
(* way survive it.                                                         *)
Cleared(s) ==
    [s EXCEPT !.items = {}, !.local = {}, !.statements = {}, !.tab = 0,
              !.context = 0, !.generation = @ + 1, !.dirty = FALSE]

(* Faulty: an analysis is taken whatever was typed since.                  *)
TakeAnyAnalysis(s, m) ==
    [s EXCEPT !.inFlight = FALSE, !.merge = TRUE,
              !.local = Findings(m.text, m.schema, m.context),
              !.statements = Statements(m.text),
              !.fingerprint = Cardinality(m.schema)]

(* drain, for one message: an analysis of another generation is dropped, a *)
(* full cache is emptied first.                                            *)
TakeAnalysis(s, m) ==
    LET answered == [s EXCEPT !.inFlight = FALSE]
    IN IF m.generation # s.generation THEN answered
       ELSE [answered EXCEPT
               !.local = Findings(m.text, m.schema, m.context),
               !.statements = Statements(m.text),
               !.fingerprint = Cardinality(m.schema), !.merge = TRUE]

With(room, key, verdict) ==
    [k \in DOMAIN room \cup {key} |-> IF k = key THEN verdict ELSE room[k]]

(* Faulty: a statement that found no connection is still waited for.       *)
TakeVerdictHeld(s, m) ==
    LET key == <<m.context, m.words>>
        room == IF Cardinality(DOMAIN s.server) >= CacheLimit THEN <<>>
                ELSE s.server
    IN IF m.verdict.is = "busy" THEN [s EXCEPT !.retry = TRUE]
       ELSE [s EXCEPT !.pending = @ \ {key}, !.merge = TRUE,
                      !.server = With(room, key, m.verdict)]

TakeVerdict(s, m) ==
    LET key == <<m.context, m.words>>
        answered == [s EXCEPT !.pending = @ \ {key}]
        room == IF Cardinality(DOMAIN s.server) >= CacheLimit THEN <<>>
                ELSE s.server
    IN IF m.verdict.is = "busy" THEN [answered EXCEPT !.retry = TRUE]
       ELSE [answered EXCEPT !.server = With(room, key, m.verdict),
                             !.merge = TRUE]

Take(s, m) ==
    IF m.kind = "analysis" THEN TakeAnalysis(s, m) ELSE TakeVerdict(s, m)

Drained(s) ==
    LET after[k \in 0..Len(inbox)] ==
            IF k = 0 THEN s ELSE Take(after[k - 1], inbox[k])
    IN after[Len(inbox)]

(* Another tab or context starts afresh and without debounce; an edit of   *)
(* the text moves what is known of it, and takes the debounce.             *)
Noticed(s) ==
    IF s.tab # shown \/ s.context # Here
    THEN [Cleared(s) EXCEPT !.tab = shown, !.context = Here, !.seen = Text,
                            !.dirty = TRUE, !.quiet = 1, !.merge = TRUE]
    ELSE IF revised /\ Text # s.seen
    THEN [s EXCEPT !.local = Rebased(s.seen, Text, @),
                   !.statements = RebasedStatements(s.seen, Text, @),
                   !.seen = Text, !.dirty = TRUE, !.quiet = 0,
                   !.generation = @ + 1, !.merge = TRUE]
    ELSE s

(* The schema cache is looked at again, twice a second: its fingerprint is *)
(* the number of tables in it.                                             *)
Rechecked(s) ==
    IF s.dirty \/ ~s.due THEN s
    ELSE [s EXCEPT !.due = FALSE,
                   !.dirty = Cardinality(cached[Here]) # s.fingerprint]

(* start_local: one analysis at a time, of the text and the schema of now. *)
Starts(s) == s.dirty /\ ~s.inFlight /\ s.quiet >= 1

Started(s) ==
    IF Starts(s) THEN [s EXCEPT !.dirty = FALSE, !.inFlight = TRUE] ELSE s

Allowed(s) ==
    IF s.active = allowed THEN s
    ELSE [s EXCEPT !.active = allowed, !.merge = TRUE]

(* start_server: the statements to ask for, the one at the cursor first    *)
(* and then in the order of the text, as many as there are slots.  A       *)
(* statement that stands twice in the text is asked for twice.             *)
Unknown(s) ==
    {q \in s.statements : /\ Validatable(q)
                          /\ <<Here, q.words>> \notin DOMAIN s.server
                          /\ <<Here, q.words>> \notin s.pending}

Asks(s) ==
    /\ allowed /\ ~s.dirty /\ ~s.inFlight /\ s.quiet = 2
    /\ ~s.retry
    /\ Cardinality(s.pending) < MaxInFlight

Slots(s) ==
    IF Asks(s)
    THEN Min({Cardinality(Unknown(s)), MaxInFlight - Cardinality(s.pending)})
    ELSE 0

InOrder(picked, todo) ==
    \A k \in 2..Len(picked) :
        \A q \in todo \ {picked[i] : i \in 1..(k - 1)} : picked[k].from <= q.from

Picks(s) ==
    {picked \in UNION {[1..n -> Unknown(s)] : n \in 0..MaxInFlight} :
        /\ Len(picked) = Slots(s)
        /\ \A i, j \in DOMAIN picked : picked[i] = picked[j] => i = j
        /\ InOrder(picked, Unknown(s))}

Pending(s, picked) ==
    [s EXCEPT !.pending = @ \cup {<<Here, picked[k].words>> :
                                     k \in DOMAIN picked}]

(* The text that is sent is what stands in the statement's range now.      *)
Request(q) ==
    [context |-> Here, words |-> q.words,
     sent |-> SubSeq(Text, q.from, q.to)]

(* merge, and what it leaves out at the end of the text.                   *)
Verdicts(s) ==
    [q \in s.statements |->
        IF <<s.context, q.words>> \in DOMAIN s.server
        THEN s.server[<<s.context, q.words>>] ELSE Unasked]

Drawn(s) ==
    IF ~s.merge THEN s
    ELSE [s EXCEPT !.merge = FALSE,
                   !.items = {m \in Merged(s.local, Verdicts(s), s.active) :
                                 m.at <= Len(Text)}]

(* tick, in a frame that draws the editor.                                 *)
Watch ==
    \E drained \in {Drained(d)} : \E noticed \in {Noticed(drained)} :
    \E known \in {Allowed(Rechecked(noticed))} : \E ready \in {Started(known)} :
    \E picked \in Picks(ready) :
        /\ d' \in {Drawn(Pending(ready, picked))}
        /\ analysis' = IF Starts(known)
                       THEN Analysis(Text, cached[Here], Here, ready.generation)
                       ELSE analysis
        /\ asked' = asked \o [k \in DOMAIN picked |-> Request(picked[k])]
        /\ inbox' = <<>>
        /\ revised' = FALSE

Tick ==
    /\ \/ on /\ Watch
       \/ /\ ~on
          /\ d' = IF d.items # {} \/ d.tab # 0 THEN Cleared(d) ELSE d
          /\ UNCHANGED <<analysis, asked, inbox, revised>>
    /\ UNCHANGED <<text, shown, place, on, allowed, catalog, cached, blind, steps>>
-----------------------------------------------------------------------------
(* The thread sends its analysis and ends.                                 *)
Analysed ==
    /\ analysis # Idle
    /\ inbox' = Append(inbox, analysis)
    /\ analysis' = Idle
    /\ UNCHANGED <<userVars, d, asked, blind, steps>>

(* validate_statement: what the server says of the text it was sent.       *)
Opinion(r) ==
    LET bad == {i \in DOMAIN r.sent :
                  \/ r.sent[i] \in Typos
                  \/ /\ r.context \notin Deferred
                     /\ r.sent[i] \in Tables \ catalog[r.context]}
    IN IF bad # {}
       THEN [is |-> "invalid",
             mark |-> Mark(Min(bad), r.sent[Min(bad)], "server", r.context)]
       ELSE [is |-> IF r.context \in Deferred THEN "syntax" ELSE "valid"]

Answer(k, verdict) ==
    /\ inbox' = Append(inbox, [kind |-> "verdict", context |-> asked[k].context,
                               words |-> asked[k].words, verdict |-> verdict])
    /\ asked' = [i \in 1..(Len(asked) - 1) |->
                   IF i < k THEN asked[i] ELSE asked[i + 1]]
    /\ UNCHANGED <<userVars, d, analysis, blind>>

Answered ==
    /\ \E k \in DOMAIN asked : Answer(k, Opinion(asked[k]))
    /\ UNCHANGED steps

(* There is no idle connection (acquire_spare), or the preparation fails   *)
(* or takes too long.                                                      *)
Unanswered ==
    /\ steps < MaxSteps
    /\ steps' = steps + 1
    /\ \E k \in DOMAIN asked, is \in {"busy", "unavailable"} :
          Answer(k, [is |-> is])

(* The debounces, the half second between two looks at the schema cache,   *)
(* and BUSY_RETRY.                                                         *)
Quieter ==
    /\ d.quiet < 2
    /\ d' = [d EXCEPT !.quiet = @ + 1]
    /\ UNCHANGED <<userVars, taskVars, blind, steps>>

FallsDue ==
    /\ ~d.due
    /\ d' = [d EXCEPT !.due = TRUE]
    /\ UNCHANGED <<userVars, taskVars, blind, steps>>

RetryComes ==
    /\ d.retry
    /\ d' = [d EXCEPT !.retry = FALSE]
    /\ UNCHANGED <<userVars, taskVars, blind, steps>>
-----------------------------------------------------------------------------
Step ==
    /\ steps < MaxSteps
    /\ steps' = steps + 1
    /\ UNCHANGED <<d, taskVars>>

(* The user types: one token is replaced, inserted or deleted.             *)
OneEditApart(old, new) ==
    /\ old # new
    /\ Len(old) - SharedFront(old, new) - SharedBack(old, new) <= 1
    /\ Len(new) - SharedFront(old, new) - SharedBack(old, new) <= 1

Type ==
    /\ Step
    /\ \E new \in Texts : /\ OneEditApart(Text, new)
                          /\ text' = [text EXCEPT ![shown] = new]
    /\ revised' = TRUE
    /\ UNCHANGED <<shown, place, on, allowed, catalog, cached, blind>>

(* commit_rename_symbol and the edit of a peer write editor.text and leave *)
(* its revision alone: one of the same length passes for no edit.          *)
WriteUnseen ==
    /\ Step
    /\ \E new \in Texts : /\ OneEditApart(Text, new) /\ Len(new) = Len(Text)
                          /\ text' = [text EXCEPT ![shown] = new]
    /\ blind' = (blind \/ ~revised)
    /\ UNCHANGED <<shown, place, on, allowed, catalog, cached, revised>>

SwitchTab ==
    /\ Step
    /\ shown' \in Tabs \ {shown}
    /\ revised' = TRUE
    /\ UNCHANGED <<text, place, on, allowed, catalog, cached, blind>>

PickContext ==
    /\ Step
    /\ \E c \in Contexts \ {Here} : place' = [place EXCEPT ![shown] = c]
    /\ UNCHANGED <<text, shown, on, allowed, catalog, cached, revised, blind>>

Toggle ==
    /\ Step
    /\ on' = ~on
    /\ UNCHANGED <<text, shown, place, allowed, catalog, cached, revised, blind>>

(* The preference, or the environment label of the connection, changes; a  *)
(* pool is opened or closed.                                               *)
ChangeAllowed ==
    /\ Step
    /\ allowed' = ~allowed
    /\ UNCHANGED <<text, shown, place, on, catalog, cached, revised, blind>>

(* The autocomplete cache is loaded, or refreshed after tables were added. *)
LoadSchema ==
    /\ Step
    /\ \E c \in Contexts : /\ cached[c] # catalog[c]
                           /\ cached' = [cached EXCEPT ![c] = catalog[c]]
    /\ UNCHANGED <<text, shown, place, on, allowed, catalog, revised, blind>>

CreateTable ==
    /\ Step
    /\ \E c \in Contexts, t \in Tables :
          /\ t \notin catalog[c]
          /\ catalog' = [catalog EXCEPT ![c] = @ \cup {t}]
    /\ UNCHANGED <<text, shown, place, on, allowed, cached, revised, blind>>

User ==
    \/ Type \/ WriteUnseen \/ SwitchTab \/ PickContext \/ Toggle
    \/ ChangeAllowed \/ LoadSchema \/ CreateTable

Clock == Quieter \/ FallsDue \/ RetryComes

Next == Tick \/ Analysed \/ Answered \/ Unanswered \/ Clock \/ User

(* Frames are drawn, the thread and the validations end (each within       *)
(* VALIDATE_TIMEOUT), and time passes.                                     *)
Fairness ==
    /\ WF_vars(Tick) /\ WF_vars(Analysed) /\ WF_vars(Answered)
    /\ WF_vars(Quieter) /\ WF_vars(FallsDue) /\ WF_vars(RetryComes)

Spec == Init /\ [][Next]_vars /\ Fairness
-----------------------------------------------------------------------------
(* Every mark a frame draws stands on the word it was found at, and was    *)
(* found in the context of the tab on the screen, whatever was typed or    *)
(* switched while the analysis or the validation was on its way - as long  *)
(* as tick notices every change of the text.                               *)
MarksFit ==
    \A m \in d.items : /\ m.at \in DOMAIN Text
                       /\ m.word = Text[m.at]
                       /\ m.context = Here
MarksStayOnTheirWords == [][Tick /\ ~blind => MarksFit']_vars

(* Once the user pauses, the marks are those of the text on the screen:    *)
(* analysed with the schema that is known now, every statement confirmed   *)
(* by the server where that is allowed, and none at all when switched off. *)
Confirmed ==
    allowed => \A q \in d.statements :
                  Validatable(q) => <<Here, q.words>> \in DOMAIN d.server

CaughtUp ==
    IF ~on THEN d.items = {}
    ELSE /\ Confirmed
         /\ d.statements = Statements(Text)
         /\ d.items = Merged(Findings(Text, cached[Here], Here), Verdicts(d),
                             allowed)
MarksCatchUp == <>[](~blind => CaughtUp)

(* The same without the condition: the comment in tick has every change of *)
(* the text noticed.                                                       *)
EveryMarkFits == [][Tick => MarksFit']_vars

(* MAX_SERVER_IN_FLIGHT, taken at its word.                                *)
AtMostTwoAtOnce == Len(asked) <= MaxInFlight

(* QUERY_DIAGNOSTICS.md and ADR 0009: where the server is asked, it        *)
(* corrects a mark made from an old schema.                                *)
ServerCorrects ==
    <>[](on /\ allowed /\ ~blind =>
           \A m \in d.items : m.source = "server" =>
               m.word \notin catalog[Here])
=============================================================================
