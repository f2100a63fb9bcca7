------------------------------ MODULE Palette -------------------------------
(***************************************************************************)
(* The command palette (components/CommandPalette): the field, the groups  *)
(* of the sources the screens registered, the search whose answers come at *)
(* once or later, the narrowing to a source, second steps, the             *)
(* confirmation, and how a label matches a query.  A label and a query are *)
(* sequences of letters; " " ends a word.                                  *)
(***************************************************************************)
EXTENDS Integers, Sequences, SequencesExt, FiniteSetsExt

CONSTANTS Sources,        \* every source, the second steps' too
          InitSources,    \* the registered ones, in their order
          Comings,        \* the one whose screen mounts and unmounts
          Remote,         \* the sources that answer later
          RowsOf,         \* [Sources -> sequence of items]
          LabelOf,        \* [items -> label]
          StepTo,         \* [items with a second step -> its source]
          Asking,         \* the items that ask for a confirmation
          Disabled,       \* the items with a disabledReason
          CreateRow,      \* "Create ..." of the query
          PrefixOf,       \* [the sources with a prefix -> its letter]
          Letters, MaxQuery,
          MixedLimit, ScopedLimit,
          MaxRuns,        \* bound on the searches
          None

PaletteItem(item) ==
  [label |-> IF item = CreateRow THEN <<>> ELSE LabelOf[item], disabled |-> item \in Disabled, confirm |-> item \in Asking,
   next |-> IF item \in DOMAIN StepTo THEN StepTo[item] ELSE None]
PaletteSource(s) ==
  [rows |-> RowsOf[s], later |-> s \in Remote, prefix |-> IF s \in DOMAIN PrefixOf THEN <<PrefixOf[s]>> ELSE <<>>]

-----------------------------------------------------------------------------
(* How a label matches.                                                    *)

StartsAt(label, query, i) ==
  i + Len(query) - 1 <= Len(label) /\ \A k \in DOMAIN query : label[i + k - 1] = query[k]

Places(label, query) == {i \in DOMAIN label : StartsAt(label, query, i)}
WordStarts(label, query) == {i \in Places(label, query) : i = 1 \/ label[i - 1] = " "}

\* How many letters of the query the label has in order up to each place, taken greedily.
Found(label, query) ==
  LET found[i \in 0 .. Len(label)] ==
        IF i = 0 THEN 0
        ELSE found[i - 1] + (IF found[i - 1] < Len(query) /\ label[i] = query[found[i - 1] + 1] THEN 1 ELSE 0)
  IN  found

\* The places in bold.
Marked(label, query) ==
  LET found == Found(label, query)
      from(i) == i .. i + Len(query) - 1
  IN  CASE query = <<>> -> {}
        [] WordStarts(label, query) # {} -> from(Min(WordStarts(label, query)))
        [] query # <<>> /\ WordStarts(label, query) = {} /\ Places(label, query) # {} ->
             from(Min(Places(label, query)))
        [] OTHER -> IF found[Len(label)] = Len(query)
                    THEN {i \in DOMAIN label : found[i] # found[i - 1]} ELSE {}

Score(label, query) ==
  CASE query = <<>> \/ WordStarts(label, query) # {} -> 3
    [] query # <<>> /\ WordStarts(label, query) = {} /\ Places(label, query) # {} -> 2
    [] OTHER -> IF Marked(label, query) # {} THEN 1 ELSE 0

\* Best first; equal scores keep the source's order.
Filtered(items, query) ==
  LET score(i) == Score(PaletteItem(items[i]).label, query)
      kept == {i \in DOMAIN items : score(i) > 0}
      before(i, j) == score(i) > score(j) \/ (score(i) = score(j) /\ i < j)
      order == SetToSortSeq(kept, before)
  IN  [k \in DOMAIN order |-> items[order[k]]]

-----------------------------------------------------------------------------

VARIABLES
          registered,  \* the sources of the screens on the page
          open, query, scope, steps, confirming, confirmCursor, cursor,
          search,      \* the run: [id, key]
          asked,       \* the promises on their way: [run, source, key]
          late,        \* what came later: [key, items]
          answered,    \* the sources that answered this run later
          done         \* the last item run, and whether it was confirmed

field == <<query, scope, steps, cursor>>
confirms == <<confirming, confirmCursor>>
searching == <<search, asked, late, answered>>
paletteVars == <<registered, open, field, confirms, searching, done>>

Last1(s) == s[Len(s)]

\* What the palette searches: a step's or the scope's source, else all.
NarrowedTo(sc, st) == IF st # <<>> THEN Last1(st) ELSE sc
Active(reg, sc, st) == IF NarrowedTo(sc, st) # None THEN <<NarrowedTo(sc, st)>> ELSE reg

KeyOf(reg, sc, st, q) == [sources |-> Active(reg, sc, st), scoped |-> NarrowedTo(sc, st) # None, query |-> q]
Key == KeyOf(registered, scope, steps, query)
NoAnswers == [key |-> [sources |-> <<>>, scoped |-> FALSE, query |-> <<>>], items |-> <<>>]

SearchRun(id, key) == [id |-> id, key |-> key]
Pending(run, key) ==
  {[run |-> run, source |-> s, key |-> key] : s \in {x \in ToSet(key.sources) : PaletteSource(x).later}}

FieldInit == query = <<>> /\ scope = None /\ steps = <<>> /\ cursor = 0
ConfirmInit == confirming = None /\ confirmCursor = 0
SearchInit ==
  /\ search = SearchRun(0, KeyOf(InitSources, None, <<>>, <<>>))
  /\ asked = {} /\ late = NoAnswers /\ answered = {}
PaletteState == registered = InitSources
PaletteInit ==
  /\ PaletteState /\ FieldInit /\ ConfirmInit /\ SearchInit
  /\ open = FALSE /\ done = [item |-> None, confirmed |-> FALSE]

\* A new key starts a new run: the one before it is aborted, and what each source knows at
\* once is there.  An aborted promise may still answer.
Searched(reg, sc, st, q) ==
  LET key == KeyOf(reg, sc, st, q)
      next == search.id + 1
  IN  IF key = search.key THEN UNCHANGED searching
      ELSE /\ next <= MaxRuns
           /\ search' = SearchRun(next, key)
           /\ asked' = asked \cup Pending(next, key)
           /\ answered' = {}
           /\ UNCHANGED late

\* The rows of a source on screen: what it gave at once, or what it gave later for this key.
Known(s) == IF ~PaletteSource(s).later THEN Filtered(PaletteSource(s).rows, query)
            ELSE IF late.key = Key /\ s \in DOMAIN late.items THEN late.items[s] ELSE <<>>
Limited(rows) == SubSeq(rows, 1, Min({Len(rows), IF Key.scoped THEN ScopedLimit ELSE MixedLimit}))
Created == IF ~Key.scoped /\ query # <<>> THEN <<CreateRow>> ELSE <<>>
Rows == FlattenSeq([i \in DOMAIN Key.sources |-> Limited(Known(Key.sources[i]))]) \o Created
Selectable == SelectSeq(Rows, LAMBDA item : ~PaletteItem(item).disabled)
CurrentAt == Min({cursor, Len(Selectable) - 1})
CurrentItem == IF Selectable = <<>> THEN None ELSE Selectable[CurrentAt + 1]

LandsAborted(call) == TRUE      \* mutant: the signal is not asked

\* A promise answers: for its own run only, unless it failed.
Lands(call) == call.run = search.id
Answer(call, ok) ==
  /\ call \in asked /\ asked' = asked \ {call}
  /\ IF ok /\ open /\ Lands(call)
     THEN /\ late' = [key |-> call.key,
                      items |-> (call.source :> Filtered(RowsOf[call.source], call.key.query)) @@
                                (IF late.key = call.key THEN late.items ELSE <<>>)]
          /\ answered' = IF call.run = search.id THEN answered \cup {call.source} ELSE answered
     ELSE UNCHANGED <<late, answered>>
  /\ UNCHANGED <<registered, open, field, confirms, search, done>>

-----------------------------------------------------------------------------
(* The field and the list.                                                 *)

\* A source prefix at the start of what is typed: the source to narrow to, and the rest.
Prefixed(reg) == SelectSeq(reg, LAMBDA s : PaletteSource(s).prefix # <<>>)
SplitPrefix(value, reg) ==
  LET found == SelectSeq(Prefixed(reg), LAMBDA s : IsPrefix(PaletteSource(s).prefix, value))
  IN  IF found = <<>> THEN [scope |-> None, query |-> value]
      ELSE [scope |-> Head(found), query |-> SubSeq(value, 1 + Len(PaletteSource(Head(found)).prefix), Len(value))]

\* It opens with what was typed elsewhere, read as if typed in it, and searches at once.
Opens(initial) ==
  LET typed == SplitPrefix(initial, registered)
      key == KeyOf(registered, typed.scope, <<>>, typed.query)
      next == search.id + 1
  IN
  /\ ~open /\ open' = TRUE /\ search.id < MaxRuns
  /\ query' = typed.query /\ scope' = typed.scope /\ steps' = <<>> /\ cursor' = 0
  /\ confirming' = None /\ confirmCursor' = 0
  /\ search' = SearchRun(next, key) /\ asked' = asked \cup Pending(next, key)
  /\ late' = NoAnswers /\ answered' = {}
  /\ UNCHANGED <<registered, done>>

\* Closing unmounts it: its run is aborted.
Closed == /\ open' = FALSE /\ search' = [search EXCEPT !.id = @ + 1] /\ answered' = {}
          /\ UNCHANGED <<registered, field, confirms, asked, late>>

Typing == open /\ confirming = None

\* A prefix typed first narrows the search, only at the top.
ChangeQuery(value) ==
  LET narrowed == NarrowedTo(scope, steps) # None
      typed == IF narrowed THEN [scope |-> scope, query |-> value] ELSE SplitPrefix(value, registered)
  IN
  /\ Typing /\ value # query
  /\ query' = typed.query /\ scope' = typed.scope /\ cursor' = 0
  /\ Searched(registered, typed.scope, steps, typed.query)
  /\ UNCHANGED <<registered, open, steps, confirms, done>>

MoveCursor(to) ==
  /\ Typing /\ Selectable # <<>>
  /\ to \in {(CurrentAt + 1) % Len(Selectable), (CurrentAt - 1) % Len(Selectable), 0, Len(Selectable) - 1}
  /\ cursor' = to /\ to # cursor
  /\ UNCHANGED <<registered, open, query, scope, steps, confirms, searching, done>>

\* Runs an item: it is confirmed first, opens its second step, or the palette closes and it runs.
Run(item) ==
  CASE PaletteItem(item).confirm /\ confirming = None ->
         /\ confirming' = item /\ confirmCursor' = 0
         /\ UNCHANGED <<registered, open, field, searching, done>>
    [] PaletteItem(item).next # None /\ (~PaletteItem(item).confirm \/ confirming # None) ->
         /\ steps' = Append(steps, PaletteItem(item).next) /\ scope' = None /\ query' = <<>> /\ cursor' = 0
         /\ Searched(registered, None, steps', <<>>)
         /\ UNCHANGED <<registered, open, confirms, done>>
    [] OTHER -> Closed /\ done' = [item |-> item, confirmed |-> confirming = item /\ confirmCursor = 1]

Enter == Typing /\ CurrentItem # None /\ Run(CurrentItem)

ClickRow(item) == Typing /\ item \in ToSet(Selectable) /\ Run(item)

\* Esc clears the field; with nothing to clear it goes on to the ladder, which closes.
Escape ==
  /\ Typing
  /\ IF query # <<>> \/ scope # None
     THEN /\ query' = <<>> /\ scope' = None /\ cursor' = 0
          /\ Searched(registered, None, steps, <<>>)
          /\ UNCHANGED <<registered, open, steps, confirms, done>>
     ELSE Closed /\ UNCHANGED done

\* A click on the dimmed page.
ClickScrim == open /\ Closed /\ UNCHANGED done

\* Backspace in the empty field drops the scope, then a step.
Backspace ==
  /\ Typing /\ query = <<>> /\ (scope # None \/ steps # <<>>)
  /\ cursor' = 0
  /\ IF scope # None THEN scope' = None /\ UNCHANGED steps
     ELSE steps' = Front(steps) /\ UNCHANGED scope
  /\ Searched(registered, scope', steps', query)
  /\ UNCHANGED <<registered, open, query, confirms, done>>

\* The confirmation: Cancel first; Esc is a step back.
ConfirmMove ==
  /\ open /\ confirming # None /\ confirmCursor' = 1 - confirmCursor
  /\ UNCHANGED <<registered, open, field, confirming, searching, done>>

ConfirmEnter ==
  /\ open /\ confirming # None
  /\ IF confirmCursor = 1 THEN Run(confirming)
     ELSE confirming' = None /\ UNCHANGED <<registered, open, field, confirmCursor, searching, done>>

ConfirmEscape ==
  /\ open /\ confirming # None /\ confirming' = None
  /\ UNCHANGED <<registered, open, field, confirmCursor, searching, done>>

\* A screen with a source comes or goes; its group is the last one.
Register ==
  /\ registered' = IF Comings \in ToSet(registered) THEN SelectSeq(registered, LAMBDA s : s # Comings)
                   ELSE Append(registered, Comings)
  /\ scope # Comings
  /\ IF open THEN Searched(registered', scope, steps, query) ELSE UNCHANGED searching
  /\ UNCHANGED <<open, field, confirms, done>>

PaletteNext ==
  \/ ClickScrim \/ Enter \/ Escape \/ Backspace \/ ConfirmMove \/ ConfirmEnter \/ ConfirmEscape \/ Register
  \/ \E call \in asked, ok \in BOOLEAN : Answer(call, ok)
  \/ \E q \in SeqOf(Letters, MaxQuery) : ChangeQuery(q)
  \/ \E value \in {<<>>} \cup {PaletteSource(s).prefix : s \in Sources} : Opens(value) \/ ChangeQuery(value)
  \/ \E to \in 0 .. Len(Selectable) - 1 : MoveCursor(to)
  \/ \E item \in ToSet(Selectable) : ClickRow(item)

-----------------------------------------------------------------------------
(* What the palette keeps.                                                 *)

\* Letters in order are found exactly when the label has them in order, and what is in bold
\* spells the query.
MatchIsRight ==
  \A item \in DOMAIN LabelOf :
    LET label == LabelOf[item]
        bold == SetToSortSeq(Marked(label, query), <)
    IN  /\ Score(label, query) > 0 <=>
             \E f \in [DOMAIN query -> DOMAIN label] :
               \A j, k \in DOMAIN query : label[f[k]] = query[k] /\ (j < k => f[j] < f[k])
        /\ Score(label, query) > 0 => [k \in DOMAIN bold |-> label[bold[k]]] = query

\* Every row answers what is in the field, best match first within its group, and what a
\* source answered to this very search stays on screen until the search changes.
RowsAnswerTheField ==
  open =>
    /\ search.key = Key
    /\ \A i \in DOMAIN Rows : Rows[i] # CreateRow => Score(LabelOf[Rows[i]], query) > 0
    /\ \A s \in answered : s \in DOMAIN late.items /\ late.key = Key
    /\ CurrentItem = None <=> ToSet(Rows) \subseteq Disabled
    /\ \A i \in DOMAIN Prefixed(registered) :       \* the prefixes the footer names
         LET s == Prefixed(registered)[i] IN SplitPrefix(PaletteSource(s).prefix, registered).scope = s

\* Nothing irreversible runs without its confirmation, nothing disabled runs at all.
Confirmed == /\ done.item \in Asking => done.confirmed
             /\ done.item \notin Disabled

\* The palette: CommandPalette.tsx, useSearch.ts, matchLabel.ts.
PaletteAnswers == MatchIsRight /\ RowsAnswerTheField /\ Confirmed
=============================================================================
