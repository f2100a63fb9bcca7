------------------------------- MODULE Cells -------------------------------
(***************************************************************************)
(* In-place edits (components/Input/InlineInput.tsx) in a row of cells     *)
(* whose parent keeps the contract its props state: it opens the edit a    *)
(* cell asks for, ends it when asked, a render later, moves it to the      *)
(* neighbour on Tab, saves optimistically, reports the outcome and can     *)
(* retry or settle it.  The marks of another's edit are left out.          *)
(***************************************************************************)
EXTENDS Integers

CONSTANTS Cells,        \* 1 .. n, from left to right
          ReadOnly,     \* the cells with a readOnlyReason
          Required,
          Texts,
          Blank,        \* the texts that trim to nothing
          Bad,          \* the texts that validate or maxLength reject
          TextKeys, AppLetters,   \* the keys that are a character; those the app has as hotkeys
          NoText,
          MaxCellSteps  \* bound on the edits asked for and on another's changes

VARIABLES
  server, value,        \* the saved value, and the one the cell is given
  status, unsaved,      \* of the save: idle, pending, error, conflict; what did not save
  editing,              \* the parent's: the edited cell, or 0
  leaving,              \* the end the parent was asked for: <<cell to edit next, or 0>>, or <<>>
  start,                \* per cell how the edit it asks for starts
  draft, settled,       \* the open editor's
  focus,                \* cell c's text: c, its editor: -c, else "page" or "body"
  settles, dropped,     \* history: settlings of this edit; the texts of edits that ended unsettled
  committed,            \* history: <<cell, text>> of the last commit
  cellSteps

parent == <<server, value, status, unsaved, committed>>
editor == <<draft, settled, settles>>
cellVars == <<parent, editing, leaving, start, editor, focus, dropped, cellSteps>>

Problem(t) == t \in Bad
Places == [cell : Cells, inEditor : BOOLEAN] \cup {[cell |-> 0, inEditor |-> x] : x \in BOOLEAN}
At(c) == [cell |-> c, inEditor |-> FALSE]
In(c) == [cell |-> c, inEditor |-> TRUE]
Body == At(0)                                   \* nothing has the focus
Page == In(0)                                   \* something else of the page has it
EditStart(how, char) == [how |-> how, char |-> char]
Caret == EditStart("caret", NoText)
IsTextKey(key) == key \in TextKeys
IsAppLetter(key) == key \in AppLetters
CountStep == cellSteps < MaxCellSteps /\ cellSteps' = cellSteps + 1

\* The props: the value, who is edited, what was committed.
GivenInit == value = server /\ editing = 0 /\ leaving = <<>> /\ committed = <<>>
SaveInit == status = [c \in Cells |-> "idle"] /\ unsaved = [c \in Cells |-> NoText]
EditorInit == draft = NoText /\ settled = FALSE /\ settles = 0
CellInit ==
  /\ server = [c \in Cells |-> ""] /\ GivenInit /\ SaveInit /\ EditorInit
  /\ start = [c \in Cells |-> Caret] /\ focus = Page
  /\ dropped = {} /\ cellSteps = 0

\* The editor, or the text that opens it.
EditorOpen == editing # 0 /\ editing \notin ReadOnly
TextShown(c) == ~(EditorOpen /\ editing = c)

\* What the cell says of its save, and what its tooltip adds.
SpokenState(c) ==
  CASE status[c] = "pending" -> "saving" [] status[c] = "error" -> "not saved"
    [] status[c] = "conflict" -> "conflict" [] OTHER -> ""
Tooltip(c) ==
  IF c \in ReadOnly THEN "the reason"
  ELSE IF status[c] = "error" /\ unsaved[c] # NoText THEN unsaved[c] ELSE "the full text"

-----------------------------------------------------------------------------
(* The editor comes and goes with the parent's editing.                    *)

\* Over a failed save it starts from what did not save, unless a character replaces it.
FirstDraft(c, s) ==
  IF s.how = "type" THEN s.char
  ELSE IF status[c] = "error" /\ unsaved[c] # NoText THEN unsaved[c] ELSE value[c]

\* The new editor takes the focus; after the last one it is back on the cell if nothing else has it.
FocusEditor(c) == focus' = In(c)
FocusBack == focus' = IF focus \in {Body, In(editing)} THEN At(editing) ELSE focus

\* The parent's next render: the old editor goes.  starts: what the cells' starts are by now.
Renders(c, starts) ==
  /\ editing' = c /\ leaving' = <<>>
  /\ dropped' = IF editing # 0 /\ ~settled THEN dropped \cup {draft} ELSE dropped
  /\ start' = [d \in Cells |-> IF d = editing /\ d # c THEN Caret ELSE starts[d]]
  /\ settled' = FALSE /\ settles' = 0
  /\ IF c # 0 THEN draft' = FirstDraft(c, starts[c]) /\ FocusEditor(c)
     ELSE draft' = NoText /\ FocusBack

ParentEndsEdit ==
  /\ leaving # <<>> /\ Renders(leaving[1], start)
  /\ UNCHANGED <<parent, cellSteps>>

RequestEdit(c, s) ==
  /\ CountStep /\ c # editing
  /\ Renders(c, [start EXCEPT ![c] = s])
  /\ UNCHANGED parent

-----------------------------------------------------------------------------
(* The cell at rest.                                                       *)

OnCell(c) == focus = At(c) /\ c \notin ReadOnly

\* The parent's onRetry and onResolveConflict.
Resend(c) ==
  /\ value' = [value EXCEPT ![c] = unsaved[c]] /\ status' = [status EXCEPT ![c] = "pending"]
  /\ unsaved' = [unsaved EXCEPT ![c] = NoText] /\ UNCHANGED <<server, committed>>
TakeTheirs(c) ==
  /\ value' = [value EXCEPT ![c] = server[c]] /\ status' = [status EXCEPT ![c] = "idle"]
  /\ unsaved' = [unsaved EXCEPT ![c] = NoText] /\ UNCHANGED <<server, committed>>

\* Enter retries a failed save and resolves a conflict before it edits.
EnterOnCell(c) ==
  /\ OnCell(c)
  /\ \/ /\ status[c] = "error" /\ Resend(c)
        /\ UNCHANGED <<editing, leaving, start, editor, focus, dropped, cellSteps>>
     \/ /\ status[c] = "conflict" /\ TakeTheirs(c)
        /\ UNCHANGED <<editing, leaving, start, editor, focus, dropped, cellSteps>>
     \/ status[c] \in {"idle", "pending"} /\ RequestEdit(c, Caret)

\* F2, or a double click, which focuses the cell; E; any other character but a letter of the
\* app's, which replaces the value.
KeyOnCell(c, key) ==
  /\ OnCell(c)
  /\ \/ key = "F2" /\ RequestEdit(c, Caret)
     \/ key = "e" /\ RequestEdit(c, EditStart("selectAll", NoText))
     \/ key # "e" /\ IsTextKey(key) /\ ~IsAppLetter(key) /\ RequestEdit(c, EditStart("type", key))

-----------------------------------------------------------------------------
(* The editor.                                                             *)

\* The parent's side of onCommit: the value is the new one at once.
Commit(c, t) ==
  /\ value' = [value EXCEPT ![c] = t] /\ status' = [status EXCEPT ![c] = "pending"]
  /\ unsaved' = [unsaved EXCEPT ![c] = NoText] /\ committed' = <<[cell |-> c, text |-> t]>>
  /\ UNCHANGED server

\* Nothing is saved.
Cancel == settled' = TRUE /\ settles' = settles + 1 /\ leaving' = <<0>> /\ UNCHANGED <<parent, draft>>

Neighbour(c, move) == IF c + move \in Cells \ ReadOnly THEN c + move ELSE 0

SaveTwice(move) ==      \* mutant: settled is not asked
  IF Problem(draft) THEN UNCHANGED <<parent, editor, leaving>>
  ELSE IF editing \in Required /\ draft \in Blank THEN Cancel
  ELSE /\ Commit(editing, draft) /\ settled' = TRUE /\ settles' = settles + 1
       /\ leaving' = <<IF move = 0 THEN 0 ELSE Neighbour(editing, move)>> /\ UNCHANGED draft

\* move is 0 for Enter and blur, else Tab's direction.
Save(move) ==
  IF settled \/ Problem(draft) THEN UNCHANGED <<parent, editor, leaving>>
  ELSE IF editing \in Required /\ draft \in Blank THEN Cancel
  ELSE /\ Commit(editing, draft) /\ settled' = TRUE /\ settles' = settles + 1
       /\ leaving' = <<IF move = 0 THEN 0 ELSE Neighbour(editing, move)>> /\ UNCHANGED draft

Editing == EditorOpen /\ focus = In(editing)

Type(t) ==
  /\ Editing /\ t # draft /\ draft' = t
  /\ UNCHANGED <<parent, editing, leaving, start, settled, settles, focus, dropped, cellSteps>>

SaveKey(move) ==
  /\ Editing /\ Save(move)
  /\ UNCHANGED <<editing, start, focus, dropped, cellSteps>>

\* The edit is a level of the Esc ladder wherever the focus is.
EscapeEdit ==
  /\ editing # 0
  /\ IF settled THEN UNCHANGED <<parent, editor, leaving>> ELSE Cancel
  /\ UNCHANGED <<editing, start, focus, dropped, cellSteps>>

\* A click or Tab elsewhere; leaving the editor saves.
FocusGoes(to) ==
  /\ to # focus /\ to \in {Body, Page} \cup {At(c) : c \in {d \in Cells : TextShown(d)}} /\ focus' = to
  /\ IF Editing THEN Save(0) ELSE UNCHANGED <<parent, editor, leaving>>
  /\ UNCHANGED <<editing, start, dropped, cellSteps>>

\* The buttons beside a cell whose save failed or met a conflict: one takes the focus (which an
\* open editor has left before), and is gone once it is clicked.
ClickBeside(c) ==
  /\ editing # c /\ focus = Page
  /\ \/ status[c] = "error" /\ Resend(c)
     \/ status[c] = "conflict" /\ TakeTheirs(c)
  /\ focus' = Body
  /\ UNCHANGED <<editing, leaving, start, editor, dropped, cellSteps>>

\* Back into the open editor.
FocusReturns ==
  /\ EditorOpen /\ focus # In(editing) /\ focus' = In(editing)
  /\ UNCHANGED <<parent, editing, leaving, start, editor, dropped, cellSteps>>

-----------------------------------------------------------------------------
(* The saves: the parent's (external).                                     *)

Answered(c) ==
  /\ status[c] = "pending"
  /\ \/ /\ server' = [server EXCEPT ![c] = value[c]] /\ status' = [status EXCEPT ![c] = "idle"]
        /\ UNCHANGED <<value, unsaved>>
     \/ /\ unsaved' = [unsaved EXCEPT ![c] = value[c]] /\ value' = [value EXCEPT ![c] = server[c]]
        /\ status' = [status EXCEPT ![c] = "error"] /\ UNCHANGED server
  /\ UNCHANGED <<committed, editing, leaving, start, editor, focus, dropped, cellSteps>>

\* A new value does not replace what is being typed: under an edit it is a conflict.
OthersEdit(c, t) ==
  /\ CountStep /\ status[c] = "idle" /\ t # server[c] /\ server' = [server EXCEPT ![c] = t]
  /\ IF c = editing THEN status' = [status EXCEPT ![c] = "conflict"] /\ UNCHANGED value
     ELSE value' = [value EXCEPT ![c] = t] /\ UNCHANGED status
  /\ UNCHANGED <<unsaved, committed, editing, leaving, start, editor, focus, dropped>>

CellNext ==
  \/ ParentEndsEdit \/ EscapeEdit \/ FocusReturns
  \/ \E c \in Cells : EnterOnCell(c) \/ ClickBeside(c) \/ Answered(c)
  \/ \E c \in Cells, key \in TextKeys \cup {"F2"} : KeyOnCell(c, key)
  \/ \E c \in Cells, t \in Texts \ Bad : OthersEdit(c, t)
  \/ \E t \in Texts : Type(t)
  \/ \E move \in {-1, 0, 1} : SaveKey(move)
  \/ \E to \in Places : FocusGoes(to)

-----------------------------------------------------------------------------
(* What the cells keep.                                                    *)

\* An edit is saved or cancelled once, however its ends overlap; only a text with a problem is
\* ever dropped; nothing with a problem is saved, nor an empty value where one is required.
EditsSettleOnce ==
  /\ settles <= 1 /\ settled = (settles = 1)
  /\ dropped \subseteq Bad
  /\ committed # <<>> => /\ ~Problem(committed[1].text)
                         /\ committed[1].text \notin Blank \/ committed[1].cell \notin Required

\* A failed save still has its text and says so; at rest every other cell starts its next edit at
\* the caret.
FailuresKeepTheirText ==
  /\ \A c \in Cells : SpokenState(c) = "not saved" => unsaved[c] # NoText /\ Tooltip(c) = unsaved[c]
  /\ \A c \in Cells \ {editing} : start[c] = Caret
  /\ editing \notin ReadOnly

\* When an edit ends, the focus is never left on the body; an opening one starts from what did not
\* save, the value or the character typed, which is no hotkey of the app's.
FocusComesBack == editing # 0 /\ editing' = 0 => focus' # Body
StartsFromTheLatest ==
  editing' \notin {0, editing} =>
    \/ start'[editing'] = EditStart("type", draft') /\ ~IsAppLetter(draft')
    \/ draft' = IF status[editing'] = "error" THEN unsaved[editing'] ELSE value[editing']
=============================================================================
