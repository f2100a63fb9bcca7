------------------------------- MODULE Menus --------------------------------
(***************************************************************************)
(* A menu of the kit (components/Menu): a dropdown on its trigger or a     *)
(* context menu asked for on a row, its items and a submenu, the items     *)
(* whose action is a promise, the hotkeys of the items, the filter over a  *)
(* long choice, and where the focus goes when the menu closes.  What Zag's *)
(* menu machine does (the highlight, a choice, closing) is taken from how  *)
(* the code uses it.                                                       *)
(***************************************************************************)
EXTENDS Integers, FiniteSets

CONSTANTS Items,       \* the items and the options of the radio group
          KindOf,      \* [Items -> {"sync", "async", "link", "box", "option"}]
          Inner,       \* the items of the submenu
          Keyed,       \* the items with a hotkey
          Rows,        \* elements with a context menu
          Trigger,     \* the dropdown's button
          Texts,       \* texts of the filter, "" among them
          Fits,        \* [Texts -> the options each leaves]
          Nobody,
          MaxChoices   \* bound on the actions started

Actions == {i \in Items : KindOf[i] \in {"sync", "async", "link"}}
Boxes == {i \in Items : KindOf[i] = "box"}
Options == {i \in Items : KindOf[i] = "option"}
Promises == {i \in Actions : KindOf[i] = "async"}

\* A request for the menu, and the one from the keyboard.
Request(element, keyboard) == [element |-> element, keyboard |-> keyboard]
CornerOf(element) == Request(element, TRUE)

VARIABLES isOpen,      \* the machine is open
          mounted,     \* in the DOM: while open, and while it animates out
          inner,       \* the submenu is open
          mark,        \* the highlighted item
          filter,      \* the text of the filter
          busy,        \* the items whose promise the menu waits for
          failed,      \* the items that show an error
          promises,    \* how many promises of an item have not settled
          off,         \* the items with a disabledReason
          openedFrom,  \* the request: [element, keyboard]
          at,          \* the focus: an element, "menu", "filter" or "page"
          choices

level == <<isOpen, mounted, inner, mark, filter, openedFrom, at>>
asyncs == <<busy, failed, promises>>
menuVars == <<level, asyncs, off, choices>>

RootInit == isOpen = FALSE /\ inner = FALSE /\ mark = Nobody
PresenceInit == mounted = FALSE /\ filter = ""
AsyncInit == busy = {} /\ failed = {} /\ promises = [i \in Promises |-> 0]

MenuInit == /\ RootInit /\ PresenceInit /\ AsyncInit
            /\ off = {} /\ openedFrom = CornerOf(Trigger) /\ at = "page" /\ choices = 0

InOpenLevel(i) == i \in Inner => inner
PassesFilter(i) == i \in Options => i \in Fits[filter]
OnScreen(i) == isOpen /\ InOpenLevel(i) /\ PassesFilter(i)

\* What the item shows of its promise.
AsyncState(i) == [busy |-> i \in busy, error |-> i \in failed]

\* From the keyboard, or from its trigger, the focus goes back where the menu was opened.
Close ==
  /\ isOpen' = FALSE /\ inner' = FALSE /\ mark' = Nobody
  /\ at' = IF openedFrom.keyboard THEN openedFrom.element ELSE "page"
  /\ UNCHANGED <<mounted, filter, openedFrom>>

\* Errors do not survive a reopen; what is busy stays busy.
Open(request) ==
  /\ isOpen' = TRUE /\ mounted' = TRUE /\ inner' = FALSE /\ mark' = Nobody /\ at' = "menu"
  /\ openedFrom' = request
  /\ failed' = {}
  /\ UNCHANGED <<filter, busy, promises, off, choices>>

PressTrigger == ~isOpen /\ Open(CornerOf(Trigger))

\* A right click on a row, also over a menu open on another one.
RightClick(row) == Open(Request(row, FALSE))

\* Shift+F10 or the menu key on the row.
MenuKey(row) == ~isOpen /\ Open(CornerOf(row))

\* From code, for a widget that keeps the focus on itself: it gets the focus back, not the row.
OpenAt(anchor, returnFocusTo) ==
  ~isOpen /\ Open([CornerOf(anchor) EXCEPT !.element = returnFocusTo])

\* Esc, Tab, a click outside, another overlay, a trigger scrolled away.
CloseMenu == isOpen /\ Close /\ UNCHANGED <<asyncs, off, choices>>

\* The exit animation's end, or the timer that stands for it.
Unmount ==
  /\ ~isOpen /\ mounted
  /\ mounted' = FALSE /\ filter' = ""
  /\ UNCHANGED <<isOpen, inner, mark, openedFrom, at, asyncs, off, choices>>

-----------------------------------------------------------------------------
(* The items.                                                              *)

Highlight(i) ==
  /\ OnScreen(i) /\ i \notin off /\ mark' = i
  /\ inner' = (i \in Inner)
  /\ UNCHANGED <<isOpen, mounted, filter, openedFrom, at, asyncs, off, choices>>

OpenSubmenu ==
  /\ isOpen /\ ~inner /\ Inner # {} /\ inner' = TRUE
  /\ UNCHANGED <<isOpen, mounted, mark, filter, openedFrom, at, asyncs, off, choices>>

CanRunAnyway(i) == TRUE         \* mutant: a busy item's choice is not ignored
CanRun(i) == i \notin busy

\* The item waits with the menu open.
StartPromise(i) ==
  /\ promises' = [promises EXCEPT ![i] = @ + 1]
  /\ busy' = busy \cup {i} /\ failed' = failed \ {i}
  /\ choices' = choices + 1
  /\ UNCHANGED level

\* An action: a promise makes the item wait in the open menu; else the menu closes at once.
RunAction(i) ==
  CASE i \in off \/ KindOf[i] = "link" -> UNCHANGED <<level, asyncs, choices>>
    [] i \notin off /\ KindOf[i] = "async" /\ ~CanRun(i) -> UNCHANGED <<level, asyncs, choices>>
    [] i \notin off /\ KindOf[i] = "async" /\ CanRun(i) -> StartPromise(i)
    [] OTHER -> Close /\ UNCHANGED <<asyncs, choices>>

\* An action of this level or of its submenu; a link navigates by its own click and leaves
\* the menu to Zag.
OnSelect(i) == i \in Actions /\ RunAction(i)

\* Several boxes are often ticked in a row; one option finishes the task.
ToggleBox(i) == i \in Boxes /\ UNCHANGED <<level, asyncs, choices>>
ChooseOption(i) == i \in Options /\ Close /\ UNCHANGED <<asyncs, choices>>

\* A click or Enter: Zag passes no disabled item on.
Choose(i) ==
  /\ OnScreen(i) /\ i \notin off /\ choices < MaxChoices
  /\ OnSelect(i) \/ ToggleBox(i) \/ ChooseOption(i)
  /\ UNCHANGED off

PressEnter == mark # Nobody /\ Choose(mark)

\* Hotkeys of the items on screen, not while typing into the filter.
HasKeys(i) == OnScreen(i) /\ i \in Keyed \ off /\ at # "filter"

PressKeys(i) ==
  /\ HasKeys(i) /\ choices < MaxChoices
  /\ ToggleBox(i) \/ OnSelect(i)
  /\ UNCHANGED off

\* Typing anywhere in the menu goes into the filter; the cursor stays on what is left.
TypeFilter(text) ==
  /\ isOpen /\ Options # {} /\ text # filter
  /\ filter' = text /\ at' = "filter"
  /\ \/ /\ Fits[text] \ off # {} /\ mark' \in Fits[text] \ off
     \/ /\ Fits[text] \ off = {} /\ mark' = mark
  /\ UNCHANGED <<isOpen, mounted, inner, openedFrom, asyncs, off, choices>>

\* A promise settles, whether or not the menu is still open.
Settle(i, ok) ==
  /\ i \in Promises /\ promises[i] > 0
  /\ promises' = [promises EXCEPT ![i] = @ - 1] /\ busy' = busy \ {i}
  /\ failed' = IF ~ok /\ isOpen THEN failed \cup {i} ELSE failed \ {i}
  /\ IF ok /\ isOpen THEN Close ELSE UNCHANGED level
  /\ UNCHANGED <<off, choices>>

\* The app renders an item with a reason not to run it, or without.
SwitchOff(i) ==
  /\ off' = IF i \in off THEN off \ {i} ELSE {i}
  /\ UNCHANGED <<level, asyncs, choices>>

MenuNext ==
  \/ PressTrigger \/ CloseMenu \/ Unmount \/ OpenSubmenu \/ PressEnter
  \/ \E row \in Rows : RightClick(row) \/ MenuKey(row)
  \/ \E row, widget \in Rows : OpenAt(row, widget)
  \/ \E i \in Items : Highlight(i) \/ Choose(i) \/ PressKeys(i) \/ SwitchOff(i)
  \/ \E text \in Texts : TypeFilter(text)
  \/ \E i \in Promises, ok \in BOOLEAN : Settle(i, ok)

-----------------------------------------------------------------------------
(* What the menu keeps.                                                    *)

\* An item's operation runs once at a time, also over a menu closed and opened again, and
\* its row is busy just as long; an error is shown by no busy item.
OneRunEach ==
  /\ \A i \in Promises : promises[i] <= 1 /\ (i \in busy <=> promises[i] = 1)
  /\ \A i \in Items : ~(AsyncState(i).busy /\ AsyncState(i).error)

\* The focus is in no menu that is closed, and the keys never reach the filter's list.
FocusIsThere == at \in {"menu", "filter"} <=> isOpen

\* An operation starts only from an open menu, and not on a disabled item; a menu opened
\* from the keyboard gives the focus back to the element it was opened on.
StartsFromTheMenu ==
  /\ \A i \in Promises : promises'[i] > promises[i] => isOpen /\ i \notin off
  /\ isOpen /\ ~isOpen' /\ openedFrom.keyboard => at' = openedFrom.element
=============================================================================
