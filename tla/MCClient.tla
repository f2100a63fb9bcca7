------------------------------ MODULE MCClient ------------------------------
(***************************************************************************)
(* The components of the tab that share no state, each with its constants: *)
(* one of them runs, the others stay as they began.  Their behaviours are  *)
(* those of the components' own specifications, side by side.  The socket  *)
(* (Channels), signing in (SignIn), the frame (Shell), toasts (Toasts) and *)
(* overlays (Overlays) are here under their own names.                     *)
(***************************************************************************)
EXTENDS Sequences, Channels, SignIn, Shell, Toasts, Overlays, TreeView

VARIABLES
  which,   \* the component that runs
  isOpen, mounted, inner, mark, filter, busy, failed, promises, off,  \* Menus
  openedFrom, menuAt, choices,
  registered, open, searchQuery, searchScope, steps, confirming,      \* Palette
  confirmCursor, searchCursor, search, searchAsked, searchLate,
  answered, done,
  hotkeys, rendered, asks, chord, listening, order, keyHeard,         \* Hotkeys
  keyTurns,
  pageKids, title, trash, pageLoaded, tree, shown, under, fetch,      \* PagesClient
  requests, channel, stale, missed, pageDraft, saved, focused,
  pageUnsaved, pageUndoable, pageRedoable, pageChanges,
  content, unmounted, expandedTips, tipLayers, pointer, tipFocus, hosts, tipActive,    \* Tooltips
  waits, tipView, lately, suppressed, described, tipEvents,
  server, editValue, editStatus, editUnsaved, editEditing, leaving,   \* Cells
  start, editDraft, settled, editFocus, settles, dropped, committed,
  cellSteps,
  usedControl, controlError, fieldFocused, errorVisible, loading,     \* Controls
  fieldText, final, fieldOff, heldBack, buttonOff, groupOff, spins,
  shownFor, spinTimer, works, idleFor, checked, boxOff,
  nativeChecked, nativeMixed, controlValue, unavailable,
  rows, rowsLoaded, top, cursorKey, reported, told, rowsAsked, drag,  \* Lists
  record, fresh, rowChanges,
  slugOf, formerOf, mine, deleted, list, listError, listCall,         \* Workspaces
  resolved, resolveError, resolveCall, listIsNewer, spaceAt, lastId,
  goneSince, spaceTurns

-----------------------------------------------------------------------------
NodeKids == [top |-> <<"a", "d", "b">>, a |-> Unloaded, b |-> <<>>, c |-> <<>>, d |-> <<>>]
NodeHeld == [a |-> <<"c">>, b |-> <<>>, c |-> <<>>, d |-> <<>>]

OtherTab == [sidebarWidth |-> 300, sidebarCollapsed |-> TRUE, panelWidth |-> 420]

ItemKinds == [s |-> "sync", a |-> "async", b |-> "async", l |-> "link", x |-> "box",
              o1 |-> "option", o2 |-> "option"]
Filtered == [text \in {"", "q"} |-> IF text = "" THEN {"o1", "o2"} ELSE {"o2"}]
Menu == INSTANCE Menus WITH
  Items <- DOMAIN ItemKinds, KindOf <- ItemKinds, Inner <- {"b"},
  Keyed <- {"a", "l", "x", "s"}, Rows <- {"r1", "r2"}, Trigger <- "trigger",
  Texts <- {"", "q"}, Fits <- Filtered, Nobody <- "none", MaxChoices <- 3,
  at <- menuAt

Buttons == [m |-> "menu button", p |-> "popover button", q |-> "other button"]

SourceRows == [commands |-> <<"move", "delete">>, pages |-> <<"p1", "p2">>,
               targets |-> <<"t1", "t2">>]
Labels == [move |-> <<"m", "o", " ", "d">>, delete |-> <<"d", "m">>, p1 |-> <<"m", "m">>,
           p2 |-> <<"o", "d", "o">>, t1 |-> <<"d">>, t2 |-> <<"m">>]
Search == INSTANCE Palette WITH
  Sources <- DOMAIN SourceRows, InitSources <- <<"commands">>, Comings <- "pages",
  Remote <- {"pages", "targets"}, RowsOf <- SourceRows, LabelOf <- Labels,
  StepTo <- [move |-> "targets"], Asking <- {"delete"}, Disabled <- {"p2"},
  CreateRow <- "create", PrefixOf <- [commands |-> ">", pages |-> "/"], Letters <- {"m", "d"},
  MaxQuery <- 2, MixedLimit <- 1, ScopedLimit <- 2, MaxRuns <- 3, query <- searchQuery, scope <- searchScope,
  cursor <- searchCursor, asked <- searchAsked, late <- searchLate

Stroke(k, upper, mods) == [key |-> k, upper |-> upper, mods |-> mods]
Strike(k, upper, mods, where) == [key |-> k, code |-> k, upper |-> upper, mods |-> mods, at |-> where]
Plain(k) == Stroke(k, FALSE, {})
Keymap == [inbox |-> [chord |-> <<Plain("g")>>, key |-> <<Plain("u")>>],
           read |-> [chord |-> <<>>, key |-> <<Stroke("u", TRUE, {})>>],
           all |-> [chord |-> <<>>, key |-> <<Stroke("u", FALSE, {"Shift"})>>],
           menu |-> [chord |-> <<>>, key |-> <<Plain("u")>>],
           help |-> [chord |-> <<>>, key |-> <<Stroke("?", FALSE, {"Shift"})>>]]
Remapped == [Keymap EXCEPT !.menu = [chord |-> <<>>, key |-> <<Plain("Enter")>>],
                           !.read = Keymap.help]
KeyPresses ==
  {Strike(k, FALSE, {}, where) : k \in {"g", "u"}, where \in {"page", "tree"}}
    \cup {Strike("u", TRUE, {"Shift"}, "page"), Strike("u", TRUE, {}, "page"),
          Strike("u", FALSE, {}, "field"), Strike("?", FALSE, {"Shift"}, "page"),
          [Strike("foreign letter", FALSE, {}, "page") EXCEPT !.code = "u"],
          Strike("u", TRUE, {"Shift"}, "tree"), Strike("Enter", FALSE, {}, "tree"),
          Strike("Space", FALSE, {"Shift"}, "tree"), Strike("Enter", FALSE, {}, "page"),
          Strike("Shift", FALSE, {"Shift"}, "page")}
KeyUsers == DOMAIN Keymap
KeySigns == {"?", "\\"}
WideKeys == {"Space"}
NamedOnes == {"Enter", "Shift"}
TreesOwn == {"Enter"}
Keys == INSTANCE Hotkeys WITH
  Users <- KeyUsers, HotkeyOf <- Keymap, OtherKeyOf <- Remapped,
  Presses <- KeyPresses, Signs <- KeySigns, Wide <- WideKeys, Named <- NamedOnes,
  TreeKeys <- TreesOwn, MoveKeys <- {}, Mod <- "Control", Window <- 1,
  MaxTurns <- 4, heard <- keyHeard, turns <- keyTurns

PageKids == [p \in {"root", "a", "b", "c"} |->
  CASE p = "root" -> <<"a", "c">> [] p = "a" -> <<"b">> [] OTHER -> <<>>]
Page == INSTANCE PagesClient WITH
  Pages <- {"a", "b", "c"}, Open <- "b", Touched <- {"a"}, Root <- "root",
  InitKids <- PageKids, Titles <- {"", "x"}, OtherTitle <- "y", MaxChanges <- 2,
  NoPage <- "none", kids <- pageKids, loaded <- pageLoaded, draft <- pageDraft,
  unsaved <- pageUnsaved, undoable <- pageUndoable, redoable <- pageRedoable, changes <- pageChanges

Channel == [inbox |-> "notifications", data |-> "notifications", workspace |-> "w"]
ASSUME SocketAssumption == ChannelsAssumption
ASSUME SignInAssumption == SignAssumption

Enclosing == [t \in {"a", "b", "row"} |-> IF t = "b" THEN "row" ELSE Nothing]
Says(text, reason, hotkey) ==
  [text |-> text, reason |-> reason, keys |-> hotkey, overflow |-> FALSE, name |-> "Save", truncated |-> FALSE]
Cut(name, truncated) ==
  [text |-> "", reason |-> "", keys |-> "", overflow |-> TRUE, name |-> name, truncated |-> truncated]
Infos == [a |-> <<Says("Save", "", ""), Says("Save", "", "mod+s"), Says("Save", "Read only", "")>>,
          b |-> <<Says("Save to", "", ""), Says("", "", "")>>,
          row |-> <<Cut("Title", TRUE), Cut("Title", FALSE), Cut("Other", TRUE)>>]
Tip == INSTANCE Tooltips WITH
  Triggers <- DOMAIN Enclosing, Outer <- Enclosing, InfosOf <- Infos,
  Layers <- {{"row", "b"}, {}}, expanded <- expandedTips, layers <- tipLayers, Hosts <- {"h1", "h2"}, MaxEvents <- 4, focus <- tipFocus,
  active <- tipActive, view <- tipView, events <- tipEvents

Edit == INSTANCE Cells WITH
  Cells <- 1 .. 3, ReadOnly <- {2}, Required <- {1}, Texts <- {"", " ", "c", "long"}, Blank <- {"", " "},
  Bad <- {"long"}, TextKeys <- {"c", "e", "j"}, AppLetters <- {"j"}, NoText <- "none", MaxCellSteps <- 3,
  value <- editValue, status <- editStatus, unsaved <- editUnsaved,
  editing <- editEditing, draft <- editDraft, focus <- editFocus

Control == INSTANCE Controls WITH
  SpinDelay <- 2, SpinMin <- 3, Errors <- {1, 2}, Typed <- {"", "t", "u"},
  Options <- <<"s1", "s2", "s3">>, NoOption <- "none", used <- usedControl, error <- controlError, value <- controlValue

List == INSTANCE Lists WITH
  RowKeys <- {"a", "b", "c"}, Hole <- "hole", Height <- 1, Overscan <- 0,
  EndThreshold <- 0, NoKey <- "none", MaxRowChanges <- 4, loaded <- rowsLoaded,
  asked <- rowsAsked

SpaceSlugs == [w \in {"A", "B"} |-> IF w = "A" THEN "a" ELSE "b"]
Space == INSTANCE Workspaces WITH
  Spaces <- <<"A", "B">>, Personal <- "B", Slugs <- {"a", "b", "c"},
  InitSlugs <- SpaceSlugs, InitMine <- {"B"}, NoSpace <- "none", MaxTurns <- 2,
  at <- spaceAt, turns <- spaceTurns

Side == INSTANCE Sidebar WITH Spaces <- {"A", "B"}, Roles <- {"r"}, MaxCount <- 2

-----------------------------------------------------------------------------
Components == {"tree", "toasts", "frame", "menus", "overlays", "palette",
               "hotkeys", "pages", "socket", "sign-in", "tooltips",
               "cells", "controls", "lists", "workspaces"}

ClientInit ==
  /\ which \in Components
  /\ TreeInit /\ ToastInit /\ ShellInit /\ Menu!MenuInit
  /\ OverlayInit /\ Search!PaletteInit /\ Keys!KeyInit
  /\ Page!PagesInit /\ ChannelsInit /\ SignInit /\ Tip!TipInit
  /\ which # "controls" => controlError = 0 /\ usedControl = "field"
  /\ which # "sign-in" => ~stored /\ returnTo = "/"      \* one start for the others
  /\ Edit!CellInit /\ Control!ControlInit /\ List!ListInit /\ Space!SpaceInit

ofMenu == <<isOpen, mounted, inner, mark, filter, busy, failed, promises, off,
            openedFrom, menuAt, choices>>
ofSearch == <<registered, open, searchQuery, searchScope, steps, confirming,
              confirmCursor, searchCursor, search, searchAsked, searchLate, answered,
              done>>
ofKeys == <<hotkeys, rendered, asks, chord, listening, order, keyHeard, keyTurns>>
ofPage == <<pageKids, title, trash, pageLoaded, tree, shown, under, fetch, requests,
            channel, stale, missed, pageDraft, saved, focused, pageUnsaved,
            pageUndoable, pageRedoable, pageChanges>>
ofTip == <<content, unmounted, expandedTips, tipLayers, pointer, tipFocus, hosts, tipActive, waits,
           tipView, lately, suppressed, described, tipEvents>>
ofEdit == <<server, editValue, editStatus, editUnsaved, editEditing, leaving, start,
            editDraft, settled, editFocus, settles, dropped, committed, cellSteps>>
ofControl == <<usedControl, controlError, fieldFocused, errorVisible, fieldText, final,
               fieldOff, heldBack, buttonOff, groupOff, loading, spins, shownFor,
               spinTimer, works, idleFor, checked, boxOff, nativeChecked, nativeMixed,
               controlValue, unavailable>>
ofList == <<rows, rowsLoaded, top, cursorKey, reported, told, rowsAsked, drag, record,
            fresh, rowChanges>>
ofSpace == <<slugOf, formerOf, mine, deleted, list, listError, listCall, resolved,
             resolveError, resolveCall, listIsNewer, spaceAt, lastId, goneSince,
             spaceTurns>>

\* The others stay as they are.
Only(component) ==
  /\ which = component /\ which' = which
  /\ IF component = "tree" THEN TRUE ELSE UNCHANGED treeVars
  /\ IF component = "toasts" THEN TRUE ELSE UNCHANGED toastVars
  /\ IF component = "frame" THEN TRUE ELSE UNCHANGED shellVars
  /\ IF component = "menus" THEN TRUE ELSE UNCHANGED ofMenu
  /\ IF component = "overlays" THEN TRUE ELSE UNCHANGED overlayVars
  /\ IF component = "palette" THEN TRUE ELSE UNCHANGED ofSearch
  /\ IF component = "hotkeys" THEN TRUE ELSE UNCHANGED ofKeys
  /\ IF component = "pages" THEN TRUE ELSE UNCHANGED ofPage
  /\ IF component = "socket" THEN TRUE ELSE UNCHANGED channelVars
  /\ IF component = "sign-in" THEN TRUE ELSE UNCHANGED signVars
  /\ IF component = "tooltips" THEN TRUE ELSE UNCHANGED ofTip
  /\ IF component = "cells" THEN TRUE ELSE UNCHANGED ofEdit
  /\ IF component = "controls" THEN TRUE ELSE UNCHANGED ofControl
  /\ IF component = "lists" THEN TRUE ELSE UNCHANGED ofList
  /\ IF component = "workspaces" THEN TRUE ELSE UNCHANGED ofSpace

ClientNext ==
  \/ Only("tree") /\ TreeNext
  \/ Only("toasts") /\ ToastNext
  \/ Only("frame") /\ ShellNext
  \/ Only("menus") /\ Menu!MenuNext
  \/ Only("overlays") /\ OverlayNext
  \/ Only("palette") /\ Search!PaletteNext
  \/ Only("hotkeys") /\ Keys!KeyNext
  \/ Only("pages") /\ Page!PagesNext
  \/ Only("socket") /\ ChannelsNext
  \/ Only("sign-in") /\ SignNext
  \/ Only("tooltips") /\ Tip!TipNext
  \/ Only("cells") /\ Edit!CellNext
  \/ Only("controls") /\ Control!ControlNext
  \/ Only("lists") /\ List!ListNext
  \/ Only("workspaces") /\ Space!SpaceNext

-----------------------------------------------------------------------------
\* The tree keeps its cursor, shows the open page and loads what it opened, whatever happens
\* to its nodes, and a node lands where the line showed it (ui-kit: Tree).
TreeAgrees ==
  /\ [](which = "tree" => TreeKeepsSight)
  /\ [][which = "tree" => MovesLandWhereShown]_treeVars

\* An operation of a menu runs once at a time, and the focus is in the menu while it is open
\* and back where it was opened after (ui-kit: Menu).
MenusAgree ==
  /\ [](which = "menus" => Menu!OneRunEach /\ Menu!FocusIsThere)
  /\ [][which = "menus" => Menu!StartsFromTheMenu]_ofMenu

\* The palette shows answers to what its field holds, and nothing runs that was disabled or
\* had to be confirmed and was not (ui-kit: CommandPalette).
PaletteAnswers == which = "palette" => Search!PaletteAnswers

\* The registry holds what is mounted, a key calls the last registration, a menu and the registry
\* read a key alike but for the Wide ones, and the keys shown are hotkeys of what they stand beside
\* but for four that are nobody's (ui-kit: hotkeys, Kbd).
HotkeysAgree ==
  /\ Keys!ShownKeysAnswer
  /\ [](which = "hotkeys" => Keys!RegistryIsMounted /\ Keys!OneSpelling)
  /\ [][which = "hotkeys" => Keys!CallsTheTop]_ofKeys


\* What a tooltip says is its trigger's now, it does not stay behind, and it is placed inside
\* the window (ui-kit: Tooltip).
TooltipTells == which = "tooltips" => Tip!TooltipTells

\* An edit in place is settled once, a failed one keeps its text, the focus comes back and the
\* next edit starts from the latest value (ui-kit: InlineInput).
CellsAgree ==
  /\ [](which = "cells" => Edit!EditsSettleOnce /\ Edit!FailuresKeepTheirText)
  /\ [][which = "cells" => Edit!FocusComesBack /\ Edit!StartsFromTheLatest]_ofEdit

\* A field says its error and never starts saying it in mid-word, a spinner lasts, a box and
\* segments show what their owner holds (ui-kit: Input, Button, Checkbox, Segmented).
ControlsAgree ==
  /\ [](which = "controls" => Control!ErrorsAreSaid /\ Control!SpinnerFollows
                              /\ Control!BoxShowsItsOwner /\ Control!SegmentsReach)
  /\ [][which = "controls" => Control!NoErrorMidWord /\ Control!SpinsItsTime]_ofControl

\* The rows in use stay mounted, more is asked for once, and a drop lands at the line (ui-kit:
\* VirtualList).
ListsAgree ==
  /\ [](which = "lists" => List!PinnedStayMounted /\ List!AsksOnce)
  /\ [][which = "lists" => List!LandsAtTheLine]_ofList

\* A workspace called missing is missing, no address is stuck, and an old slug gives way to the
\* workspace's own once (shared/workspaces, app/Layout).
SpacesOpen ==
  /\ Side!MenuReads /\ Side!UnreadIsSaidOnce
  /\ [](which = "workspaces" => Space!MissingIsTrue /\ Space!NeverStuck)
  /\ [][which = "workspaces" => Space!CanonicalAtOnce]_ofSpace
=============================================================================
