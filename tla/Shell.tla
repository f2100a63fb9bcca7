------------------------------- MODULE Shell --------------------------------
(***************************************************************************)
(* The application frame (components/AppShell, components/Resizer): the    *)
(* widths and modes of the sidebar and the panel for a window width and    *)
(* the user's preferences, the gestures that change them, the sidebar      *)
(* opened over the canvas (peek), and where the focus goes when a part of  *)
(* the frame leaves.  The preferences are kept in the browser's storage,   *)
(* which other tabs write too.                                             *)
(***************************************************************************)
EXTENDS Integers

CONSTANTS Widths,        \* the frame's widths, px
          InitWidth,
          SidebarRaws,   \* the widths a pointer or a key asks of the sidebar
          PanelRaws,     \* and of the panel
          OtherPrefs,    \* what another tab writes
          MaxGestures,   \* bound on the gestures
          Absent         \* no gesture, no draft, no focus to go back to

Preferences == [sidebarWidth : Int, sidebarCollapsed : BOOLEAN, panelWidth : Int]
Gestures == [side : {"sidebar", "panel"}, width : Int, snapped : BOOLEAN]
Parts == {"canvas", "panel", "pages", "toggle"}

ASSUME ShellAssumption ==
  /\ Widths \subseteq Nat /\ InitWidth \in Nat
  /\ SidebarRaws \subseteq Int /\ PanelRaws \subseteq Int
  /\ OtherPrefs \in Preferences
  /\ Absent \notin Preferences \cup Gestures \cup Parts

\* The tokens and thresholds the code uses (tokens.generated.ts, resolveShell.ts).
SidebarMin == 200
SidebarMax == 420
SidebarSnap == 140
SidebarCollapsed == 48
PanelMin == 360
PanelMax == 640
CanvasMin == 480
BpSidebar == 1100
BpPanel == 900
Hysteresis == 16
OverlayGutter == 24

Lesser(a, b) == IF a < b THEN a ELSE b
Greater(a, b) == IF a > b THEN a ELSE b
Clamp(value, low, high) == Lesser(high, Greater(low, value))

Prefs(sidebar, collapsed, panel) ==
  [sidebarWidth |-> sidebar, sidebarCollapsed |-> collapsed, panelWidth |-> panel]

ShellLayout(sidebar, side, panel, px, canvas) ==
  [sidebar |-> sidebar, sidebarPx |-> side, panel |-> panel, panelPx |-> px, canvasPx |-> canvas]

DefaultPrefs == Prefs(260, FALSE, 420)

ClampPrefs(p) == Prefs(Clamp(p.sidebarWidth, SidebarMin, SidebarMax), p.sidebarCollapsed,
                       Clamp(p.panelWidth, PanelMin, PanelMax))

SidebarMode(w, p, previous) ==
  LET threshold == IF previous.sidebar = "auto-collapsed" THEN BpSidebar + Hysteresis ELSE BpSidebar
  IN  CASE w < threshold -> "auto-collapsed"
        [] w >= threshold /\ p.sidebarCollapsed -> "collapsed"
        [] OTHER -> "expanded"

DocksByWidth(w, room, previous) ==   \* mutant: the canvas is not asked for its minimum
  w >= (IF previous.panel = "overlay" THEN BpPanel + Hysteresis ELSE BpPanel)

\* The panel docks while the canvas keeps its minimum.
Docks(w, room, previous) ==
  /\ w >= (IF previous.panel = "overlay" THEN BpPanel + Hysteresis ELSE BpPanel)
  /\ room >= PanelMin

\* The frame's widths and modes; the preferences are not changed.
ResolveShell(w, p, open, previous) ==
  LET sidebar == SidebarMode(w, p, previous)
      side == IF sidebar = "expanded" THEN p.sidebarWidth ELSE SidebarCollapsed
      room == w - side - CanvasMin
      docked == Lesser(p.panelWidth, room)
      overlay == Greater(0, Lesser(p.panelWidth, w - side - OverlayGutter))
  IN  CASE ~open -> ShellLayout(sidebar, side, "closed", 0, w - side)
        [] open /\ Docks(w, room, previous) ->
             ShellLayout(sidebar, side, "docked", docked, w - side - docked)
        [] OTHER -> ShellLayout(sidebar, side, "overlay", overlay, w - side)

\* How wide the panel may be dragged.
PanelMaxFor(w, l) ==
  Greater(PanelMin, Lesser(PanelMax, w - l.sidebarPx - (IF l.panel = "overlay" THEN OverlayGutter ELSE CanvasMin)))

NoLayout == ShellLayout("none", 0, "none", 0, 0)

\* What the browser keeps; nothing there, or nothing this version knows, is the defaults.
ReadPrefs(kept) == IF kept = Absent THEN DefaultPrefs ELSE ClampPrefs(kept)

VARIABLES vw, prefs, panelOpen, peek, layout,   \* the store
          gesture,     \* a drag or a held key: [side, width, snapped]
          draft,       \* the preferences a gesture has reached
          cut,         \* a gesture's border left the screen before its end
          storedPrefs,      \* the browser's storage
          prefsHeard,       \* no storage event is on its way to this tab
          focus,       \* "canvas", "panel", or in the sidebar "pages" or "toggle"
          before,      \* where the focus was before the peek
          gestures     \* counts toward MaxGestures

store == <<vw, prefs, panelOpen, peek, layout>>
hands == <<gesture, draft, cut, gestures>>
storage == <<storedPrefs, prefsHeard>>
focuses == <<focus, before>>
shellVars == <<store, hands, storage, focuses>>

WritePrefs(p) == storedPrefs' = p

StoreInit == /\ storedPrefs = Absent
             /\ vw = InitWidth /\ prefs = ReadPrefs(storedPrefs) /\ panelOpen = FALSE /\ peek = FALSE
             /\ layout = ResolveShell(vw, prefs, FALSE, NoLayout)
HandsInit == gesture = Absent /\ draft = Absent /\ cut = FALSE /\ gestures = 0
FocusInit == focus = "canvas" /\ before = Absent

ShellInit == StoreInit /\ HandsInit /\ FocusInit /\ prefsHeard = TRUE

\* The border of the region is on screen.
HasBorder(side, l, peeking, open) ==
  IF side = "panel" THEN open ELSE l.sidebar # "auto-collapsed" /\ ~peeking

\* A border that leaves the screen takes its gesture along, not the draft.
BordersLeave(l, over, open) ==
  LET stays == gesture # Absent => HasBorder(gesture.side, l, over, open)
  IN  gesture' = (IF stays THEN gesture ELSE Absent) /\ cut' = (cut \/ ~stays)

\* The sidebar's icons only; over the canvas, and in its column, all of it.
Rail(l, over) == l.sidebar # "expanded" /\ ~over

SidebarParts == {"pages", "toggle"}
OnRail(part) == part # "pages"

\* What has the focus and is not in the new view gives it to the toggle, or to itself there.
FocusAcrossRail(rail) == IF rail /\ ~OnRail(focus) THEN "toggle" ELSE focus

\* A peek that ends takes the focus back to where it was before.
FocusFromPeek(at, over) ==
  IF peek /\ ~over /\ before # Absent /\ at \in SidebarParts THEN before ELSE at

FocusFromPanel(at, open) == IF at = "panel" /\ ~open THEN "canvas" ELSE at

\* A peek lives only over a collapsed sidebar.
PeekFor(l, wanted) == wanted /\ l.sidebar # "expanded"

\* The frame after a change of its inputs: a layout with the last one's hysteresis, and the
\* focus moves out of what closed.
Relayout(w, p, open, wanted) ==
  LET l == ResolveShell(w, p, open, layout)
      over == PeekFor(l, wanted)
  IN  /\ vw' = w /\ prefs' = p /\ panelOpen' = open /\ layout' = l /\ peek' = over
      /\ BordersLeave(l, over, open)
      /\ before' = IF over THEN (IF peek THEN before ELSE FocusAcrossRail(FALSE)) ELSE Absent
      /\ focus' = FocusFromPanel(FocusFromPeek(FocusAcrossRail(Rail(l, over)), over), open)

SyncPrefs(p) == Relayout(vw, p, panelOpen, peek)

\* A finished gesture or an act: the preference applied and remembered.
CommitPrefs(p) == SyncPrefs(ClampPrefs(p)) /\ WritePrefs(ClampPrefs(p)) /\ UNCHANGED prefsHeard

SetPeek(wanted) == Relayout(vw, prefs, panelOpen, wanted)

-----------------------------------------------------------------------------
(* The window, the other tabs, the app.                                    *)

SetViewport(w) == w # vw /\ Relayout(w, prefs, panelOpen, peek)

\* A frame that is not laid out keeps the last width.
Measure(w) == w > 0 /\ SetViewport(w) /\ UNCHANGED <<draft, gestures, storage>>

SetPanelOpen(open) ==
  /\ open # panelOpen
  /\ Relayout(vw, prefs, open, peek)
  /\ UNCHANGED <<draft, gestures, storage>>

OtherTabWrites ==
  /\ storedPrefs' = OtherPrefs /\ prefsHeard' = FALSE /\ storedPrefs # OtherPrefs
  /\ UNCHANGED <<store, hands, focuses>>

StorageEvent ==
  /\ ~prefsHeard /\ prefsHeard' = TRUE
  /\ SyncPrefs(ReadPrefs(storedPrefs))
  /\ UNCHANGED <<draft, gestures, storedPrefs>>

\* The hotkey: collapse or expand; in a narrow window, open over the canvas.
ToggleSidebar ==
  /\ gesture = Absent /\ gestures < MaxGestures /\ gestures' = gestures + 1
  /\ IF layout.sidebar = "auto-collapsed"
     THEN SetPeek(~peek) /\ UNCHANGED storage
     ELSE CommitPrefs([prefs EXCEPT !.sidebarCollapsed = ~@])
  /\ UNCHANGED draft

\* A button of the rail.
OpenPeek ==
  /\ layout.sidebar # "expanded" /\ ~peek
  /\ SetPeek(TRUE)
  /\ UNCHANGED <<draft, gestures, storage>>

\* A click elsewhere, a navigation, or the first step of Esc.
ClosePeek ==
  /\ peek
  /\ SetPeek(FALSE)
  /\ UNCHANGED <<draft, gestures, storage>>

\* Esc: the peek, then the panel.
LeavePanel == ~peek /\ SetPanelOpen(FALSE)

\* The app's own reset of the widths (useShell).
ResetWidths ==
  /\ gesture = Absent /\ gestures < MaxGestures /\ gestures' = gestures + 1
  /\ CommitPrefs([DefaultPrefs EXCEPT !.sidebarCollapsed = prefs.sidebarCollapsed])
  /\ UNCHANGED draft

TrackFocus(part) ==
  /\ part # focus
  /\ part = "panel" => panelOpen
  /\ Rail(layout, peek) => OnRail(part)
  /\ focus' = part
  /\ UNCHANGED <<store, hands, storage, before>>

-----------------------------------------------------------------------------
(* The borders.                                                            *)

Region(side) == IF side = "sidebar"
                THEN [value |-> IF layout.sidebar = "expanded" THEN layout.sidebarPx ELSE SidebarCollapsed,
                      min |-> SidebarMin, max |-> SidebarMax, collapsed |-> layout.sidebar # "expanded"]
                ELSE [value |-> layout.panelPx, min |-> PanelMin, max |-> PanelMaxFor(vw, layout),
                      collapsed |-> FALSE]

\* Every frame of a gesture: the draft, and what is painted, not the state.
Live(side, px) ==
  LET from == IF draft = Absent THEN prefs ELSE draft
  IN  draft' = IF side = "sidebar" THEN [from EXCEPT !.sidebarWidth = px]
                                   ELSE [from EXCEPT !.panelWidth = px]

StartGesture(side) ==
  /\ gesture = Absent /\ gestures < MaxGestures /\ gestures' = gestures + 1
  /\ HasBorder(side, layout, peek, panelOpen)
  /\ gesture' = [side |-> side, width |-> Region(side).value, snapped |-> Region(side).collapsed]
  /\ UNCHANGED <<store, draft, cut, storage, focuses>>

\* Past the snap the sidebar collapses, and back over it expands, at once: in the draft and
\* in the store, not in the storage; the width it had is kept.
SnapSidebar(snapped, width) ==
  LET from == IF draft = Absent THEN prefs ELSE draft
  IN  /\ draft' = [from EXCEPT !.sidebarCollapsed = snapped,
                               !.sidebarWidth = IF snapped THEN @ ELSE width]
      /\ prefs' = [prefs EXCEPT !.sidebarCollapsed = snapped]
      /\ layout' = ResolveShell(vw, prefs', panelOpen, layout)
      /\ focus' = FocusAcrossRail(Rail(layout', peek))
      /\ UNCHANGED <<vw, panelOpen, peek, cut, before>>

\* The pointer, or a key, asks for a width.
Reach(px) ==
  /\ gesture # Absent
  /\ LET side == gesture.side
         snapped == side = "sidebar" /\ px < SidebarSnap
         width == Clamp(px, Region(side).min, Region(side).max)
     IN  IF snapped # gesture.snapped
         THEN /\ gesture' = [gesture EXCEPT !.snapped = snapped,
                                            !.width = IF snapped THEN @ ELSE width]
              /\ SnapSidebar(snapped, width)
         ELSE /\ ~snapped
              /\ gesture' = [gesture EXCEPT !.width = width]
              /\ Live(side, width)
              /\ UNCHANGED <<store, cut, focuses>>
  /\ UNCHANGED <<gestures, storage>>

\* The pointer or the key is up: now it is state, and remembered.
Committed(side, width) ==
  LET collapsed == IF draft = Absent THEN prefs.sidebarCollapsed ELSE draft.sidebarCollapsed
  IN  IF side = "panel" THEN [prefs EXCEPT !.panelWidth = width]
      ELSE IF collapsed THEN [prefs EXCEPT !.sidebarCollapsed = TRUE]
           ELSE [prefs EXCEPT !.sidebarCollapsed = FALSE, !.sidebarWidth = width]

Finish(side, width) ==
  LET p == ClampPrefs(Committed(side, width))
  IN  /\ draft' = Absent /\ gesture' = Absent
      /\ prefs' = p /\ WritePrefs(p)
      /\ layout' = ResolveShell(vw, p, panelOpen, layout)
      /\ peek' = PeekFor(layout', peek)
      /\ focus' = FocusAcrossRail(Rail(layout', peek'))
      /\ UNCHANGED <<vw, panelOpen, cut, gestures, prefsHeard, before>>

EndGesture == gesture # Absent /\ Finish(gesture.side, gesture.width)

\* Double click, Enter.
Reset(side) ==
  /\ gesture = Absent /\ HasBorder(side, layout, peek, panelOpen) /\ gestures < MaxGestures
  /\ LET p == IF side = "panel" THEN [prefs EXCEPT !.panelWidth = DefaultPrefs.panelWidth]
              ELSE [prefs EXCEPT !.sidebarCollapsed = FALSE, !.sidebarWidth = DefaultPrefs.sidebarWidth]
     IN  CommitPrefs(p)
  /\ draft' = Absent /\ gestures' = gestures + 1

ShellNext ==
  \/ \E w \in Widths : Measure(w)
  \/ \E open \in BOOLEAN : SetPanelOpen(open)
  \/ OtherTabWrites \/ StorageEvent
  \/ ToggleSidebar \/ OpenPeek \/ ClosePeek \/ LeavePanel \/ ResetWidths
  \/ \E part \in {"canvas", "panel"} \cup SidebarParts : TrackFocus(part)
  \/ \E side \in {"sidebar", "panel"} : StartGesture(side)
  \/ \E px \in SidebarRaws \cup PanelRaws : Reach(px)
  \/ EndGesture
  \/ \E side \in {"sidebar", "panel"} : Reset(side)

ShellSpec == ShellInit /\ [][ShellNext]_shellVars

-----------------------------------------------------------------------------
(* What the frame keeps.                                                   *)

\* What is painted: the layout, or the one of the gesture's draft.
Painted == IF draft = Absent THEN layout ELSE ResolveShell(vw, draft, panelOpen, layout)

\* The columns of the grid; an overlay has none.
Columns(l) == [sidebar |-> l.sidebarPx, panel |-> IF l.panel = "docked" THEN l.panelPx ELSE 0]

\* A docked panel leaves the canvas its minimum, in every frame of a gesture too; the
\* columns fill the frame the window has now, and no part is wider.
CanvasKeepsItsRoom ==
  \A l \in {layout, Painted} :
    /\ Columns(l).sidebar + Columns(l).panel + l.canvasPx = vw
    /\ l.panel = "docked" => l.canvasPx >= CanvasMin /\ l.panelPx >= PanelMin
    /\ l.panel = "overlay" => l.sidebarPx + l.panelPx <= Greater(vw, l.sidebarPx)

\* Outside the band of the hysteresis the sidebar shows what the window and the user say,
\* however the window got there: narrowed and widened back, it is as it was.
WideIsAsItWas ==
  vw < BpSidebar \/ vw >= BpSidebar + Hysteresis =>
    layout.sidebar = SidebarMode(vw, prefs, NoLayout)

\* A peek is over a collapsed sidebar, and the focus is in no part that is gone.
PartsAreThere == /\ peek => layout.sidebar # "expanded"
                 /\ focus = "panel" => panelOpen
                 /\ Rail(layout, peek) => OnRail(focus)
                 /\ before # Absent => peek

\* With no gesture and no event on its way, the frame has the preferences the browser
\* remembers, and paints what it has; a gesture cut short is the exception.
SettledIsStored ==
  gesture = Absent /\ prefsHeard /\ ~cut => prefs = ReadPrefs(storedPrefs) /\ draft = Absent

\* The frame: AppShell.tsx, shellStore.ts, resolveShell.ts, Resizer.tsx.
FrameHolds == CanvasKeepsItsRoom /\ WideIsAsItWas /\ PartsAreThere /\ SettledIsStored
=============================================================================
