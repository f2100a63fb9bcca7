------------------------------ MODULE Overlays ------------------------------
(***************************************************************************)
(* What stands over the page: popovers and menus on their triggers, the    *)
(* app's single layer (the command palette), an edit in place, the panel   *)
(* of the frame; the one-overlay-at-a-time rule, the Esc ladder, and the   *)
(* focus that goes back to who opened what closes.  overlay/,              *)
(* interaction/escape, interaction/layers, components/Popover, KitRoot.    *)
(***************************************************************************)
EXTENDS Naturals, Sequences, FiniteSets, SequencesExt, Selections

CONSTANTS Panels,     \* the popovers and menus
          TriggerOf,  \* [Panels -> their buttons]
          Palette,    \* the layer's content
          Cell,       \* an element edited in place
          NoOne

Levels == {"frame", "edit", "layer"}   \* of the Esc ladder

\* The panels, the palette, the cell and the page are elements apart from each other.
ASSUME OverlayAssumption ==
  /\ Palette # Cell /\ "page" \notin {Palette, Cell}
  /\ Panels \cap {Palette, Cell, "page"} = {}
  /\ NoOne \notin Panels \cup {Palette, Cell, "page"} \cup Levels

Closable == Panels \cup {Palette}
Spots == {TriggerOf[o] : o \in Panels} \cup Panels \cup {Palette, Cell, "page"}

VARIABLES openPanels,  \* the popovers and menus that are open
          fading,      \* closed, and still in the DOM for their exit animation
          current,     \* the overlay on screen now (active in useExclusiveOverlay)
          layer,       \* Palette or NoOne
          openedBy,    \* where the focus was when the layer opened
          query,       \* the palette's field holds something to clear
          editing,     \* the cell is edited
          drawer,      \* the frame's panel is open
          ladder,      \* the stack of the Esc ladder
          spot,        \* the focus
          lastEsc      \* how many things the last press of Esc undid

onScreen == <<openPanels, fading, current>>
overlayVars == <<onScreen, layer, openedBy, query, editing, drawer, ladder, spot, lastEsc>>

PanelsInit == openPanels = {} /\ fading = {}
ExclusiveInit == current = NoOne
LayerState(content, opener) == layer = content /\ openedBy = opener
FieldInit == query = FALSE
PanelInit == drawer = FALSE
EscapeState(stack) == ladder = stack

OverlayInit ==
  /\ PanelsInit /\ ExclusiveInit /\ LayerState(NoOne, NoOne) /\ FieldInit /\ PanelInit
  /\ EscapeState(<<"frame">>)       \* the frame registers its level while it is mounted
  /\ editing = FALSE /\ spot = "page" /\ lastEsc = 0

\* The element can take the focus.
Mounted(e, panels, top, edits) ==
  CASE e \in Panels -> e \in panels
    [] e = Palette -> top = Palette
    [] e = Cell -> edits
    [] OTHER -> e # NoOne

\* The focus asked for an element; a gone one leaves it on the page.
FocusOn(e, panels, top, edits) == IF Mounted(e, panels, top, edits) THEN e ELSE "page"

\* Leaving the cell saves it, and the edit's level leaves the ladder.
AfterBlur(edits, goesTo) == edits /\ goesTo = Cell
Disposed(s, e) == Those(s, Levels \ {e})

\* The next overlays, layer and focus; what closed keeps its place in the DOM for its exit,
\* and each level of the ladder follows what it stands for, in the order they opened.
Become(panels, top, wanted, edits) ==
  LET focused == FocusOn(wanted, panels, top, edits)
      edits2 == AfterBlur(edits, focused)
      base == IF edits2 THEN ladder ELSE Disposed(ladder, "edit")
      levels == IF top = NoOne THEN Disposed(base, "layer")
                ELSE IF layer = NoOne THEN Append(base, "layer") ELSE base
  IN  /\ openPanels' = panels /\ layer' = top
      /\ fading' = (fading \cup (openPanels \ panels)) \ panels
      /\ editing' = edits2
      /\ ladder' = IF edits2 /\ ~editing THEN Append(levels, "edit") ELSE levels
      /\ spot' = focused

\* Closing the layer gives the focus back to who opened it.
LayerClosed(panels) ==
  /\ Become(panels, NoOne, openedBy, editing)
  /\ openedBy' = NoOne /\ query' = FALSE

TakesPlaceBesides(o) == openPanels \cup {o}      \* mutant: the one already open stays
TakesPlace(o) == IF current \in Panels THEN (openPanels \ {current}) \cup {o} ELSE openPanels \cup {o}

\* A popover or a menu opens, by a click or by a key: the one already open closes.  Behind
\* the palette's scrim nothing is clicked, but a controlled one may still be opened.
OpenPanel(o) ==
  /\ o \notin openPanels
  /\ current' = o /\ lastEsc' = 0
  /\ IF current = Palette
     THEN /\ Become({o}, NoOne, o, editing) /\ openedBy' = NoOne /\ query' = FALSE
     ELSE /\ Become(TakesPlace(o), layer, o, editing) /\ UNCHANGED <<openedBy, query>>
  /\ UNCHANGED drawer

\* Its x, a second click on the trigger, Tab out, its trigger out of view: the focus goes
\* back to the trigger, or where a click put it.
ClosePanel(o, goesTo) ==
  /\ o \in openPanels /\ goesTo \in {TriggerOf[o], "page"}
  /\ current' = IF current = o THEN NoOne ELSE current
  /\ Become(openPanels \ {o}, layer, IF spot \in {o} THEN goesTo ELSE spot, editing)
  /\ lastEsc' = 0
  /\ UNCHANGED <<openedBy, query, drawer>>

\* The end of the exit animation, or the timer for a tab that gets no event.
Unmounts(o) ==
  /\ o \in fading /\ fading' = fading \ {o}
  /\ UNCHANGED <<openPanels, current, layer, openedBy, query, editing, drawer, ladder, spot, lastEsc>>

\* Who gets the focus back: remembered when the first layer opens.
Opener == IF layer = NoOne THEN spot ELSE openedBy

\* mod+K, in the capture phase of the window: from any field and over any overlay.
OpenPalette ==
  /\ layer = NoOne
  /\ openedBy' = Opener /\ query' = FALSE /\ current' = Palette /\ lastEsc' = 0
  /\ Become(IF current \in Panels THEN openPanels \ {current} ELSE openPanels, Palette, Palette, editing)
  /\ UNCHANGED drawer

\* mod+K again, a click on the scrim, an item chosen.
ClosePalette ==
  /\ layer = Palette
  /\ LayerClosed(openPanels)
  /\ current' = (IF current = Palette THEN NoOne ELSE current) /\ lastEsc' = 0
  /\ UNCHANGED drawer

TypeQuery ==
  /\ layer = Palette /\ spot = Palette /\ ~query /\ query' = TRUE
  /\ UNCHANGED <<onScreen, layer, openedBy, editing, drawer, ladder, spot, lastEsc>>

StartEdit ==
  /\ layer = NoOne /\ openPanels = {} /\ ~editing
  /\ Become(openPanels, layer, Cell, TRUE) /\ lastEsc' = 0
  /\ UNCHANGED <<current, openedBy, query, drawer>>

EndEdit ==
  /\ editing /\ Become(openPanels, layer, "page", FALSE) /\ lastEsc' = 0
  /\ UNCHANGED <<current, openedBy, query, drawer>>

SetDrawer ==
  /\ drawer' = ~drawer
  /\ UNCHANGED <<onScreen, layer, openedBy, query, editing, ladder, spot, lastEsc>>

-----------------------------------------------------------------------------
(* Esc.                                                                    *)

\* The ladder from its top: the first level that applies takes the press.
TopLevel == LET applies(i) == ladder[i] # "frame" \/ drawer
                found == {i \in DOMAIN ladder : applies(i)}
            IN  IF found = {} THEN NoOne ELSE ladder[CHOOSE i \in found : \A j \in found : j <= i]

\* A press an overlay or the palette's field took is no press for the ladder.
Pressed(taken) == ~taken

\* Zag's overlay hears Esc on the document and takes the press; the palette's field clears
\* itself first; else the ladder steps once.
Escape ==
  LET zag == openPanels # {}
      field == ~zag /\ layer = Palette /\ query /\ spot = Palette
      top == IF Pressed(zag \/ field) THEN TopLevel ELSE NoOne
      o == IF current \in openPanels THEN current ELSE CHOOSE p \in openPanels : TRUE
      panels == IF zag THEN openPanels \ {o} ELSE openPanels
  IN  /\ zag \/ field \/ top # NoOne
      /\ current' = IF (zag /\ current = o) \/ (top = "layer" /\ current = Palette) THEN NoOne ELSE current
      /\ IF top = "layer" THEN LayerClosed(panels)
         ELSE /\ Become(panels, layer, IF zag THEN TriggerOf[o] ELSE IF top = "edit" THEN "page" ELSE spot,
                        editing /\ top # "edit")
              /\ query' = (query /\ ~field) /\ UNCHANGED openedBy
      /\ drawer' = (drawer /\ top # "frame")
      /\ lastEsc' = (IF zag THEN 1 ELSE 0) + (IF field THEN 1 ELSE 0) + (IF top # NoOne THEN 1 ELSE 0)

OverlayNext ==
  \/ \E o \in Panels : OpenPanel(o) \/ Unmounts(o)
  \/ \E o \in Panels, e \in Spots : ClosePanel(o, e)
  \/ OpenPalette \/ ClosePalette \/ TypeQuery \/ StartEdit \/ EndEdit \/ SetDrawer \/ Escape

OverlaySpec == OverlayInit /\ [][OverlayNext]_overlayVars

-----------------------------------------------------------------------------
(* What the overlays keep.                                                 *)

\* One overlay at a time, the one remembered as on screen.
OneAtATime ==
  /\ Cardinality(openPanels \cup ({layer} \ {NoOne})) <= 1
  /\ current \in openPanels \cup {layer}

\* The ladder has a level for each thing open, and none for what closed; the palette is
\* above an edit it was opened over.
LadderIsWhatIsOpen ==
  /\ ToSet(ladder) = {"frame"} \cup (IF editing THEN {"edit"} ELSE {}) \cup (IF layer = Palette THEN {"layer"} ELSE {})
  /\ Len(ladder) = Cardinality(ToSet(ladder))

\* One press of Esc is one step.
OneStepAPress == lastEsc <= 1

\* The focus is in nothing that is gone, and in the palette while it is open.
FocusOnScreen == /\ Mounted(spot, openPanels, layer, editing)
                 /\ layer = Palette => spot = Palette

\* Overlays: useExclusiveOverlay.ts, escape/, layers/, Popover.tsx, CommandPalette/hooks.ts.
OverlaysAgree == OneAtATime /\ LadderIsWhatIsOpen /\ OneStepAPress /\ FocusOnScreen
=============================================================================
