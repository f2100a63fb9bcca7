------------------------------ MODULE Tooltips ------------------------------
(***************************************************************************)
(* The kit's one tooltip (components/Tooltip/TooltipHost.tsx): listeners   *)
(* on the document decide what it shows, for triggers that are plain       *)
(* elements; a mutation observer closes or refreshes it; the first mounted *)
(* host works and the next takes over.  A mouse is the pointer: touch and  *)
(* pen show nothing, a press is anyone's.  The observer is told in the     *)
(* turn of the change.  A delay has no length; the wanted side and the     *)
(* tone of what is shown are left out.                                     *)
(***************************************************************************)
EXTENDS Integers, Sequences, SequencesExt

CONSTANTS Triggers,
          Outer,        \* [Triggers -> the trigger it is inside of, or Nothing]
          InfosOf,      \* [Triggers -> the infos it may be given, one of them first]
          Layers,       \* the overlays that may open, each the triggers it brings along
          Hosts,
          Nothing,
          MaxEvents     \* bound on the changes of the document and of the hosts

VARIABLES
  content,      \* per trigger the info it is given, and its element's own text
  unmounted,    \* the triggers' elements taken out of the document: none comes back
  expanded,     \* the triggers whose menu is open
  layers,       \* the open overlays, the topmost last
  pointer, focus,       \* the innermost trigger under the mouse; the one around the focus
  hosts,        \* mounted, in order: the first works
  active,       \* what is shown or waits: [trigger, source], or nothing
  waits,        \* its delay runs
  view,         \* [trigger, content], or nothing
  lately,       \* one hid within the group window
  suppressed,   \* the trigger pressed, until the pointer leaves it
  described,    \* <<trigger, id>>: its aria-describedby points at the tooltip, or at its keys
  events

dom == <<content, unmounted, expanded, layers>>
tip == <<active, waits, view, lately, described>>
tipVars == <<dom, pointer, focus, hosts, tip, suppressed, events>>

\* The triggers in the document: an overlay's are while it is open.
present == {t \in Triggers \ unmounted : \A layer \in Layers : t \in layer => layer \in ToSet(layers)}
Inside(t, u) == t # Nothing /\ (t = u \/ Outer[t] = u)   \* the element t is in u
Change == events < MaxEvents /\ events' = events + 1

\* A trigger is told what to say; `name` is what it is called without the tooltip.
TooltipProps(text, reason, hotkey, overflow, name, truncated) ==
  [text |-> text, reason |-> reason, keys |-> hotkey, overflow |-> overflow,
   name |-> name, truncated |-> truncated]

TooltipContent(text, hotkey, isReason) == [text |-> text, keys |-> hotkey, isReason |-> isReason]

\* What to show: a reason before any text, the text of an overflow trigger only while it is
\* cut short; <<>> when there is nothing to say.
IsTruncated(info) == info.truncated
ReadTrigger(info) ==
  LET text == IF info.overflow /\ info.text = "" THEN info.name ELSE info.text
  IN  CASE info.reason # "" -> <<TooltipContent(info.reason, "", TRUE)>>
        [] info.reason = "" /\ (text = "" \/ (info.overflow /\ ~IsTruncated(info))) -> <<>>
        [] OTHER -> <<TooltipContent(text, info.keys, FALSE)>>
Says(t) == ReadTrigger(content[t]) # <<>>

TopmostLayer == Last(layers)
IsUnderLayer(t) == layers # <<>> /\ t \notin TopmostLayer
IsSilenced(t) == t \in expanded \/ IsUnderLayer(t)

\* A text that only repeats the trigger's name is not read twice.
DescriptionFor(name, c) ==
  CASE c.isReason \/ c.text # name -> {"tooltip"}
    [] ~c.isReason /\ c.text = name /\ c.keys # "" -> {"tooltip-keys"}
    [] OTHER -> {}

View(t) == [trigger |-> t, content |-> ReadTrigger(content[t])[1]]
Describe(t, info) == {<<t, id>> : id \in DescriptionFor(info.name, ReadTrigger(info)[1])}
Undescribe == described' = {}
Active(t, source) == <<[trigger |-> t, source |-> source]>>

DocumentInit ==
  /\ content = [t \in Triggers |-> InfosOf[t][1]] /\ unmounted = {} /\ expanded = {} /\ layers = <<>>
  /\ pointer = Nothing /\ focus = Nothing
RegistryInit == hosts = <<>>
ViewInit == view = <<>>
HostInit == active = <<>> /\ waits = FALSE /\ lately = FALSE /\ suppressed = Nothing /\ described = {}
TipInit == DocumentInit /\ RegistryInit /\ ViewInit /\ HostInit /\ events = 0

-----------------------------------------------------------------------------
(* What the host does; active and view are empty sequences when there is   *)
(* none.                                                                   *)

Working == hosts # <<>>

HiddenDescribed ==      \* mutant: the trigger keeps pointing at the tooltip
  /\ waits' = FALSE /\ active' = <<>> /\ view' = <<>>
  /\ lately' = (lately \/ view # <<>>) /\ UNCHANGED described

Hidden ==
  /\ waits' = FALSE /\ active' = <<>> /\ view' = <<>>
  /\ lately' = (lately \/ view # <<>>) /\ Undescribe

\* Whatever was shown makes room; `hid`: it was hidden first.
Opens(t, source, hid) ==
  /\ active' = Active(t, source) /\ waits' = FALSE
  /\ view' = <<View(t)>> /\ described' = Describe(t, content[t])
  /\ lately' = (lately \/ (hid /\ view # <<>>))

\* Still there, not silenced, and with something to say; else whatever is shown hides.
Shown(t, source, hid) ==
  IF t \in present /\ ~IsSilenced(t) /\ Says(t) THEN Opens(t, source, hid) ELSE Hidden

\* Right after another tooltip it shows at once, else after its delay.
WithinGroup == view # <<>> \/ lately
Scheduled(t, hid) ==
  IF WithinGroup THEN Opens(t, "hover", hid)
  ELSE /\ active' = Active(t, "hover") /\ waits' = TRUE /\ UNCHANGED <<view, lately, described>>

\* The observer: a trigger gone or silenced hides, a changed attribute is shown anew.
Observed(attributes) ==
  IF view = <<>> THEN UNCHANGED tip
  ELSE \E t \in {view[1].trigger} :
         CASE t \notin present' \/ IsSilenced(t)' \/ (attributes /\ ~Says(t)') -> Hidden
           [] t \in present' /\ ~IsSilenced(t)' /\ ~attributes -> UNCHANGED tip
           [] OTHER -> /\ view' = <<View(t)'>> /\ described' = Describe(t, content'[t])
                       /\ UNCHANGED <<active, waits, lately>>

-----------------------------------------------------------------------------
(* The pointer and the focus.                                              *)

\* pointerout of the old element: its tooltip hides unless the pointer is still inside of it,
\* and the press is over for a trigger the pointer has left.
LeavesHovered(to) == active # <<>> /\ active[1].source = "hover" /\ ~Inside(to, active[1].trigger)
Pressed(to) == IF Inside(to, suppressed) THEN suppressed ELSE Nothing

\* pointerover of the new one: not the pressed one, and no keyboard tooltip is stolen.
Enters(to) ==
  /\ to # Nothing /\ to # Pressed(to) /\ Says(to) /\ ~IsSilenced(to)
  /\ active # <<>> /\ ~LeavesHovered(to) => active[1].source # "focus" /\ active[1].trigger # to

\* Onto another element: of another trigger, or of the same one, or of none.
PointerMoves(to) ==
  /\ to # Nothing => to \in present
  /\ pointer' = to
  /\ suppressed' = IF Working THEN Pressed(to) ELSE suppressed
  /\ CASE ~Working \/ ~(LeavesHovered(to) \/ Enters(to)) -> UNCHANGED tip
       [] Working /\ Enters(to) -> Scheduled(to, LeavesHovered(to))
       [] OTHER -> Hidden
  /\ UNCHANGED <<dom, focus, hosts, events>>

TimerFires ==
  /\ waits /\ Shown(active[1].trigger, active[1].source, FALSE)
  /\ UNCHANGED <<dom, pointer, focus, hosts, suppressed, events>>

GroupWindowEnds ==
  /\ lately /\ lately' = FALSE
  /\ UNCHANGED <<dom, pointer, focus, hosts, active, waits, view, suppressed, described, events>>

\* focusout of the old element, then focusin of the new one; with the focus ring its tooltip is
\* there at once, and whatever was shown is gone. A focus without the ring follows a press, which
\* has hidden the keyboard's tooltip; a script's keeps the ring of the element it leaves.
LeavesFocused(to) == active # <<>> /\ active[1].source = "focus" /\ ~Inside(to, active[1].trigger)
IsKeyboardFocus(how) == how = "keys"
FocusMoves(to, how) ==
  /\ to # Nothing => to \in present
  /\ active # <<>> /\ active[1].source = "focus" => IsKeyboardFocus(how)
  /\ focus' = to
  /\ CASE ~Working -> UNCHANGED tip
       [] Working /\ to # Nothing /\ IsKeyboardFocus(how) -> Shown(to, "focus", LeavesFocused(to))
       [] OTHER -> IF LeavesFocused(to) THEN Hidden ELSE UNCHANGED tip
  /\ UNCHANGED <<dom, pointer, hosts, suppressed, events>>

\* A press of the mouse, or of a finger anywhere.
PointerDown(at) ==
  /\ at # Nothing => at \in present
  /\ Working /\ suppressed' = at /\ Hidden
  /\ UNCHANGED <<dom, pointer, focus, hosts, events>>

\* Esc closes it and whatever the same press closes beneath.
Escape ==
  /\ Working /\ Hidden
  /\ UNCHANGED <<dom, pointer, focus, hosts, suppressed, events>>

\* A scroll, a resize.
ViewportChanges ==
  /\ Working /\ active # <<>> /\ Hidden
  /\ UNCHANGED <<dom, pointer, focus, hosts, suppressed, events>>

-----------------------------------------------------------------------------
(* The document and the hosts.                                             *)

\* Triggers are unmounted. No event tells: the pointer is on what encloses them (its next
\* PointerMoves may say so), the focus nowhere.
LetGo(gone) ==
  /\ pointer' = IF pointer \notin gone THEN pointer
                ELSE IF Outer[pointer] \in gone THEN Nothing ELSE Outer[pointer]
  /\ focus' = IF focus \in gone THEN Nothing ELSE focus

Removed(t) ==
  LET gone == {u \in present : Inside(u, t)}
  IN  /\ Change /\ t \in present /\ unmounted' = unmounted \cup gone
      /\ UNCHANGED <<content, expanded, layers>>
      /\ LetGo(gone) /\ Observed(FALSE)
      /\ UNCHANGED <<hosts, suppressed>>

\* What a trigger says changes; only its attributes are watched, not its element's own text.
Watched(from, to) == from.text # to.text \/ from.reason # to.reason \/ from.keys # to.keys
Relabelled(t, info) ==
  /\ Change /\ t \in present /\ info # content[t] /\ content' = [content EXCEPT ![t] = info]
  /\ UNCHANGED <<unmounted, expanded, layers>>
  /\ Observed(Watched(content[t], info) /\ view # <<>> /\ view[1].trigger = t)
  /\ UNCHANGED <<pointer, focus, hosts, suppressed>>

\* A trigger's menu opens or closes: aria-expanded is a watched attribute.
Expands(t) ==
  /\ Change /\ t \in present
  /\ expanded' = IF t \in expanded THEN expanded \ {t} ELSE expanded \cup {t}
  /\ UNCHANGED <<content, unmounted, layers>>
  /\ Observed(view # <<>> /\ view[1].trigger = t)
  /\ UNCHANGED <<pointer, focus, hosts, suppressed>>

\* An overlay opens over the others, its triggers with it; the topmost one closes.
LayerOpens(layer) ==
  /\ Change /\ layer \cap unmounted = {} /\ layers' = Append(layers, layer)
  /\ UNCHANGED <<content, unmounted, expanded>>
  /\ Observed(FALSE)
  /\ UNCHANGED <<pointer, focus, hosts, suppressed>>

LayerCloses ==
  /\ Change /\ layers # <<>> /\ layers' = Front(layers) /\ unmounted' = unmounted \cup TopmostLayer
  /\ UNCHANGED <<content, expanded>>
  /\ LetGo(TopmostLayer) /\ Observed(FALSE)
  /\ UNCHANGED <<hosts, suppressed>>

HostMounts(h) ==
  /\ Change /\ (\A i \in DOMAIN hosts : hosts[i] # h) /\ hosts' = Append(hosts, h)
  /\ UNCHANGED <<dom, pointer, focus, tip, suppressed>>

\* The working one lets go of everything; the next one starts with nothing.
HostUnmounts(i) ==
  /\ i \in DOMAIN hosts
  /\ hosts' = SubSeq(hosts, 1, i - 1) \o SubSeq(hosts, i + 1, Len(hosts))
  /\ IF i = 1
     THEN /\ active' = <<>> /\ waits' = FALSE /\ view' = <<>> /\ lately' = FALSE /\ Undescribe
          /\ suppressed' = Nothing
     ELSE UNCHANGED <<tip, suppressed>>
  /\ UNCHANGED <<dom, pointer, focus, events>>

TipNext ==
  \/ TimerFires \/ GroupWindowEnds \/ Escape \/ ViewportChanges
  \/ \E t \in Triggers \cup {Nothing} :
       PointerMoves(t) \/ PointerDown(t) \/ \E how \in {"keys", "click"} : FocusMoves(t, how)
  \/ \E t \in Triggers : Removed(t) \/ Expands(t) \/ \E info \in ToSet(InfosOf[t]) : Relabelled(t, info)
  \/ \E layer \in Layers \ ToSet(layers) : LayerOpens(layer)
  \/ LayerCloses
  \/ \E h \in Hosts : HostMounts(h)
  \/ \E i \in DOMAIN hosts : HostUnmounts(i)

-----------------------------------------------------------------------------
(* The place.                                                              *)

Opposite == [top |-> "bottom", bottom |-> "top", left |-> "right", right |-> "left"]
Vertical(side) == side \in {"top", "bottom"}
Clamp(v, low, high) == LET raised == IF v < low THEN low ELSE v IN IF raised > high THEN high ELSE raised
Halved(n) == (n + 1) \div 2     \* Math.round of a half

Room(side, r, window) ==
  CASE side = "top" -> r.top [] side = "bottom" -> window.height - (r.top + r.height)
    [] side = "left" -> r.left [] side = "right" -> window.width - (r.left + r.width)

\* The wanted side, the opposite one when only that fits, else the roomier.
Side(r, size, wanted, gap, edge, window) ==
  LET fits(side) == Room(side, r, window) >= (IF Vertical(side) THEN size.height ELSE size.width) + gap + edge
      other == Opposite[wanted]
  IN  IF fits(wanted) \/ (~fits(other) /\ Room(wanted, r, window) >= Room(other, r, window)) THEN wanted ELSE other

PlaceTooltip(r, size, wanted, gap, edge, window) ==
  LET side == Side(r, size, wanted, gap, edge, window)
  IN  IF Vertical(side)
      THEN [x |-> Clamp(r.left + Halved(r.width - size.width), edge, window.width - edge - size.width),
            y |-> IF side = "top" THEN r.top - gap - size.height ELSE r.top + r.height + gap]
      ELSE [x |-> IF side = "left" THEN r.left - gap - size.width ELSE r.left + r.width + gap,
            y |-> Clamp(r.top + Halved(r.height - size.height), edge, window.height - edge - size.height)]

-----------------------------------------------------------------------------
(* What the tooltip keeps.                                                 *)

Shows(t) == view # <<>> /\ view[1].trigger = t

\* What is on screen is there, not silenced, and says what its trigger says now (but for what
\* no attribute tells); that trigger alone is described by it, by what it does not say itself.
TellsTheTruth ==
  /\ view # <<>> => LET t == view[1].trigger
                    IN  /\ active # <<>> /\ active[1].trigger = t /\ ~waits
                        /\ t \in present /\ ~IsSilenced(t)
                        /\ \/ <<view[1].content>> = ReadTrigger(content[t]) /\ described = Describe(t, content[t])
                           \/ content[t].overflow
  /\ \A d \in described : Shows(d[1]) /\ (d[2] = "tooltip-keys" => view[1].content.keys # "")
  /\ Working \/ active = <<>>

\* It never stays behind: from a hover the mouse is on its trigger, from the keyboard the focus
\* is; a pressed trigger shows nothing while the mouse is on it.
NeverStaysBehind ==
  /\ \A t \in Triggers : Shows(t) =>
       IF active[1].source = "focus" THEN Inside(focus, t) ELSE Inside(pointer, t) /\ t # suppressed
  /\ waits => active # <<>> /\ active[1].source = "hover"

\* On a side with room for it if there is one, inside the window if it is no wider (no higher)
\* than that, and beside the trigger, never over it.
Samples == [left : {0, 40, 90}, top : {0, 30, 80}, width : {10}, height : {10}]
Window == [width |-> 100, height |-> 90]
Roomy(side, r, size) == Room(side, r, Window) >= (IF Vertical(side) THEN size.height ELSE size.width) + 14
Narrow(side, size) ==
  IF Vertical(side) THEN size.width + 16 <= Window.width ELSE size.height + 16 <= Window.height
PlacesInside ==
  \A r \in Samples, size \in [width : {20, 61, 120}, height : {10, 30}], wanted \in DOMAIN Opposite :
    LET p == PlaceTooltip(r, size, wanted, 6, 8, Window)
        side == Side(r, size, wanted, 6, 8, Window)
    IN  /\ Roomy(wanted, r, size) \/ Roomy(Opposite[wanted], r, size) => Roomy(side, r, size)
        /\ Roomy(side, r, size) /\ Narrow(side, size) =>
             /\ p.x >= 8 /\ p.x + size.width <= Window.width - 8
             /\ p.y >= 8 /\ p.y + size.height <= Window.height - 8
        /\ \/ p.x + size.width <= r.left \/ p.x >= r.left + r.width
           \/ p.y + size.height <= r.top \/ p.y >= r.top + r.height

\* The tooltip: TooltipHost.tsx, placeTooltip.ts.
TooltipTells == TellsTheTruth /\ NeverStaysBehind /\ (events = 0 => PlacesInside)
=============================================================================
