------------------------------ MODULE Hotkeys ------------------------------
(***************************************************************************)
(* The kit's hotkeys (interaction/hotkeys): components register a key or a *)
(* sequence of two while they are mounted, the last registration of a      *)
(* combination has it, and one listener on the window turns every press    *)
(* into a step, arms a sequence's first step for a while, and calls.       *)
(* A tree, whose letters jump, asks the registry first, and a menu item    *)
(* reads the same presses through matchKeys.                               *)
(***************************************************************************)
EXTENDS Integers, Sequences, SequencesExt, FiniteSets, TLC

CONSTANTS Users,       \* the components that register a hotkey
          HotkeyOf,    \* [Users -> [chord, key]]: raw steps, <<>> for no chord
          OtherKeyOf,  \* what a component asks for after its hotkey changed
          Presses,     \* what the keyboard and the focus give: [key, code, upper, mods, at]
          Signs,       \* the keys that print a sign; Shift is in the sign already
          Wide,        \* Space and the letters outside a-z
          Named,       \* Enter, the arrows, a modifier on its own
          TreeKeys,    \* those of them a tree takes; with Mod, MoveKeys only
          MoveKeys,
          Mod,         \* the platform's modifier: Meta on a Mac, else Control
          Window,      \* HOTKEY_CHORD_WINDOW_MS, in ticks
          MaxTurns     \* bound on mounts, renders and changes

VARIABLES hotkeys,     \* combination -> its registrations, the last one on top
          rendered,    \* [Users -> the render the component's callback is of]
          asks,        \* [Users -> the hotkey the component asks for]
          chord,       \* the armed prefix: [prefix, age]; prefix <<>> when idle
          listening,   \* mounted listeners
          order,       \* history: the mounted components, the last registration last
          heard,       \* history: the last press, [step, before, by, left]
          turns

keyVars == <<hotkeys, rendered, asks, chord, listening, order, heard, turns>>

HotkeyConfig(key, upper, mods) == [key |-> key, upper |-> upper, mods |-> mods]
HotkeyHandlerConfig(chord_, key) == [chord |-> chord_, key |-> <<key>>]
Letter(key) == HotkeyConfig(key, FALSE, {})

\* A letter of another layout is the Latin one on the same physical key.
LatinKey(press) == IF press.key = "foreign letter" THEN press.code ELSE press.key

\* Letters are compared in lower case with Shift apart; a sign has its Shift in it already.
NormalizeStep(step) ==
  CASE step.key \in Named -> [step EXCEPT !.upper = FALSE]
    [] step.key \in Signs -> [step EXCEPT !.upper = FALSE, !.mods = @ \ {"Shift"}]
    [] OTHER -> [step EXCEPT !.upper = FALSE]

\* A combination is the sequence of its steps: modifiers in any order, steps in theirs.
StepOf(press) == NormalizeStep(HotkeyConfig(LatinKey(press), press.upper, press.mods))
ChordKey(prefix, step) == prefix \o <<step>>
Combination(hotkey) ==
  LET steps == hotkey.chord \o hotkey.key
  IN  [i \in DOMAIN steps |-> NormalizeStep(steps[i])]

Registrations(combination) == IF combination \in DOMAIN hotkeys THEN hotkeys[combination] ELSE <<>>
Has(combination) == Registrations(combination) # <<>>
FirstSteps == {c[1] : c \in {k \in DOMAIN hotkeys : Len(k) = 2}}

With(registry, combination, list) ==
  [c \in {k \in DOMAIN registry : k # combination} \cup (IF list = <<>> THEN {} ELSE {combination}) |->
     IF c = combination THEN list ELSE registry[c]]

UnregisteredTop(registry, combination, user) ==     \* mutant: the one on top goes
  With(registry, combination, Front(registry[combination]))

Unregistered(registry, combination, user) ==
  With(registry, combination, SelectSeq(registry[combination], LAMBDA u : u # user))

Registered(registry, combination, user) ==
  With(registry, combination,
       Append(IF combination \in DOMAIN registry THEN registry[combination] ELSE <<>>, user))

-----------------------------------------------------------------------------
\* The notation a hotkey is shown in: a text of steps, a step of pieces between its "+". A
\* piece is a token; "+" itself is written as "plus", as a lone "+" or as a trailing one.
ParseStep(pieces) ==
  LET tokens == SelectSeq(pieces, LAMBDA piece : piece # "")
  IN  IF Len(pieces) > 1 /\ pieces[Len(pieces)] = "" /\ pieces[Len(pieces) - 1] = "" THEN Append(tokens, "+")
      ELSE tokens
ParseKeys(text) == SelectSeq([i \in DOMAIN text |-> ParseStep(text[i])], LAMBDA step : step # <<>>)

KeyAliases == [esc |-> "escape", return |-> "enter", space |-> " ", del |-> "delete", up |-> "arrowup",
               down |-> "arrowdown", left |-> "arrowleft", right |-> "arrowright", plus |-> "+"]

FlagOf(token, platform) ==
  CASE token \in {"mod", "cmd"} -> IF platform = "mac" THEN "Meta" ELSE "Control"
    [] token = "meta" -> "Meta"
    [] token = "ctrl" -> "Control"
    [] token \in {"alt", "option"} -> "Alt"
    [] token = "shift" -> "Shift"
    [] OTHER -> "none"

\* What is pressed for a token.
Pressed(token, platform) ==
  CASE FlagOf(token, platform) # "none" -> FlagOf(token, platform)
    [] token \in DOMAIN KeyAliases -> KeyAliases[token]
    [] OTHER -> token

\* The step a notation's step stands for.
Written(tokens, platform) ==
  LET flags == {t \in ToSet(tokens) : FlagOf(t, platform) # "none"}
      key == Last(SelectSeq(tokens, LAMBDA t : t \notin flags))
  IN  HotkeyConfig(Pressed(key, platform), FALSE, {FlagOf(t, platform) : t \in flags})

\* What is drawn for a token: the label of a modifier or of a named key (a drawn sign by its name),
\* else the key in capitals.
Modifiers(platform) ==
  IF platform = "mac"
  THEN [mod |-> "Command", meta |-> "Command", cmd |-> "Command", ctrl |-> "Control",
        alt |-> "Option", option |-> "Option", shift |-> "Shift"]
  ELSE [mod |-> "Ctrl", meta |-> "Win", cmd |-> "Ctrl", ctrl |-> "Ctrl",
        alt |-> "Alt", option |-> "Alt", shift |-> "Shift"]

NamedKeys ==
  [esc |-> "Esc", escape |-> "Esc", enter |-> "Enter", return |-> "Enter", space |-> "Space",
   tab |-> "Tab", backspace |-> "Backspace", delete |-> "Del", del |-> "Del",
   up |-> "Up arrow", arrowup |-> "Up arrow", down |-> "Down arrow", arrowdown |-> "Down arrow",
   left |-> "Left arrow", arrowleft |-> "Left arrow", right |-> "Right arrow",
   arrowright |-> "Right arrow", home |-> "Home", end |-> "End", pageup |-> "PgUp",
   pagedown |-> "PgDn", plus |-> "+"]
Capitals == [u |-> "U", f2 |-> "F2"]

FormatKey(token, platform) ==
  CASE token \in DOMAIN Modifiers(platform) -> Modifiers(platform)[token]
    [] token \in DOMAIN NamedKeys -> NamedKeys[token]
    [] OTHER -> IF token \in DOMAIN Capitals THEN Capitals[token] ELSE token

-----------------------------------------------------------------------------
(* What the app registers, and what it shows (pages/Inbox, Sidebar).       *)

\* What a hotkey of the Inbox does: callback -> hotkey.
InboxHotkeys ==
  [readAll |-> HotkeyHandlerConfig(<<>>, HotkeyConfig("u", FALSE, {"Shift"})),
   toggleRead |-> HotkeyHandlerConfig(<<>>, Letter("u")),
   toggleArchived |-> HotkeyHandlerConfig(<<>>, Letter("e")),
   showAll |-> HotkeyHandlerConfig(<<Letter("g")>>, Letter("a")),
   showUnread |-> HotkeyHandlerConfig(<<Letter("g")>>, Letter("u")),
   showArchived |-> HotkeyHandlerConfig(<<Letter("g")>>, Letter("e"))]

\* The sidebar's are there on every page: two of them for its toggle, one per platform.
SidebarHotkeys ==
  [toggleMeta |-> HotkeyHandlerConfig(<<>>, HotkeyConfig("\\", FALSE, {"Meta"})),
   toggleControl |-> HotkeyHandlerConfig(<<>>, HotkeyConfig("\\", FALSE, {"Control"})),
   openInbox |-> HotkeyHandlerConfig(<<Letter("g")>>, Letter("i"))]

\* What the Inbox's rows, its header and its views, and the sidebar, show for them: callbacks and
\* text. "g>a" has no space in it: the notation reads it as one step, of a key no keyboard has.
RowKeys == {[of |-> {"toggleRead"}, text |-> <<<<"u">>>>], [of |-> {"toggleArchived"}, text |-> <<<<"e">>>>]}
HeaderKeys == {[of |-> {"readAll"}, text |-> <<<<"shift", "u">>>>]}
RailKeys == {[of |-> {"toggleMeta", "toggleControl"}, text |-> <<<<"mod", "\\">>>>],
             [of |-> {"openInbox"}, text |-> <<<<"g">>, <<"i">>>>]}
ViewKeys == {[of |-> {"showAll"}, text |-> <<<<"g>a">>>>], [of |-> {"showUnread"}, text |-> <<<<"g>u">>>>],
             [of |-> {"showArchived"}, text |-> <<<<"g>e">>>>]}
PreferencesKeys == {[of |-> {}, text |-> <<<<"g">>, <<",">>>>]}

-----------------------------------------------------------------------------
ChordState(prefix, age) == [prefix |-> prefix, age |-> age]
Idle == ChordState(<<>>, 0)
Mounted(user) == user \in ToSet(order)
Quiet == [step |-> <<>>, before |-> <<>>, by |-> <<>>, left |-> "no"]

RegistryInit == hotkeys = <<>> /\ order = <<>>
CallbacksInit == rendered = [u \in Users |-> 0] /\ asks = HotkeyOf
ListenerInit == chord = Idle /\ listening = 1
KeyInit == RegistryInit /\ CallbacksInit /\ ListenerInit /\ heard = Quiet /\ turns = 0

Turn == turns < MaxTurns /\ turns' = turns + 1

Mount(user) ==
  /\ Turn /\ ~Mounted(user)
  /\ hotkeys' = Registered(hotkeys, Combination(asks[user]), user)
  /\ order' = Append(order, user)
  /\ heard' = Quiet /\ UNCHANGED <<rendered, asks, chord, listening>>

Unmount(user) ==
  /\ Mounted(user)
  /\ hotkeys' = Unregistered(hotkeys, Combination(asks[user]), user)
  /\ order' = SelectSeq(order, LAMBDA u : u # user)
  /\ heard' = Quiet /\ UNCHANGED <<rendered, asks, chord, listening, turns>>

\* A render brings a new callback, and perhaps another combination: only then it registers
\* anew, on top.
Render(user, hotkey) ==
  /\ Turn /\ Mounted(user)
  /\ rendered' = [rendered EXCEPT ![user] = @ + 1]
  /\ asks' = [asks EXCEPT ![user] = hotkey]
  /\ LET from == Combination(asks[user])
         to == Combination(hotkey)
     IN  IF from = to THEN UNCHANGED <<hotkeys, order>>
         ELSE /\ hotkeys' = Registered(Unregistered(hotkeys, from, user), to, user)
              /\ order' = Append(SelectSeq(order, LAMBDA u : u # user), user)
  /\ heard' = Quiet /\ UNCHANGED <<chord, listening>>

\* The window: an older prefix counts no more.
Armed == chord.prefix # <<>> /\ chord.age <= Window

\* The chord machine: [state, fires] for a step.
Completes(step) == Armed /\ Has(ChordKey(chord.prefix, step))
Reduced(step) ==
  CASE Completes(step) -> [state |-> Idle, fires |-> ChordKey(chord.prefix, step)]
    [] ~Completes(step) /\ step \in FirstSteps -> [state |-> ChordState(<<step>>, 0), fires |-> <<>>]
    [] OTHER -> [state |-> Idle, fires |-> <<step>>]

\* The callback of the component on top, as it last rendered.
Called(combination) ==
  IF Has(combination) THEN <<Last(Registrations(combination)), rendered[Last(Registrations(combination))]>> ELSE <<>>

IsAppHotkey(step) == Has(<<step>>) \/ step \in FirstSteps

\* What a tree takes: its own keys, and a character, Shift or not, that is not the app's.
Own(press) ==
  /\ press.at = "tree"
  /\ \/ Mod \in press.mods /\ press.key \in MoveKeys
     \/ "Alt" \notin press.mods /\ press.key \in IF Mod \in press.mods THEN {"Enter"} ELSE TreeKeys
Jumps(press) ==
  /\ press.at = "tree" /\ {Mod, "Alt"} \cap press.mods = {}
  /\ press.key \notin Named \cup TreeKeys \cup {"Space"} /\ ~IsAppHotkey(StepOf(press))

IsTypingTarget(press) == press.at = "field"

LeftTo(press) ==
  CASE IsTypingTarget(press) -> "the field"
    [] Own(press) -> "the tree"
    [] Jumps(press) -> "the tree's letters"
    [] OTHER -> "no"

\* The listener leaves what is typed in a field and what a widget took: the chord stays as it is.
Press(press) ==
  \E step \in {StepOf(press)}, left \in {LeftTo(press)} : \E result \in {Reduced(step)} :
      /\ listening > 0
      /\ chord' = IF left = "no" THEN result.state ELSE chord
      /\ heard' = IF left = "no"
                  THEN [step |-> <<step>>, before |-> IF Armed THEN chord.prefix ELSE <<>>,
                        by |-> Called(result.fires), left |-> left]
                  ELSE [Quiet EXCEPT !.step = <<step>>, !.left = left]
      /\ UNCHANGED <<hotkeys, rendered, asks, listening, order, turns>>

Blur == /\ chord # Idle /\ chord' = Idle /\ listening > 0
        /\ heard' = Quiet /\ UNCHANGED <<hotkeys, rendered, asks, listening, order, turns>>

Tick == /\ chord.prefix # <<>> /\ chord.age <= Window
        /\ chord' = [chord EXCEPT !.age = @ + 1]
        /\ heard' = Quiet /\ UNCHANGED <<hotkeys, rendered, asks, listening, order, turns>>

\* The first listener starts from nothing armed; the last takes the window's handlers along.
Listen(more) ==
  /\ Turn /\ listening + more \in 0 .. 2
  /\ listening' = listening + more
  /\ chord' = IF listening = 0 THEN Idle ELSE chord
  /\ heard' = Quiet
  /\ UNCHANGED <<hotkeys, rendered, asks, order>>

KeyNext ==
  \/ Blur \/ Tick
  \/ \E user \in Users :
       \/ Mount(user)
       \/ Unmount(user)
       \/ \E key \in {HotkeyOf[user], OtherKeyOf[user]} : Render(user, key)
  \/ \E press \in Presses : Press(press)
  \/ \E more \in {-1, 1} : Listen(more)

-----------------------------------------------------------------------------
(* What a press does.                                                      *)

\* Kbd's matchKeys: a step as the notation has it against a press. Shift counts for a-z and for
\* named keys.
MatchKeys(wanted, press) ==
  /\ wanted.key = LatinKey(press)
  /\ LET compared == {"Control", "Alt", "Meta"} \cup IF wanted.key \in Signs \cup Wide THEN {} ELSE {"Shift"}
     IN  wanted.mods \cap compared = press.mods \cap compared

\* The mounted components that have a combination, in the order they took it.
Holders(combination) == SelectSeq(order, LAMBDA u : Combination(asks[u]) = combination)

\* A press calls one handler at most: of the sequence it completes, else none while it begins
\* a sequence, else of the key itself; and that is the last component to have taken the
\* combination and still there, as it is rendered now. A tree takes no letter they wait for.
CallsTheTop ==
  heard' # heard /\ heard'.step # <<>> =>
    LET step == heard'.step
        sequence == Holders(heard'.before \o step)
        begins == \E u \in ToSet(order) : Len(Combination(asks[u])) = 2 /\ Combination(asks[u])[1] = step[1]
        due == IF heard'.before # <<>> /\ sequence # <<>> THEN sequence
               ELSE IF begins THEN <<>> ELSE Holders(step)
    IN  /\ heard'.left = "no" => heard'.by = IF due = <<>> THEN <<>> ELSE <<Last(due), rendered[Last(due)]>>
        /\ heard'.left = "the tree's letters" => ~begins /\ Holders(step) = <<>>

\* The registry holds the mounted components, each under what it asks for, in the order they came.
RegistryIsMounted ==
  /\ UNION {ToSet(hotkeys[c]) : c \in DOMAIN hotkeys} = ToSet(order)
  /\ \A c \in DOMAIN hotkeys : hotkeys[c] = Holders(c) /\ hotkeys[c] # <<>>

\* A key in a menu and the same key in the registry answer to the same presses: but for the Wide
\* ones (Space, letters outside a-z), where the two differ, against the comment at helpers.ts:31:
\* the registry keeps their Shift and the menu does not read it.
OneSpelling ==
  \A user \in Users, press \in {p \in Presses : p.key \notin Wide} :
    Len(Combination(asks[user])) = 1 =>
      (MatchKeys(asks[user].key[1], press) <=> Combination(asks[user]) = <<StepOf(press)>>)

\* The keys shown by the Inbox's rows and header and by the rail are hotkeys of what they stand
\* beside, on every platform. Those shown by the Inbox's views and by the switcher's Preferences
\* are nobody's: the first are written so that they read as one step, the last one is not
\* registered. Two tokens are drawn alike exactly when they are the same key.
ShownKeysAnswer ==
  \A platform \in {"mac", "other"} :
    /\ LET all == InboxHotkeys @@ SidebarHotkeys
           read(shown) == LET steps == ParseKeys(shown.text)
                          IN  [i \in DOMAIN steps |-> NormalizeStep(Written(steps[i], platform))]
           answering(shown) == {callback \in DOMAIN all : Combination(all[callback]) = read(shown)}
       IN  /\ \A shown \in RowKeys \cup HeaderKeys \cup RailKeys :
                answering(shown) # {} /\ answering(shown) \subseteq shown.of
           /\ \A shown \in ViewKeys \cup PreferencesKeys : answering(shown) = {}
    /\ LET tokens == DOMAIN Modifiers(platform) \cup DOMAIN NamedKeys \cup {"+", "u", "f2"}
       IN  \A t1, t2 \in tokens :
             FormatKey(t1, platform) = FormatKey(t2, platform) <=> Pressed(t1, platform) = Pressed(t2, platform)
    /\ ParseKeys(<<<<"mod", "", "">>, <<"", "">>, <<"">>>>) = <<<<"mod", "+">>, <<"+">>>>
=============================================================================
