------------------------------ MODULE Controls ------------------------------
(***************************************************************************)
(* The kit's controls where what is drawn follows its owner with a rule of *)
(* its own: the error under a field (Input/useFieldError.ts), the spinner  *)
(* of a busy button (hooks/useDelayedFlag.ts, Button.tsx) in discrete      *)
(* time, a checkbox with its third, mixed state (Checkbox.tsx) and the     *)
(* radio group drawn as segments (Segmented.tsx).  One of them is used:    *)
(* they share nothing.                                                     *)
(***************************************************************************)
EXTENDS Integers, Sequences

CONSTANTS SpinDelay, SpinMin,   \* spinner-delay and spinner-min, in ticks
          Errors,               \* the owner's error texts
          Typed,                \* the texts a field is given
          Options,              \* the segments' values, in order
          NoOption

VARIABLES
  used,                                 \* the control that is used
  error, fieldFocused, errorVisible,    \* the field: its owner's error, or 0
  fieldText, final, fieldOff,           \* its text, the last one committed; disabled
  heldBack,                             \* history: it was disabled when it was left
  loading, spins, shownFor, spinTimer, works,   \* the button: shownFor and spinTimer are -1 when unset
  buttonOff, idleFor,                           \* disabled; history: ticks since loading last changed
  checked, boxOff,                              \* the checkbox: its owner's value; disabled
  nativeChecked, nativeMixed,                   \* what the DOM holds, and so draws
  value, unavailable, groupOff                  \* the segments: the chosen one, the unavailable ones, all

field == <<error, fieldFocused, errorVisible, fieldText, final, fieldOff, heldBack>>
button == <<loading, spins, shownFor, spinTimer, works, buttonOff, idleFor>>
box == <<checked, boxOff, nativeChecked, nativeMixed>>
segments == <<value, unavailable, groupOff>>
controlVars == <<used, field, button, box, segments>>

Checks == {"on", "off", "mixed"}

\* A render adjusts what is visible before anything is drawn.
VisibleAfter(err, on, focused) == err # 0 /\ (on \/ ~focused)

ErrorInit == error \in Errors \cup {0} /\ fieldFocused = FALSE /\ errorVisible = (error # 0)
TextInit == fieldText = "" /\ final = "" /\ fieldOff = FALSE /\ heldBack = FALSE
SpinnerInit == spins = FALSE /\ shownFor = -1 /\ spinTimer = -1
ButtonInit == loading = FALSE /\ buttonOff = FALSE /\ works = 0 /\ idleFor = 0
BoxInit == checked = "off" /\ boxOff = FALSE
NativeInit == nativeChecked = FALSE /\ nativeMixed = FALSE
SegmentsInit == value = Options[1] /\ unavailable = {} /\ groupOff = FALSE

ControlInit ==
  /\ used \in {"field", "button", "box", "segments"}
  /\ ErrorInit /\ TextInit /\ SpinnerInit /\ ButtonInit /\ BoxInit /\ NativeInit /\ SegmentsInit

-----------------------------------------------------------------------------
(* The field.                                                              *)

ShownError == IF errorVisible THEN error ELSE 0

OwnerFinds(e) ==
  /\ e # error /\ error' = e /\ errorVisible' = VisibleAfter(e, errorVisible, fieldFocused)
  /\ UNCHANGED <<fieldFocused, fieldText, final, fieldOff, heldBack>>

Focuses(on) == fieldFocused' = on /\ errorVisible' = VisibleAfter(error, errorVisible, on)
FieldFocus == ~fieldFocused /\ Focuses(TRUE) /\ UNCHANGED <<error, fieldText, final, fieldOff, heldBack>>

\* Leaving it commits what it holds, unless it is disabled.
FieldBlur ==
  /\ fieldFocused /\ Focuses(FALSE)
  /\ final' = (IF fieldOff THEN final ELSE fieldText) /\ heldBack' = fieldOff
  /\ UNCHANGED <<error, fieldText, fieldOff>>

TypeInField(text) ==
  /\ fieldFocused /\ ~fieldOff /\ text # fieldText /\ fieldText' = text
  /\ UNCHANGED <<error, fieldFocused, errorVisible, final, fieldOff, heldBack>>

\* Enter commits, of a disabled field too.
EnterInField ==
  /\ fieldFocused /\ final' = fieldText
  /\ UNCHANGED <<error, fieldFocused, errorVisible, fieldText, fieldOff, heldBack>>

FieldDisables ==
  /\ fieldOff' = ~fieldOff /\ UNCHANGED <<error, fieldFocused, errorVisible, fieldText, final, heldBack>>

UseField ==
  /\ \/ \E e \in Errors \cup {0} : OwnerFinds(e)
     \/ FieldFocus \/ FieldBlur \/ EnterInField \/ FieldDisables
     \/ \E text \in Typed : TypeInField(text)
  /\ UNCHANGED <<button, box, segments>>

-----------------------------------------------------------------------------
(* The button.                                                             *)

\* The effect after a change of loading: the running timer is dropped first.
TimerAfterForgetful(on) ==      \* mutant: a spinner on screen goes with its minimum unpaid
  IF on THEN (IF shownFor >= 0 THEN -1 ELSE SpinDelay) ELSE IF shownFor >= 0 THEN 0 ELSE -1

TimerAfter(on) ==
  IF on THEN (IF shownFor >= 0 THEN -1 ELSE SpinDelay)
  ELSE IF shownFor < 0 THEN -1
  ELSE IF shownFor >= SpinMin THEN 0 ELSE SpinMin - shownFor

\* A press while it is busy or disabled is dropped; else its owner starts the work and says loading.
Press ==
  IF loading \/ buttonOff THEN UNCHANGED button
  ELSE /\ works' = works + 1 /\ loading' = TRUE /\ spinTimer' = TimerAfter(TRUE) /\ idleFor' = 0
       /\ UNCHANGED <<spins, shownFor, buttonOff>>

ButtonDisables ==
  /\ buttonOff' = ~buttonOff /\ UNCHANGED <<loading, spins, shownFor, spinTimer, works, idleFor>>

WorkEnds ==
  /\ works > 0 /\ works' = works - 1 /\ loading' = (works > 1)
  /\ spinTimer' = TimerAfter(FALSE) /\ idleFor' = 0
  /\ UNCHANGED <<spins, shownFor, buttonOff>>

SpinTimerFires ==
  /\ spinTimer = 0 /\ spinTimer' = -1
  /\ IF loading THEN spins' = TRUE /\ shownFor' = 0 ELSE spins' = FALSE /\ shownFor' = -1
  /\ UNCHANGED <<loading, works, buttonOff, idleFor>>

\* Time passes, never past a timer that is due.
Tick ==
  /\ spinTimer # 0
  /\ spinTimer' = IF spinTimer > 0 THEN spinTimer - 1 ELSE spinTimer
  /\ shownFor' = IF shownFor \in 0 .. SpinMin THEN shownFor + 1 ELSE shownFor
  /\ idleFor' = IF idleFor < SpinDelay + SpinMin THEN idleFor + 1 ELSE idleFor
  /\ UNCHANGED <<loading, spins, works, buttonOff>>

UseButton ==
  /\ Press \/ ButtonDisables \/ WorkEnds \/ SpinTimerFires \/ Tick
  /\ UNCHANGED <<field, box, segments>>

\* What a button of this form draws: the spinner takes the icon's slot, or it lies over a label that
\* turns transparent.
Drawn(hasIcon, hasLabel) ==
  (IF hasIcon THEN {IF spins THEN "spinner" ELSE "icon"} ELSE {})
    \cup (IF hasLabel /\ (hasIcon \/ ~spins) THEN {"label"} ELSE {})
    \cup (IF spins /\ ~hasIcon THEN {"spinner"} ELSE {})

-----------------------------------------------------------------------------
(* The checkbox.                                                           *)

\* The owner's new value reaches the DOM: checked by React, mixed by the effect of its change.
Rendered(v) == nativeChecked' = (v = "on") /\ nativeMixed' = (v = "mixed")

\* A click flips the native box and clears mixed; React puts checked back, the handler mixed; then
\* the owner may take the change: everything checked, or unchecked.
ClickBox(taken) ==
  /\ IF taken /\ ~boxOff
     THEN LET v == IF checked = "on" THEN "off" ELSE "on" IN checked' = v /\ Rendered(v)
     ELSE UNCHANGED checked /\ Rendered(checked)
  /\ UNCHANGED boxOff

\* The rows of a table change what "select all" stands for.
OwnerChecks(v) ==
  /\ v # checked /\ checked' = v /\ Rendered(v)
  /\ UNCHANGED boxOff

BoxDisables == boxOff' = ~boxOff /\ UNCHANGED <<checked, nativeChecked, nativeMixed>>

UseBox ==
  /\ BoxDisables \/ (\E taken \in BOOLEAN : ClickBox(taken)) \/ (\E v \in Checks : OwnerChecks(v))
  /\ UNCHANGED <<field, button, segments>>

\* The mark the kit draws over the native box.
Mark == CASE checked = "mixed" -> "minus" [] checked = "on" -> "check" [] OTHER -> "none"

-----------------------------------------------------------------------------
(* The segments.                                                           *)

IsAvailable(o) == ~groupOff /\ o \notin unavailable
Available == SelectSeq(Options, IsAvailable)
PlaceIn(s, v) == IF \E i \in DOMAIN s : s[i] = v THEN (CHOOSE i \in DOMAIN s : s[i] = v) - 1 ELSE -1

\* The chosen segment, or the first available one when it is not.
TabStop ==
  IF IsAvailable(value) \/ groupOff THEN value ELSE IF Available = <<>> THEN NoOption ELSE Available[1]

\* Round the group, past the unavailable ones.
ArrowTo(step) ==
  LET n == Len(Available)
      current == PlaceIn(Available, value)
      from == IF current = -1 THEN (IF step = 1 THEN -1 ELSE 0) ELSE current
  IN  IF n = 0 THEN value ELSE Available[((from + step + n) % n) + 1]

Choose(o) == value' = o /\ UNCHANGED <<unavailable, groupOff>>
Arrow(step) == Choose(ArrowTo(step))
HomeOrEnd(last) == Available # <<>> /\ Choose(Available[IF last THEN Len(Available) ELSE 1])
ClickSegment(o) == IsAvailable(o) /\ Choose(o)

OptionsBecome(off, all) == unavailable' = off /\ groupOff' = all /\ UNCHANGED value

UseSegments ==
  /\ \/ \E step \in {-1, 1} : Arrow(step)
     \/ \E last \in BOOLEAN : HomeOrEnd(last)
     \/ \E i \in DOMAIN Options : ClickSegment(Options[i])
     \/ \E off \in SUBSET {Options[i] : i \in DOMAIN Options}, all \in BOOLEAN : OptionsBecome(off, all)
  /\ UNCHANGED <<field, button, box>>

ControlNext ==
  /\ used' = used
  /\ \/ used = "field" /\ UseField
     \/ used = "button" /\ UseButton
     \/ used = "box" /\ UseBox
     \/ used = "segments" /\ UseSegments

-----------------------------------------------------------------------------
(* What the controls keep.                                                 *)

\* Out of the field its error is always shown, and never one that no longer holds; and what was
\* typed was committed, unless the field was disabled before it was left.
ErrorsAreSaid ==
  /\ (~fieldFocused => ShownError = error) /\ ShownError \in {0, error}
  /\ ~fieldFocused /\ ~heldBack => final = fieldText

\* The spinner of a busy button comes, and that of an idle one goes: one more timer always runs
\* for it; the button never runs twice.  In every form of the button it is the spinner that tells.
SpinnerFollows ==
  /\ loading /\ ~spins => spinTimer >= 0
  /\ ~loading /\ spins => spinTimer >= 0
  /\ spins = (shownFor >= 0)
  /\ works \in 0 .. 1 /\ loading = (works = 1)
  /\ \A icon, label \in BOOLEAN : icon \/ label => Drawn(icon, label) # {} /\ spins = ("spinner" \in Drawn(icon, label))

\* What readers hear is what the owner says and the kit draws, whoever refused the click.
BoxShowsItsOwner == nativeChecked = (Mark = "check") /\ nativeMixed = (Mark = "minus")

\* One tab stop for the segments while any can be chosen, and the arrows visit each of those.
SegmentsReach ==
  LET n == Len(Available)
  IN  /\ groupOff => n = 0 /\ TabStop = value
      /\ ~groupOff => (n = 0) = (TabStop = NoOption) /\ (n > 0 => TabStop \notin unavailable)
      /\ n > 0 => ArrowTo(1) \notin unavailable /\ ArrowTo(-1) \notin unavailable
      /\ IsAvailable(value) /\ n > 1 => ArrowTo(1) # value /\ ArrowTo(-1) # value

\* No red mid-word: while the field keeps the focus no error appears that was not there.
NoErrorMidWord == fieldFocused /\ fieldFocused' /\ ShownError = 0 => ShownError' = 0

\* Shown for its minimum once it is shown, and only after its delay of work.
SpinsItsTime ==
  /\ spins /\ ~spins' => shownFor >= SpinMin /\ ~loading
  /\ ~spins /\ spins' => idleFor >= SpinDelay /\ loading
=============================================================================
