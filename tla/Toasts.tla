------------------------------- MODULE Toasts -------------------------------
(***************************************************************************)
(* The toasts of the kit and the undo history they offer                   *)
(* (components/Toast, interaction/undo): one lane for the result of what   *)
(* the user did, one for notifications, and the operations that mod+Z      *)
(* reaches.  An undo or a redo is a request: it runs while others start,   *)
(* settles in any order, and may fail.                                     *)
(***************************************************************************)
EXTENDS Integers, Sequences, SequencesExt, FiniteSets, Selections

CONSTANTS Ops,         \* the operations, in the order they may be recorded: 1 .. n
          Redoable,    \* those with a redo
          Global,      \* UNDO_GLOBAL_SCOPE
          Pages,       \* the scopes a page may have
          Notices,     \* notifications, each its own subject
          Limit,       \* UNDO_HISTORY_LIMIT
          MaxToasts,   \* bound on the toasts of a session
          Nothing      \* no toast, no operation, no scope

Steps == {"undo", "redo"}
ToastRuns == [op : Ops, step : Steps]
ToastKinds == {"undo", "error", "progress", "note"}
Items == [key : Nat \ {0}, kind : ToastKinds, op : Ops \cup {Nothing}, retry : ToastRuns \cup {Nothing}]

ASSUME ToastAssumption ==
  /\ Ops \subseteq Nat /\ Limit \in Nat \ {0} /\ MaxToasts \in Nat
  /\ Nothing \notin Ops \cup ToastRuns \cup Items \cup {Global}

VARIABLES past, future,     \* the history, the next to undo and to redo last
          scopes,           \* where an operation's result is seen
          scope,            \* the page the app is on
          running,          \* steps on their way, as records [op, step]
          action, waiting,  \* the action lane: the toast, and the one behind an error
          keys,             \* toasts made so far
          notice,           \* the notification on screen, and how many more came
          gap,              \* --notify-gap has passed since the last one was shown
          hidden,           \* the tab is hidden
          toastFocus,       \* "page", "notice" or "action"
          back              \* F8 will give the focus back

toastVars == <<past, future, scopes, scope, running, action, waiting, keys, notice, gap,
               hidden, toastFocus, back>>

history == <<past, future, scopes, scope, running>>
lanes == <<action, waiting, keys>>
attention == <<notice, gap, hidden, toastFocus, back>>

CanRedo(op) == op \in Redoable
KeyOf(item) == IF item = Nothing THEN 0 ELSE item.key
ToastKind(item) == IF item = Nothing THEN "none" ELSE item.kind

\* op: what an undo toast offers; retry: the step an error toast tries again.
Item(key, kind, op, retry) == [key |-> key, kind |-> kind, op |-> op, retry |-> retry]

UndoItem(key, op) == Item(key, "undo", op, Nothing)
ErrorItem(key, retry) == Item(key, "error", Nothing, retry)
ProgressItem(key) == Item(key, "progress", Nothing, Nothing)
NoteItem(key) == Item(key, "note", Nothing, Nothing)

\* id: what was said; more: those that came while it was shown.
NoticeItem(id, more) == [id |-> id, more |-> more]

HistoryInit == /\ past = <<>> /\ future = <<>> /\ scope = Nothing
               /\ scopes = [op \in Ops |-> Nothing]
               /\ running = {}
LanesInit == /\ action = Nothing /\ waiting = Nothing /\ keys = 0
             /\ notice = Nothing /\ gap = TRUE
AttentionInit == hidden = FALSE /\ toastFocus = "page" /\ back = FALSE

ToastInit == HistoryInit /\ LanesInit /\ AttentionInit

-----------------------------------------------------------------------------
(* The history.                                                            *)

InReach(op) == scope = Nothing \/ scopes[op] \in {Global, scope}

LastInReach(list) ==
  LET reach == Those(list, {op \in Ops : InReach(op)}) IN IF reach = <<>> THEN Nothing ELSE Last(reach)

\* What mod+Z or mod+Shift+Z would take now.
NextOf(step) == LastInReach(IF step = "undo" THEN past ELSE Those(future, Redoable))

Without(list, op) == Those(list, Ops \ {op})

Has(op) == op \in Range(past)

Trimmed(s) == IF Len(s) > Limit THEN Tail(s) ELSE s

\* Where mod+Z will reach it: everywhere, or on the page it is done on.
SeenIn(everywhere) == IF everywhere \/ scope = Nothing THEN Global ELSE scope

Recorded(op) == scopes[op] # Nothing

\* A new operation, seen on this page or everywhere: nothing of its scope can be redone.
Push(op, everywhere) ==
  /\ ~Recorded(op) /\ \A earlier \in Ops : earlier < op => Recorded(earlier)
  /\ past' = Trimmed(Append(past, op))
  /\ future' = Those(future, {other \in Ops : scopes[other] # SeenIn(everywhere)})
  /\ scopes' = [scopes EXCEPT ![op] = SeenIn(everywhere)]
  /\ UNCHANGED <<scope, running>>

TakenLate(op) == past   \* mutant: the operation leaves the history only when it is undone

\* Out of the history before it runs.
Taken(op) == Without(past, op)

StartUndo(op) ==
  /\ Has(op)
  /\ past' = Taken(op)
  /\ running' = running \cup {[op |-> op, step |-> "undo"]}
  /\ UNCHANGED <<future, scopes, scope>>

StartRedo ==
  /\ NextOf("redo") # Nothing
  /\ future' = Without(future, NextOf("redo"))
  /\ running' = running \cup {[op |-> NextOf("redo"), step |-> "redo"]}
  /\ UNCHANGED <<past, scopes, scope>>

\* Done: the entry goes where the step leads.
Stepped(run) ==
  /\ running' = running \ {run}
  /\ IF run.step = "undo"
     THEN /\ future' = IF CanRedo(run.op) THEN Append(Without(future, run.op), run.op) ELSE future
          /\ past' = past
     ELSE /\ past' = Append(Without(past, run.op), run.op)
          /\ future' = future
  /\ UNCHANGED <<scopes, scope>>

-----------------------------------------------------------------------------
(* The action lane.                                                        *)

\* One at a time, except that an error waits for its decision.
Showing(item) ==
  IF ToastKind(action) = "error" /\ item.kind # "error"
  THEN [action |-> action, waiting |-> item]
  ELSE [action |-> item, waiting |-> waiting]

Patching(key, item) ==
  [action |-> IF KeyOf(action) = key THEN item ELSE action,
   waiting |-> IF KeyOf(waiting) = key THEN item ELSE waiting]

Closing(key) ==
  IF KeyOf(action) = key THEN [action |-> waiting, waiting |-> Nothing]
  ELSE [action |-> action, waiting |-> IF KeyOf(waiting) = key THEN Nothing ELSE waiting]

\* Undone anywhere: the toast for it has nothing left to offer, and goes (an effect of the
\* lane); the one behind it may be the same.
Offers(item) == item # Nothing /\ (item.kind = "undo" => item.op \in Range(past'))

Lanes(lane) ==
  LET shown == IF Offers(lane.action) THEN lane
               ELSE [action |-> lane.waiting, waiting |-> Nothing]
  IN  /\ action' = IF Offers(shown.action) THEN shown.action ELSE Nothing
      /\ waiting' = shown.waiting

KeepLanes == Lanes([action |-> action, waiting |-> waiting]) /\ UNCHANGED keys

NextKey == keys + 1
New(item) == keys < MaxToasts /\ keys' = item.key /\ Lanes(Showing(item))

\* Its timer stands while the tab is hidden or the focus (or the pointer) is on it.
Paused(lane) == hidden \/ toastFocus = lane

\* F8, or a toast that closes, gives the focus back to where F8 took it.
GiveFocusBack == toastFocus' = "page" /\ back' = FALSE

FocusAfterClose(lane) == IF toastFocus = lane THEN GiveFocusBack ELSE UNCHANGED <<toastFocus, back>>

-----------------------------------------------------------------------------
(* What the app calls.                                                     *)

Undo(op, everywhere) ==
  Push(op, everywhere) /\ New(UndoItem(NextKey, op)) /\ UNCHANGED attention

\* For an operation the history has, or had.
UndoAgain(op) ==
  Recorded(op) /\ UNCHANGED <<history, attention>> /\ New(UndoItem(NextKey, op))

Progress == UNCHANGED <<history, attention>> /\ New(ProgressItem(NextKey))
Error == UNCHANGED <<history, attention>> /\ New(ErrorItem(NextKey, Nothing))
Note == UNCHANGED <<history, attention>> /\ New(NoteItem(NextKey))

\* A progress becomes its result in place, wherever it is: an undo, an error, or nothing.
InProgress == {item.key : item \in {shown \in {action, waiting} : ToastKind(shown) = "progress"}}

Succeed(op) ==
  /\ \E key \in InProgress : Push(op, FALSE) /\ Lanes(Patching(key, UndoItem(key, op)))
  /\ UNCHANGED <<keys, attention>>

Fail ==
  /\ \E key \in InProgress : UNCHANGED history /\ Lanes(Patching(key, ErrorItem(key, Nothing)))
  /\ UNCHANGED <<keys, attention>>

Dismiss(key) ==
  /\ key \in {KeyOf(action), KeyOf(waiting)} \ {0}
  /\ UNCHANGED <<keys, history, attention>>
  /\ Lanes(Closing(key))

SetScope(s) ==
  /\ s # scope /\ scope' = s
  /\ UNCHANGED <<past, future, scopes, running, lanes, attention>>

\* Forgets an operation that can no longer be undone, or everything.
Forget(ops) ==
  /\ past' = Those(past, Ops \ ops)
  /\ future' = Those(future, Ops \ ops)
  /\ KeepLanes
  /\ UNCHANGED <<scopes, scope, running, attention>>

\* In a visible tab only; one on screen only counts the next, and after one there is a gap.
ShouldNotify(id) ==
  CASE hidden \/ (notice # Nothing /\ notice.id = id) -> "skip"
    [] notice # Nothing -> "more"
    [] ~gap -> "skip"
    [] OTHER -> "show"

\* Of a kind the app's policy allows.
Notify(id) ==
  /\ \/ /\ ShouldNotify(id) = "show"
        /\ notice' = NoticeItem(id, 0) /\ gap' = FALSE
     \/ /\ ShouldNotify(id) = "more" /\ notice.more = 0
        /\ notice' = [notice EXCEPT !.more = 1] /\ gap' = gap
  /\ UNCHANGED <<history, lanes, hidden, toastFocus, back>>

Withdraw(id) ==
  /\ notice # Nothing /\ notice.id = id
  /\ notice' = Nothing
  /\ toastFocus' = IF toastFocus = "notice" THEN "page" ELSE toastFocus
  /\ UNCHANGED <<history, lanes, gap, hidden, back>>

GapPasses == ~gap /\ gap' = TRUE /\ UNCHANGED <<history, lanes, notice, hidden, toastFocus, back>>

-----------------------------------------------------------------------------
(* What the user does, and the timers.                                     *)

\* mod+Z and mod+Shift+Z, and the toast's own button.
KeyUndo ==
  /\ NextOf("undo") # Nothing
  /\ StartUndo(NextOf("undo"))
  /\ KeepLanes /\ UNCHANGED attention

KeyRedo == StartRedo /\ KeepLanes /\ UNCHANGED attention

ClickUndo ==
  /\ ToastKind(action) = "undo"
  /\ StartUndo(action.op)
  /\ KeepLanes /\ FocusAfterClose("action")
  /\ UNCHANGED <<notice, gap, hidden>>

\* The error toast closes, and the failed step runs again outside the history.
ClickRetry ==
  /\ ToastKind(action) = "error" /\ action.retry # Nothing
  /\ running' = running \cup {action.retry}
  /\ UNCHANGED <<past, future, scopes, scope>>
  /\ Lanes(Closing(action.key)) /\ FocusAfterClose("action")
  /\ UNCHANGED <<keys, notice, gap, hidden>>

\* × or Esc on an undo or an error.
CloseAction ==
  /\ ToastKind(action) \in {"undo", "error"}
  /\ UNCHANGED <<keys, history, notice, gap, hidden>>
  /\ Lanes(Closing(action.key)) /\ FocusAfterClose("action")

CancelProgress ==
  /\ ToastKind(action) = "progress"
  /\ UNCHANGED <<keys, history, notice, gap, hidden>>
  /\ Lanes(Closing(action.key)) /\ FocusAfterClose("action")

\* Esc only leaves it: it goes on.
LeaveProgress ==
  /\ ToastKind(action) = "progress" /\ toastFocus = "action" /\ GiveFocusBack
  /\ UNCHANGED <<history, lanes, notice, gap, hidden>>

\* ×, Esc; a click, Enter or Open close it too, and open what it is about.
CloseNotice ==
  /\ notice # Nothing /\ notice' = Nothing
  /\ FocusAfterClose("notice")
  /\ UNCHANGED <<history, lanes, gap, hidden>>

\* F8: to the notification, to the action toast, and back.
KeyF8 ==
  LET stops == (IF notice # Nothing THEN <<"notice">> ELSE <<>>)
                 \o (IF action # Nothing THEN <<"action">> ELSE <<>>)
      at == {i \in DOMAIN stops : stops[i] = toastFocus}
  IN  /\ stops # <<>>
      /\ IF at = {}
         THEN toastFocus' = stops[1] /\ back' = TRUE
         ELSE IF toastFocus # Last(stops)
              THEN toastFocus' = Last(stops) /\ back' = back
              ELSE GiveFocusBack
      /\ UNCHANGED <<history, lanes, notice, gap, hidden>>

\* Seen for its time: not while the focus is on it or the tab is hidden.
ExpireAction ==
  /\ ToastKind(action) \in {"undo", "note"} /\ ~Paused("action")
  /\ UNCHANGED <<keys, history, attention>>
  /\ Lanes(Closing(action.key))

ExpireNotice ==
  /\ notice # Nothing /\ ~Paused("notice")
  /\ notice' = Nothing
  /\ UNCHANGED <<history, lanes, gap, hidden, toastFocus, back>>

HideTab == hidden' = ~hidden /\ UNCHANGED <<history, lanes, notice, gap, toastFocus, back>>

\* A step settles: done, or failed and said so with a way to try it again.
StepDone(run) == run \in running /\ Stepped(run) /\ KeepLanes /\ UNCHANGED attention

StepFails(run) ==
  /\ run \in running /\ running' = running \ {run}
  /\ UNCHANGED <<past, future, scopes, scope, attention>>
  /\ New(ErrorItem(NextKey, run))

ToastNext ==
  \/ \E op \in Ops, everywhere \in BOOLEAN : Undo(op, everywhere)
  \/ \E op \in Ops : UndoAgain(op)
  \/ Progress \/ Error \/ Note
  \/ \E op \in Ops : Succeed(op)
  \/ Fail
  \/ \E key \in 1 .. MaxToasts : Dismiss(key)
  \/ \E s \in Pages \cup {Nothing} : SetScope(s)
  \/ \E op \in Ops : Forget({op})
  \/ Forget(Ops)
  \/ \E id \in Notices : Notify(id)
  \/ \E id \in Notices : Withdraw(id)
  \/ GapPasses
  \/ KeyUndo \/ KeyRedo \/ ClickUndo \/ ClickRetry \/ CloseAction \/ CancelProgress
  \/ LeaveProgress \/ CloseNotice \/ KeyF8 \/ ExpireAction \/ ExpireNotice \/ HideTab
  \/ \E op \in Ops, step \in Steps : StepDone([op |-> op, step |-> step])
  \/ \E op \in Ops, step \in Steps : StepFails([op |-> op, step |-> step])

ToastSpec == ToastInit /\ [][ToastNext]_toastVars

-----------------------------------------------------------------------------
(* What they keep.                                                         *)

Times(op, s) == Cardinality({i \in DOMAIN s : s[i] = op})
Held(op, item) == IF item # Nothing /\ item.retry # Nothing /\ item.retry.op = op THEN 1 ELSE 0

\* An operation is in one place: to be undone, to be redone, running one step, or failed
\* with its step in an error toast.  No key, button or retry runs it twice.
OperationInOnePlace ==
  \A op \in Ops :
    Times(op, past) + Times(op, future) + Cardinality({run \in running : run.op = op})
      + Held(op, action) + Held(op, waiting) <= 1

\* An undo toast on screen can be undone, whatever else undid, dropped or forgot operations.
OfferCanBeTaken == ToastKind(action) = "undo" => action.op \in Range(past)

\* What waits, waits for an error.
WaitsForAnError == waiting # Nothing => ToastKind(action) = "error"

\* The toasts and the history agree (Toast/store.ts, ToastHost.tsx, undo/store.ts).
ToastsAgree == OperationInOnePlace /\ OfferCanBeTaken /\ WaitsForAnError
=============================================================================
