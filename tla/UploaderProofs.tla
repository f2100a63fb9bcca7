--------------------------- MODULE UploaderProofs ---------------------------
(***************************************************************************)
(* The uploader, for any number of uploads, chunks, slices and slots and   *)
(* for every bound on calls, faults and messages: the page and the worker  *)
(* agree on each upload, and no slot stays free beside the queue.          *)
(*                                                                         *)
(* UploadsAgree, NoIdleSlot and Mirror are not inductive.  UploaderInv     *)
(* says what else they stand on: an answer that is about to be heard was   *)
(* given by a server that has what it says (Sound), an add that is on its  *)
(* way names an upload the host has never had (AddsAreNew), the last word  *)
(* under way about each upload is how it stands, unless a timer is to send *)
(* it (PageComesToShow), and an idle slot is one a cancel is to pump       *)
(* (SlotsAreUsed).                                                         *)
(*                                                                         *)
(* After lemmas on sequences, on the state machine and on the runner, most *)
(* steps of the worker are instances of three: one that publishes and      *)
(* pumps (PublishKeeps), one that no state of an upload shows              *)
(* (HiddenStepKeeps), and one that forgets an upload (ForgettingKeeps).    *)
(***************************************************************************)
EXTENDS Uploader, SelectionProofs, FiniteSetTheorems, SequenceTheorems, TLAPS

-----------------------------------------------------------------------------
(* The inductive invariant. *)

ServerType ==
    [live : BOOLEAN, mode : UploadMode, got : SUBSET Chunks, blob : BOOLEAN, asset : BOOLEAN,
     token : BOOLEAN]
SnapshotType ==
    [status : UploadStatus, step : UploadStatus \cup {"none"}, hashed : Nat, uploaded : Nat]
ToPage ==
    [type : {"snapshot"}, id : Uploads, arg : SnapshotType]
      \cup [type : {"removed"}, id : Uploads, arg : {NoUpload}]
ToHost ==
    [type : {"add", "remove"}, id : Uploads, arg : {0}]
      \cup [type : {"reorder"}, id : Uploads, arg : Nat]
      \cup [type : {"pause", "resume", "cancel", "retry", "retry-token",
                    "pause-all", "resume-all", "cancel-all"},
            id : Uploads \cup {Everyone}, arg : {0}]

Typed ==
    /\ page \in [Uploads -> SnapshotType \cup {NoUpload}]
    /\ pageOrder \in Seq(Uploads) /\ IsInjective(pageOrder)
    /\ \A u \in Uploads : Shown(u) <=> u \in ToSet(pageOrder)
    /\ waiter \in [Uploads -> {"none", "waiting", "resolved", "rejected"}]
    /\ toWorker \in Seq(ToHost) /\ fromWorker \in Seq(ToPage)
    /\ runner \in [Uploads -> RunnerType]
    /\ order \in Seq(Uploads) /\ IsInjective(order)
    /\ trailing \subseteq ToSet(order) /\ removing \subseteq Uploads
    /\ server \in [Uploads -> ServerType]
    /\ alive \in BOOLEAN

\* The answer that makes an upload done is the one that stored it.
Stores(s) ==
    \/ s.status \in {"verifying", "completing"}
    \/ s.status = "uploading" /\ s.ctx.mode # "chunked"

\* A runner beside what the server has of its upload.
Sound(r, sv) ==
    /\ Coherent(r.state)
    /\ r.unwinding # "no" \/ ~isStep(r.state.status) => r.reply = "none"
    /\ r.reply = "ok" /\ r.state.status = "initializing" => sv.mode # "none"
    /\ r.reply = "token" => r.state.status = "initializing"
    /\ r.reply = "ok" /\ Stores(r.state) => sv.asset
    /\ r.state.status = "done" => sv.asset
    /\ r.state.status = "cancelling" => r.cancel # "no"
    /\ r.cancel # "no" => r.state.status \in {"cancelling", "cancelled"}

RunnersAreSound == \A u \in Uploads : Sound(runner[u], server[u])

\* Only what the host knows is in a step; what is on its way to it, it does not know yet.
StepsAreKnown == \A u \in Uploads : isStep(Status(u)) => Known(u)

\* An add on its way is the first the host hears of its upload.
AddsAreNew ==
    \A i \in DOMAIN toWorker :
        toWorker[i].type = "add" =>
            /\ ~Known(toWorker[i].id) /\ runner[toWorker[i].id] = newRunner
            /\ \A j \in DOMAIN toWorker :
                 toWorker[j].type = "add" /\ toWorker[j].id = toWorker[i].id => j = i

\* What the page is told, or about to be told, is done is stored.
DoneIsBacked ==
    /\ \A u \in Uploads : page[u].status = "done" \/ waiter[u] = "resolved" => server[u].asset
    /\ \A i \in DOMAIN fromWorker :
         fromWorker[i].arg.status = "done" => server[fromWorker[i].id].asset

\* Once these messages are read, a page that shows p of the upload shows s.
Tells(messages, u, s, p) ==
    /\ \A i \in DOMAIN messages :
         messages[i].id = u /\ (\A j \in DOMAIN messages : j > i => messages[j].id # u) =>
            messages[i].arg = s
    /\ (\A i \in DOMAIN messages : messages[i].id # u) => p = s

PageComesToShow ==
    \A u \in ToSet(order) \ trailing : Tells(fromWorker, u, Snapshot(runner[u].state), page[u])

\* NoIdleSlot, told by what will pump.
SlotsAreUsed ==
    \/ \A u \in ToSet(order) : Status(u) # "queued"
    \/ Cardinality(Working) >= MaxParallel
    \/ \E v \in Uploads : ~Known(v) /\ Status(v) = "cancelling"

UploaderInv ==
    /\ Typed /\ RunnersAreSound /\ StepsAreKnown /\ AddsAreNew /\ DoneIsBacked
    /\ NoHangingWaiter /\ PageComesToShow /\ SlotsAreUsed /\ ParallelLimit

-----------------------------------------------------------------------------
(* Sequences: what cutting and moving keep. *)

\* A move keeps what is in the list, each element once.
LEMMA MovedKeepsElements ==
    ASSUME NEW list \in Seq(Uploads), IsInjective(list), NEW u \in ToSet(list), NEW index \in Nat
    PROVE  /\ Moved(list, u, index) \in Seq(Uploads) /\ IsInjective(Moved(list, u, index))
           /\ ToSet(Moved(list, u, index)) = ToSet(list)
  <1> DEFINE rest == Those(list, Uploads \ {u})
             n == Len(rest)
             at == (IF index > n THEN n ELSE index) + 1
             moved == InsertAt(rest, at, u)
  <1>1. ToSet(list) \subseteq Uploads
    BY PlacesAreElements
  <1>2. rest \in Seq(Uploads \ {u}) /\ IsInjective(rest) /\ ToSet(rest) = ToSet(list) \ {u}
    <2>1. Uploads \cap (Uploads \ {u}) = Uploads \ {u} /\ ToSet(list) \cap (Uploads \ {u}) = ToSet(list) \ {u}
      BY <1>1
    <2> QED
      BY <2>1, ThoseAreTheOnes
  <1> HIDE DEF rest
  <1>3. /\ n \in Nat /\ DOMAIN rest = 1..n /\ \A i \in 1..n : rest[i] \in Uploads \ {u}
        /\ at \in 1..(n + 1)
    BY <1>2
  <1>4. moved = SubSeq(rest, 1, at - 1) \o <<u>> \o SubSeq(rest, at, n)
    BY DEF InsertAt
  <1> HIDE DEF at
  <1>5. /\ SubSeq(rest, 1, at - 1) \in Seq(Uploads) /\ Len(SubSeq(rest, 1, at - 1)) = at - 1
        /\ \A i \in 1..(at - 1) : SubSeq(rest, 1, at - 1)[i] = rest[i]
    BY <1>3
  <1>6. /\ SubSeq(rest, at, n) \in Seq(Uploads) /\ Len(SubSeq(rest, at, n)) = n - at + 1
        /\ \A i \in 1..(n - at + 1) : SubSeq(rest, at, n)[i] = rest[at + i - 1]
    BY <1>3
  <1>7. u \in Uploads
    BY <1>1
  <1> DEFINE a == SubSeq(rest, 1, at - 1)
             b == SubSeq(rest, at, n)
  <1>8. /\ moved \in Seq(Uploads) /\ Len(moved) = n + 1
        /\ \A i \in 1..(n + 1) : moved[i] = IF i < at THEN rest[i] ELSE IF i = at THEN u ELSE rest[i - 1]
    <2> HIDE DEF a, b
    <2>1. moved = a \o <<u>> \o b
      BY <1>4 DEF a, b
    <2>2. a \in Seq(Uploads) /\ Len(a) = at - 1 /\ \A i \in 1..(at - 1) : a[i] = rest[i]
      BY <1>5 DEF a
    <2>3. b \in Seq(Uploads) /\ Len(b) = n - at + 1 /\ \A i \in 1..(n - at + 1) : b[i] = rest[at + i - 1]
      BY <1>6 DEF b
    <2>4. <<u>> \in Seq(Uploads) /\ Len(<<u>>) = 1 /\ <<u>>[1] = u
      BY <1>7
    <2> DEFINE c == a \o <<u>>
    <2>5. c \in Seq(Uploads) /\ Len(c) = at /\ \A i \in 1..at : c[i] = IF i < at THEN rest[i] ELSE u
      BY <2>2, <2>4, <1>3
    <2> HIDE DEF c
    <2>6. moved = c \o b
      BY <2>1 DEF c
    <2>7. c \o b \in Seq(Uploads) /\ Len(c \o b) = n + 1
      <3>1. c \in Seq(Uploads) /\ b \in Seq(Uploads)
        BY <2>3, <2>5
      <3>2. c \o b \in Seq(Uploads) /\ Len(c \o b) = Len(c) + Len(b)
        BY <3>1, ConcatProperties
      <3> QED
        BY <3>2, <2>3, <2>5, <1>3
    <2>8. \A i \in 1..(n + 1) : (c \o b)[i] = IF i <= at THEN c[i] ELSE b[i - at]
      BY <2>3, <2>5, <1>3
    <2>9. \A i \in 1..(n + 1) : i > at => i - at \in 1..(n - at + 1) /\ b[i - at] = rest[i - 1]
      <3>1. \A i \in 1..(n + 1) : i > at => i - at \in 1..(n - at + 1) /\ at + (i - at) - 1 = i - 1
        BY <1>3
      <3> QED
        BY <3>1, <2>3
    <2>10. \A i \in 1..(n + 1) : i <= at => i \in 1..at
      BY <1>3
    <2> QED
      BY <2>5, <2>6, <2>7, <2>8, <2>9, <2>10, <1>3
  <1>9. DOMAIN moved = 1..(n + 1)
    BY <1>8
  <1> HIDE DEF moved
  <1>10. IsInjective(moved)
    <2> SUFFICES ASSUME NEW i \in 1..(n + 1), NEW j \in 1..(n + 1), moved[i] = moved[j]
                 PROVE  i = j
      BY <1>9 DEF IsInjective
    <2> DEFINE p(k) == IF k < at THEN k ELSE k - 1
    <2>1. \A k \in 1..(n + 1) : k # at => p(k) \in 1..n /\ moved[k] = rest[p(k)] /\ moved[k] # u
      BY <1>3, <1>8
    <2>2. moved[at] = u
      BY <1>3, <1>8
    <2>3. CASE i = at \/ j = at
      BY <2>1, <2>2, <2>3
    <2>4. CASE i # at /\ j # at
      <3>1. rest[p(i)] = rest[p(j)] /\ p(i) \in 1..n /\ p(j) \in 1..n
        BY <2>1, <2>4
      <3>2. p(i) = p(j)
        BY <3>1, <1>2, <1>3 DEF IsInjective
      <3> QED
        BY <3>2, <2>4, <1>3
    <2> QED
      BY <2>3, <2>4
  <1>11. ToSet(moved) = ToSet(rest) \cup {u}
    <2>1. ASSUME NEW x \in ToSet(moved)
          PROVE  x \in ToSet(rest) \cup {u}
      <3>1. PICK i \in 1..(n + 1) : x = moved[i]
        BY <1>9 DEF ToSet
      <3>2. CASE i < at
        <4>1. i \in 1..n
          BY <3>2, <1>3
        <4>2. moved[i] = rest[i]
          BY <3>2, <1>8
        <4> QED
          BY <3>1, <4>1, <4>2, <1>3 DEF ToSet
      <3>3. CASE i = at
        BY <3>1, <3>3, <1>8
      <3>4. CASE i > at
        <4>1. i - 1 \in 1..n /\ ~(i <= at) /\ ~(i < at) /\ i # at
          BY <3>4, <1>3
        <4>2. moved[i] = rest[i - 1]
          BY <4>1, <1>8
        <4> QED
          BY <3>1, <4>1, <4>2, <1>3 DEF ToSet
      <3> QED
        BY <3>2, <3>3, <3>4, <1>3
    <2>2. ASSUME NEW x \in ToSet(rest) \cup {u}
          PROVE  x \in ToSet(moved)
      <3>1. CASE x = u
        BY <3>1, <1>3, <1>8, <1>9 DEF ToSet
      <3>2. CASE x # u
        <4>1. PICK i \in 1..n : x = rest[i]
          BY <3>2, <1>3 DEF ToSet
        <4>2. CASE i < at
          <5>1. i \in 1..(n + 1) /\ moved[i] = rest[i]
            BY <4>2, <1>3, <1>8
          <5> QED
            BY <4>1, <5>1, <1>9 DEF ToSet
        <4>3. CASE i >= at
          <5>1. i + 1 \in 1..(n + 1) /\ moved[i + 1] = rest[i]
            <6>1. i + 1 \in 1..(n + 1) /\ ~(i + 1 < at) /\ i + 1 # at /\ (i + 1) - 1 = i
              BY <4>3, <1>3
            <6> QED
              BY <6>1, <1>8
          <5> QED
            BY <4>1, <5>1, <1>9 DEF ToSet
        <4> QED
          BY <4>2, <4>3, <1>3
      <3> QED
        BY <3>1, <3>2
    <2> QED
      BY <2>1, <2>2
  <1>12. ToSet(moved) = ToSet(list)
    BY <1>2, <1>11
  <1> QED
    BY <1>8, <1>10, <1>12 DEF Moved, moved, rest, at

-----------------------------------------------------------------------------
(* The machine: every event leaves a state whose step has what it needs. *)

GoodState(s) == s \in UploadMachineState /\ Coherent(s)

LEMMA ContextsAreTyped ==
    ASSUME NEW ctx \in UploadContext, NEW step
    PROVE  noContext \in UploadContext /\ contextFor(step, ctx) \in UploadContext
  BY DEF UploadContext, noContext, contextFor, UploadMode

LEMMA RestsAreGood ==
    ASSUME NEW status \in Resting, NEW next \in STEPS, NEW error \in UploadError,
           NEW ctx \in UploadContext, Ready(next, ctx)
    PROVE  GoodState([status |-> status, next |-> next, error |-> error, ctx |-> ctx])
  BY DEF GoodState, UploadMachineState, UploadStatus, Resting, STEPS, UploadError, Coherent, isStep

LEMMA StepsAreGood ==
    ASSUME NEW step \in STEPS, NEW ctx \in UploadContext, Ready(step, ctx)
    PROVE  GoodState(At(step, ctx))
  BY DEF GoodState, UploadMachineState, UploadStatus, Resting, STEPS, UploadError, Coherent, isStep, At

LEMMA PartsOfState ==
    ASSUME NEW s, GoodState(s)
    PROVE  /\ s.status \in UploadStatus /\ s.next \in STEPS \cup {"none"} /\ s.error \in UploadError
           /\ s.ctx \in UploadContext
           /\ s.status \in STEPS => Ready(s.status, s.ctx)
           /\ s.status \in Resting => s.next \in STEPS /\ Ready(s.next, s.ctx)
           /\ s.status = "cancelling" => s.ctx.transactionId
  BY DEF GoodState, UploadMachineState, Coherent, isStep

LEMMA StartIsGood ==
    ASSUME NEW s, GoodState(s)
    PROVE  /\ GoodState(Start(s))
           /\ s.status = "queued" => isStep(Start(s).status)
  <1>1. CASE s.status = "queued"
    BY <1>1, PartsOfState, StepsAreGood DEF Start, Resting, At, isStep
  <1>2. CASE s.status # "queued"
    BY <1>2 DEF Start
  <1> QED
    BY <1>1, <1>2

LEMMA HashProgressIsGood ==
    ASSUME NEW s, GoodState(s), NEW n \in Nat
    PROVE  GoodState(HashProgress(s, n)) /\ HashProgress(s, n).status = s.status
  <1>1. CASE s.status = "hashing"
    <2>1. HashProgress(s, n) = [status |-> "hashing", next |-> s.next, error |-> s.error,
                                ctx |-> [s.ctx EXCEPT !.hashed = n]]
      BY <1>1 DEF HashProgress, GoodState, UploadMachineState
    <2>2. [s.ctx EXCEPT !.hashed = n] \in UploadContext
      BY PartsOfState DEF UploadContext
    <2> QED
      BY <1>1, <2>1, <2>2, PartsOfState DEF GoodState, UploadMachineState, Coherent, Ready, isStep,
          STEPS, Resting
  <1>2. CASE s.status # "hashing"
    BY <1>2 DEF HashProgress
  <1> QED
    BY <1>1, <1>2

LEMMA HashedIsGood ==
    ASSUME NEW s, GoodState(s)
    PROVE  GoodState(Hashed(s)) /\ (s.status = "hashing" => Hashed(s).status = "initializing")
  <1>1. CASE s.status = "hashing"
    <2>1. [s.ctx EXCEPT !.hash = TRUE] \in UploadContext /\ [s.ctx EXCEPT !.hash = TRUE].hash
      BY PartsOfState DEF UploadContext
    <2> QED
      BY <1>1, <2>1, StepsAreGood DEF Hashed, Ready, STEPS, At
  <1>2. CASE s.status # "hashing"
    BY <1>2 DEF Hashed
  <1> QED
    BY <1>1, <1>2

LEMMA InitializedIsGood ==
    ASSUME NEW s, GoodState(s), NEW mode \in UploadMode \ {"none"}
    PROVE  /\ GoodState(Initialized(s, mode))
           /\ s.status = "initializing" => Initialized(s, mode).status \in {"uploading", "verifying"}
  <1>1. CASE s.status = "initializing"
    <2> DEFINE c == [s.ctx EXCEPT !.transactionId = TRUE, !.mode = mode, !.uploaded = 0]
    <2>1. c \in UploadContext /\ c.hash = s.ctx.hash /\ c.transactionId = TRUE /\ c.mode = mode
      BY PartsOfState DEF UploadContext, UploadMode
    <2>2. s.ctx.hash
      BY <1>1, PartsOfState DEF Ready, STEPS
    <2> HIDE DEF c
    <2>3. CASE mode = "verify"
      <3>1. Ready("verifying", c)
        BY <2>1, <2>2, <2>3 DEF Ready
      <3> QED
        BY <1>1, <2>1, <2>3, <3>1, StepsAreGood DEF Initialized, STEPS, At, c
    <2>4. CASE mode # "verify"
      <3>1. Ready("uploading", c)
        BY <2>1, <2>2, <2>4 DEF Ready, UploadMode
      <3> QED
        BY <1>1, <2>1, <2>4, <3>1, StepsAreGood DEF Initialized, STEPS, At, c
    <2> QED
      BY <2>3, <2>4
  <1>2. CASE s.status # "initializing"
    BY <1>2 DEF Initialized
  <1> QED
    BY <1>1, <1>2

LEMMA UploadProgressIsGood ==
    ASSUME NEW s, GoodState(s), NEW n \in Nat
    PROVE  /\ GoodState(UploadProgress(s, n)) /\ UploadProgress(s, n).status = s.status
           /\ UploadProgress(s, n).ctx.mode = s.ctx.mode
  <1>1. CASE s.status = "uploading"
    <2> DEFINE c == [s.ctx EXCEPT !.uploaded = n]
    <2>1. UploadProgress(s, n) = [status |-> "uploading", next |-> s.next, error |-> s.error, ctx |-> c]
      BY <1>1 DEF UploadProgress, GoodState, UploadMachineState
    <2>2. /\ c \in UploadContext
          /\ c.hash = s.ctx.hash /\ c.transactionId = s.ctx.transactionId /\ c.mode = s.ctx.mode
      BY PartsOfState DEF UploadContext
    <2> HIDE DEF c
    <2>3. Ready("uploading", c)
      BY <1>1, <2>2, PartsOfState DEF Ready, STEPS
    <2> QED
      BY <1>1, <2>1, <2>2, <2>3, PartsOfState DEF GoodState, UploadMachineState, Coherent, isStep,
          STEPS, Resting
  <1>2. CASE s.status # "uploading"
    BY <1>2 DEF UploadProgress
  <1> QED
    BY <1>1, <1>2

LEMMA UploadedIsGood ==
    ASSUME NEW s, GoodState(s)
    PROVE  /\ GoodState(Uploaded(s))
           /\ s.status = "uploading" /\ s.ctx.mode = "chunked" => Uploaded(s).status = "completing"
  <1>1. CASE s.status = "uploading" /\ s.ctx.mode = "chunked"
    <2>1. Ready("completing", s.ctx)
      BY <1>1, PartsOfState DEF Ready, STEPS
    <2> QED
      BY <1>1, <2>1, PartsOfState, StepsAreGood DEF Uploaded, STEPS, At
  <1>2. CASE ~(s.status = "uploading" /\ s.ctx.mode = "chunked")
    BY <1>2 DEF Uploaded
  <1> QED
    BY <1>1, <1>2

LEMMA IncompleteIsGood ==
    ASSUME NEW s, GoodState(s)
    PROVE  GoodState(Incomplete(s)) /\ (s.status = "completing" => Incomplete(s).status = "uploading")
  <1>1. CASE s.status = "completing"
    <2>1. Ready("uploading", s.ctx)
      BY <1>1, PartsOfState DEF Ready, STEPS
    <2> QED
      BY <1>1, <2>1, PartsOfState, StepsAreGood DEF Incomplete, STEPS, At
  <1>2. CASE s.status # "completing"
    BY <1>2 DEF Incomplete
  <1> QED
    BY <1>1, <1>2

LEMMA EndsAreGood ==
    ASSUME NEW ctx \in UploadContext, NEW status \in {"done", "cancelled", "cancelling"},
           status = "cancelling" => ctx.transactionId
    PROVE  GoodState(At(status, ctx))
  BY DEF GoodState, UploadMachineState, UploadStatus, Resting, STEPS, UploadError, Coherent, isStep, At

LEMMA CompletedIsGood ==
    ASSUME NEW s, GoodState(s), s.status \in {"uploading", "verifying", "completing"}
    PROVE  GoodState(Completed(s)) /\ Completed(s).status = "done"
  BY PartsOfState, EndsAreGood DEF Completed, At

LEMMA TransactionLostIsGood ==
    ASSUME NEW s, GoodState(s), isStep(s.status)
    PROVE  GoodState(TransactionLost(s)) /\ isStep(TransactionLost(s).status)
  <1>1. CASE s.status \in {"uploading", "verifying", "completing"}
    <2> DEFINE c == contextFor("initializing", s.ctx)
    <2>1. c \in UploadContext
      BY PartsOfState, ContextsAreTyped
    <2>2. s.ctx.hash /\ c.hash = s.ctx.hash
      BY <1>1, PartsOfState DEF Ready, STEPS, contextFor, noContext
    <2> HIDE DEF c
    <2>3. Ready("initializing", c)
      BY <2>2 DEF Ready
    <2> QED
      BY <1>1, <2>1, <2>3, StepsAreGood DEF TransactionLost, STEPS, At, isStep, c
  <1>2. CASE s.status \notin {"uploading", "verifying", "completing"}
    BY <1>2 DEF TransactionLost
  <1> QED
    BY <1>1, <1>2

LEMMA PauseIsGood ==
    ASSUME NEW s, GoodState(s)
    PROVE  GoodState(Pause(s)) /\ (Pause(s) # s => Pause(s).status = "paused")
  <1>1. CASE s.status = "queued"
    BY <1>1, PartsOfState, RestsAreGood DEF Pause, Rest, Resting, UploadError
  <1>2. CASE isStep(s.status)
    BY <1>2, PartsOfState, RestsAreGood DEF Pause, Rest, Resting, UploadError, isStep
  <1>3. CASE s.status # "queued" /\ ~isStep(s.status)
    BY <1>3 DEF Pause
  <1> QED
    BY <1>1, <1>2, <1>3

LEMMA ResumeIsGood ==
    ASSUME NEW s, GoodState(s)
    PROVE  GoodState(Resume(s)) /\ (Resume(s) # s => s.status = "paused" /\ Resume(s).status = "queued")
  <1>1. CASE s.status = "paused"
    BY <1>1, PartsOfState, RestsAreGood DEF Resume, Rest, Resting, UploadError
  <1>2. CASE s.status # "paused"
    BY <1>2 DEF Resume
  <1> QED
    BY <1>1, <1>2

LEMMA RetryIsGood ==
    ASSUME NEW s, GoodState(s)
    PROVE  GoodState(Retry(s)) /\ (s.status = "failed" => Retry(s).status = "queued")
  <1>1. CASE s.status = "failed"
    BY <1>1, PartsOfState, RestsAreGood DEF Retry, Rest, Resting, UploadError
  <1>2. CASE s.status # "failed"
    BY <1>2 DEF Retry
  <1> QED
    BY <1>1, <1>2

LEMMA FailIsGood ==
    ASSUME NEW s, GoodState(s), isStep(s.status), NEW error \in UploadError,
           NEW next \in {"none", "hashing", "initializing"},
           next = "initializing" => s.status = "initializing"
    PROVE  GoodState(Fail(s, error, next)) /\ Fail(s, error, next).status = "failed"
  <1>1. CASE next = "none"
    <2>1. Fail(s, error, next) = [status |-> "failed", next |-> s.status, error |-> error, ctx |-> s.ctx]
      BY <1>1 DEF Fail, Rest
    <2> QED
      BY <2>1, PartsOfState, RestsAreGood DEF Resting, isStep
  <1>2. CASE next # "none"
    <2> DEFINE c == contextFor(next, s.ctx)
    <2>1. c \in UploadContext
      BY PartsOfState, ContextsAreTyped
    <2>2. Ready(next, c)
      BY <1>2, PartsOfState DEF Ready, STEPS, contextFor, noContext
    <2> HIDE DEF c
    <2>3. Fail(s, error, next) = [status |-> "failed", next |-> next, error |-> error, ctx |-> c]
      BY <1>2 DEF Fail, Rest, c
    <2> QED
      BY <2>1, <2>2, <2>3, <1>2, RestsAreGood DEF Resting, STEPS
  <1> QED
    BY <1>1, <1>2

LEMMA CancelIsGood ==
    ASSUME NEW s, GoodState(s)
    PROVE  /\ GoodState(Cancel(s))
           /\ Cancel(s) = s <=> isTerminal(s.status) \/ s.status = "cancelling"
           /\ Cancel(s) # s => Cancel(s).status \in {"cancelling", "cancelled"}
  <1>1. CASE isTerminal(s.status) \/ s.status = "cancelling"
    BY <1>1 DEF Cancel
  <1>2. CASE ~(isTerminal(s.status) \/ s.status = "cancelling")
    <2>1. Cancel(s) = At(IF s.ctx.transactionId THEN "cancelling" ELSE "cancelled", s.ctx)
      BY <1>2 DEF Cancel
    <2>2. GoodState(Cancel(s))
      BY <2>1, PartsOfState, EndsAreGood
    <2>3. Cancel(s).status \in {"cancelling", "cancelled"}
      BY <2>1 DEF At
    <2> QED
      BY <1>2, <2>2, <2>3 DEF isTerminal
  <1> QED
    BY <1>1, <1>2

LEMMA CancelledIsGood ==
    ASSUME NEW s, GoodState(s)
    PROVE  /\ GoodState(Cancelled(s))
           /\ IF s.status = "cancelling" THEN Cancelled(s).status = "cancelled" ELSE Cancelled(s) = s
  <1>1. CASE s.status = "cancelling"
    BY <1>1, PartsOfState, EndsAreGood DEF Cancelled, At
  <1>2. CASE s.status # "cancelling"
    BY <1>2 DEF Cancelled
  <1> QED
    BY <1>1, <1>2

-----------------------------------------------------------------------------
(* The runner: what a step, an abort and a call leave of it. *)

GoodRunner(r, sv) == r \in RunnerType /\ Sound(r, sv)

LEMMA PartsOfRunner ==
    ASSUME NEW r, NEW sv, GoodRunner(r, sv)
    PROVE  /\ r \in RunnerType /\ GoodState(r.state)
           /\ r.reply \in RunnerReply /\ r.offset \in 0..(Slices - 1) /\ r.lost \in 0..MaxLost
           /\ r.left \subseteq Chunks /\ r.asked \in BOOLEAN /\ r.fresh \in BOOLEAN
           /\ r.unwinding \in {"no", "hashing", "call"}
           /\ r.cancel \in {"no", "unwinding", "calling"}
           /\ isStep(r.state.status) => r.cancel = "no"
  BY DEF GoodRunner, RunnerType, Sound, GoodState, isStep, STEPS

\* Nothing is waited for: what is left to say is how it stands.
LEMMA QuietIsGood ==
    ASSUME NEW r \in RunnerType, NEW sv, GoodState(r.state), r.reply = "none",
           r.state.status = "done" => sv.asset,
           r.state.status = "cancelling" => r.cancel # "no",
           r.cancel # "no" => r.state.status \in {"cancelling", "cancelled"}
    PROVE  GoodRunner(r, sv)
  BY DEF GoodRunner, Sound, GoodState

LEMMA LeaveIsTyped ==
    ASSUME NEW r \in RunnerType
    PROVE  /\ Leave(r) \in RunnerType /\ Leave(r).reply = "none" /\ Leave(r).state = r.state
           /\ Leave(r).unwinding = r.unwinding /\ Leave(r).cancel = r.cancel
  BY DEF Leave, RunnerType, RunnerReply

LEMMA EnterIsTyped ==
    ASSUME NEW r \in RunnerType
    PROVE  /\ Enter(r) \in RunnerType /\ Enter(r).reply = "none" /\ Enter(r).state = r.state
           /\ Enter(r).unwinding = r.unwinding /\ Enter(r).cancel = r.cancel
  <1> DEFINE all == r.fresh /\ r.state.status = "uploading" /\ Chunked(r.state)
             left == IF all THEN Chunks ELSE {}
  <1>1. all \in BOOLEAN /\ left \in SUBSET Chunks /\ (r.fresh /\ ~all) \in BOOLEAN
    BY DEF RunnerType
  <1> HIDE DEF left, all
  <1>2. Enter(r) = [r EXCEPT !.reply = "none", !.asked = all, !.left = left, !.fresh = r.fresh /\ ~all]
    BY DEF Enter, all, left
  <1> QED
    BY <1>1, <1>2 DEF RunnerType, RunnerReply

LEMMA StateIsReplaced ==
    ASSUME NEW r \in RunnerType, NEW s \in UploadMachineState
    PROVE  /\ [r EXCEPT !.state = s] \in RunnerType /\ [r EXCEPT !.state = s].state = s
           /\ [r EXCEPT !.state = s].reply = r.reply /\ [r EXCEPT !.state = s].cancel = r.cancel
           /\ [r EXCEPT !.state = s].unwinding = r.unwinding
  BY DEF RunnerType

LEMMA AdvanceIsGood ==
    ASSUME NEW r \in RunnerType, NEW sv, NEW s, GoodState(s),
           s.status = "done" => sv.asset, s.status = "cancelling" => r.cancel # "no",
           r.cancel # "no" => s.status \in {"cancelling", "cancelled"}
    PROVE  GoodRunner(Advance(r, s), sv) /\ Advance(r, s).state = s
  <1> DEFINE q == [r EXCEPT !.state = s]
  <1>1. s \in UploadMachineState
    BY DEF GoodState
  <1>2. q \in RunnerType /\ q.state = s /\ q.cancel = r.cancel
    BY <1>1, StateIsReplaced
  <1>3. Advance(r, s) = (IF isStep(s.status) THEN Enter(q) ELSE Leave(q))
    BY DEF Advance
  <1> HIDE DEF q
  <1>4. /\ Advance(r, s) \in RunnerType /\ Advance(r, s).reply = "none"
        /\ Advance(r, s).state = s /\ Advance(r, s).cancel = r.cancel
    BY <1>2, <1>3, EnterIsTyped, LeaveIsTyped
  <1> QED
    BY <1>4, QuietIsGood

LEMMA AbortIsTyped ==
    ASSUME NEW r \in RunnerType, NEW s \in UploadMachineState
    PROVE  /\ Abort(r, s) \in RunnerType /\ Abort(r, s).reply = "none" /\ Abort(r, s).state = s
           /\ Abort(r, s).cancel = r.cancel
  <1> DEFINE unwinding == IF r.unwinding # "no" \/ ~isStep(r.state.status) THEN r.unwinding
                          ELSE IF r.state.status = "hashing" THEN "hashing" ELSE "call"
  <1>1. unwinding \in {"no", "hashing", "call"}
    BY DEF RunnerType
  <1>2. Abort(r, s) = [Leave(r) EXCEPT !.state = s, !.unwinding = unwinding]
    BY DEF Abort
  <1> HIDE DEF unwinding
  <1> QED
    BY <1>1, <1>2, LeaveIsTyped DEF RunnerType

LEMMA PausedIsGood ==
    ASSUME NEW r, NEW sv, GoodRunner(r, sv)
    PROVE  GoodRunner(Paused(r), sv) /\ (Paused(r).state # r.state => Paused(r).state.status = "paused")
  <1>1. GoodState(r.state) /\ r \in RunnerType
    BY PartsOfRunner
  <1>2. CASE Pause(r.state) = r.state
    BY <1>2 DEF Paused
  <1>3. CASE Pause(r.state) # r.state
    <2>1. GoodState(Pause(r.state)) /\ Pause(r.state).status = "paused"
      BY <1>1, <1>3, PauseIsGood
    <2>2. Paused(r) = Abort(r, Pause(r.state))
      BY <1>3 DEF Paused
    <2>3. /\ Paused(r) \in RunnerType /\ Paused(r).reply = "none" /\ Paused(r).state = Pause(r.state)
          /\ Paused(r).cancel = r.cancel
      BY <1>1, <2>1, <2>2, AbortIsTyped DEF GoodState
    <2>4. r.cancel = "no"
      BY <1>1, <1>3, PartsOfRunner DEF Pause, GoodRunner, Sound, isStep, STEPS
    <2> QED
      BY <2>1, <2>3, <2>4, QuietIsGood
  <1> QED
    BY <1>2, <1>3

LEMMA ResumedIsGood ==
    ASSUME NEW r, NEW sv, GoodRunner(r, sv)
    PROVE  GoodRunner(Resumed(r), sv) /\ (Resumed(r).state # r.state => Resumed(r).state.status = "queued")
  <1>1. GoodState(r.state) /\ r \in RunnerType
    BY PartsOfRunner
  <1>2. GoodState(Resume(r.state))
    BY <1>1, ResumeIsGood
  <1>3. /\ Resumed(r) \in RunnerType /\ Resumed(r).state = Resume(r.state)
        /\ Resumed(r).reply = r.reply /\ Resumed(r).cancel = r.cancel
        /\ Resumed(r).unwinding = r.unwinding
    BY <1>1, <1>2, StateIsReplaced DEF Resumed, GoodState
  <1>4. CASE Resume(r.state) = r.state
    <2>1. Resumed(r) = r
      BY <1>4 DEF Resumed, GoodRunner, RunnerType
    <2> QED
      BY <2>1
  <1>5. CASE Resume(r.state) # r.state
    <2>1. r.state.status = "paused" /\ Resume(r.state).status = "queued"
      BY <1>1, <1>5, ResumeIsGood
    <2>2. r.reply = "none" /\ r.cancel = "no"
      BY <2>1 DEF GoodRunner, Sound, RunnerType, isStep, STEPS
    <2> QED
      BY <1>2, <1>3, <2>1, <2>2, QuietIsGood
  <1> QED
    BY <1>4, <1>5

LEMMA RetriedIsGood ==
    ASSUME UploaderAssumption, NEW r, NEW sv, GoodRunner(r, sv)
    PROVE  GoodRunner(Retried(r), sv) /\ (Retried(r).state # r.state => Retried(r).state.status = "queued")
  <1>1. GoodState(r.state) /\ r \in RunnerType
    BY PartsOfRunner
  <1>2. CASE r.state.status = "failed"
    <2>1. GoodState(Retry(r.state)) /\ Retry(r.state).status = "queued"
      BY <1>1, <1>2, RetryIsGood
    <2>2. Retry(r.state) \in UploadMachineState /\ 0 \in 0..MaxLost
      BY <2>1 DEF GoodState, UploaderAssumption
    <2>3. /\ Retried(r) \in RunnerType /\ Retried(r).state = Retry(r.state)
          /\ Retried(r).reply = r.reply /\ Retried(r).cancel = r.cancel
      BY <1>1, <1>2, <2>2 DEF Retried, RunnerType
    <2>4. r.reply = "none" /\ r.cancel = "no"
      BY <1>2 DEF GoodRunner, Sound, RunnerType, isStep, STEPS
    <2> QED
      BY <2>1, <2>3, <2>4, QuietIsGood
  <1>3. CASE r.state.status # "failed"
    BY <1>3 DEF Retried
  <1> QED
    BY <1>2, <1>3

LEMMA CancellingIsGood ==
    ASSUME NEW r, NEW sv, GoodRunner(r, sv)
    PROVE  /\ GoodRunner(Cancelling(r), sv)
           /\ Cancelling(r).state # r.state => Cancelling(r).state.status \in {"cancelling", "cancelled"}
           /\ Cancelling(r) = r <=> isTerminal(r.state.status) \/ r.state.status = "cancelling"
           /\ Cancelling(r) = r <=> Cancelling(r).state = r.state
  <1>1. GoodState(r.state) /\ r \in RunnerType
    BY PartsOfRunner
  <1>2. Cancel(r.state) = r.state <=> isTerminal(r.state.status) \/ r.state.status = "cancelling"
    BY <1>1, CancelIsGood
  <1>3. CASE Cancel(r.state) = r.state
    BY <1>2, <1>3 DEF Cancelling
  <1>4. CASE Cancel(r.state) # r.state
    <2>1. GoodState(Cancel(r.state)) /\ Cancel(r.state).status \in {"cancelling", "cancelled"}
      BY <1>1, <1>4, CancelIsGood
    <2> DEFINE q == Abort(r, Cancel(r.state))
    <2>2. q \in RunnerType /\ q.reply = "none" /\ q.state = Cancel(r.state)
      BY <1>1, <2>1, AbortIsTyped DEF GoodState
    <2>3. Cancelling(r) = [q EXCEPT !.cancel = "unwinding"]
      BY <1>4 DEF Cancelling
    <2> HIDE DEF q
    <2>4. /\ Cancelling(r) \in RunnerType /\ Cancelling(r).reply = "none"
          /\ Cancelling(r).state = Cancel(r.state) /\ Cancelling(r).cancel = "unwinding"
      BY <2>2, <2>3 DEF RunnerType
    <2>5. GoodRunner(Cancelling(r), sv)
      BY <2>1, <2>4, QuietIsGood
    <2> QED
      BY <2>1, <2>4, <2>5, <1>2, <1>4
  <1> QED
    BY <1>3, <1>4

\* start() of a queued upload puts it in its step.
LEMMA BeginIsGood ==
    ASSUME NEW r, NEW sv, GoodRunner(r, sv), r.state.status = "queued"
    PROVE  GoodRunner(Begin(r), sv) /\ isStep(Begin(r).state.status)
  <1> DEFINE q == [r EXCEPT !.state = Start(r.state)]
  <1>1. GoodState(r.state) /\ r \in RunnerType
    BY PartsOfRunner
  <1>2. GoodState(Start(r.state)) /\ isStep(Start(r.state).status)
    BY <1>1, StartIsGood
  <1>3. q \in RunnerType /\ q.state = Start(r.state) /\ q.reply = r.reply /\ q.cancel = r.cancel
    BY <1>1, <1>2, StateIsReplaced DEF GoodState
  <1>4. r.reply = "none" /\ r.cancel = "no"
    BY DEF GoodRunner, Sound, RunnerType, isStep, STEPS
  <1>5. Begin(r) = (IF r.unwinding = "no" THEN Enter(q) ELSE q)
    BY DEF Begin
  <1> HIDE DEF q
  <1>6. /\ Begin(r) \in RunnerType /\ Begin(r).reply = "none" /\ Begin(r).state = Start(r.state)
        /\ Begin(r).cancel = "no"
    BY <1>3, <1>4, <1>5, EnterIsTyped
  <1> QED
    BY <1>2, <1>6, QuietIsGood DEF isStep, STEPS

\* A step that failed leads to another step or to a rest.
LEMMA FailedIsGood ==
    ASSUME UploaderAssumption, NEW r, NEW sv, GoodRunner(r, sv),
           NEW error \in UploadError, isStep(r.state.status),
           error = "token" => r.state.status = "initializing"
    PROVE  /\ GoodRunner(Failed(r, error), sv)
           /\ isStep(Failed(r, error).state.status) \/ Failed(r, error).state.status = "failed"
  <1>1. GoodState(r.state) /\ r \in RunnerType /\ r.lost \in 0..MaxLost /\ r.cancel = "no"
    BY PartsOfRunner
  <1>2. CASE error = "lost" /\ r.state.status # "initializing" /\ r.lost < MaxLost
    <2> DEFINE q == [r EXCEPT !.lost = @ + 1]
    <2>1. r.lost + 1 \in 0..MaxLost
      BY <1>1, <1>2 DEF UploaderAssumption
    <2>2. q \in RunnerType /\ q.cancel = "no"
      BY <1>1, <2>1 DEF RunnerType
    <2>3. GoodState(TransactionLost(r.state)) /\ isStep(TransactionLost(r.state).status)
      BY <1>1, TransactionLostIsGood
    <2>4. Failed(r, error) = Advance(q, TransactionLost(r.state))
      BY <1>2 DEF Failed
    <2> HIDE DEF q
    <2> DEFINE s == TransactionLost(r.state)
    <2>5. s.status # "done" /\ s.status # "cancelling"
      BY <2>3 DEF isStep, STEPS
    <2>6. GoodRunner(Advance(q, s), sv) /\ Advance(q, s).state = s
      BY <2>2, <2>3, <2>5, AdvanceIsGood
    <2> QED
      BY <2>3, <2>4, <2>6
  <1>3. CASE ~(error = "lost" /\ r.state.status # "initializing" /\ r.lost < MaxLost) /\ error = "content"
    <2> DEFINE q == [r EXCEPT !.offset = 0]
    <2>1. 0 \in 0..(Slices - 1)
      BY DEF UploaderAssumption
    <2>2. q \in RunnerType /\ q.cancel = "no"
      BY <1>1, <2>1 DEF RunnerType
    <2>3. /\ GoodState(Fail(r.state, error, "hashing"))
          /\ Fail(r.state, error, "hashing").status = "failed"
      BY <1>1, FailIsGood
    <2>4. Failed(r, error) = Advance(q, Fail(r.state, error, "hashing"))
      BY <1>3 DEF Failed
    <2> HIDE DEF q
    <2> QED
      BY <2>2, <2>3, <2>4, AdvanceIsGood
  <1>4. CASE ~(error = "lost" /\ r.state.status # "initializing" /\ r.lost < MaxLost) /\ error # "content"
    <2> DEFINE next == IF error = "token" THEN "initializing" ELSE "none"
    <2>1. GoodState(Fail(r.state, error, next)) /\ Fail(r.state, error, next).status = "failed"
      BY <1>1, FailIsGood
    <2>2. Failed(r, error) = Advance(r, Fail(r.state, error, next))
      BY <1>4 DEF Failed
    <2> HIDE DEF next
    <2> QED
      BY <1>1, <2>1, <2>2, AdvanceIsGood
  <1> QED
    BY <1>2, <1>3, <1>4

-----------------------------------------------------------------------------
(* What is told to the page. *)

LEMMA SnapshotIsTyped ==
    ASSUME UploaderAssumption, NEW s, GoodState(s)
    PROVE  Snapshot(s) \in SnapshotType /\ Snapshot(s).status = s.status
  <1>1. Cardinality(Chunks) \in Nat
    BY FS_CardinalityType DEF UploaderAssumption
  <1>2. /\ s.status \in UploadStatus /\ s.next \in STEPS \cup {"none"}
        /\ s.ctx.hashed \in Nat /\ s.ctx.uploaded \in Nat
    BY PartsOfState DEF UploadContext
  <1>3. STEPS \cup {"none"} \subseteq UploadStatus \cup {"none"}
    BY DEF UploadStatus
  <1> QED
    BY <1>1, <1>2, <1>3 DEF Snapshot, SnapshotType

\* An upload's snapshots say how it stands.
LEMMA SnapshotsAreTyped ==
    ASSUME UploaderAssumption, NEW rs, NEW us \in Seq(Uploads),
           \A u \in Uploads : GoodState(rs[u].state)
    PROVE  /\ Snapshots(rs, us) \in Seq(ToPage)
           /\ DOMAIN Snapshots(rs, us) = DOMAIN us
           /\ \A i \in DOMAIN us :
                /\ us[i] \in Uploads
                /\ Snapshots(rs, us)[i].id = us[i]
                /\ Snapshots(rs, us)[i].arg = Snapshot(rs[us[i]].state)
  <1> DEFINE message(u) == [type |-> "snapshot", id |-> u, arg |-> Snapshot(rs[u].state)]
             n == Len(us)
  <1>1. n \in Nat /\ DOMAIN us = 1..n /\ \A i \in 1..n : us[i] \in Uploads
    OBVIOUS
  <1>2. ASSUME NEW u \in Uploads
        PROVE  message(u) \in ToPage
    BY SnapshotIsTyped DEF ToPage
  <1>3. Snapshots(rs, us) = [i \in 1..n |-> message(us[i])]
    BY <1>1 DEF Snapshots
  <1>4. \A i \in 1..n : message(us[i]) \in ToPage
    BY <1>1, <1>2
  <1>5. Snapshots(rs, us) \in Seq(ToPage)
    <2> HIDE DEF message
    <2>1. Snapshots(rs, us) \in [1..n -> ToPage]
      BY <1>3, <1>4
    <2> QED
      BY <2>1, <1>1, SeqDef
  <1> QED
    BY <1>1, <1>3, <1>5

\* Messages about others change nothing; messages about it are its last word.
LEMMA OthersTellNothing ==
    ASSUME NEW f \in Seq(ToPage), NEW g \in Seq(ToPage), NEW u, NEW s, NEW p,
           Tells(f, u, s, p), \A i \in DOMAIN g : g[i].id # u
    PROVE  Tells(f \o g, u, s, p)
  <1>1. /\ Len(f) \in Nat /\ Len(g) \in Nat /\ DOMAIN f = 1..Len(f) /\ DOMAIN g = 1..Len(g)
        /\ DOMAIN (f \o g) = 1..(Len(f) + Len(g))
        /\ \A i \in 1..(Len(f) + Len(g)) : (f \o g)[i] = IF i <= Len(f) THEN f[i] ELSE g[i - Len(f)]
    OBVIOUS
  <1>2. \A i \in DOMAIN f : i \in DOMAIN (f \o g) /\ (f \o g)[i] = f[i]
    BY <1>1
  <1>3. ASSUME NEW i \in DOMAIN (f \o g), (f \o g)[i].id = u
        PROVE  i \in DOMAIN f
    <2>1. CASE i <= Len(f)
      BY <2>1, <1>1
    <2>2. CASE i > Len(f)
      <3>1. i - Len(f) \in DOMAIN g /\ (f \o g)[i] = g[i - Len(f)]
        BY <2>2, <1>1
      <3> QED
        BY <3>1, <1>3
    <2> QED
      BY <2>1, <2>2, <1>1
  <1>4. ASSUME NEW i \in DOMAIN (f \o g), (f \o g)[i].id = u,
               \A j \in DOMAIN (f \o g) : j > i => (f \o g)[j].id # u
        PROVE  (f \o g)[i].arg = s
    <2>1. i \in DOMAIN f /\ f[i] = (f \o g)[i]
      BY <1>2, <1>3, <1>4
    <2>2. \A j \in DOMAIN f : j > i => f[j].id # u
      BY <1>2, <1>4
    <2> QED
      BY <1>4, <2>1, <2>2 DEF Tells
  <1>5. (\A i \in DOMAIN (f \o g) : (f \o g)[i].id # u) => p = s
    BY <1>2 DEF Tells
  <1> QED
    BY <1>4, <1>5 DEF Tells

LEMMA LastWordTells ==
    ASSUME NEW f \in Seq(ToPage), NEW g \in Seq(ToPage), NEW u, NEW s, NEW p,
           \E i \in DOMAIN g : g[i].id = u, \A i \in DOMAIN g : g[i].id = u => g[i].arg = s
    PROVE  Tells(f \o g, u, s, p)
  <1>1. /\ Len(f) \in Nat /\ Len(g) \in Nat /\ DOMAIN f = 1..Len(f) /\ DOMAIN g = 1..Len(g)
        /\ DOMAIN (f \o g) = 1..(Len(f) + Len(g))
        /\ \A i \in 1..(Len(f) + Len(g)) : (f \o g)[i] = IF i <= Len(f) THEN f[i] ELSE g[i - Len(f)]
    OBVIOUS
  <1>2. PICK k \in DOMAIN g : g[k].id = u
    OBVIOUS
  <1>3. Len(f) + k \in DOMAIN (f \o g) /\ (f \o g)[Len(f) + k] = g[k]
    <2>1. k \in 1..Len(g) /\ Len(f) + k \in 1..(Len(f) + Len(g)) /\ ~(Len(f) + k <= Len(f))
          /\ (Len(f) + k) - Len(f) = k
      BY <1>1
    <2> QED
      BY <2>1, <1>1
  <1>4. ASSUME NEW i \in DOMAIN (f \o g), (f \o g)[i].id = u,
               \A j \in DOMAIN (f \o g) : j > i => (f \o g)[j].id # u
        PROVE  (f \o g)[i].arg = s
    <2>1. ~(Len(f) + k > i)
      BY <1>2, <1>3, <1>4
    <2>2. i - Len(f) \in DOMAIN g /\ (f \o g)[i] = g[i - Len(f)]
      BY <2>1, <1>1
    <2> QED
      BY <2>2, <1>4
  <1>5. ~(\A i \in DOMAIN (f \o g) : (f \o g)[i].id # u)
    BY <1>2, <1>3
  <1> QED
    BY <1>4, <1>5 DEF Tells

\* The page reads a message.
LEMMA ReadingTells ==
    ASSUME NEW f \in Seq(ToPage), f # <<>>, NEW u, NEW s, NEW p, Tells(f, u, s, p)
    PROVE  Tells(Tail(f), u, s, IF Head(f).id = u THEN Head(f).arg ELSE p)
  <1> DEFINE t == Tail(f)
             q == IF Head(f).id = u THEN Head(f).arg ELSE p
  <1>1. /\ 1 \in DOMAIN f /\ Head(f) = f[1]
        /\ \A i \in DOMAIN t : i + 1 \in DOMAIN f /\ t[i] = f[i + 1] /\ i \in Nat
        /\ \A i \in DOMAIN f : i # 1 => i - 1 \in DOMAIN t /\ t[i - 1] = f[i] /\ i \in Nat
        /\ \A i \in DOMAIN f : i \in Nat /\ i >= 1
    OBVIOUS
  <1> HIDE DEF t
  <1>2. ASSUME NEW i \in DOMAIN t, t[i].id = u, \A j \in DOMAIN t : j > i => t[j].id # u
        PROVE  t[i].arg = s
    <2>1. i + 1 \in DOMAIN f /\ f[i + 1] = t[i] /\ i \in Nat
      BY <1>1
    <2>2. ASSUME NEW j \in DOMAIN f, j > i + 1
          PROVE  f[j].id # u
      <3>1. j # 1 /\ j - 1 > i /\ j - 1 \in DOMAIN t /\ t[j - 1] = f[j]
        BY <1>1, <2>1, <2>2
      <3> QED
        BY <3>1, <1>2
    <2> QED
      BY <2>1, <2>2, <1>2 DEF Tells
  <1>3. ASSUME \A i \in DOMAIN t : t[i].id # u
        PROVE  q = s
    <2>1. \A i \in DOMAIN f : i # 1 => f[i].id # u
      BY <1>1, <1>3
    <2>2. CASE Head(f).id = u
      <3>1. f[1].arg = s
        BY <2>1, <2>2, <1>1 DEF Tells
      <3> QED
        BY <3>1, <2>2, <1>1
    <2>3. CASE Head(f).id # u
      BY <2>1, <2>3, <1>1 DEF Tells
    <2> QED
      BY <2>2, <2>3
  <1> QED
    BY <1>2, <1>3 DEF Tells, t

-----------------------------------------------------------------------------
(* The pump. *)

LEMMA PrefixKeepsElements ==
    ASSUME NEW S, NEW s \in Seq(S), IsInjective(s), NEW k \in 0..Len(s)
    PROVE  /\ SubSeq(s, 1, k) \in Seq(S) /\ IsInjective(SubSeq(s, 1, k)) /\ Len(SubSeq(s, 1, k)) = k
           /\ ToSet(SubSeq(s, 1, k)) \subseteq ToSet(s)
           /\ k = Len(s) => SubSeq(s, 1, k) = s
  <1>1. Len(s) \in Nat /\ DOMAIN s = 1..Len(s) /\ \A i \in 1..Len(s) : s[i] \in S
    OBVIOUS
  <1>2. /\ SubSeq(s, 1, k) \in Seq(S) /\ Len(SubSeq(s, 1, k)) = k /\ DOMAIN SubSeq(s, 1, k) = 1..k
        /\ \A i \in 1..k : SubSeq(s, 1, k)[i] = s[i] /\ i \in 1..Len(s)
    BY <1>1
  <1>3. IsInjective(SubSeq(s, 1, k))
    BY <1>1, <1>2 DEF IsInjective
  <1>4. ToSet(SubSeq(s, 1, k)) \subseteq ToSet(s)
    BY <1>1, <1>2 DEF ToSet
  <1>5. k = Len(s) => SubSeq(s, 1, k) = s
    BY SubSeqFull
  <1> QED
    BY <1>2, <1>3, <1>4, <1>5

QueuedOf(rs, queue) == {u \in ToSet(queue) : rs[u].state.status = "queued"}
WorkingOf(rs, queue) == {u \in ToSet(queue) : IsWorking(rs[u])}

\* The pump starts queued uploads, no more than there are slots, and stops only with the queue or
\* with the slots.
LEMMA StartedFillSlots ==
    ASSUME UploaderAssumption, NEW rs, NEW queue \in Seq(Uploads), IsInjective(queue)
    PROVE  LET started == ToSet(Started(rs, queue))
               working == Cardinality(WorkingOf(rs, queue))
           IN  /\ Started(rs, queue) \in Seq(Uploads)
               /\ started \subseteq QueuedOf(rs, queue) /\ IsFiniteSet(started)
               /\ IsFiniteSet(WorkingOf(rs, queue)) /\ working \in Nat /\ Cardinality(started) \in Nat
               /\ started = {} \/ working + Cardinality(started) <= MaxParallel
               /\ started = QueuedOf(rs, queue) \/ working + Cardinality(started) >= MaxParallel
  <1> DEFINE W == WorkingOf(rs, queue)
             w == Cardinality(W)
             free == MaxParallel - w
             queued == Those(queue, {u \in Uploads : rs[u].state.status = "queued"})
             k == IF free > Len(queued) THEN Len(queued) ELSE free
  <1>1. ToSet(queue) \subseteq Uploads /\ IsFiniteSet(ToSet(queue))
    BY PlacesAreElements
  <1>2. IsFiniteSet(W) /\ w \in Nat
    <2>1. W \in SUBSET ToSet(queue)
      BY DEF WorkingOf
    <2> QED
      BY <2>1, <1>1, FS_Subset, FS_CardinalityType
  <1>3. queued \in Seq(Uploads) /\ IsInjective(queued) /\ ToSet(queued) = QueuedOf(rs, queue)
    <2> DEFINE set == {u \in Uploads : rs[u].state.status = "queued"}
    <2>1. Uploads \cap set = set /\ ToSet(queue) \cap set = QueuedOf(rs, queue)
      BY <1>1 DEF QueuedOf
    <2>2. set \subseteq Uploads
      OBVIOUS
    <2>3. queued = Those(queue, set)
      OBVIOUS
    <2> HIDE DEF queued, set
    <2>4. queued \in Seq(set) /\ IsInjective(queued) /\ ToSet(queued) = ToSet(queue) \cap set
      BY <2>1, <2>3, ThoseAreTheOnes
    <2>5. queued \in Seq(Uploads)
      BY <2>2, <2>4, SeqMonotonic
    <2> QED
      BY <2>1, <2>4, <2>5
  <1>4. Started(rs, queue) = IF w >= MaxParallel THEN <<>> ELSE SubSeq(queued, 1, k)
    BY DEF Started, WorkingOf
  <1>5. MaxParallel \in Nat
    BY DEF UploaderAssumption
  <1>6. CASE w >= MaxParallel
    <2>1. Started(rs, queue) = <<>> /\ <<>> \in Seq(Uploads) /\ ToSet(<<>>) = {}
      BY <1>4, <1>6 DEF ToSet
    <2>2. IsFiniteSet({}) /\ Cardinality({}) = 0
      BY FS_EmptySet
    <2>3. ToSet(Started(rs, queue)) = {} /\ Started(rs, queue) \in Seq(Uploads)
      BY <2>1
    <2>4. w + 0 >= MaxParallel
      BY <1>2, <1>5, <1>6
    <2>5. IsFiniteSet(WorkingOf(rs, queue)) /\ Cardinality(WorkingOf(rs, queue)) = w /\ w \in Nat
      BY <1>2
    <2> HIDE DEF w, free, k, queued
    <2> QED
      BY <2>2, <2>3, <2>4, <2>5
  <1>7. CASE ~(w >= MaxParallel)
    <2> HIDE DEF queued, W
    <2>1. Len(queued) \in Nat
      BY <1>3
    <2>2. free \in Nat /\ free > 0
      BY <1>2, <1>5, <1>7
    <2>3. k \in 0..Len(queued) /\ k <= free /\ (k = Len(queued) \/ k = free)
      BY <2>1, <2>2
    <2> HIDE DEF k
    <2>4. Started(rs, queue) = SubSeq(queued, 1, k)
      BY <1>4, <1>7
    <2> DEFINE st == SubSeq(queued, 1, k)
    <2>5. /\ st \in Seq(Uploads) /\ IsInjective(st) /\ Len(st) = k
          /\ ToSet(st) \subseteq ToSet(queued) /\ (k = Len(queued) => st = queued)
      BY <1>3, <2>3, PrefixKeepsElements
    <2> HIDE DEF st
    <2>6. IsFiniteSet(ToSet(st)) /\ Cardinality(ToSet(st)) = k
      BY <2>5, PlacesAreElements
    <2>7. w + k <= MaxParallel /\ (k = free => w + k >= MaxParallel) /\ k \in Nat
      BY <1>2, <1>5, <2>1, <2>2, <2>3
    <2>8. Started(rs, queue) = st
      BY <2>4 DEF st
    <2>9. ToSet(st) \subseteq QueuedOf(rs, queue)
      BY <1>3, <2>5
    <2>10. ToSet(st) = QueuedOf(rs, queue) \/ w + k >= MaxParallel
      BY <1>3, <2>3, <2>5, <2>7
    <2>11. IsFiniteSet(WorkingOf(rs, queue)) /\ Cardinality(WorkingOf(rs, queue)) = w /\ w \in Nat
      BY <1>2 DEF W
    <2> HIDE DEF w, free
    <2> QED
      BY <2>5, <2>6, <2>7, <2>8, <2>9, <2>10, <2>11
  <1> QED
    BY <1>6, <1>7

-----------------------------------------------------------------------------
(* A step of the worker that publishes, and then pumps. *)

LEMMA PartsOfInv ==
    ASSUME UploaderInv
    PROVE  /\ Typed /\ RunnersAreSound /\ StepsAreKnown /\ AddsAreNew /\ DoneIsBacked
           /\ NoHangingWaiter /\ PageComesToShow /\ SlotsAreUsed /\ ParallelLimit
           /\ \A u \in Uploads : GoodRunner(runner[u], server[u]) /\ runner[u] \in RunnerType
           /\ ToSet(order) \subseteq Uploads /\ IsFiniteSet(ToSet(order))
           /\ IsFiniteSet({u \in Uploads : isStep(Status(u))})
  <1>1. Typed /\ RunnersAreSound /\ StepsAreKnown
    BY DEF UploaderInv
  <1>2. \A u \in Uploads : GoodRunner(runner[u], server[u]) /\ runner[u] \in RunnerType
    BY <1>1 DEF Typed, RunnersAreSound, GoodRunner
  <1>3. ToSet(order) \subseteq Uploads /\ IsFiniteSet(ToSet(order))
    BY <1>1, PlacesAreElements DEF Typed
  <1>4. {u \in Uploads : isStep(Status(u))} \in SUBSET ToSet(order)
    BY <1>1 DEF StepsAreKnown, Known
  <1>5. IsFiniteSet({u \in Uploads : isStep(Status(u))})
    BY <1>3, <1>4, FS_Subset
  <1> QED
    BY <1>2, <1>3, <1>5 DEF UploaderInv

\* What is asked of a change of the runners, and what publishing it gives.
ChangesSoundly(rs, queue) ==
    /\ rs \in [Uploads -> RunnerType]
    /\ \A u \in Uploads : GoodRunner(rs[u], server'[u])
    /\ \A u \in Uploads : isStep(rs[u].state.status) => isStep(Status(u)) /\ u \in ToSet(queue)
    /\ queue \in Seq(Uploads) /\ IsInjective(queue)

BacksMore ==
    /\ server' \in [Uploads -> ServerType]
    /\ \A u \in Uploads : server[u].asset => server'[u].asset

SaysWhatChanges(rs, queue, us, held, extra) ==
    /\ us \in Seq(Uploads) /\ held \subseteq ToSet(queue)
    /\ extra \in Seq(ToPage)
    /\ \A i \in DOMAIN extra : extra[i].arg = NoUpload /\ extra[i].id \notin ToSet(queue)
    /\ trailing \ ToSet(us) \subseteq ToSet(queue)
    /\ \A v \in ToSet(queue) \ (ToSet(us) \cup held) :
         v \in ToSet(order) /\ rs[v].state = runner[v].state

After(rs, queue) ==
    [u \in Uploads |-> IF u \in ToSet(Started(rs, queue)) THEN Begin(rs[u]) ELSE rs[u]]

LEMMA PublishedRunners ==
    ASSUME UploaderAssumption, UploaderInv, NEW rs, NEW queue, ChangesSoundly(rs, queue)
    PROVE  /\ After(rs, queue) \in [Uploads -> RunnerType]
           /\ ToSet(Started(rs, queue)) \subseteq Uploads
           /\ \A u \in Uploads : GoodRunner(After(rs, queue)[u], server'[u])
           /\ \A u \in ToSet(Started(rs, queue)) :
                isStep(After(rs, queue)[u].state.status) /\ u \in ToSet(queue)
           /\ \A u \in Uploads \ ToSet(Started(rs, queue)) : After(rs, queue)[u] = rs[u]
           /\ \A u \in Uploads : isStep(After(rs, queue)[u].state.status) => u \in ToSet(queue)
  <1> DEFINE st == ToSet(Started(rs, queue))
  <1>1. queue \in Seq(Uploads) /\ IsInjective(queue)
    BY DEF ChangesSoundly
  <1>2. st \subseteq QueuedOf(rs, queue) /\ ToSet(queue) \subseteq Uploads
    BY <1>1, StartedFillSlots, PlacesAreElements
  <1> HIDE DEF st
  <1>3. \A u \in st : u \in Uploads /\ u \in ToSet(queue) /\ rs[u].state.status = "queued"
    BY <1>2 DEF QueuedOf
  <1>4. \A u \in Uploads : GoodRunner(rs[u], server'[u])
    BY DEF ChangesSoundly
  <1>5. After(rs, queue) = [u \in Uploads |-> IF u \in st THEN Begin(rs[u]) ELSE rs[u]]
    BY DEF After, st
  <1>6. \A u \in st : GoodRunner(Begin(rs[u]), server'[u]) /\ isStep(Begin(rs[u]).state.status)
    BY <1>3, <1>4, BeginIsGood
  <1>7. \A u \in Uploads : GoodRunner(After(rs, queue)[u], server'[u])
    BY <1>4, <1>5, <1>6
  <1>8. After(rs, queue) \in [Uploads -> RunnerType]
    BY <1>5, <1>7 DEF GoodRunner
  <1>9. \A u \in Uploads : isStep(After(rs, queue)[u].state.status) => u \in ToSet(queue)
    BY <1>3, <1>5 DEF ChangesSoundly
  <1> QED
    BY <1>3, <1>5, <1>6, <1>7, <1>8, <1>9 DEF st

\* The pump keeps the limit, and leaves no slot unused.
LEMMA PublishedSlots ==
    ASSUME UploaderAssumption, UploaderInv, NEW rs, NEW queue, ChangesSoundly(rs, queue),
           runner' = After(rs, queue), order' = queue
    PROVE  ParallelLimit' /\ SlotsAreUsed'
  <1> DEFINE st == ToSet(Started(rs, queue))
             W == WorkingOf(rs, queue)
             before == {u \in Uploads : isStep(Status(u))}
             now == {u \in Uploads : isStep(runner'[u].state.status)}
             steps == {u \in Uploads : isStep(rs[u].state.status)}
             working == {u \in ToSet(queue) : isStep(runner'[u].state.status)
                                               \/ runner'[u].state.status = "cancelling"}
  <1>1. queue \in Seq(Uploads) /\ IsInjective(queue) /\ ToSet(queue) \subseteq Uploads
        /\ IsFiniteSet(ToSet(queue))
    BY PlacesAreElements DEF ChangesSoundly
  <1>2. /\ st \subseteq QueuedOf(rs, queue) /\ IsFiniteSet(st)
        /\ IsFiniteSet(W) /\ Cardinality(W) \in Nat /\ Cardinality(st) \in Nat
        /\ st = {} \/ Cardinality(W) + Cardinality(st) <= MaxParallel
        /\ st = QueuedOf(rs, queue) \/ Cardinality(W) + Cardinality(st) >= MaxParallel
    BY <1>1, StartedFillSlots
  <1>3. /\ \A u \in st : isStep(runner'[u].state.status)
        /\ \A u \in Uploads \ st : runner'[u] = rs[u]
    BY PublishedRunners
  <1>4. IsFiniteSet(before) /\ Cardinality(before) <= MaxParallel
    BY PartsOfInv DEF ParallelLimit
  <1>5. steps \in SUBSET before /\ steps \in SUBSET W
    BY DEF ChangesSoundly, WorkingOf, IsWorking
  <1>6. MaxParallel \in Nat
    BY DEF UploaderAssumption
  <1> HIDE DEF st, W
  <1>7. now \in SUBSET (steps \cup st)
    BY <1>3
  <1> HIDE DEF steps, now, before
  <1>8. IsFiniteSet(steps) /\ Cardinality(steps) <= MaxParallel /\ Cardinality(steps) \in Nat
        /\ Cardinality(steps) <= Cardinality(W)
    BY <1>2, <1>4, <1>5, <1>6, FS_Subset, FS_CardinalityType
  <1>9. Cardinality(now) <= MaxParallel
    <2>1. CASE st = {}
      <3>1. now \in SUBSET steps
        BY <1>7, <2>1
      <3>2. Cardinality(now) <= Cardinality(steps) /\ Cardinality(now) \in Nat
        BY <3>1, <1>8, FS_Subset, FS_CardinalityType
      <3> QED
        BY <3>2, <1>6, <1>8
    <2>2. CASE st # {}
      <3>1. IsFiniteSet(steps \cup st)
            /\ Cardinality(steps \cup st) = Cardinality(steps) + Cardinality(st) - Cardinality(steps \cap st)
        BY <1>2, <1>8, FS_Union
      <3>2. Cardinality(steps \cap st) \in Nat
        <4>1. steps \cap st \in SUBSET st
          OBVIOUS
        <4> QED
          BY <4>1, <1>2, FS_Subset, FS_CardinalityType
      <3>3. Cardinality(now) <= Cardinality(steps \cup st) /\ Cardinality(now) \in Nat
            /\ Cardinality(steps \cup st) \in Nat
        BY <3>1, <1>7, FS_Subset, FS_CardinalityType
      <3> QED
        BY <3>1, <3>2, <3>3, <2>2, <1>2, <1>6, <1>8
    <2> QED
      BY <2>1, <2>2
  <1>10. ParallelLimit'
    BY <1>9 DEF ParallelLimit, Status, now
  <1>11. ASSUME NEW u \in ToSet(queue), runner'[u].state.status = "queued"
         PROVE  Cardinality(working) >= MaxParallel
    <2>1. u \notin st
      BY <1>3, <1>11 DEF isStep, STEPS
    <2>2. runner'[u] = rs[u]
      BY <2>1, <1>1, <1>3
    <2>3. u \in QueuedOf(rs, queue)
      BY <2>2, <1>11 DEF QueuedOf
    <2>4. Cardinality(W) + Cardinality(st) >= MaxParallel
      BY <2>1, <2>3, <1>2
    <2>5. W \cap st = {}
      BY <1>2 DEF W, WorkingOf, QueuedOf, IsWorking, isStep, STEPS
    <2>6. IsFiniteSet(W \cup st) /\ Cardinality(W \cup st) = Cardinality(W) + Cardinality(st) - Cardinality(W \cap st)
      BY <1>2, FS_Union
    <2>12. Cardinality(W \cap st) = 0
      BY <2>5, FS_EmptySet
    <2>7. Cardinality(W \cup st) = Cardinality(W) + Cardinality(st)
      BY <2>12, <2>6, <1>2
    <2>8. W \cup st \in SUBSET working
      <3>1. W \subseteq ToSet(queue) /\ st \subseteq ToSet(queue)
        BY <1>2 DEF W, WorkingOf, QueuedOf
      <3>2. \A v \in W : v \notin st => isStep(runner'[v].state.status) \/ runner'[v].state.status = "cancelling"
        BY <1>1, <1>3 DEF W, WorkingOf, IsWorking
      <3> QED
        BY <3>1, <3>2, <1>3
    <2>9. working \in SUBSET ToSet(queue)
      OBVIOUS
    <2> HIDE DEF working
    <2>10. IsFiniteSet(working) /\ Cardinality(working) \in Nat
      BY <2>9, <1>1, FS_Subset, FS_CardinalityType
    <2>11. Cardinality(W \cup st) <= Cardinality(working)
      BY <2>8, <2>10, FS_Subset
    <2> QED
      BY <2>4, <2>7, <2>10, <2>11, <1>2, <1>6
  <1>12. SlotsAreUsed'
    BY <1>11 DEF SlotsAreUsed, Status, Working
  <1> QED
    BY <1>10, <1>12

\* What is sent is typed, and what it calls done is stored.
LEMMA PublishedMessages ==
    ASSUME UploaderAssumption, UploaderInv, NEW rs, NEW queue, NEW us, NEW held, NEW extra,
           ChangesSoundly(rs, queue), SaysWhatChanges(rs, queue, us, held, extra), BacksMore,
           Publish(rs, queue, us, held, extra)
    PROVE  /\ fromWorker' \in Seq(ToPage)
           /\ \A i \in DOMAIN fromWorker' :
                fromWorker'[i].arg.status = "done" => server'[fromWorker'[i].id].asset
  <1> DEFINE started == Started(rs, queue)
             after == After(rs, queue)
             A == Snapshots(rs, us)
             B == Snapshots(after, started)
             Backed(m) == m.arg.status = "done" => server'[m.id].asset
  <1>1. fromWorker' = fromWorker \o A \o B \o extra
    BY DEF Publish, After
  <1>2. \A u \in Uploads : GoodRunner(rs[u], server'[u]) /\ GoodRunner(after[u], server'[u])
    BY PublishedRunners DEF ChangesSoundly
  <1>3. \A u \in Uploads : GoodState(rs[u].state) /\ GoodState(after[u].state)
    BY <1>2, PartsOfRunner
  <1>4. started \in Seq(Uploads) /\ us \in Seq(Uploads) /\ extra \in Seq(ToPage)
    BY StartedFillSlots DEF ChangesSoundly, SaysWhatChanges
  <1> HIDE DEF after, started
  <1>5. /\ A \in Seq(ToPage) /\ DOMAIN A = DOMAIN us
        /\ \A i \in DOMAIN us : us[i] \in Uploads /\ A[i].id = us[i] /\ A[i].arg = Snapshot(rs[us[i]].state)
    BY <1>3, <1>4, SnapshotsAreTyped
  <1>6. /\ B \in Seq(ToPage) /\ DOMAIN B = DOMAIN started
        /\ \A i \in DOMAIN started :
             started[i] \in Uploads /\ B[i].id = started[i] /\ B[i].arg = Snapshot(after[started[i]].state)
    BY <1>3, <1>4, SnapshotsAreTyped
  <1> HIDE DEF A, B
  <1>7. \A i \in DOMAIN A : Backed(A[i])
    BY <1>2, <1>3, <1>5, SnapshotIsTyped DEF GoodRunner, Sound
  <1>8. \A i \in DOMAIN B : Backed(B[i])
    BY <1>2, <1>3, <1>6, SnapshotIsTyped DEF GoodRunner, Sound
  <1>9. \A i \in DOMAIN extra : Backed(extra[i])
    BY DEF SaysWhatChanges, NoUpload
  <1>10. fromWorker \in Seq(ToPage) /\ \A i \in DOMAIN fromWorker : Backed(fromWorker[i])
    <2>1. fromWorker \in Seq(ToPage) /\ \A i \in DOMAIN fromWorker :
            fromWorker[i].arg.status = "done" => server[fromWorker[i].id].asset
      BY PartsOfInv DEF Typed, DoneIsBacked
    <2>2. \A i \in DOMAIN fromWorker : fromWorker[i] \in ToPage
      BY <2>1
    <2>3. \A i \in DOMAIN fromWorker : fromWorker[i].id \in Uploads
      BY <2>2 DEF ToPage
    <2> QED
      BY <2>1, <2>3 DEF BacksMore
  <1> HIDE DEF Backed
  <1>11. ASSUME NEW f \in Seq(ToPage), NEW g \in Seq(ToPage),
                \A i \in DOMAIN f : Backed(f[i]), \A i \in DOMAIN g : Backed(g[i])
         PROVE  f \o g \in Seq(ToPage) /\ \A i \in DOMAIN (f \o g) : Backed((f \o g)[i])
    <2>1. /\ Len(f) \in Nat /\ Len(g) \in Nat /\ DOMAIN f = 1..Len(f) /\ DOMAIN g = 1..Len(g)
          /\ f \o g \in Seq(ToPage) /\ DOMAIN (f \o g) = 1..(Len(f) + Len(g))
          /\ \A i \in 1..(Len(f) + Len(g)) : (f \o g)[i] = IF i <= Len(f) THEN f[i] ELSE g[i - Len(f)]
      OBVIOUS
    <2>2. \A i \in 1..(Len(f) + Len(g)) : i \in 1..Len(f) \/ (i > Len(f) /\ i - Len(f) \in 1..Len(g))
      BY <2>1
    <2> QED
      BY <1>11, <2>1, <2>2
  <1>12. fromWorker \o A \in Seq(ToPage) /\ \A i \in DOMAIN (fromWorker \o A) : Backed((fromWorker \o A)[i])
    BY <1>5, <1>7, <1>10, <1>11
  <1> DEFINE C == fromWorker \o A
  <1>13. C \o B \in Seq(ToPage) /\ \A i \in DOMAIN (C \o B) : Backed((C \o B)[i])
    <2> HIDE DEF C
    <2>1. C \in Seq(ToPage) /\ \A i \in DOMAIN C : Backed(C[i])
      BY <1>12 DEF C
    <2> QED
      BY <2>1, <1>6, <1>8, <1>11
  <1> DEFINE D == C \o B
  <1>14. D \o extra \in Seq(ToPage) /\ \A i \in DOMAIN (D \o extra) : Backed((D \o extra)[i])
    <2> HIDE DEF D
    <2>1. D \in Seq(ToPage) /\ \A i \in DOMAIN D : Backed(D[i])
      BY <1>13 DEF D
    <2> QED
      BY <2>1, <1>4, <1>9, <1>11
  <1>15. fromWorker' = D \o extra
    BY <1>1
  <1> HIDE DEF D
  <1> QED
    BY <1>14, <1>15 DEF Backed

\* What changes is told, now or by its timer.
LEMMA PublishedIsShown ==
    ASSUME UploaderAssumption, UploaderInv, NEW rs, NEW queue, NEW us, NEW held, NEW extra,
           ChangesSoundly(rs, queue), SaysWhatChanges(rs, queue, us, held, extra),
           Publish(rs, queue, us, held, extra), page' = page
    PROVE  PageComesToShow' /\ trailing' \subseteq ToSet(order')
  <1> DEFINE started == Started(rs, queue)
             after == After(rs, queue)
             A == Snapshots(rs, us)
             B == Snapshots(after, started)
             sent == ToSet(us) \cup ToSet(started)
  <1>1. /\ fromWorker' = fromWorker \o A \o B \o extra /\ runner' = after /\ order' = queue
        /\ trailing' = (trailing \ sent) \cup (held \ sent)
    BY DEF Publish, After
  <1>2. /\ \A u \in Uploads : GoodRunner(rs[u], server'[u]) /\ GoodRunner(after[u], server'[u])
        /\ \A u \in Uploads \ ToSet(started) : after[u] = rs[u]
    BY PublishedRunners DEF ChangesSoundly
  <1>3. \A u \in Uploads : GoodState(rs[u].state) /\ GoodState(after[u].state)
    BY <1>2, PartsOfRunner
  <1>4. started \in Seq(Uploads) /\ us \in Seq(Uploads) /\ extra \in Seq(ToPage)
        /\ queue \in Seq(Uploads) /\ ToSet(queue) \subseteq Uploads /\ fromWorker \in Seq(ToPage)
    BY StartedFillSlots, PlacesAreElements DEF ChangesSoundly, SaysWhatChanges, UploaderInv, Typed
  <1> HIDE DEF after, started
  <1>5. /\ A \in Seq(ToPage) /\ DOMAIN A = DOMAIN us
        /\ \A i \in DOMAIN us : us[i] \in Uploads /\ A[i].id = us[i] /\ A[i].arg = Snapshot(rs[us[i]].state)
    BY <1>3, <1>4, SnapshotsAreTyped
  <1>6. /\ B \in Seq(ToPage) /\ DOMAIN B = DOMAIN started
        /\ \A i \in DOMAIN started :
             started[i] \in Uploads /\ B[i].id = started[i] /\ B[i].arg = Snapshot(after[started[i]].state)
    BY <1>3, <1>4, SnapshotsAreTyped
  <1> HIDE DEF A, B
  <1> DEFINE C == fromWorker \o A
             D == C \o B
  <1>7. C \in Seq(ToPage) /\ D \in Seq(ToPage)
    BY <1>4, <1>5, <1>6, ConcatProperties
  <1>8. fromWorker' = D \o extra
    BY <1>1
  <1>9. ASSUME NEW v \in ToSet(queue), v \notin trailing'
        PROVE  Tells(fromWorker', v, Snapshot(after[v].state), page[v])
    <2> DEFINE s == Snapshot(after[v].state)
    <2>1. \A i \in DOMAIN extra : extra[i].id # v
      BY DEF SaysWhatChanges
    <2>2. SUFFICES Tells(D, v, s, page[v])
      <3> HIDE DEF D, s
      <3> QED
        BY <2>1, <2>2, <1>4, <1>7, <1>8, OthersTellNothing DEF s
    <2>3. CASE v \in ToSet(started)
      <3>1. \E i \in DOMAIN B : B[i].id = v
        BY <2>3, <1>6 DEF ToSet
      <3>2. \A i \in DOMAIN B : B[i].id = v => B[i].arg = s
        BY <1>6
      <3> HIDE DEF C, s
      <3> QED
        BY <3>1, <3>2, <1>6, <1>7, LastWordTells DEF D
    <2>4. CASE v \notin ToSet(started)
      <3>1. v \in Uploads /\ after[v] = rs[v]
        BY <2>4, <1>2, <1>4
      <3>2. \A i \in DOMAIN B : B[i].id # v
        BY <2>4, <1>6 DEF ToSet
      <3>3. SUFFICES Tells(C, v, s, page[v])
        <4> HIDE DEF C, s
        <4> QED
          BY <3>2, <3>3, <1>6, <1>7, OthersTellNothing DEF D
      <3>4. CASE v \in ToSet(us)
        <4>1. \E i \in DOMAIN A : A[i].id = v
          BY <3>4, <1>5 DEF ToSet
        <4>2. \A i \in DOMAIN A : A[i].id = v => A[i].arg = s
          BY <1>5, <3>1
        <4> HIDE DEF s
        <4> QED
          BY <4>1, <4>2, <1>4, <1>5, LastWordTells DEF C
      <3>5. CASE v \notin ToSet(us)
        <4>1. v \notin held /\ v \notin trailing
          BY <2>4, <3>5, <1>1, <1>9
        <4>2. v \in ToSet(order) /\ rs[v].state = runner[v].state
          BY <3>5, <4>1 DEF SaysWhatChanges
        <4>3. Tells(fromWorker, v, s, page[v])
          BY <3>1, <4>1, <4>2, PartsOfInv DEF PageComesToShow
        <4>4. \A i \in DOMAIN A : A[i].id # v
          BY <3>5, <1>5 DEF ToSet
        <4> HIDE DEF s
        <4> QED
          BY <4>3, <4>4, <1>4, <1>5, OthersTellNothing DEF C
      <3> QED
        BY <3>4, <3>5
    <2> QED
      BY <2>3, <2>4
  <1>10. PageComesToShow'
    BY <1>1, <1>9 DEF PageComesToShow
  <1>11. trailing' \subseteq ToSet(order')
    BY <1>1 DEF SaysWhatChanges
  <1> QED
    BY <1>10, <1>11

-----------------------------------------------------------------------------
(* The steps of the host. *)

\* The worker takes the message it handles off its channel, or handles none.
Takes == toWorker' = toWorker \/ (toWorker # <<>> /\ toWorker' = Tail(toWorker))

LEMMA WaitingMessages ==
    ASSUME UploaderInv, Takes
    PROVE  /\ toWorker' \in Seq(ToHost)
           /\ \A i \in DOMAIN toWorker' :
                \E j \in DOMAIN toWorker :
                    /\ toWorker'[i] = toWorker[j]
                    /\ IF toWorker' = toWorker THEN j = i ELSE j = i + 1 /\ i \in Nat /\ j # 1
  <1>1. toWorker \in Seq(ToHost)
    BY DEF UploaderInv, Typed
  <1>2. CASE toWorker' = toWorker
    BY <1>1, <1>2
  <1>3. CASE toWorker # <<>> /\ toWorker' = Tail(toWorker)
    <2>1. /\ Tail(toWorker) \in Seq(ToHost)
          /\ \A i \in DOMAIN Tail(toWorker) :
               i + 1 \in DOMAIN toWorker /\ Tail(toWorker)[i] = toWorker[i + 1]
      BY <1>1, <1>3, ElementsOfTail
    <2>2. \A i \in DOMAIN Tail(toWorker) : i \in Nat /\ i + 1 # 1
      BY <1>1, <1>3
    <2>3. toWorker' # toWorker
      BY <1>1, <1>3
    <2> QED
      BY <1>3, <2>1, <2>2, <2>3
  <1> QED
    BY <1>2, <1>3 DEF Takes

LEMMA AddsAreOfUploads ==
    ASSUME NEW f \in Seq(ToHost)
    PROVE  \A i \in DOMAIN f : f[i].type = "add" => f[i].id \in Uploads
  <1>1. \A i \in DOMAIN f : f[i] \in ToHost
    OBVIOUS
  <1> QED
    BY <1>1 DEF ToHost

\* The adds that still wait are as new as before, when the host neither learns of their uploads nor
\* touches their runners.
LEMMA AddsStayNew ==
    ASSUME UploaderInv, Takes,
           \A i \in DOMAIN toWorker' :
               toWorker'[i].type = "add" /\ runner[toWorker'[i].id] = newRunner
                 /\ toWorker'[i].id \notin ToSet(order) =>
                   /\ toWorker'[i].id \notin ToSet(order')
                   /\ runner'[toWorker'[i].id] = runner[toWorker'[i].id]
    PROVE  AddsAreNew'
  <1>1. AddsAreNew
    BY DEF UploaderInv
  <1>2. CASE toWorker' = toWorker
    BY <1>1, <1>2 DEF AddsAreNew, Known, newRunner
  <1>3. CASE toWorker' # toWorker
    <2>1. \A i \in DOMAIN toWorker' : i \in Nat /\ i + 1 \in DOMAIN toWorker /\ toWorker'[i] = toWorker[i + 1]
      BY <1>3, WaitingMessages
    <2>2. ASSUME NEW i \in DOMAIN toWorker', toWorker'[i].type = "add"
          PROVE  /\ toWorker'[i].id \notin ToSet(order') /\ runner'[toWorker'[i].id] = newRunner
                 /\ \A j \in DOMAIN toWorker' :
                      toWorker'[j].type = "add" /\ toWorker'[j].id = toWorker'[i].id => j = i
      <3>1. /\ runner[toWorker'[i].id] = newRunner /\ toWorker'[i].id \notin ToSet(order)
            /\ \A j \in DOMAIN toWorker' :
                 toWorker'[j].type = "add" /\ toWorker'[j].id = toWorker'[i].id => j + 1 = i + 1
        BY <1>1, <2>1, <2>2 DEF AddsAreNew, Known
      <3>2. \A j \in DOMAIN toWorker' : j + 1 = i + 1 => j = i
        BY <2>1
      <3> QED
        BY <2>2, <3>1, <3>2
    <2> QED
      BY <2>2 DEF AddsAreNew, Known, newRunner
  <1> QED
    BY <1>2, <1>3

\* What backed an upload that is done still does.
LEMMA DoneStaysBacked ==
    ASSUME UploaderInv, BacksMore, UNCHANGED <<page, waiter, alive>>
    PROVE  /\ \A u \in Uploads : page'[u].status = "done" \/ waiter'[u] = "resolved" => server'[u].asset
           /\ NoHangingWaiter'
  BY DEF UploaderInv, DoneIsBacked, BacksMore, NoHangingWaiter, Shown

\* A step that publishes.
LEMMA PublishKeeps ==
    ASSUME UploaderAssumption, UploaderInv, NEW rs, NEW queue, NEW us, NEW held, NEW extra,
           ChangesSoundly(rs, queue), SaysWhatChanges(rs, queue, us, held, extra), BacksMore,
           Publish(rs, queue, us, held, extra), Takes,
           \A i \in DOMAIN toWorker' :
               toWorker'[i].type = "add" /\ runner[toWorker'[i].id] = newRunner
                 /\ toWorker'[i].id \notin ToSet(order) =>
                   /\ toWorker'[i].id \notin ToSet(queue)
                   /\ rs[toWorker'[i].id] = runner[toWorker'[i].id],
           removing' \subseteq Uploads, UNCHANGED <<pageVars, alive>>
    PROVE  UploaderInv'
  <1>1. runner' = After(rs, queue) /\ order' = queue
    BY DEF Publish, After
  <1>2. /\ runner' \in [Uploads -> RunnerType]
        /\ \A u \in Uploads : GoodRunner(runner'[u], server'[u])
        /\ \A u \in ToSet(Started(rs, queue)) : u \in ToSet(queue)
        /\ \A u \in Uploads \ ToSet(Started(rs, queue)) : runner'[u] = rs[u]
        /\ \A u \in Uploads : isStep(runner'[u].state.status) => u \in ToSet(queue)
    BY <1>1, PublishedRunners
  <1>3. ParallelLimit' /\ SlotsAreUsed'
    BY <1>1, PublishedSlots
  <1>4. /\ fromWorker' \in Seq(ToPage)
        /\ \A i \in DOMAIN fromWorker' : fromWorker'[i].arg.status = "done" => server'[fromWorker'[i].id].asset
    BY PublishedMessages
  <1>5. PageComesToShow' /\ trailing' \subseteq ToSet(order')
    BY PublishedIsShown DEF pageVars
  <1>6. AddsAreNew'
    <2>1. \A i \in DOMAIN toWorker' : toWorker'[i].type = "add" => toWorker'[i].id \in Uploads
      BY WaitingMessages, AddsAreOfUploads
    <2> QED
      BY <1>1, <1>2, <2>1, AddsStayNew
  <1>7. /\ \A u \in Uploads : page'[u].status = "done" \/ waiter'[u] = "resolved" => server'[u].asset
        /\ NoHangingWaiter'
    BY DoneStaysBacked DEF pageVars
  <1>8. Typed'
    <2>1. Typed
      BY DEF UploaderInv
    <2>2. toWorker' \in Seq(ToHost)
      BY WaitingMessages
    <2> QED
      BY <1>1, <1>2, <1>4, <1>5, <2>1, <2>2 DEF Typed, pageVars, Shown, BacksMore, ChangesSoundly
  <1>9. RunnersAreSound' /\ StepsAreKnown'
    BY <1>1, <1>2 DEF RunnersAreSound, StepsAreKnown, Status, Known, GoodRunner
  <1>10. DoneIsBacked'
    BY <1>4, <1>7 DEF DoneIsBacked
  <1> QED
    BY <1>3, <1>5, <1>6, <1>7, <1>8, <1>9, <1>10 DEF UploaderInv

\* A step that no state of an upload shows: a request, an answer, a handle.
LEMMA HiddenStepKeeps ==
    ASSUME UploaderAssumption, UploaderInv, Takes, BacksMore,
           runner' \in [Uploads -> RunnerType],
           \A u \in Uploads :
               /\ GoodRunner(runner'[u], server'[u])
               /\ runner'[u].state = runner[u].state
               /\ runner[u] = newRunner => runner'[u] = runner[u],
           UNCHANGED <<pageVars, order, fromWorker, trailing, removing, alive>>
    PROVE  UploaderInv'
  <1>1. /\ Typed /\ StepsAreKnown /\ DoneIsBacked /\ PageComesToShow /\ SlotsAreUsed /\ ParallelLimit
        /\ ToSet(order) \subseteq Uploads
    BY PartsOfInv
  <1>2. Typed'
    BY <1>1, WaitingMessages DEF Typed, pageVars, Shown, BacksMore
  <1>3. RunnersAreSound' /\ StepsAreKnown'
    BY <1>1 DEF RunnersAreSound, StepsAreKnown, Status, Known, GoodRunner
  <1>4. AddsAreNew'
    <2>1. \A i \in DOMAIN toWorker' : toWorker'[i].type = "add" => toWorker'[i].id \in Uploads
      BY WaitingMessages, AddsAreOfUploads
    <2> QED
      BY <2>1, AddsStayNew
  <1>5. /\ \A u \in Uploads : page'[u].status = "done" \/ waiter'[u] = "resolved" => server'[u].asset
        /\ NoHangingWaiter'
    BY DoneStaysBacked DEF pageVars
  <1>6. DoneIsBacked'
    <2>1. \A i \in DOMAIN fromWorker : fromWorker[i].id \in Uploads
      <3>1. fromWorker \in Seq(ToPage)
        BY <1>1 DEF Typed
      <3>2. \A i \in DOMAIN fromWorker : fromWorker[i] \in ToPage
        BY <3>1
      <3> QED
        BY <3>2 DEF ToPage
    <2> QED
      BY <1>1, <1>5, <2>1 DEF DoneIsBacked, BacksMore
  <1>7. PageComesToShow'
    BY <1>1 DEF PageComesToShow, pageVars
  <1>8. Working' = Working /\ \A u \in Uploads : Status(u)' = Status(u)
    BY <1>1 DEF Working, Status
  <1>9. {u \in Uploads : isStep(Status(u))}' = {u \in Uploads : isStep(Status(u))}
    BY <1>8
  <1>10. ParallelLimit' /\ SlotsAreUsed'
    BY <1>1, <1>8, <1>9 DEF ParallelLimit, SlotsAreUsed, Known
  <1> QED
    BY <1>2, <1>3, <1>4, <1>5, <1>6, <1>7, <1>10 DEF UploaderInv

\* A runner stays sound while the server only gets more of its upload.
LEMMA MoreIsSound ==
    ASSUME NEW r, NEW sv, NEW more, GoodRunner(r, sv), sv.asset => more.asset,
           more.mode = sv.mode \/ more.mode # "none"
    PROVE  GoodRunner(r, more)
  BY DEF GoodRunner, Sound

-----------------------------------------------------------------------------
(* The steps of a runner. *)

LEMMA SinglePlace ==
    /\ \A u \in Uploads : <<u>> \in Seq(Uploads) /\ ToSet(<<u>>) = {u}
    /\ <<>> \in Seq(Uploads) /\ <<>> \in Seq(ToPage) /\ ToSet(<<>>) = {} /\ DOMAIN <<>> = {}
  BY DEF ToSet

LEMMA ServerStaysSame ==
    ASSUME UploaderInv, server' = server
    PROVE  BacksMore /\ \A u \in Uploads : GoodRunner(runner[u], server'[u])
  BY PartsOfInv DEF BacksMore, Typed

LEMMA ReworkedIsGood ==
    ASSUME NEW r, NEW sv, GoodRunner(r, sv), NEW q \in RunnerType, GoodState(q.state),
           q.state.status = r.state.status, Stores(q.state) => Stores(r.state),
           q.reply = r.reply, q.unwinding = r.unwinding, q.cancel = r.cancel
    PROVE  GoodRunner(q, sv)
  BY DEF GoodRunner, Sound, GoodState

LEMMA OffsetIsFree ==
    ASSUME NEW r, NEW sv, GoodRunner(r, sv), NEW n \in 0..(Slices - 1)
    PROVE  GoodRunner([r EXCEPT !.offset = n], sv) /\ [r EXCEPT !.offset = n].state = r.state
           /\ [r EXCEPT !.offset = n].cancel = r.cancel /\ [r EXCEPT !.offset = n].unwinding = r.unwinding
  BY DEF GoodRunner, Sound, RunnerType

\* One runner changes, in a step or out of sight.
LEMMA ChangeKeeps ==
    ASSUME UploaderAssumption, UploaderInv, NEW u \in Uploads, NEW r,
           GoodRunner(r, server[u]), Change(u, r), OnlyWorker,
           isStep(Status(u)) \/ (r.state = runner[u].state /\ runner[u].unwinding # "no")
    PROVE  UploaderInv'
  <1> DEFINE rs == [runner EXCEPT ![u] = r]
  <1>1. /\ runner \in [Uploads -> RunnerType] /\ StepsAreKnown /\ r \in RunnerType
        /\ order \in Seq(Uploads) /\ IsInjective(order) /\ trailing \subseteq ToSet(order)
        /\ removing \subseteq Uploads
    BY PartsOfInv DEF Typed, GoodRunner
  <1>2. /\ UNCHANGED pageVars /\ toWorker' = toWorker /\ removing' = removing /\ server' = server
        /\ alive' = alive
    BY DEF OnlyWorker
  <1>3. BacksMore /\ \A v \in Uploads : GoodRunner(runner[v], server'[v])
    BY <1>2, ServerStaysSame
  <1>4. /\ rs \in [Uploads -> RunnerType] /\ rs[u] = r
        /\ \A v \in Uploads : v # u => rs[v] = runner[v]
        /\ \A v \in Uploads : GoodRunner(rs[v], server'[v])
    BY <1>1, <1>2, <1>3
  <1>5. runner[u] # newRunner
    BY DEF newRunner, initialState, Rest, Status, isStep, STEPS
  <1>6. Takes
    BY <1>2 DEF Takes
  <1>7. CASE r.state = runner[u].state
    <2>1. runner' = rs /\ UNCHANGED <<order, fromWorker, lastSent, trailing>>
      BY <1>7 DEF Change
    <2>2. \A v \in Uploads :
            /\ GoodRunner(runner'[v], server'[v])
            /\ runner'[v].state = runner[v].state
            /\ runner[v] = newRunner => runner'[v] = runner[v]
      BY <1>4, <1>5, <1>7, <2>1
    <2>3. runner' \in [Uploads -> RunnerType]
      BY <1>4, <2>1
    <2> HIDE DEF rs
    <2> QED
      BY <1>2, <1>3, <1>6, <2>1, <2>2, <2>3, HiddenStepKeeps
  <1>8. CASE r.state # runner[u].state
    <2>1. isStep(Status(u)) /\ u \in ToSet(order)
      BY <1>1, <1>8 DEF StepsAreKnown, Known
    <2> HIDE DEF rs
    <2>2. ChangesSoundly(rs, order)
      BY <1>1, <1>4, <2>1 DEF ChangesSoundly, StepsAreKnown, Status, Known
    <2>3. \A i \in DOMAIN toWorker' :
            toWorker'[i].type = "add" /\ runner[toWorker'[i].id] = newRunner
              /\ toWorker'[i].id \notin ToSet(order) =>
                /\ toWorker'[i].id \notin ToSet(order)
                /\ rs[toWorker'[i].id] = runner[toWorker'[i].id]
      BY <1>4, <1>5, <1>6, WaitingMessages, AddsAreOfUploads
    <2>4. CASE Publish(rs, order, <<u>>, {}, <<>>)
      <3>1. SaysWhatChanges(rs, order, <<u>>, {}, <<>>)
        BY <1>1, <1>4, SinglePlace, PlacesAreElements DEF SaysWhatChanges
      <3> QED
        BY <1>1, <1>2, <1>3, <1>6, <2>2, <2>3, <2>4, <3>1, PublishKeeps
    <2>5. CASE Publish(rs, order, <<>>, {u}, <<>>)
      <3>1. SaysWhatChanges(rs, order, <<>>, {u}, <<>>)
        BY <1>1, <1>4, <2>1, SinglePlace, PlacesAreElements DEF SaysWhatChanges
      <3> QED
        BY <1>1, <1>2, <1>3, <1>6, <2>2, <2>3, <2>5, <3>1, PublishKeeps
    <2> QED
      BY <1>8, <2>4, <2>5 DEF Change, rs
  <1> QED
    BY <1>7, <1>8

LEMMA HashSliceKeeps ==
    ASSUME UploaderAssumption, UploaderInv, NEW u \in Uploads, HashSlice(u)
    PROVE  UploaderInv'
  <1> DEFINE r == runner[u]
             n == r.offset + 1
             s == HashProgress(r.state, n)
  <1>1. /\ GoodRunner(r, server[u]) /\ GoodState(r.state) /\ r \in RunnerType
        /\ r.offset \in 0..(Slices - 1) /\ r.cancel = "no"
    BY PartsOfInv, PartsOfRunner DEF HashSlice, Works, Status, isStep, STEPS
  <1>2. r.unwinding = "no" /\ r.state.status = "hashing" /\ OnlyWorker /\ isStep(Status(u))
    BY DEF HashSlice, Works, Status, isStep, STEPS
  <1>3. Slices \in Nat \ {0} /\ n \in Nat
    BY <1>1 DEF UploaderAssumption
  <1>4. GoodState(s) /\ s.status = "hashing"
    BY <1>1, <1>2, <1>3, HashProgressIsGood
  <1>5. IF n < Slices
        THEN Change(u, [r EXCEPT !.state = s, !.offset = n])
        ELSE Change(u, Advance([r EXCEPT !.offset = 0], Hashed(s)))
    BY DEF HashSlice
  <1> HIDE DEF s
  <1>6. CASE n < Slices
    <2> DEFINE q == [r EXCEPT !.state = s, !.offset = n]
    <2>1. n \in 0..(Slices - 1) /\ s \in UploadMachineState
      BY <1>3, <1>4, <1>6 DEF GoodState
    <2>2. /\ q \in RunnerType /\ q.state = s /\ q.reply = r.reply /\ q.unwinding = r.unwinding
          /\ q.cancel = r.cancel
      BY <1>1, <2>1 DEF RunnerType
    <2> HIDE DEF q
    <2>3. ~Stores(q.state)
      BY <1>4, <2>2 DEF Stores
    <2>4. GoodRunner(q, server[u])
      BY <1>1, <1>2, <1>4, <2>2, <2>3, ReworkedIsGood
    <2> QED
      BY <1>2, <1>5, <1>6, <2>4, ChangeKeeps DEF q
  <1>7. CASE ~(n < Slices)
    <2> DEFINE q == [r EXCEPT !.offset = 0]
    <2>1. 0 \in 0..(Slices - 1)
      BY <1>3
    <2>2. q \in RunnerType /\ q.cancel = "no"
      BY <1>1, <2>1, OffsetIsFree DEF GoodRunner
    <2>3. GoodState(Hashed(s)) /\ Hashed(s).status = "initializing"
      BY <1>4, HashedIsGood
    <2> HIDE DEF q
    <2>4. GoodRunner(Advance(q, Hashed(s)), server[u])
      BY <2>2, <2>3, AdvanceIsGood
    <2> QED
      BY <1>2, <1>5, <1>7, <2>4, ChangeKeeps DEF q
  <1> QED
    BY <1>6, <1>7

LEMMA UnwindKeeps ==
    ASSUME UploaderAssumption, UploaderInv, NEW u \in Uploads, Unwind(u)
    PROVE  UploaderInv'
  <1> DEFINE r == [runner[u] EXCEPT !.unwinding = "no"]
             Ends(n) == [r EXCEPT !.offset = IF n = Slices THEN 0 ELSE n]
             Resumes(q) == IF isStep(q.state.status) THEN Enter(q) ELSE q
  <1>1. /\ GoodRunner(runner[u], server[u]) /\ runner[u] \in RunnerType /\ runner[u].offset \in 0..(Slices - 1)
        /\ runner[u].unwinding # "no" /\ OnlyWorker
    BY PartsOfInv, PartsOfRunner DEF Unwind
  <1>2. /\ r \in RunnerType /\ GoodRunner(r, server[u]) /\ r.state = runner[u].state
        /\ r.offset = runner[u].offset
    BY <1>1 DEF GoodRunner, Sound, RunnerType
  <1>3. Change(u, Resumes(r)) \/ Change(u, Resumes(Ends(r.offset + 1)))
    BY DEF Unwind
  <1> HIDE DEF r
  <1>4. ASSUME NEW q, GoodRunner(q, server[u])
        PROVE  GoodRunner(Resumes(q), server[u]) /\ Resumes(q).state = q.state
    <2>1. CASE isStep(q.state.status)
      <3>1. q \in RunnerType /\ GoodState(q.state) /\ q.cancel = "no"
        BY <1>4, <2>1, PartsOfRunner
      <3>2. /\ Enter(q) \in RunnerType /\ Enter(q).reply = "none" /\ Enter(q).state = q.state
            /\ Enter(q).cancel = "no"
        BY <3>1, EnterIsTyped
      <3>3. q.state.status # "done" /\ q.state.status # "cancelling"
        BY <2>1 DEF isStep, STEPS
      <3> QED
        BY <2>1, <3>1, <3>2, <3>3, QuietIsGood
    <2>2. CASE ~isStep(q.state.status)
      BY <1>4, <2>2
    <2> QED
      BY <2>1, <2>2
  <1>5. GoodRunner(Ends(r.offset + 1), server[u]) /\ Ends(r.offset + 1).state = runner[u].state
    <2> DEFINE n == IF r.offset + 1 = Slices THEN 0 ELSE r.offset + 1
    <2>1. n \in 0..(Slices - 1)
      BY <1>1, <1>2 DEF UploaderAssumption
    <2> HIDE DEF n
    <2>2. GoodRunner([r EXCEPT !.offset = n], server[u]) /\ [r EXCEPT !.offset = n].state = r.state
      BY <1>2, <2>1, OffsetIsFree
    <2> QED
      BY <1>2, <2>2 DEF n
  <1>6. CASE Change(u, Resumes(r))
    BY <1>1, <1>2, <1>4, <1>6, ChangeKeeps
  <1>7. CASE Change(u, Resumes(Ends(r.offset + 1)))
    <2> DEFINE q == Ends(r.offset + 1)
    <2>1. Change(u, Resumes(q)) /\ GoodRunner(q, server[u]) /\ q.state = runner[u].state
      BY <1>5, <1>7
    <2> HIDE DEF q
    <2>2. GoodRunner(Resumes(q), server[u]) /\ Resumes(q).state = runner[u].state
      BY <1>4, <2>1
    <2> HIDE DEF Resumes
    <2> QED
      BY <1>1, <2>1, <2>2, ChangeKeeps
  <1> QED
    BY <1>3, <1>6, <1>7

\* What a step of a runner starts from.
LEMMA WorksIsSound ==
    ASSUME UploaderInv, NEW u \in Uploads, NEW step \in STEPS, Works(u, step)
    PROVE  /\ GoodRunner(runner[u], server[u]) /\ GoodState(runner[u].state) /\ runner[u] \in RunnerType
           /\ runner[u].cancel = "no" /\ runner[u].unwinding = "no"
           /\ runner[u].state.status = step /\ isStep(Status(u))
           /\ server[u] \in ServerType
  <1>1. runner[u].unwinding = "no" /\ runner[u].state.status = step
    BY DEF Works, Status
  <1>2. isStep(runner[u].state.status) /\ isStep(Status(u))
    BY <1>1 DEF isStep, Status
  <1>3. server[u] \in ServerType
    BY PartsOfInv DEF Typed
  <1> QED
    BY <1>1, <1>2, <1>3, PartsOfInv, PartsOfRunner

\* A runner that goes from one step to what follows it.
LEMMA AdvanceKeeps ==
    ASSUME UploaderAssumption, UploaderInv, NEW u \in Uploads, NEW r \in RunnerType, r.cancel = "no",
           NEW s, GoodState(s), isStep(Status(u)), s.status = "done" => server[u].asset,
           s.status # "cancelling", Change(u, Advance(r, s)), OnlyWorker
    PROVE  UploaderInv'
  BY AdvanceIsGood, ChangeKeeps

LEMMA ReceiveInitKeeps ==
    ASSUME UploaderAssumption, UploaderInv, NEW u \in Uploads, ReceiveInit(u)
    PROVE  UploaderInv'
  <1> DEFINE r == runner[u]
             q == [r EXCEPT !.fresh = TRUE]
             mode == server[u].mode
  <1>1. Works(u, "initializing") /\ r.reply = "ok" /\ OnlyWorker
        /\ Change(u, Advance(q, Initialized(r.state, mode)))
    BY DEF ReceiveInit
  <1>2. /\ GoodRunner(r, server[u]) /\ GoodState(r.state) /\ r \in RunnerType /\ r.cancel = "no"
        /\ r.state.status = "initializing" /\ isStep(Status(u)) /\ server[u] \in ServerType
    BY <1>1, WorksIsSound DEF STEPS
  <1>3. mode \in UploadMode \ {"none"}
    BY <1>1, <1>2 DEF GoodRunner, Sound, ServerType
  <1>4. q \in RunnerType /\ q.cancel = "no"
    BY <1>2 DEF RunnerType
  <1>5. /\ GoodState(Initialized(r.state, mode))
        /\ Initialized(r.state, mode).status \in {"uploading", "verifying"}
    BY <1>2, <1>3, InitializedIsGood
  <1> HIDE DEF q
  <1> QED
    BY <1>1, <1>2, <1>4, <1>5, AdvanceKeeps

LEMMA ReceiveStatusKeeps ==
    ASSUME UploaderAssumption, UploaderInv, NEW u \in Uploads, ReceiveStatus(u)
    PROVE  UploaderInv'
  <1> DEFINE r == runner[u]
             got == server[u].got
             s == UploadProgress(r.state, Cardinality(got))
             q == [r EXCEPT !.reply = "none", !.asked = TRUE, !.left = Chunks \ got, !.state = s]
  <1>1. /\ Works(u, "uploading") /\ Chunked(r.state) /\ OnlyWorker
        /\ \/ Change(u, Advance(r, Uploaded(r.state)))
           \/ Change(u, q)
    BY DEF ReceiveStatus
  <1>2. /\ GoodRunner(r, server[u]) /\ GoodState(r.state) /\ r \in RunnerType /\ r.cancel = "no"
        /\ r.state.status = "uploading" /\ isStep(Status(u)) /\ server[u] \in ServerType
    BY <1>1, WorksIsSound DEF STEPS
  <1>3. CASE Change(u, Advance(r, Uploaded(r.state)))
    <2>1. GoodState(Uploaded(r.state)) /\ Uploaded(r.state).status = "completing"
      BY <1>1, <1>2, UploadedIsGood DEF Chunked
    <2> QED
      BY <1>1, <1>2, <1>3, <2>1, AdvanceKeeps
  <1>4. CASE Change(u, q)
    <2>1. Cardinality(got) \in Nat
      <3>1. got \in SUBSET Chunks /\ IsFiniteSet(Chunks)
        BY <1>2 DEF ServerType, UploaderAssumption
      <3> QED
        BY <3>1, FS_Subset, FS_CardinalityType
    <2>2. GoodState(s) /\ s.status = "uploading"
      BY <1>2, <2>1, UploadProgressIsGood
    <2> HIDE DEF s
    <2>3. s \in UploadMachineState /\ Chunks \ got \in SUBSET Chunks
      BY <2>2 DEF GoodState
    <2>4. q \in RunnerType /\ q.reply = "none" /\ q.state = s /\ q.cancel = "no"
      BY <1>2, <2>3 DEF RunnerType, RunnerReply
    <2> HIDE DEF q
    <2>5. GoodRunner(q, server[u])
      BY <2>2, <2>4, QuietIsGood
    <2> QED
      BY <1>1, <1>2, <1>4, <2>5, ChangeKeeps
  <1> QED
    BY <1>1, <1>3, <1>4

LEMMA ReceiveChunkKeeps ==
    ASSUME UploaderAssumption, UploaderInv, NEW u \in Uploads, NEW c \in Chunks, ReceiveChunk(u, c)
    PROVE  UploaderInv'
  <1> DEFINE r == runner[u]
             left == r.left \ {c}
             s == UploadProgress(r.state, Cardinality(Chunks \ left))
             q == [r EXCEPT !.left = left, !.state = s]
  <1>1. /\ Works(u, "uploading") /\ OnlyWorker /\ c \in r.left
        /\ IF left = {} THEN Change(u, Advance(r, Uploaded(s))) ELSE Change(u, q)
    BY DEF ReceiveChunk, InFlight
  <1>2. /\ GoodRunner(r, server[u]) /\ GoodState(r.state) /\ r \in RunnerType /\ r.cancel = "no"
        /\ r.state.status = "uploading" /\ isStep(Status(u))
    BY <1>1, WorksIsSound DEF STEPS
  <1>3. Cardinality(Chunks \ left) \in Nat
    <2>1. Chunks \ left \in SUBSET Chunks /\ IsFiniteSet(Chunks)
      BY DEF UploaderAssumption
    <2> QED
      BY <2>1, FS_Subset, FS_CardinalityType
  <1>4. GoodState(s) /\ s.status = "uploading" /\ s.ctx.mode = r.state.ctx.mode
    BY <1>2, <1>3, UploadProgressIsGood
  <1> HIDE DEF s
  <1>5. CASE left = {}
    <2>1. GoodState(Uploaded(s)) /\ Uploaded(s).status \in {"completing", "uploading"}
      BY <1>4, UploadedIsGood DEF Uploaded
    <2> QED
      BY <1>1, <1>2, <1>5, <2>1, AdvanceKeeps
  <1>6. CASE left # {}
    <2>1. s \in UploadMachineState /\ left \in SUBSET Chunks
      BY <1>2, <1>4 DEF GoodState, RunnerType
    <2>2. /\ q \in RunnerType /\ q.reply = r.reply /\ q.state = s /\ q.cancel = r.cancel
          /\ q.unwinding = r.unwinding
      BY <1>2, <2>1 DEF RunnerType
    <2> HIDE DEF q
    <2>3. q.state.status = r.state.status /\ (Stores(q.state) => Stores(r.state))
      BY <1>2, <1>4, <2>2 DEF Stores
    <2>4. GoodRunner(q, server[u])
      BY <1>2, <1>4, <2>2, <2>3, ReworkedIsGood
    <2> QED
      BY <1>1, <1>2, <1>6, <2>4, ChangeKeeps
  <1> QED
    BY <1>5, <1>6

LEMMA ReceiveAssetKeeps ==
    ASSUME UploaderAssumption, UploaderInv, NEW u \in Uploads, ReceiveAsset(u)
    PROVE  UploaderInv'
  <1> DEFINE r == runner[u]
  <1>1. PICK step \in {"uploading", "verifying", "completing"} :
            Works(u, step) /\ (step = "uploading" => ~Chunked(r.state))
    BY DEF ReceiveAsset
  <1>2. r.reply = "ok" /\ OnlyWorker /\ Change(u, Advance(r, Completed(r.state)))
    BY DEF ReceiveAsset
  <1>3. /\ GoodRunner(r, server[u]) /\ GoodState(r.state) /\ r \in RunnerType /\ r.cancel = "no"
        /\ r.state.status = step /\ isStep(Status(u))
    BY <1>1, WorksIsSound DEF STEPS
  <1>4. server[u].asset
    BY <1>1, <1>2, <1>3 DEF GoodRunner, Sound, Stores, Chunked
  <1>5. GoodState(Completed(r.state)) /\ Completed(r.state).status = "done"
    BY <1>3, CompletedIsGood
  <1> QED
    BY <1>2, <1>3, <1>4, <1>5, AdvanceKeeps

LEMMA ReceiveIncompleteKeeps ==
    ASSUME UploaderAssumption, UploaderInv, NEW u \in Uploads, ReceiveIncomplete(u)
    PROVE  UploaderInv'
  <1> DEFINE r == runner[u]
  <1>1. Works(u, "completing") /\ OnlyWorker /\ Change(u, Advance(r, Incomplete(r.state)))
    BY DEF ReceiveIncomplete
  <1>2. /\ GoodState(r.state) /\ r \in RunnerType /\ r.cancel = "no"
        /\ r.state.status = "completing" /\ isStep(Status(u))
    BY <1>1, WorksIsSound DEF STEPS
  <1>3. GoodState(Incomplete(r.state)) /\ Incomplete(r.state).status = "uploading"
    BY <1>2, IncompleteIsGood
  <1> QED
    BY <1>1, <1>2, <1>3, AdvanceKeeps

LEMMA ReceiveErrorKeeps ==
    ASSUME UploaderAssumption, UploaderInv, NEW u \in Uploads, ReceiveError(u)
    PROVE  UploaderInv'
  <1> DEFINE r == runner[u]
  <1>1. /\ r.reply \in {"lost", "content", "token", "other"} /\ OnlyWorker
        /\ Change(u, Failed(r, r.reply))
    BY DEF ReceiveError
  <1>2. GoodRunner(r, server[u])
    BY PartsOfInv
  <1>3. /\ r.reply = "token" => r.state.status = "initializing"
        /\ r.reply \in UploadError
    BY <1>1, <1>2 DEF GoodRunner, Sound, UploadError
  <1>4. isStep(r.state.status)
    BY <1>1, <1>2 DEF GoodRunner, Sound
  <1>5. GoodRunner(Failed(r, r.reply), server[u])
    BY <1>2, <1>3, <1>4, FailedIsGood
  <1>6. isStep(Status(u))
    BY <1>4 DEF Status
  <1> QED
    BY <1>1, <1>5, <1>6, ChangeKeeps

-----------------------------------------------------------------------------
(* The server and the network. *)

LEMMA ServerSideKeeps ==
    ASSUME UploaderAssumption, UploaderInv, NEW u \in Uploads, NEW r, NEW sv \in ServerType,
           runner' = [runner EXCEPT ![u] = r], server' = [server EXCEPT ![u] = sv],
           GoodRunner(r, sv), r.state = runner[u].state, r = runner[u] \/ runner[u] # newRunner,
           server[u].asset => sv.asset, ServerOnly
    PROVE  UploaderInv'
  <1>1. /\ runner \in [Uploads -> RunnerType] /\ server \in [Uploads -> ServerType]
        /\ \A v \in Uploads : GoodRunner(runner[v], server[v])
    BY PartsOfInv DEF Typed
  <1>2. /\ UNCHANGED <<pageVars, order, fromWorker, trailing, removing, alive>> /\ toWorker' = toWorker
    BY DEF ServerOnly
  <1>3. BacksMore
    BY <1>1 DEF BacksMore
  <1>4. runner' \in [Uploads -> RunnerType]
    BY <1>1 DEF GoodRunner
  <1>5. \A v \in Uploads :
          /\ GoodRunner(runner'[v], server'[v])
          /\ runner'[v].state = runner[v].state
          /\ runner[v] = newRunner => runner'[v] = runner[v]
    BY <1>1
  <1> QED
    BY <1>2, <1>3, <1>4, <1>5, HiddenStepKeeps DEF Takes

\* The answer of a request that a step waits for.
LEMMA AnswerKeeps ==
    ASSUME UploaderAssumption, UploaderInv, NEW u \in Uploads, NEW step \in STEPS, Works(u, step),
           NEW reply \in RunnerReply, NEW sv \in ServerType,
           Answer(u, reply), server' = [server EXCEPT ![u] = sv], server[u].asset => sv.asset,
           reply = "ok" /\ step = "initializing" => sv.mode # "none",
           reply = "token" => step = "initializing",
           reply = "ok" /\ Stores(runner[u].state) => sv.asset, ServerOnly
    PROVE  UploaderInv'
  <1> DEFINE r == [runner[u] EXCEPT !.reply = reply]
  <1>1. /\ GoodRunner(runner[u], server[u]) /\ runner[u] \in RunnerType /\ runner[u].unwinding = "no"
        /\ runner[u].state.status = step /\ isStep(runner[u].state.status)
    BY WorksIsSound DEF Status
  <1>2. /\ r \in RunnerType /\ r.reply = reply /\ r.state = runner[u].state
        /\ r.unwinding = "no" /\ r.cancel = runner[u].cancel
    BY <1>1 DEF RunnerType
  <1>3. runner' = [runner EXCEPT ![u] = r]
    BY DEF Answer
  <1> HIDE DEF r
  <1>4. GoodRunner(r, sv)
    BY <1>1, <1>2 DEF GoodRunner, Sound, isStep, STEPS
  <1>5. runner[u] # newRunner
    BY <1>1 DEF newRunner, initialState, Rest, isStep, STEPS
  <1> QED
    BY <1>2, <1>3, <1>4, <1>5, ServerSideKeeps

\* The server loses something of an upload, or gets more of it, and no runner knows.
LEMMA UnseenKeeps ==
    ASSUME UploaderAssumption, UploaderInv, NEW u \in Uploads, NEW sv \in ServerType,
           runner' = runner, server' = [server EXCEPT ![u] = sv],
           sv.asset = server[u].asset, sv.mode = server[u].mode, ServerOnly
    PROVE  UploaderInv'
  <1>1. runner \in [Uploads -> RunnerType] /\ GoodRunner(runner[u], server[u])
    BY PartsOfInv DEF Typed
  <1>2. runner' = [runner EXCEPT ![u] = runner[u]]
    BY <1>1
  <1>3. GoodRunner(runner[u], sv)
    BY <1>1, MoreIsSound
  <1> QED
    BY <1>2, <1>3, ServerSideKeeps

LEMMA ServerIsItself ==
    ASSUME UploaderInv, NEW u \in Uploads
    PROVE  server = [server EXCEPT ![u] = server[u]] /\ server[u] \in ServerType
  BY PartsOfInv DEF Typed

LEMMA ServeInitKeeps ==
    ASSUME UploaderAssumption, UploaderInv, NEW u \in Uploads, ServeInit(u)
    PROVE  UploaderInv'
  <1>1. Works(u, "initializing") /\ ServerOnly /\ "initializing" \in STEPS
    BY DEF ServeInit, Waits, STEPS
  <1>2. ~Stores(runner[u].state) /\ server[u] \in ServerType
    BY <1>1, WorksIsSound DEF Stores
  <1>3. CASE server[u].token
    <2> DEFINE mode == IF server[u].blob THEN "verify" ELSE ModeOf[u]
               sv == [server[u] EXCEPT !.live = TRUE, !.got = {}, !.mode = mode]
    <2>1. Answer(u, "ok") /\ server' = [server EXCEPT ![u] = sv]
      BY <1>3 DEF ServeInit
    <2>2. mode \in UploadMode /\ mode # "none"
      BY DEF UploaderAssumption, UploadMode
    <2> HIDE DEF mode
    <2>3. sv \in ServerType /\ sv.asset = server[u].asset /\ sv.mode = mode
      BY <1>2, <2>2 DEF ServerType
    <2> HIDE DEF sv
    <2>4. "ok" \in RunnerReply
      BY DEF RunnerReply
    <2> QED
      BY <1>1, <1>2, <2>1, <2>2, <2>3, <2>4, AnswerKeeps
  <1>4. CASE ~server[u].token
    <2>1. Answer(u, "token") /\ server' = server /\ "token" \in RunnerReply
      BY <1>4 DEF ServeInit, RunnerReply
    <2> QED
      BY <1>1, <1>2, <2>1, ServerIsItself, AnswerKeeps
  <1> QED
    BY <1>3, <1>4

LEMMA ServeStatusKeeps ==
    ASSUME UploaderAssumption, UploaderInv, NEW u \in Uploads, ServeStatus(u)
    PROVE  UploaderInv'
  <1>1. Works(u, "uploading") /\ ServerOnly /\ "uploading" \in STEPS /\ server' = server
        /\ Chunked(runner[u].state)
    BY DEF ServeStatus, Waits, STEPS
  <1>2. PICK reply \in {"lost", "complete", "ok"} : Answer(u, reply)
    BY DEF ServeStatus
  <1>3. ~Stores(runner[u].state)
    BY <1>1, WorksIsSound DEF Stores, Chunked
  <1>4. reply \in RunnerReply
    BY DEF RunnerReply
  <1> QED
    BY <1>1, <1>2, <1>3, <1>4, ServerIsItself, AnswerKeeps

LEMMA ServeChunkKeeps ==
    ASSUME UploaderAssumption, UploaderInv, NEW u \in Uploads, NEW c \in Chunks, ServeChunk(u, c)
    PROVE  UploaderInv'
  <1>1. Works(u, "uploading") /\ ServerOnly /\ "uploading" \in STEPS
    BY DEF ServeChunk, Waits, STEPS
  <1>2. server[u] \in ServerType
    BY ServerIsItself
  <1>3. CASE server[u].live
    <2> DEFINE sv == [server[u] EXCEPT !.got = @ \cup {c}]
    <2>1. server' = [server EXCEPT ![u] = sv] /\ runner' = runner
      BY <1>3 DEF ServeChunk
    <2>2. sv \in ServerType /\ sv.asset = server[u].asset /\ sv.mode = server[u].mode
      BY <1>2 DEF ServerType
    <2> HIDE DEF sv
    <2> QED
      BY <1>1, <2>1, <2>2, UnseenKeeps
  <1>4. CASE ~server[u].live
    <2>1. Answer(u, "lost") /\ server' = server /\ "lost" \in RunnerReply
      BY <1>4 DEF ServeChunk, RunnerReply
    <2> QED
      BY <1>1, <2>1, ServerIsItself, AnswerKeeps
  <1> QED
    BY <1>3, <1>4

LEMMA ServeAssetKeeps ==
    ASSUME UploaderAssumption, UploaderInv, NEW u \in Uploads, ServeAsset(u)
    PROVE  UploaderInv'
  <1>1. PICK step \in {"uploading", "verifying", "completing"} : Works(u, step)
    BY DEF ServeAsset, Waits
  <1>2. ServerOnly /\ step \in STEPS /\ step # "initializing"
    BY DEF ServeAsset, STEPS
  <1>3. server[u] \in ServerType
    BY ServerIsItself
  <1>4. CASE \E reply \in {"lost", "incomplete"} : Answer(u, reply) /\ server' = server
    <2>1. PICK reply \in {"lost", "incomplete"} : Answer(u, reply) /\ server' = server
      BY <1>4
    <2>2. reply \in RunnerReply
      BY DEF RunnerReply
    <2> QED
      BY <1>1, <1>2, <2>1, <2>2, ServerIsItself, AnswerKeeps
  <1>5. CASE /\ Answer(u, "ok")
             /\ server' = [server EXCEPT ![u].live = FALSE, ![u].blob = TRUE, ![u].asset = TRUE]
    <2> DEFINE sv == [server[u] EXCEPT !.live = FALSE, !.blob = TRUE, !.asset = TRUE]
    <2>1. server' = [server EXCEPT ![u] = sv]
      BY <1>3, <1>5, PartsOfInv DEF Typed
    <2>2. sv \in ServerType /\ sv.asset
      BY <1>3 DEF ServerType
    <2>3. "ok" \in RunnerReply
      BY DEF RunnerReply
    <2> HIDE DEF sv
    <2> QED
      BY <1>1, <1>2, <1>5, <2>1, <2>2, <2>3, AnswerKeeps
  <1> QED
    BY <1>4, <1>5 DEF ServeAsset

LEMMA LoseAnswerKeeps ==
    ASSUME UploaderAssumption, UploaderInv, NEW u \in Uploads, LoseAnswer(u)
    PROVE  UploaderInv'
  <1> DEFINE r == [runner[u] EXCEPT !.reply = "none"]
  <1>1. runner[u].reply # "none" /\ runner' = [runner EXCEPT ![u] = r] /\ server' = server /\ ServerOnly
    BY DEF LoseAnswer, Answer
  <1>2. GoodRunner(runner[u], server[u])
    BY PartsOfInv
  <1>3. r.state = runner[u].state /\ GoodRunner(r, server[u])
    BY <1>2 DEF GoodRunner, RunnerType, RunnerReply, Sound
  <1>4. runner[u] # newRunner
    BY <1>1 DEF newRunner
  <1> HIDE DEF r
  <1> QED
    BY <1>1, <1>3, <1>4, ServerIsItself, ServerSideKeeps

LEMMA RefuseKeeps ==
    ASSUME UploaderAssumption, UploaderInv, NEW u \in Uploads, Refuse(u)
    PROVE  UploaderInv'
  <1> DEFINE step == Status(u)
  <1>1. Works(u, step) /\ step \in STEPS /\ ServerOnly
    BY DEF Refuse, isStep
  <1>2. server[u] \in ServerType
    BY ServerIsItself
  <1> HIDE DEF step
  <1>3. CASE Answer(u, "other") /\ server' = server
    <2>1. "other" \in RunnerReply
      BY DEF RunnerReply
    <2> QED
      BY <1>1, <1>3, <2>1, ServerIsItself, AnswerKeeps
  <1>4. CASE Answer(u, "content") /\ server' = [server EXCEPT ![u].live = FALSE]
    <2> DEFINE sv == [server[u] EXCEPT !.live = FALSE]
    <2>1. server' = [server EXCEPT ![u] = sv]
      BY <1>4
    <2>2. sv \in ServerType /\ sv.asset = server[u].asset /\ "content" \in RunnerReply
      BY <1>2 DEF ServerType, RunnerReply
    <2> HIDE DEF sv
    <2> QED
      BY <1>1, <1>4, <2>1, <2>2, AnswerKeeps
  <1> QED
    BY <1>3, <1>4 DEF Refuse

LEMMA ExpireKeeps ==
    ASSUME UploaderAssumption, UploaderInv, NEW u \in Uploads, Expire(u)
    PROVE  UploaderInv'
  <1>1. ServerOnly /\ runner' = runner /\ server[u] \in ServerType
    BY ServerIsItself DEF Expire
  <1>2. CASE server' = [server EXCEPT ![u].live = FALSE]
    <2> DEFINE sv == [server[u] EXCEPT !.live = FALSE]
    <2>1. sv \in ServerType /\ sv.asset = server[u].asset /\ sv.mode = server[u].mode
          /\ server' = [server EXCEPT ![u] = sv]
      BY <1>1, <1>2 DEF ServerType
    <2> HIDE DEF sv
    <2> QED
      BY <1>1, <2>1, UnseenKeeps
  <1>3. CASE \E c \in server[u].got : server' = [server EXCEPT ![u].got = @ \ {c}]
    <2>1. PICK c \in server[u].got : server' = [server EXCEPT ![u].got = @ \ {c}]
      BY <1>3
    <2> DEFINE sv == [server[u] EXCEPT !.got = @ \ {c}]
    <2>2. sv \in ServerType /\ sv.asset = server[u].asset /\ sv.mode = server[u].mode
          /\ server' = [server EXCEPT ![u] = sv]
      BY <1>1, <2>1 DEF ServerType
    <2> HIDE DEF sv
    <2> QED
      BY <1>1, <2>2, UnseenKeeps
  <1>4. CASE server' = [server EXCEPT ![u].token = FALSE]
    <2> DEFINE sv == [server[u] EXCEPT !.token = FALSE]
    <2>1. sv \in ServerType /\ sv.asset = server[u].asset /\ sv.mode = server[u].mode
          /\ server' = [server EXCEPT ![u] = sv]
      BY <1>1, <1>4 DEF ServerType
    <2> HIDE DEF sv
    <2> QED
      BY <1>1, <2>1, UnseenKeeps
  <1> QED
    BY <1>2, <1>3, <1>4 DEF Expire

-----------------------------------------------------------------------------
(* The messages of the page. *)

\* The message that the host takes.
LEMMA MessageTaken ==
    ASSUME UploaderInv, NEW types, Take(types)
    PROVE  /\ Takes /\ toWorker # <<>> /\ toWorker' = Tail(toWorker)
           /\ 1 \in DOMAIN toWorker /\ Head(toWorker) = toWorker[1]
           /\ Head(toWorker) \in ToHost /\ Head(toWorker).type \in types
           /\ toWorker' # toWorker
  <1>1. toWorker \in Seq(ToHost) /\ toWorker # <<>> /\ toWorker' = Tail(toWorker)
        /\ Head(toWorker).type \in types
    BY DEF Take, UploaderInv, Typed
  <1>2. Len(Tail(toWorker)) # Len(toWorker)
    BY <1>1
  <1> QED
    BY <1>1, <1>2, ElementsOfTail DEF Takes

\* A message that changes nothing.
LEMMA IgnoredKeeps ==
    ASSUME UploaderAssumption, UploaderInv, Takes, BacksMore,
           \A u \in Uploads : GoodRunner(runner[u], server'[u]),
           UNCHANGED <<pageVars, runner, order, fromWorker, trailing, removing, alive>>
    PROVE  UploaderInv'
  <1>1. runner' \in [Uploads -> RunnerType]
    BY PartsOfInv DEF Typed
  <1> QED
    BY <1>1, HiddenStepKeeps

LEMMA ReceiveAddKeeps ==
    ASSUME UploaderAssumption, UploaderInv, ReceiveAdd
    PROVE  UploaderInv'
  <1> DEFINE u == Head(toWorker).id
             queue == Append(order, u)
  <1>1. /\ Takes /\ toWorker' = Tail(toWorker) /\ toWorker' # toWorker
        /\ 1 \in DOMAIN toWorker /\ Head(toWorker) = toWorker[1]
        /\ Head(toWorker) \in ToHost /\ Head(toWorker).type = "add"
    BY MessageTaken DEF ReceiveAdd
  <1>2. /\ Publish(runner, queue, <<u>>, {}, <<>>)
        /\ UNCHANGED <<pageVars, alive>> /\ removing' = removing /\ server' = server
    BY DEF ReceiveAdd
  <1>3. /\ u \in Uploads /\ u \notin ToSet(order)
        /\ \A j \in DOMAIN toWorker : toWorker[j].type = "add" /\ toWorker[j].id = u => j = 1
    BY <1>1, PartsOfInv DEF AddsAreNew, Known, ToHost
  <1>4. /\ runner \in [Uploads -> RunnerType] /\ StepsAreKnown
        /\ order \in Seq(Uploads) /\ IsInjective(order) /\ trailing \subseteq ToSet(order)
        /\ removing \subseteq Uploads
    BY PartsOfInv DEF Typed
  <1>5. BacksMore /\ \A v \in Uploads : GoodRunner(runner[v], server'[v])
    BY <1>2, ServerStaysSame
  <1> HIDE DEF u
  <1>6. queue \in Seq(Uploads) /\ IsInjective(queue) /\ ToSet(queue) = ToSet(order) \cup {u}
    BY <1>3, <1>4, ElementsOfAppended
  <1> HIDE DEF queue
  <1>7. ChangesSoundly(runner, queue)
    BY <1>4, <1>5, <1>6 DEF ChangesSoundly, StepsAreKnown, Status, Known
  <1>8. SaysWhatChanges(runner, queue, <<u>>, {}, <<>>)
    BY <1>3, <1>4, <1>6, SinglePlace DEF SaysWhatChanges
  <1>9. \A i \in DOMAIN toWorker' :
          toWorker'[i].type = "add" /\ toWorker'[i].id \notin ToSet(order) => toWorker'[i].id \notin ToSet(queue)
    <2>1. ASSUME NEW i \in DOMAIN toWorker', toWorker'[i].type = "add"
          PROVE  toWorker'[i].id # u
      <3>1. \E j \in DOMAIN toWorker : toWorker'[i] = toWorker[j] /\ j # 1
        BY <1>1, WaitingMessages
      <3> QED
        BY <1>3, <2>1, <3>1
    <2> QED
      BY <1>6, <2>1
  <1> QED
    BY <1>1, <1>2, <1>4, <1>5, <1>7, <1>8, <1>9, PublishKeeps

\* A call of one upload or of all, which puts no upload into a step.
LEMMA AppliedKeeps ==
    ASSUME UploaderAssumption, UploaderInv, Takes, BacksMore, NEW rs \in [Uploads -> RunnerType],
           \A u \in Uploads :
               /\ GoodRunner(runner[u], server'[u]) /\ GoodRunner(rs[u], server'[u])
               /\ rs[u].state # runner[u].state => ~isStep(rs[u].state.status)
               /\ u \notin ToSet(order) => rs[u] = runner[u],
           NEW changed, changed = Those(order, {u \in Uploads : rs[u].state # runner[u].state}),
           IF changed = <<>>
           THEN UNCHANGED <<runner, order, fromWorker, lastSent, trailing>>
           ELSE Publish(rs, order, changed, {}, <<>>),
           UNCHANGED <<pageVars, removing, alive>>
    PROVE  UploaderInv'
  <1>1. /\ StepsAreKnown /\ order \in Seq(Uploads) /\ IsInjective(order)
        /\ trailing \subseteq ToSet(order) /\ removing \subseteq Uploads /\ ToSet(order) \subseteq Uploads
    BY PartsOfInv DEF Typed
  <1>2. CASE changed = <<>>
    BY <1>2, IgnoredKeeps
  <1>3. CASE changed # <<>>
    <2> DEFINE set == {u \in Uploads : rs[u].state # runner[u].state}
    <2>1. changed \in Seq(Uploads \cap set) /\ ToSet(changed) = ToSet(order) \cap set
      <3> HIDE DEF set
      <3> QED
        BY <1>1, ThoseAreTheOnes DEF set
    <2>2. changed \in Seq(Uploads)
      <3>1. Uploads \cap set \subseteq Uploads
        OBVIOUS
      <3> HIDE DEF set
      <3> QED
        BY <2>1, <3>1, SeqMonotonic
    <2>3. ChangesSoundly(rs, order)
      BY <1>1 DEF ChangesSoundly, StepsAreKnown, Status, Known
    <2>4. SaysWhatChanges(rs, order, changed, {}, <<>>)
      BY <1>1, <2>1, <2>2, SinglePlace DEF SaysWhatChanges
    <2>5. \A i \in DOMAIN toWorker' :
            toWorker'[i].type = "add" /\ toWorker'[i].id \notin ToSet(order) =>
              rs[toWorker'[i].id] = runner[toWorker'[i].id]
      BY WaitingMessages, AddsAreOfUploads
    <2>6. removing' \subseteq Uploads /\ Publish(rs, order, changed, {}, <<>>)
      BY <1>1, <1>3
    <2> QED
      BY <2>3, <2>4, <2>5, <2>6, PublishKeeps
  <1> QED
    BY <1>2, <1>3

LEMMA ReceivePauseKeeps ==
    ASSUME UploaderAssumption, UploaderInv, ReceivePause
    PROVE  UploaderInv'
  <1> DEFINE rs == [u \in Uploads |-> IF u \in Named THEN Paused(runner[u]) ELSE runner[u]]
             changed == Those(order, {u \in Uploads : rs[u].state # runner[u].state})
  <1>1. Takes /\ server' = server /\ UNCHANGED <<pageVars, removing, alive>>
    BY MessageTaken DEF ReceivePause
  <1>2. BacksMore /\ \A u \in Uploads : GoodRunner(runner[u], server'[u])
    BY <1>1, ServerStaysSame
  <1>3. IF changed = <<>> THEN UNCHANGED <<runner, order, fromWorker, lastSent, trailing>>
        ELSE Publish(rs, order, changed, {}, <<>>)
    BY DEF ReceivePause, Apply
  <1>4. \A u \in Uploads :
          /\ GoodRunner(rs[u], server'[u])
          /\ rs[u].state # runner[u].state => ~isStep(rs[u].state.status)
          /\ u \notin ToSet(order) => rs[u] = runner[u]
    BY <1>2, PausedIsGood DEF Named, isStep, STEPS
  <1>5. rs \in [Uploads -> RunnerType]
    BY <1>4 DEF GoodRunner
  <1> HIDE DEF rs
  <1> QED
    BY <1>1, <1>2, <1>3, <1>4, <1>5, AppliedKeeps

LEMMA ReceiveResumeKeeps ==
    ASSUME UploaderAssumption, UploaderInv, ReceiveResume
    PROVE  UploaderInv'
  <1> DEFINE rs == [u \in Uploads |-> IF u \in Named THEN Resumed(runner[u]) ELSE runner[u]]
             changed == Those(order, {u \in Uploads : rs[u].state # runner[u].state})
  <1>1. Takes /\ server' = server /\ UNCHANGED <<pageVars, removing, alive>>
    BY MessageTaken DEF ReceiveResume
  <1>2. BacksMore /\ \A u \in Uploads : GoodRunner(runner[u], server'[u])
    BY <1>1, ServerStaysSame
  <1>3. IF changed = <<>> THEN UNCHANGED <<runner, order, fromWorker, lastSent, trailing>>
        ELSE Publish(rs, order, changed, {}, <<>>)
    BY DEF ReceiveResume, Apply
  <1>4. \A u \in Uploads :
          /\ GoodRunner(rs[u], server'[u])
          /\ rs[u].state # runner[u].state => ~isStep(rs[u].state.status)
          /\ u \notin ToSet(order) => rs[u] = runner[u]
    BY <1>2, ResumedIsGood DEF Named, isStep, STEPS
  <1>5. rs \in [Uploads -> RunnerType]
    BY <1>4 DEF GoodRunner
  <1> HIDE DEF rs
  <1> QED
    BY <1>1, <1>2, <1>3, <1>4, <1>5, AppliedKeeps

LEMMA ReceiveCancelKeeps ==
    ASSUME UploaderAssumption, UploaderInv, ReceiveCancel
    PROVE  UploaderInv'
  <1> DEFINE rs == [u \in Uploads |-> IF u \in Named THEN Cancelling(runner[u]) ELSE runner[u]]
             changed == Those(order, {u \in Uploads : rs[u].state # runner[u].state})
  <1>1. Takes /\ server' = server /\ UNCHANGED <<pageVars, removing, alive>>
    BY MessageTaken DEF ReceiveCancel
  <1>2. BacksMore /\ \A u \in Uploads : GoodRunner(runner[u], server'[u])
    BY <1>1, ServerStaysSame
  <1>3. IF changed = <<>> THEN UNCHANGED <<runner, order, fromWorker, lastSent, trailing>>
        ELSE Publish(rs, order, changed, {}, <<>>)
    BY DEF ReceiveCancel, Apply
  <1>4. \A u \in Uploads :
          /\ GoodRunner(rs[u], server'[u])
          /\ rs[u].state # runner[u].state => ~isStep(rs[u].state.status)
          /\ u \notin ToSet(order) => rs[u] = runner[u]
    BY <1>2, CancellingIsGood DEF Named, isStep, STEPS
  <1>5. rs \in [Uploads -> RunnerType]
    BY <1>4 DEF GoodRunner
  <1> HIDE DEF rs
  <1> QED
    BY <1>1, <1>2, <1>3, <1>4, <1>5, AppliedKeeps

LEMMA ReceiveRetryKeeps ==
    ASSUME UploaderAssumption, UploaderInv, ReceiveRetry
    PROVE  UploaderInv'
  <1> DEFINE rs == [u \in Uploads |-> IF u \in Named THEN Retried(runner[u]) ELSE runner[u]]
             changed == Those(order, {u \in Uploads : rs[u].state # runner[u].state})
  <1>1. Takes /\ UNCHANGED <<pageVars, removing, alive>>
    BY MessageTaken DEF ReceiveRetry
  <1>2. BacksMore /\ \A u \in Uploads : GoodRunner(runner[u], server'[u])
    <2>1. server \in [Uploads -> ServerType] /\ \A u \in Uploads : GoodRunner(runner[u], server[u])
      BY PartsOfInv DEF Typed
    <2>2. \A u \in Uploads :
            /\ server'[u] \in ServerType /\ server'[u].asset = server[u].asset
            /\ server'[u].mode = server[u].mode
      BY <2>1 DEF ReceiveRetry, ServerType
    <2>3. server' \in [Uploads -> ServerType]
      BY <2>2 DEF ReceiveRetry
    <2> QED
      BY <2>1, <2>2, <2>3, MoreIsSound DEF BacksMore
  <1>3. IF changed = <<>> THEN UNCHANGED <<runner, order, fromWorker, lastSent, trailing>>
        ELSE Publish(rs, order, changed, {}, <<>>)
    BY DEF ReceiveRetry, Apply
  <1>4. \A u \in Uploads :
          /\ GoodRunner(rs[u], server'[u])
          /\ rs[u].state # runner[u].state => ~isStep(rs[u].state.status)
          /\ u \notin ToSet(order) => rs[u] = runner[u]
    BY <1>2, RetriedIsGood DEF Named, isStep, STEPS
  <1>5. rs \in [Uploads -> RunnerType]
    BY <1>4 DEF GoodRunner
  <1> HIDE DEF rs
  <1> QED
    BY <1>1, <1>2, <1>3, <1>4, <1>5, AppliedKeeps

LEMMA ReceiveReorderKeeps ==
    ASSUME UploaderAssumption, UploaderInv, ReceiveReorder
    PROVE  UploaderInv'
  <1> DEFINE u == Head(toWorker).id
             index == Head(toWorker).arg
             queue == Moved(order, u, index)
  <1>1. Takes /\ Head(toWorker) \in ToHost
        /\ server' = server /\ UNCHANGED <<pageVars, alive>> /\ removing' = removing
    BY MessageTaken DEF ReceiveReorder
  <1>2. BacksMore /\ \A v \in Uploads : GoodRunner(runner[v], server'[v])
    BY <1>1, ServerStaysSame
  <1>3. IF Known(u) THEN Publish(runner, queue, <<>>, {}, <<>>)
        ELSE UNCHANGED <<runner, order, fromWorker, lastSent, trailing>>
    BY DEF ReceiveReorder
  <1>4. index \in Nat
    BY <1>1 DEF ToHost
  <1>5. /\ runner \in [Uploads -> RunnerType] /\ StepsAreKnown
        /\ order \in Seq(Uploads) /\ IsInjective(order) /\ trailing \subseteq ToSet(order)
        /\ removing \subseteq Uploads
    BY PartsOfInv DEF Typed
  <1> HIDE DEF u, index
  <1>6. CASE Known(u)
    <2>1. queue \in Seq(Uploads) /\ IsInjective(queue) /\ ToSet(queue) = ToSet(order)
      BY <1>4, <1>5, <1>6, MovedKeepsElements DEF Known
    <2> HIDE DEF queue
    <2>2. ChangesSoundly(runner, queue)
      BY <1>2, <1>5, <2>1 DEF ChangesSoundly, StepsAreKnown, Status, Known
    <2>3. SaysWhatChanges(runner, queue, <<>>, {}, <<>>)
      BY <1>5, <2>1, SinglePlace DEF SaysWhatChanges
    <2> QED
      BY <1>1, <1>2, <1>3, <1>5, <1>6, <2>1, <2>2, <2>3, PublishKeeps
  <1>7. CASE ~Known(u)
    BY <1>1, <1>2, <1>3, <1>7, IgnoredKeeps
  <1> QED
    BY <1>6, <1>7

\* One message more on its way to the page.
LEMMA OneMessageMore ==
    ASSUME UploaderInv, NEW m \in ToPage, fromWorker' = fromWorker \o <<m>>, server' = server, page' = page,
           m.arg.status = "done" => server[m.id].asset
    PROVE  /\ fromWorker' \in Seq(ToPage)
           /\ \A i \in DOMAIN fromWorker' :
                fromWorker'[i].arg.status = "done" => server'[fromWorker'[i].id].asset
           /\ \A v, s : m.id # v /\ Tells(fromWorker, v, s, page[v]) => Tells(fromWorker', v, s, page'[v])
           /\ \A v, s : m.id = v /\ m.arg = s => Tells(fromWorker', v, s, page'[v])
  <1>1. /\ fromWorker \in Seq(ToPage)
        /\ \A i \in DOMAIN fromWorker : fromWorker[i].arg.status = "done" => server[fromWorker[i].id].asset
    BY PartsOfInv DEF Typed, DoneIsBacked
  <1>2. <<m>> \in Seq(ToPage) /\ DOMAIN <<m>> = {1} /\ <<m>>[1] = m
    OBVIOUS
  <1>3. /\ fromWorker' \in Seq(ToPage)
        /\ \A i \in DOMAIN fromWorker' :
             (i \in DOMAIN fromWorker /\ fromWorker'[i] = fromWorker[i]) \/ fromWorker'[i] = m
    BY <1>1
  <1>4. ASSUME NEW v, NEW s, m.id # v, Tells(fromWorker, v, s, page[v])
        PROVE  Tells(fromWorker', v, s, page'[v])
    <2>1. \A i \in DOMAIN <<m>> : <<m>>[i].id # v
      BY <1>2, <1>4
    <2> QED
      BY <1>1, <1>2, <1>4, <2>1, OthersTellNothing
  <1>5. ASSUME NEW v, NEW s, m.id = v, m.arg = s
        PROVE  Tells(fromWorker', v, s, page'[v])
    <2>1. (\E i \in DOMAIN <<m>> : <<m>>[i].id = v) /\ \A i \in DOMAIN <<m>> : <<m>>[i].id = v => <<m>>[i].arg = s
      BY <1>2, <1>5
    <2> QED
      BY <1>1, <1>2, <2>1, LastWordTells
  <1> QED
    BY <1>1, <1>3, <1>4, <1>5

LEMMA TrailingTimerKeeps ==
    ASSUME UploaderAssumption, UploaderInv, NEW u \in Uploads, TrailingTimer(u)
    PROVE  UploaderInv'
  <1> DEFINE m == [type |-> "snapshot", id |-> u, arg |-> Snapshot(runner[u].state)]
  <1>1. /\ u \in trailing /\ trailing' = trailing \ {u}
        /\ fromWorker' = fromWorker \o Snapshots(runner, <<u>>)
        /\ UNCHANGED <<page, pageOrder, waiter, toWorker, runner, order, removing, server, alive>>
    BY DEF TrailingTimer, pageVars
  <1>2. Snapshots(runner, <<u>>) = <<m>>
    BY DEF Snapshots
  <1>3. GoodRunner(runner[u], server[u]) /\ GoodState(runner[u].state)
    BY PartsOfInv, PartsOfRunner
  <1>4. Snapshot(runner[u].state) \in SnapshotType /\ Snapshot(runner[u].state).status = Status(u)
    BY <1>3, SnapshotIsTyped DEF Status
  <1>5. m \in ToPage /\ (m.arg.status = "done" => server[m.id].asset)
    BY <1>3, <1>4 DEF ToPage, Status, GoodRunner, Sound
  <1>6. m.id = u /\ m.arg = Snapshot(runner[u].state)
    OBVIOUS
  <1> HIDE DEF m
  <1>7. /\ fromWorker' \in Seq(ToPage)
        /\ \A i \in DOMAIN fromWorker' :
             fromWorker'[i].arg.status = "done" => server'[fromWorker'[i].id].asset
        /\ \A v, s : u # v /\ Tells(fromWorker, v, s, page[v]) => Tells(fromWorker', v, s, page'[v])
        /\ Tells(fromWorker', u, Snapshot(runner[u].state), page'[u])
    BY <1>1, <1>2, <1>5, <1>6, OneMessageMore
  <1>8. Takes /\ BacksMore /\ \A v \in Uploads : GoodRunner(runner[v], server'[v])
    BY <1>1, ServerStaysSame DEF Takes
  <1>9. Typed /\ DoneIsBacked /\ PageComesToShow /\ ToSet(order) \subseteq Uploads
    BY PartsOfInv
  <1>10. Typed'
    BY <1>1, <1>7, <1>9 DEF Typed, Shown
  <1>11. PageComesToShow'
    <2>1. ASSUME NEW v \in ToSet(order) \ trailing'
          PROVE  Tells(fromWorker', v, Snapshot(runner[v].state), page'[v])
      BY <1>1, <1>7, <1>9 DEF PageComesToShow
    <2> QED
      BY <1>1, <2>1 DEF PageComesToShow
  <1>12. DoneIsBacked'
    BY <1>1, <1>7, <1>9 DEF DoneIsBacked
  <1>13. /\ RunnersAreSound' /\ StepsAreKnown' /\ AddsAreNew' /\ NoHangingWaiter' /\ ParallelLimit'
         /\ SlotsAreUsed'
    BY <1>1 DEF UploaderInv, RunnersAreSound, StepsAreKnown, AddsAreNew, NoHangingWaiter, ParallelLimit,
         SlotsAreUsed, Working, Status, Known, Shown
  <1> QED
    BY <1>10, <1>11, <1>12, <1>13 DEF UploaderInv

LEMMA WithoutIsTheRest ==
    ASSUME order \in Seq(Uploads), IsInjective(order), NEW u
    PROVE  /\ Without(u) \in Seq(Uploads) /\ IsInjective(Without(u))
           /\ ToSet(Without(u)) = ToSet(order) \ {u}
  <1>1. ToSet(order) \subseteq Uploads
    BY PlacesAreElements
  <1>2. /\ Without(u) \in Seq(Uploads \cap (Uploads \ {u})) /\ IsInjective(Without(u))
        /\ ToSet(Without(u)) = ToSet(order) \cap (Uploads \ {u})
    BY ThoseAreTheOnes DEF Without
  <1>3. Uploads \cap (Uploads \ {u}) \subseteq Uploads
    OBVIOUS
  <1>4. Without(u) \in Seq(Uploads)
    BY <1>2, <1>3, SeqMonotonic
  <1> QED
    BY <1>1, <1>2, <1>4

\* An upload leaves the queue, with the word that it did.
LEMMA ForgettingKeeps ==
    ASSUME UploaderAssumption, UploaderInv, Takes, NEW u \in Uploads, NEW r, GoodRunner(r, server[u]),
           r.state = runner[u].state, ~isStep(Status(u)), Known(u) \/ runner[u] # newRunner,
           runner' = [runner EXCEPT ![u] = r], order' = Without(u), trailing' = trailing \ {u},
           fromWorker' = Append(fromWorker, Removed(u)), removing' \subseteq Uploads,
           UNCHANGED <<page, pageOrder, waiter, server, alive>>
    PROVE  UploaderInv'
  <1> DEFINE m == Removed(u)
  <1>1. Typed /\ DoneIsBacked /\ PageComesToShow /\ ToSet(order) \subseteq Uploads
        /\ IsFiniteSet(ToSet(order))
    BY PartsOfInv
  <1>2. m \in ToPage /\ m.id = u /\ m.arg.status # "done"
    BY DEF Removed, ToPage, NoUpload
  <1>3. fromWorker' = fromWorker \o <<m>>
    BY <1>1, AppendIsConcat DEF Typed
  <1> HIDE DEF m
  <1>4. /\ fromWorker' \in Seq(ToPage)
        /\ \A i \in DOMAIN fromWorker' :
             fromWorker'[i].arg.status = "done" => server'[fromWorker'[i].id].asset
        /\ \A v, s : u # v /\ Tells(fromWorker, v, s, page[v]) => Tells(fromWorker', v, s, page'[v])
    BY <1>2, <1>3, OneMessageMore
  <1>5. order' \in Seq(Uploads) /\ IsInjective(order') /\ ToSet(order') = ToSet(order) \ {u}
    BY <1>1, WithoutIsTheRest DEF Typed
  <1>6. /\ runner' \in [Uploads -> RunnerType] /\ runner'[u] = r
        /\ \A v \in Uploads : v # u => runner'[v] = runner[v]
        /\ \A v \in Uploads : runner'[v].state = runner[v].state
        /\ \A v \in Uploads : GoodRunner(runner'[v], server'[v])
    <2>1. \A v \in Uploads : GoodRunner(runner[v], server[v])
      BY PartsOfInv
    <2> QED
      BY <1>1, <2>1 DEF Typed, GoodRunner
  <1>7. \A v \in Uploads : Status(v)' = Status(v)
    BY <1>6 DEF Status
  <1>8. Typed'
    BY <1>1, <1>4, <1>5, <1>6, WaitingMessages DEF Typed, Shown
  <1>9. PageComesToShow'
    <2>1. ASSUME NEW v \in ToSet(order') \ trailing'
          PROVE  Tells(fromWorker', v, Snapshot(runner'[v].state), page'[v])
      <3>1. v \in ToSet(order) \ trailing /\ v # u /\ runner'[v] = runner[v]
        BY <1>1, <1>5, <1>6, <2>1
      <3>2. Tells(fromWorker, v, Snapshot(runner[v].state), page[v])
        BY <1>1, <3>1 DEF PageComesToShow
      <3> QED
        BY <1>4, <3>1, <3>2
    <2> QED
      BY <2>1 DEF PageComesToShow
  <1>10. DoneIsBacked' /\ NoHangingWaiter'
    BY <1>1, <1>4 DEF DoneIsBacked, NoHangingWaiter, UploaderInv, Shown
  <1>11. RunnersAreSound' /\ StepsAreKnown'
    BY <1>5, <1>6, <1>7 DEF RunnersAreSound, GoodRunner, StepsAreKnown, UploaderInv, Known
  <1>12. AddsAreNew'
    BY <1>5, <1>6, WaitingMessages, AddsAreOfUploads, AddsStayNew DEF Known
  <1>13. {v \in Uploads : isStep(Status(v))}' = {v \in Uploads : isStep(Status(v))}
    BY <1>7
  <1>14. ParallelLimit'
    BY <1>13 DEF ParallelLimit, UploaderInv
  <1>15. SlotsAreUsed'
    <2>1. CASE \A v \in ToSet(order) : Status(v) # "queued"
      BY <1>1, <1>5, <1>7, <2>1 DEF SlotsAreUsed
    <2>2. CASE \E v \in Uploads : ~Known(v) /\ Status(v) = "cancelling"
      BY <1>5, <1>7, <2>2 DEF SlotsAreUsed, Known
    <2>3. CASE Cardinality(Working) >= MaxParallel /\ u \in Working
      <3>1. Status(u) = "cancelling"
        BY <2>3 DEF Working
      <3> QED
        BY <1>5, <1>7, <3>1 DEF SlotsAreUsed, Known
    <2>4. CASE Cardinality(Working) >= MaxParallel /\ u \notin Working
      <3>1. Working' = Working
        BY <1>1, <1>5, <1>7, <2>4 DEF Working
      <3> QED
        BY <2>4, <3>1 DEF SlotsAreUsed
    <2> QED
      BY <2>1, <2>2, <2>3, <2>4 DEF SlotsAreUsed, UploaderInv
  <1> QED
    BY <1>8, <1>9, <1>10, <1>11, <1>12, <1>14, <1>15 DEF UploaderInv

LEMMA ReceiveRemoveKeeps ==
    ASSUME UploaderAssumption, UploaderInv, ReceiveRemove
    PROVE  UploaderInv'
  <1> DEFINE u == Head(toWorker).id
             r == Cancelling(runner[u])
  <1>1. Takes /\ Head(toWorker) \in ToHost /\ Head(toWorker).type = "remove"
        /\ UNCHANGED <<page, pageOrder, waiter, server, alive>>
    BY MessageTaken DEF ReceiveRemove, pageVars
  <1>2. BacksMore /\ \A v \in Uploads : GoodRunner(runner[v], server'[v])
    BY <1>1, ServerStaysSame
  <1>3. u \in Uploads
    BY <1>1 DEF ToHost
  <1>4. /\ runner \in [Uploads -> RunnerType] /\ StepsAreKnown
        /\ order \in Seq(Uploads) /\ IsInjective(order) /\ trailing \subseteq ToSet(order)
        /\ removing \subseteq Uploads /\ GoodRunner(runner[u], server[u])
    BY <1>3, PartsOfInv DEF Typed
  <1>5. /\ GoodRunner(r, server[u])
        /\ r.state # runner[u].state => r.state.status \in {"cancelling", "cancelled"}
        /\ r = runner[u] <=> isTerminal(Status(u)) \/ Status(u) = "cancelling"
        /\ r = runner[u] <=> r.state = runner[u].state
    BY <1>4, CancellingIsGood DEF Status
  <1>6. \/ UNCHANGED <<runner, order, fromWorker, trailing, removing>>
        \/ Known(u) /\ r = runner[u] /\ Forget(u)
        \/ /\ Known(u) /\ r # runner[u] /\ removing' = removing \cup {u}
           /\ Publish([runner EXCEPT ![u] = r], order, <<u>>, {}, <<>>)
    BY DEF ReceiveRemove, hostVars
  <1> HIDE DEF u, r
  <1>7. CASE UNCHANGED <<runner, order, fromWorker, trailing, removing>>
    BY <1>1, <1>2, <1>7, IgnoredKeeps DEF pageVars
  <1>8. CASE Known(u) /\ r = runner[u] /\ Forget(u)
    <2> DEFINE q == [runner[u] EXCEPT !.offset = 0]
    <2>1. 0 \in 0..(Slices - 1)
      BY DEF UploaderAssumption
    <2>2. GoodRunner(q, server[u]) /\ q.state = runner[u].state
      BY <1>4, <2>1, OffsetIsFree
    <2>3. ~isStep(Status(u))
      BY <1>5, <1>8 DEF isStep, STEPS, isTerminal
    <2>4. /\ runner' = [runner EXCEPT ![u] = q] /\ order' = Without(u) /\ trailing' = trailing \ {u}
          /\ fromWorker' = Append(fromWorker, Removed(u)) /\ removing' = removing
      BY <1>8 DEF Forget
    <2> HIDE DEF q
    <2> QED
      BY <1>1, <1>3, <1>4, <1>8, <2>2, <2>3, <2>4, ForgettingKeeps
  <1>9. CASE /\ Known(u) /\ r # runner[u] /\ removing' = removing \cup {u}
             /\ Publish([runner EXCEPT ![u] = r], order, <<u>>, {}, <<>>)
    <2> DEFINE rs == [runner EXCEPT ![u] = r]
    <2>1. /\ rs \in [Uploads -> RunnerType] /\ rs[u] = r
          /\ \A v \in Uploads : v # u => rs[v] = runner[v]
          /\ \A v \in Uploads : GoodRunner(rs[v], server'[v])
      BY <1>1, <1>2, <1>3, <1>4, <1>5 DEF GoodRunner
    <2>2. ~isStep(r.state.status)
      BY <1>5, <1>9 DEF isStep, STEPS
    <2>3. Publish(rs, order, <<u>>, {}, <<>>)
      BY <1>9
    <2> HIDE DEF rs
    <2>4. ChangesSoundly(rs, order)
      BY <1>4, <2>1, <2>2 DEF ChangesSoundly, StepsAreKnown, Status, Known
    <2>5. SaysWhatChanges(rs, order, <<u>>, {}, <<>>)
      BY <1>3, <1>4, <2>1, SinglePlace, PlacesAreElements DEF SaysWhatChanges
    <2>6. \A i \in DOMAIN toWorker' :
            toWorker'[i].type = "add" /\ toWorker'[i].id \notin ToSet(order) =>
              rs[toWorker'[i].id] = runner[toWorker'[i].id]
      BY <1>1, <1>9, <2>1, WaitingMessages, AddsAreOfUploads DEF Known
    <2>7. removing' \subseteq Uploads
      BY <1>3, <1>4, <1>9
    <2> QED
      BY <1>1, <1>2, <2>3, <2>4, <2>5, <2>6, <2>7, PublishKeeps DEF pageVars
  <1> QED
    BY <1>6, <1>7, <1>8, <1>9

LEMMA CancelUnwoundKeeps ==
    ASSUME UploaderAssumption, UploaderInv, NEW u \in Uploads, CancelUnwound(u)
    PROVE  UploaderInv'
  <1> DEFINE r == [runner[u] EXCEPT !.offset = 0]
  <1>1. /\ runner[u].cancel = "unwinding" /\ toWorker' = toWorker
        /\ UNCHANGED <<page, pageOrder, waiter, server, alive>>
    BY DEF CancelUnwound, pageVars
  <1>2. /\ GoodRunner(runner[u], server[u]) /\ runner \in [Uploads -> RunnerType]
        /\ removing \subseteq Uploads
    BY PartsOfInv DEF Typed
  <1>3. 0 \in 0..(Slices - 1)
    BY DEF UploaderAssumption
  <1>4. GoodRunner(r, server[u]) /\ r.state = runner[u].state /\ r.cancel = "unwinding"
    BY <1>1, <1>2, <1>3, OffsetIsFree
  <1>5. Status(u) \in {"cancelling", "cancelled"} /\ runner[u] # newRunner
    BY <1>1, <1>2 DEF GoodRunner, Sound, Status, newRunner
  <1>6. Takes /\ BacksMore /\ \A v \in Uploads : GoodRunner(runner[v], server'[v])
    BY <1>1, ServerStaysSame DEF Takes
  <1> DEFINE q(c) == [r EXCEPT !.cancel = c]
  <1>7. \A c \in {"no", "calling"} :
          (c = "no" => Status(u) = "cancelled") => GoodRunner(q(c), server[u]) /\ q(c).state = runner[u].state
    <2> HIDE DEF r
    <2> QED
      BY <1>4, <1>5 DEF GoodRunner, Sound, RunnerType, Status
  <1> HIDE DEF r
  <1>8. ASSUME NEW c \in {"no", "calling"}, c = "no" => Status(u) = "cancelled",
               runner' = [runner EXCEPT ![u] = q(c)],
               UNCHANGED <<order, fromWorker, lastSent, trailing, removing>>
        PROVE  UploaderInv'
    <2>1. GoodRunner(q(c), server[u]) /\ q(c).state = runner[u].state
      BY <1>7, <1>8
    <2> DEFINE p == q(c)
    <2>2. GoodRunner(p, server[u]) /\ p.state = runner[u].state /\ runner' = [runner EXCEPT ![u] = p]
      BY <2>1, <1>8
    <2> HIDE DEF p, q
    <2>3. \A v \in Uploads :
            /\ GoodRunner(runner'[v], server'[v])
            /\ runner'[v].state = runner[v].state
            /\ runner[v] = newRunner => runner'[v] = runner[v]
      BY <1>1, <1>2, <1>5, <1>6, <2>2
    <2>4. runner' \in [Uploads -> RunnerType]
      BY <1>2, <2>2 DEF GoodRunner
    <2> QED
      BY <1>1, <1>6, <1>8, <2>3, <2>4, HiddenStepKeeps DEF pageVars
  <1>9. CASE Status(u) = "cancelling"
    <2>1. runner' = [runner EXCEPT ![u] = q("calling")]
          /\ UNCHANGED <<order, fromWorker, lastSent, trailing, removing>>
      BY <1>9 DEF CancelUnwound, r
    <2> HIDE DEF q
    <2> QED
      BY <1>8, <2>1
  <1>10. CASE Status(u) # "cancelling" /\ u \in removing
    <2>1. /\ runner' = [runner EXCEPT ![u] = q("no")] /\ order' = Without(u)
          /\ trailing' = trailing \ {u} /\ fromWorker' = Append(fromWorker, Removed(u))
          /\ removing' = removing \ {u}
      BY <1>10 DEF CancelUnwound, r
    <2>2. GoodRunner(q("no"), server[u]) /\ q("no").state = runner[u].state
      BY <1>5, <1>7, <1>10
    <2>3. ~isStep(Status(u)) /\ removing' \subseteq Uploads
      BY <1>2, <1>5, <2>1 DEF isStep, STEPS
    <2> HIDE DEF q
    <2> QED
      BY <1>1, <1>5, <1>6, <2>1, <2>2, <2>3, ForgettingKeeps
  <1>11. CASE Status(u) # "cancelling" /\ u \notin removing
    <2>1. runner' = [runner EXCEPT ![u] = q("no")]
          /\ UNCHANGED <<order, fromWorker, lastSent, trailing, removing>>
      BY <1>11 DEF CancelUnwound, r
    <2>2. Status(u) = "cancelled"
      BY <1>5, <1>11
    <2> HIDE DEF q
    <2> QED
      BY <1>8, <2>1, <2>2
  <1> QED
    BY <1>9, <1>10, <1>11

LEMMA ReceiveCancelledKeeps ==
    ASSUME UploaderAssumption, UploaderInv, NEW u \in Uploads, ReceiveCancelled(u)
    PROVE  UploaderInv'
  <1> DEFINE r == [runner[u] EXCEPT !.state = Cancelled(runner[u].state), !.cancel = "no"]
             rs == [runner EXCEPT ![u] = r]
  <1>1. /\ runner[u].cancel = "calling" /\ toWorker' = toWorker /\ removing' = removing \ {u}
        /\ UNCHANGED <<page, pageOrder, waiter, alive>>
        /\ server' = [server EXCEPT ![u].live = FALSE] \/ server' = server
    BY DEF ReceiveCancelled, pageVars
  <1>2. /\ runner \in [Uploads -> RunnerType] /\ StepsAreKnown /\ server \in [Uploads -> ServerType]
        /\ order \in Seq(Uploads) /\ IsInjective(order) /\ trailing \subseteq ToSet(order)
        /\ removing \subseteq Uploads /\ ToSet(order) \subseteq Uploads
        /\ \A v \in Uploads : GoodRunner(runner[v], server[v])
    BY PartsOfInv DEF Typed
  <1>3. \A v \in Uploads :
          server'[v] \in ServerType /\ server'[v].asset = server[v].asset /\ server'[v].mode = server[v].mode
    <2> DEFINE sv == [server[u] EXCEPT !.live = FALSE]
    <2>1. sv \in ServerType /\ sv.asset = server[u].asset /\ sv.mode = server[u].mode
      BY <1>2 DEF ServerType
    <2>2. CASE server' = [server EXCEPT ![u].live = FALSE]
      <3>1. server'[u] = sv /\ \A v \in Uploads : v # u => server'[v] = server[v]
        BY <1>2, <2>2
      <3> HIDE DEF sv
      <3> QED
        BY <1>2, <2>1, <3>1
    <2>3. CASE server' = server
      BY <1>2, <2>3
    <2> QED
      BY <1>1, <2>2, <2>3
  <1>4. BacksMore /\ \A v \in Uploads : GoodRunner(runner[v], server'[v])
    <2>1. server' \in [Uploads -> ServerType]
      BY <1>1, <1>2, <1>3
    <2> QED
      BY <1>2, <1>3, <2>1, MoreIsSound DEF BacksMore
  <1>5. GoodState(runner[u].state) /\ runner[u].state.status \in {"cancelling", "cancelled"}
    BY <1>1, <1>2 DEF GoodRunner, Sound, GoodState, RunnerType
  <1>6. GoodState(Cancelled(runner[u].state)) /\ Cancelled(runner[u].state).status = "cancelled"
    BY <1>5, CancelledIsGood
  <1>7. r \in RunnerType /\ r.state = Cancelled(runner[u].state) /\ r.reply = "none" /\ r.cancel = "no"
    <2>1. runner[u].reply = "none"
      <3>1. ~isStep(runner[u].state.status)
        BY <1>5 DEF isStep, STEPS
      <3> QED
        BY <1>2, <3>1 DEF GoodRunner, Sound
    <2> QED
      BY <1>2, <1>6, <2>1 DEF RunnerType, GoodState
  <1> HIDE DEF r
  <1>8. GoodRunner(r, server'[u]) /\ ~isStep(r.state.status)
    BY <1>6, <1>7, QuietIsGood DEF isStep, STEPS
  <1>9. /\ rs \in [Uploads -> RunnerType] /\ rs[u] = r
        /\ \A v \in Uploads : v # u => rs[v] = runner[v]
        /\ \A v \in Uploads : GoodRunner(rs[v], server'[v])
    BY <1>2, <1>4, <1>7, <1>8
  <1>10. IF u \in removing THEN Publish(rs, Without(u), <<u>>, {}, <<Removed(u)>>)
         ELSE Publish(rs, order, <<u>>, {}, <<>>)
    BY <1>2 DEF ReceiveCancelled, r
  <1>11. runner[u] # newRunner
    BY <1>1 DEF newRunner
  <1>12. Takes /\ removing' \subseteq Uploads
    BY <1>1, <1>2 DEF Takes
  <1>13. \A i \in DOMAIN toWorker' :
           toWorker'[i].type = "add" /\ runner[toWorker'[i].id] = newRunner =>
             rs[toWorker'[i].id] = runner[toWorker'[i].id]
    BY <1>9, <1>11, <1>12, WaitingMessages, AddsAreOfUploads
  <1> HIDE DEF rs
  <1>14. CASE u \in removing
    <2> DEFINE queue == Without(u)
    <2>1. queue \in Seq(Uploads) /\ IsInjective(queue) /\ ToSet(queue) = ToSet(order) \ {u}
      BY <1>2, WithoutIsTheRest
    <2> HIDE DEF queue
    <2>2. ChangesSoundly(rs, queue)
      BY <1>2, <1>8, <1>9, <2>1 DEF ChangesSoundly, StepsAreKnown, Status, Known
    <2>3. <<Removed(u)>> \in Seq(ToPage) /\ \A i \in DOMAIN <<Removed(u)>> :
            <<Removed(u)>>[i].arg = NoUpload /\ <<Removed(u)>>[i].id = u
      BY DEF Removed, ToPage
    <2>4. SaysWhatChanges(rs, queue, <<u>>, {}, <<Removed(u)>>)
      BY <1>2, <1>9, <2>1, <2>3, SinglePlace DEF SaysWhatChanges
    <2>5. Publish(rs, queue, <<u>>, {}, <<Removed(u)>>)
      BY <1>10, <1>14 DEF queue
    <2> QED
      BY <1>1, <1>4, <1>12, <1>13, <2>1, <2>2, <2>4, <2>5, PublishKeeps DEF pageVars
  <1>15. CASE u \notin removing
    <2>1. ChangesSoundly(rs, order)
      BY <1>2, <1>8, <1>9 DEF ChangesSoundly, StepsAreKnown, Status, Known
    <2>2. SaysWhatChanges(rs, order, <<u>>, {}, <<>>)
      BY <1>2, <1>9, SinglePlace DEF SaysWhatChanges
    <2>3. Publish(rs, order, <<u>>, {}, <<>>)
      BY <1>10, <1>15
    <2> QED
      BY <1>1, <1>4, <1>12, <1>13, <2>1, <2>2, <2>3, PublishKeeps DEF pageVars
  <1> QED
    BY <1>14, <1>15

-----------------------------------------------------------------------------
(* The page's calls, and what it is told. *)

LEMMA NewRunnerIsGood ==
    ASSUME UploaderAssumption, NEW sv
    PROVE  GoodRunner(newRunner, sv) /\ newRunner.state.status = "queued" /\ GoodState(initialState)
  <1>1. initialState \in UploadMachineState
    BY DEF initialState, Rest, noContext, UploadMachineState, UploadContext, UploadStatus, UploadMode,
           UploadError, Resting, STEPS
  <1>2. initialState.status = "queued" /\ initialState.next = "hashing"
    BY DEF initialState, Rest
  <1>3. GoodState(initialState)
    BY <1>1, <1>2 DEF GoodState, Coherent, Ready, isStep, Resting, STEPS
  <1>4. newRunner \in RunnerType
    <2>1. 0 \in 0..MaxLost /\ 0 \in 0..(Slices - 1)
      BY DEF UploaderAssumption
    <2> QED
      BY <1>1, <2>1 DEF newRunner, RunnerType, RunnerReply
  <1>5. newRunner.state = initialState /\ newRunner.reply = "none" /\ newRunner.cancel = "no"
    BY DEF newRunner
  <1> QED
    BY <1>2, <1>3, <1>4, <1>5, QuietIsGood

LEMMA UploadKeeps ==
    ASSUME UploaderAssumption, UploaderInv, NEW u \in Uploads, Upload(u)
    PROVE  UploaderInv'
  <1> DEFINE m == Message("add", u, 0)
             s == Snapshot(initialState)
  <1>1. /\ alive /\ ~Shown(u) /\ ~Known(u) /\ runner[u] = newRunner /\ m \notin ToSet(toWorker)
        /\ page' = [page EXCEPT ![u] = s] /\ pageOrder' = Append(pageOrder, u)
        /\ toWorker' = Append(toWorker, m)
        /\ UNCHANGED <<waiter, fromWorker, runner, order, trailing, removing, server, alive>>
    BY DEF Upload, hostVars
  <1>2. Typed /\ AddsAreNew /\ DoneIsBacked /\ NoHangingWaiter /\ PageComesToShow
        /\ ToSet(order) \subseteq Uploads
    BY PartsOfInv
  <1>3. s \in SnapshotType /\ s.status = "queued" /\ s # NoUpload
    BY NewRunnerIsGood, SnapshotIsTyped DEF initialState, Rest, NoUpload
  <1>4. m \in ToHost /\ m.type = "add" /\ m.id = u
    BY DEF ToHost, Message
  <1>5. toWorker \in Seq(ToHost) /\ pageOrder \in Seq(Uploads) /\ IsInjective(pageOrder)
        /\ u \notin ToSet(pageOrder) /\ page \in [Uploads -> SnapshotType \cup {NoUpload}]
    BY <1>1, <1>2 DEF Typed
  <1>6. \A i \in DOMAIN toWorker : toWorker[i].type = "add" => toWorker[i].id # u
    <2> SUFFICES ASSUME NEW i \in DOMAIN toWorker, toWorker[i].type = "add", toWorker[i].id = u
                 PROVE  FALSE
      OBVIOUS
    <2>1. toWorker[i] \in ToHost
      BY <1>5
    <2>2. toWorker[i] = [type |-> "add", id |-> u, arg |-> 0]
      BY <2>1 DEF ToHost
    <2>3. toWorker[i] \in ToSet(toWorker)
      BY DEF ToSet
    <2> QED
      BY <1>1, <2>2, <2>3 DEF Message
  <1> HIDE DEF m, s
  <1>7. pageOrder' \in Seq(Uploads) /\ IsInjective(pageOrder') /\ ToSet(pageOrder') = ToSet(pageOrder) \cup {u}
    BY <1>1, <1>5, ElementsOfAppended
  <1>8. /\ page' \in [Uploads -> SnapshotType \cup {NoUpload}] /\ page'[u] = s
        /\ \A v \in Uploads : v # u => page'[v] = page[v]
    BY <1>1, <1>3, <1>5
  <1>9. toWorker' \in Seq(ToHost)
    BY <1>1, <1>4, <1>5
  <1>10. Typed'
    <2>1. \A v \in Uploads : Shown(v)' <=> v \in ToSet(pageOrder')
      BY <1>2, <1>3, <1>7, <1>8 DEF Typed, Shown
    <2> QED
      BY <1>1, <1>2, <1>7, <1>8, <1>9, <2>1 DEF Typed
  <1>11. AddsAreNew'
    <2>1. \A i \in DOMAIN toWorker' : \/ i \in DOMAIN toWorker /\ toWorker'[i] = toWorker[i]
                                      \/ i = Len(toWorker) + 1 /\ toWorker'[i] = m
      BY <1>1, <1>4, <1>5
    <2>2. ASSUME NEW i \in DOMAIN toWorker', toWorker'[i].type = "add"
          PROVE  /\ toWorker'[i].id \notin ToSet(order') /\ runner'[toWorker'[i].id] = newRunner
                 /\ \A j \in DOMAIN toWorker' :
                      toWorker'[j].type = "add" /\ toWorker'[j].id = toWorker'[i].id => j = i
      <3>1. CASE i \in DOMAIN toWorker /\ toWorker'[i] = toWorker[i]
        BY <1>1, <1>2, <1>4, <1>6, <2>1, <2>2, <3>1 DEF AddsAreNew, Known
      <3>2. CASE i = Len(toWorker) + 1 /\ toWorker'[i] = m
        BY <1>1, <1>4, <1>6, <2>1, <3>2 DEF Known
      <3> QED
        BY <2>1, <3>1, <3>2
    <2> QED
      BY <2>2 DEF AddsAreNew, Known, newRunner
  <1>12. DoneIsBacked' /\ NoHangingWaiter'
    BY <1>1, <1>2, <1>3, <1>8 DEF DoneIsBacked, NoHangingWaiter, Shown
  <1>13. PageComesToShow'
    BY <1>1, <1>2, <1>8 DEF PageComesToShow, Known
  <1>14. RunnersAreSound' /\ StepsAreKnown' /\ ParallelLimit' /\ SlotsAreUsed'
    BY <1>1 DEF UploaderInv, RunnersAreSound, StepsAreKnown, ParallelLimit, SlotsAreUsed, Working, Status,
                Known
  <1> QED
    BY <1>10, <1>11, <1>12, <1>13, <1>14 DEF UploaderInv

\* A call posts its message, and the list may be put in another order.
LEMMA PostingKeeps ==
    ASSUME UploaderAssumption, UploaderInv, NEW m \in ToHost, m.type # "add",
           toWorker' = Append(toWorker, m),
           pageOrder' \in Seq(Uploads), IsInjective(pageOrder'), ToSet(pageOrder') = ToSet(pageOrder),
           UNCHANGED <<page, waiter, fromWorker, runner, order, trailing, removing, server, alive>>
    PROVE  UploaderInv'
  <1>1. Typed /\ AddsAreNew /\ DoneIsBacked /\ NoHangingWaiter /\ PageComesToShow /\ toWorker \in Seq(ToHost)
    BY PartsOfInv DEF Typed
  <1>2. /\ toWorker' \in Seq(ToHost)
        /\ \A i \in DOMAIN toWorker' : toWorker'[i].type = "add" =>
             i \in DOMAIN toWorker /\ toWorker'[i] = toWorker[i]
    BY <1>1
  <1>3. Typed'
    BY <1>1, <1>2 DEF Typed, Shown
  <1>4. AddsAreNew'
    <2>1. ASSUME NEW i \in DOMAIN toWorker', toWorker'[i].type = "add"
          PROVE  /\ toWorker'[i].id \notin ToSet(order') /\ runner'[toWorker'[i].id] = newRunner
                 /\ \A j \in DOMAIN toWorker' :
                      toWorker'[j].type = "add" /\ toWorker'[j].id = toWorker'[i].id => j = i
      BY <1>1, <1>2, <2>1 DEF AddsAreNew, Known
    <2> QED
      BY <2>1 DEF AddsAreNew, Known, newRunner
  <1>5. DoneIsBacked' /\ NoHangingWaiter' /\ PageComesToShow'
    BY <1>1 DEF DoneIsBacked, NoHangingWaiter, Shown, PageComesToShow
  <1>6. RunnersAreSound' /\ StepsAreKnown' /\ ParallelLimit' /\ SlotsAreUsed'
    BY DEF UploaderInv, RunnersAreSound, StepsAreKnown, ParallelLimit, SlotsAreUsed, Working, Status, Known
  <1> QED
    BY <1>3, <1>4, <1>5, <1>6 DEF UploaderInv

LEMMA PostKeeps ==
    ASSUME UploaderAssumption, UploaderInv, NEW u \in Uploads,
           NEW type \in {"pause", "resume", "cancel", "retry", "retry-token", "remove"}, Post(type, u)
    PROVE  UploaderInv'
  <1>1. Message(type, u, 0) \in ToHost /\ Message(type, u, 0).type # "add"
    BY DEF Message, ToHost
  <1>2. /\ toWorker' = Append(toWorker, Message(type, u, 0)) /\ pageOrder' = pageOrder
        /\ UNCHANGED <<page, waiter, fromWorker, runner, order, trailing, removing, server, alive>>
    BY DEF Post, pageVars, hostVars
  <1>3. pageOrder \in Seq(Uploads) /\ IsInjective(pageOrder)
    BY PartsOfInv DEF Typed
  <1> QED
    BY <1>1, <1>2, <1>3, PostingKeeps

LEMMA PostAllKeeps ==
    ASSUME UploaderAssumption, UploaderInv, NEW type \in {"pause-all", "resume-all", "cancel-all"}, PostAll(type)
    PROVE  UploaderInv'
  <1>1. Message(type, Everyone, 0) \in ToHost /\ Message(type, Everyone, 0).type # "add"
    BY DEF Message, ToHost
  <1>2. /\ toWorker' = Append(toWorker, Message(type, Everyone, 0)) /\ pageOrder' = pageOrder
        /\ UNCHANGED <<page, waiter, fromWorker, runner, order, trailing, removing, server, alive>>
    BY DEF PostAll, pageVars, hostVars
  <1>3. pageOrder \in Seq(Uploads) /\ IsInjective(pageOrder)
    BY PartsOfInv DEF Typed
  <1> QED
    BY <1>1, <1>2, <1>3, PostingKeeps

LEMMA ReorderPageKeeps ==
    ASSUME UploaderAssumption, UploaderInv, NEW u \in Uploads, NEW index \in Nat, ReorderPage(u, index)
    PROVE  UploaderInv'
  <1>1. Message("reorder", u, index) \in ToHost /\ Message("reorder", u, index).type # "add"
    BY DEF Message, ToHost
  <1>2. /\ toWorker' = Append(toWorker, Message("reorder", u, index))
        /\ Shown(u) /\ pageOrder' = Moved(pageOrder, u, index)
        /\ UNCHANGED <<page, waiter, fromWorker, runner, order, trailing, removing, server, alive>>
    BY DEF ReorderPage, hostVars
  <1>3. pageOrder \in Seq(Uploads) /\ IsInjective(pageOrder) /\ u \in ToSet(pageOrder)
    BY <1>2, PartsOfInv DEF Typed
  <1>4. /\ pageOrder' \in Seq(Uploads) /\ IsInjective(pageOrder')
        /\ ToSet(pageOrder') = ToSet(pageOrder)
    BY <1>2, <1>3, MovedKeepsElements
  <1> QED
    BY <1>1, <1>2, <1>4, PostingKeeps

LEMMA FinishedKeeps ==
    ASSUME UploaderAssumption, UploaderInv, NEW u \in Uploads, Finished(u)
    PROVE  UploaderInv'
  <1> DEFINE w == IF page[u].status = "done" THEN "resolved"
                  ELSE IF page[u].status \in {"unknown", "cancelled"} THEN "rejected" ELSE "waiting"
  <1>1. /\ alive /\ waiter' = [waiter EXCEPT ![u] = w]
        /\ UNCHANGED <<page, pageOrder, toWorker, fromWorker, runner, order, trailing, removing, server, alive>>
    BY DEF Finished, Spend, Happens, hostVars
  <1>2. Typed /\ DoneIsBacked /\ NoHangingWaiter
    BY PartsOfInv
  <1>3. /\ w \in {"waiting", "resolved", "rejected"}
        /\ w = "resolved" => page[u].status = "done"
        /\ w = "waiting" => page[u] # NoUpload /\ ~isTerminal(page[u].status)
    BY DEF isTerminal, NoUpload
  <1> HIDE DEF w
  <1>4. waiter' \in [Uploads -> {"none", "waiting", "resolved", "rejected"}] /\ waiter'[u] = w
        /\ \A v \in Uploads : v # u => waiter'[v] = waiter[v]
    BY <1>1, <1>2, <1>3 DEF Typed
  <1>5. Typed'
    BY <1>1, <1>2, <1>4 DEF Typed, Shown
  <1>6. DoneIsBacked' /\ NoHangingWaiter'
    BY <1>1, <1>2, <1>3, <1>4 DEF DoneIsBacked, NoHangingWaiter, Shown
  <1>7. /\ RunnersAreSound' /\ StepsAreKnown' /\ AddsAreNew' /\ PageComesToShow' /\ ParallelLimit'
        /\ SlotsAreUsed'
    BY <1>1 DEF UploaderInv, RunnersAreSound, StepsAreKnown, AddsAreNew, PageComesToShow, ParallelLimit,
                SlotsAreUsed, Working, Status, Known
  <1> QED
    BY <1>5, <1>6, <1>7 DEF UploaderInv

\* A worker that has nothing.
HasNothing ==
    runner = [u \in Uploads |-> newRunner] /\ order = <<>> /\ toWorker = <<>> /\ fromWorker = <<>>
SoundWithNothing ==
    /\ RunnersAreSound /\ StepsAreKnown /\ AddsAreNew /\ PageComesToShow /\ SlotsAreUsed
    /\ ParallelLimit /\ runner \in [Uploads -> RunnerType]
    /\ order \in Seq(Uploads) /\ IsInjective(order) /\ ToSet(order) = {}
    /\ toWorker \in Seq(ToHost) /\ fromWorker \in Seq(ToPage) /\ DOMAIN fromWorker = {}

LEMMA NothingIsSound == HasNothing => SoundWithNothing
  <1> SUFFICES ASSUME HasNothing PROVE SoundWithNothing
    OBVIOUS
  <1> USE UploaderAssumption
  <1>1. \A u \in Uploads : GoodRunner(runner[u], server[u]) /\ Status(u) = "queued"
    BY NewRunnerIsGood DEF Status, HasNothing
  <1>2. RunnersAreSound /\ runner \in [Uploads -> RunnerType]
    <2>1. \A u \in Uploads : runner[u] \in RunnerType /\ Sound(runner[u], server[u])
      BY <1>1 DEF GoodRunner
    <2>2. runner \in [Uploads -> RunnerType]
      BY <2>1 DEF HasNothing
    <2> QED
      BY <2>1, <2>2 DEF RunnersAreSound
  <1>3. {u \in Uploads : isStep(Status(u))} = {}
    BY <1>1 DEF isStep, STEPS
  <1>4. ParallelLimit
    <2>1. Cardinality({u \in Uploads : isStep(Status(u))}) = 0
      BY <1>3, FS_EmptySet
    <2>2. 0 <= MaxParallel
      BY DEF UploaderAssumption
    <2> QED
      BY <2>1, <2>2 DEF ParallelLimit
  <1>5. ToSet(order) = {} /\ IsInjective(order) /\ DOMAIN order = {}
        /\ order \in Seq(Uploads) /\ toWorker \in Seq(ToHost) /\ fromWorker \in Seq(ToPage)
        /\ DOMAIN toWorker = {} /\ DOMAIN fromWorker = {}
    BY DEF ToSet, IsInjective, HasNothing
  <1>6. StepsAreKnown /\ AddsAreNew
    BY <1>3, <1>5 DEF StepsAreKnown, AddsAreNew
  <1>7. PageComesToShow /\ SlotsAreUsed
    BY <1>5 DEF PageComesToShow, SlotsAreUsed
  <1> QED
    BY <1>2, <1>4, <1>5, <1>6, <1>7 DEF SoundWithNothing

LEMMA DestroyKeeps ==
    ASSUME UploaderAssumption, UploaderInv, Destroy
    PROVE  UploaderInv'
  <1>1. /\ waiter' = [u \in Uploads |-> IF waiter[u] = "waiting" THEN "rejected" ELSE waiter[u]]
        /\ runner' = [u \in Uploads |-> newRunner] /\ order' = <<>> /\ toWorker' = <<>>
        /\ fromWorker' = <<>> /\ trailing' = {} /\ removing' = {} /\ alive' = FALSE
        /\ UNCHANGED <<page, pageOrder, server>>
    BY DEF Destroy
  <1>2. SoundWithNothing'
    <2>1. HasNothing'
      BY <1>1 DEF HasNothing
    <2> QED
      BY <2>1, NothingIsSound, PTL
  <1>3. Typed /\ DoneIsBacked
    BY PartsOfInv
  <1>4. waiter' \in [Uploads -> {"none", "waiting", "resolved", "rejected"}]
        /\ \A u \in Uploads : waiter'[u] # "waiting" /\ (waiter'[u] = "resolved" => waiter[u] = "resolved")
    BY <1>1, <1>3 DEF Typed
  <1>5. Typed'
    BY <1>1, <1>2, <1>3, <1>4 DEF Typed, Shown, SoundWithNothing
  <1>6. DoneIsBacked' /\ NoHangingWaiter'
    BY <1>1, <1>2, <1>3, <1>4 DEF DoneIsBacked, NoHangingWaiter, SoundWithNothing
  <1> QED
    BY <1>2, <1>5, <1>6 DEF UploaderInv, SoundWithNothing

\* What the page reads is true of the upload, and its place in the list is kept.
LEMMA MessageRead ==
    ASSUME UploaderInv, fromWorker # <<>>, fromWorker' = Tail(fromWorker), server' = server
    PROVE  /\ Head(fromWorker) \in ToPage /\ fromWorker' \in Seq(ToPage)
           /\ \A i \in DOMAIN fromWorker' :
                fromWorker'[i].arg.status = "done" => server'[fromWorker'[i].id].asset
           /\ Head(fromWorker).arg.status = "done" => server[Head(fromWorker).id].asset
           /\ \A v, s, p : Tells(fromWorker, v, s, p) =>
                Tells(fromWorker', v, s, IF Head(fromWorker).id = v THEN Head(fromWorker).arg ELSE p)
  <1>1. /\ fromWorker \in Seq(ToPage)
        /\ \A i \in DOMAIN fromWorker : fromWorker[i].arg.status = "done" => server[fromWorker[i].id].asset
    BY PartsOfInv DEF Typed, DoneIsBacked
  <1>2. /\ Head(fromWorker) \in ToPage /\ Tail(fromWorker) \in Seq(ToPage)
        /\ 1 \in DOMAIN fromWorker /\ Head(fromWorker) = fromWorker[1]
        /\ \A i \in DOMAIN Tail(fromWorker) :
             i + 1 \in DOMAIN fromWorker /\ Tail(fromWorker)[i] = fromWorker[i + 1]
    BY <1>1, ElementsOfTail
  <1>3. ASSUME NEW v, NEW s, NEW p, Tells(fromWorker, v, s, p)
        PROVE  Tells(Tail(fromWorker), v, s, IF Head(fromWorker).id = v THEN Head(fromWorker).arg ELSE p)
    BY <1>1, <1>3, ReadingTells
  <1> QED
    BY <1>1, <1>2, <1>3

LEMMA ReceiveSnapshotKeeps ==
    ASSUME UploaderAssumption, UploaderInv, ReceiveSnapshot
    PROVE  UploaderInv'
  <1> DEFINE m == Head(fromWorker)
             u == m.id
             snapshot == m.arg
  <1>1. /\ fromWorker # <<>> /\ m.type = "snapshot" /\ fromWorker' = Tail(fromWorker)
        /\ page' = [page EXCEPT ![u] = snapshot]
        /\ pageOrder' = IF Shown(u) THEN pageOrder ELSE Append(pageOrder, u)
        /\ waiter' = IF isTerminal(snapshot.status) THEN Settled(u, snapshot) ELSE waiter
        /\ UNCHANGED <<toWorker, runner, order, trailing, removing, server, alive>>
    BY DEF ReceiveSnapshot, hostVars
  <1>2. /\ m \in ToPage /\ fromWorker' \in Seq(ToPage)
        /\ \A i \in DOMAIN fromWorker' :
             fromWorker'[i].arg.status = "done" => server'[fromWorker'[i].id].asset
        /\ snapshot.status = "done" => server[u].asset
        /\ \A v, s, p : Tells(fromWorker, v, s, p) => Tells(fromWorker', v, s, IF u = v THEN snapshot ELSE p)
    BY <1>1, MessageRead
  <1>3. u \in Uploads /\ snapshot \in SnapshotType
    BY <1>1, <1>2 DEF ToPage
  <1>4. snapshot # NoUpload
    BY <1>3 DEF SnapshotType, NoUpload
  <1>5. Typed /\ DoneIsBacked /\ NoHangingWaiter /\ PageComesToShow /\ ToSet(order) \subseteq Uploads
    BY PartsOfInv
  <1> HIDE DEF m, u, snapshot
  <1>6. /\ page' \in [Uploads -> SnapshotType \cup {NoUpload}] /\ page'[u] = snapshot
        /\ \A v \in Uploads : v # u => page'[v] = page[v]
    BY <1>1, <1>3, <1>5 DEF Typed
  <1>7. /\ pageOrder' \in Seq(Uploads) /\ IsInjective(pageOrder')
        /\ ToSet(pageOrder') = ToSet(pageOrder) \cup {u}
    <2>1. CASE Shown(u)
      BY <1>1, <1>3, <1>5, <2>1 DEF Typed
    <2>2. CASE ~Shown(u)
      BY <1>1, <1>3, <1>5, <2>2, ElementsOfAppended DEF Typed
    <2> QED
      BY <2>1, <2>2
  <1>8. /\ waiter' \in [Uploads -> {"none", "waiting", "resolved", "rejected"}]
        /\ \A v \in Uploads : v # u => waiter'[v] = waiter[v]
        /\ waiter'[u] = "waiting" => waiter[u] = "waiting" /\ ~isTerminal(snapshot.status)
        /\ waiter'[u] = "resolved" => waiter[u] = "resolved" \/ snapshot.status = "done"
    BY <1>1, <1>3, <1>5 DEF Typed, Settled
  <1>9. Typed'
    <2>1. \A v \in Uploads : Shown(v)' <=> v \in ToSet(pageOrder')
      BY <1>3, <1>4, <1>5, <1>6, <1>7 DEF Typed, Shown
    <2> QED
      BY <1>1, <1>2, <1>5, <1>6, <1>7, <1>8, <2>1 DEF Typed
  <1>10. DoneIsBacked'
    <2>1. \A v \in Uploads : page'[v].status = "done" \/ waiter'[v] = "resolved" => server'[v].asset
      BY <1>1, <1>2, <1>5, <1>6, <1>8 DEF DoneIsBacked
    <2> QED
      BY <1>2, <2>1 DEF DoneIsBacked
  <1>11. NoHangingWaiter'
    BY <1>1, <1>4, <1>5, <1>6, <1>8 DEF NoHangingWaiter, Shown
  <1>12. PageComesToShow'
    <2>1. ASSUME NEW v \in ToSet(order) \ trailing
          PROVE  Tells(fromWorker', v, Snapshot(runner[v].state), page'[v])
      <3>1. Tells(fromWorker, v, Snapshot(runner[v].state), page[v]) /\ v \in Uploads
        BY <1>5 DEF PageComesToShow
      <3>2. page'[v] = IF u = v THEN snapshot ELSE page[v]
        BY <1>6, <3>1
      <3> QED
        BY <1>2, <3>1, <3>2
    <2> QED
      BY <1>1, <2>1 DEF PageComesToShow
  <1>13. RunnersAreSound' /\ StepsAreKnown' /\ AddsAreNew' /\ ParallelLimit' /\ SlotsAreUsed'
    BY <1>1 DEF UploaderInv, RunnersAreSound, StepsAreKnown, AddsAreNew, ParallelLimit, SlotsAreUsed,
                Working, Status, Known
  <1> QED
    BY <1>9, <1>10, <1>11, <1>12, <1>13 DEF UploaderInv

LEMMA ReceiveRemovedKeeps ==
    ASSUME UploaderAssumption, UploaderInv, ReceiveRemoved
    PROVE  UploaderInv'
  <1> DEFINE m == Head(fromWorker)
             u == m.id
  <1>1. /\ fromWorker # <<>> /\ m.type = "removed" /\ fromWorker' = Tail(fromWorker)
        /\ page' = [page EXCEPT ![u] = NoUpload]
        /\ pageOrder' = Those(pageOrder, Uploads \ {u})
        /\ waiter' = Settled(u, NoUpload)
        /\ UNCHANGED <<toWorker, runner, order, trailing, removing, server, alive>>
    BY DEF ReceiveRemoved, hostVars
  <1>2. /\ m \in ToPage /\ fromWorker' \in Seq(ToPage)
        /\ \A i \in DOMAIN fromWorker' :
             fromWorker'[i].arg.status = "done" => server'[fromWorker'[i].id].asset
        /\ \A v, s, p : Tells(fromWorker, v, s, p) => Tells(fromWorker', v, s, IF u = v THEN m.arg ELSE p)
    BY <1>1, MessageRead
  <1>3. u \in Uploads /\ m.arg = NoUpload
    BY <1>1, <1>2 DEF ToPage
  <1>4. Typed /\ DoneIsBacked /\ NoHangingWaiter /\ PageComesToShow /\ ToSet(order) \subseteq Uploads
    BY PartsOfInv
  <1> HIDE DEF m, u
  <1>5. /\ page' \in [Uploads -> SnapshotType \cup {NoUpload}] /\ page'[u] = NoUpload
        /\ \A v \in Uploads : v # u => page'[v] = page[v]
    BY <1>1, <1>3, <1>4 DEF Typed
  <1>6. /\ pageOrder' \in Seq(Uploads) /\ IsInjective(pageOrder')
        /\ ToSet(pageOrder') = ToSet(pageOrder) \ {u}
    <2>1. pageOrder \in Seq(Uploads) /\ IsInjective(pageOrder) /\ ToSet(pageOrder) \subseteq Uploads
      BY <1>4, PlacesAreElements DEF Typed
    <2>2. /\ pageOrder' \in Seq(Uploads \cap (Uploads \ {u})) /\ IsInjective(pageOrder')
          /\ ToSet(pageOrder') = ToSet(pageOrder) \cap (Uploads \ {u})
      BY <1>1, <2>1, ThoseAreTheOnes
    <2>3. Uploads \cap (Uploads \ {u}) \subseteq Uploads
      OBVIOUS
    <2>4. pageOrder' \in Seq(Uploads)
      BY <2>2, <2>3, SeqMonotonic
    <2> QED
      BY <2>1, <2>2, <2>4
  <1>7. /\ waiter' \in [Uploads -> {"none", "waiting", "resolved", "rejected"}]
        /\ \A v \in Uploads : v # u => waiter'[v] = waiter[v]
        /\ waiter'[u] # "waiting" /\ (waiter'[u] = "resolved" => waiter[u] = "resolved")
    BY <1>1, <1>3, <1>4 DEF Typed, Settled, NoUpload
  <1>8. Typed'
    <2>1. \A v \in Uploads : Shown(v)' <=> v \in ToSet(pageOrder')
      BY <1>3, <1>4, <1>5, <1>6 DEF Typed, Shown
    <2> QED
      BY <1>1, <1>2, <1>4, <1>5, <1>6, <1>7, <2>1 DEF Typed
  <1>9. DoneIsBacked'
    <2>1. \A v \in Uploads : page'[v].status = "done" \/ waiter'[v] = "resolved" => server'[v].asset
      BY <1>1, <1>4, <1>5, <1>7 DEF DoneIsBacked, NoUpload
    <2> QED
      BY <1>2, <2>1 DEF DoneIsBacked
  <1>10. NoHangingWaiter'
    BY <1>1, <1>4, <1>5, <1>7 DEF NoHangingWaiter, Shown
  <1>11. PageComesToShow'
    <2>1. ASSUME NEW v \in ToSet(order) \ trailing
          PROVE  Tells(fromWorker', v, Snapshot(runner[v].state), page'[v])
      <3>1. Tells(fromWorker, v, Snapshot(runner[v].state), page[v]) /\ v \in Uploads
        BY <1>4 DEF PageComesToShow
      <3>2. page'[v] = IF u = v THEN m.arg ELSE page[v]
        BY <1>3, <1>5, <3>1
      <3> QED
        BY <1>2, <3>1, <3>2
    <2> QED
      BY <1>1, <2>1 DEF PageComesToShow
  <1>12. RunnersAreSound' /\ StepsAreKnown' /\ AddsAreNew' /\ ParallelLimit' /\ SlotsAreUsed'
    BY <1>1 DEF UploaderInv, RunnersAreSound, StepsAreKnown, AddsAreNew, ParallelLimit, SlotsAreUsed,
                Working, Status, Known
  <1> QED
    BY <1>8, <1>9, <1>10, <1>11, <1>12 DEF UploaderInv

-----------------------------------------------------------------------------
(* The theorems. *)

LEMMA UploaderInvInit == Init => UploaderInv
  <1> SUFFICES ASSUME Init PROVE UploaderInv
    OBVIOUS
  <1>1. SoundWithNothing
    BY NothingIsSound DEF Init, HasNothing
  <1>2. Typed
    <2>1. server \in [Uploads -> ServerType]
      BY DEF Init, ServerType, UploadMode
    <2>2. /\ page \in [Uploads -> SnapshotType \cup {NoUpload}]
          /\ waiter \in [Uploads -> {"none", "waiting", "resolved", "rejected"}]
      BY DEF Init
    <2>3. pageOrder \in Seq(Uploads) /\ IsInjective(pageOrder) /\ ToSet(pageOrder) = {}
      BY DEF Init, IsInjective, ToSet
    <2>4. \A u \in Uploads : ~Shown(u)
      BY DEF Init, Shown
    <2>5. trailing = {} /\ removing = {} /\ alive \in BOOLEAN
      BY DEF Init
    <2> QED
      BY <1>1, <2>1, <2>2, <2>3, <2>4, <2>5 DEF Typed, SoundWithNothing
  <1>3. DoneIsBacked
    BY <1>1 DEF Init, DoneIsBacked, NoUpload, SoundWithNothing
  <1>4. NoHangingWaiter
    BY DEF Init, NoHangingWaiter
  <1> QED
    BY <1>1, <1>2, <1>3, <1>4 DEF UploaderInv, SoundWithNothing

LEMMA UploaderInvNext == UploaderInv /\ [Next]_vars => UploaderInv'
  <1> SUFFICES ASSUME UploaderInv, [Next]_vars PROVE UploaderInv'
    OBVIOUS
  <1> USE UploaderAssumption
  <1>1. CASE PageCall
    <2>1. \A index \in 0..(Cardinality(Uploads) - 1) : index \in Nat
      OBVIOUS
    <2>2. CASE \E u \in Uploads : Upload(u) \/ Finished(u)
      BY <2>2, UploadKeeps, FinishedKeeps
    <2>3. CASE \E u \in Uploads : \E type \in {"pause", "resume", "cancel", "retry", "retry-token", "remove"} :
                 Post(type, u)
      BY <2>3, PostKeeps
    <2>4. CASE \E u \in Uploads : \E index \in 0..(Cardinality(Uploads) - 1) : ReorderPage(u, index)
      BY <2>1, <2>4, ReorderPageKeeps
    <2>5. CASE \E type \in {"pause-all", "resume-all", "cancel-all"} : PostAll(type)
      BY <2>5, PostAllKeeps
    <2>6. CASE Destroy
      BY <2>6, DestroyKeeps
    <2> QED
      BY <1>1, <2>2, <2>3, <2>4, <2>5, <2>6 DEF PageCall
  <1>2. CASE PageReceive
    BY <1>2, ReceiveSnapshotKeeps, ReceiveRemovedKeeps DEF PageReceive
  <1>3. CASE HostReceive
    BY <1>3, ReceiveAddKeeps, ReceivePauseKeeps, ReceiveResumeKeeps, ReceiveRetryKeeps, ReceiveCancelKeeps,
       ReceiveRemoveKeeps, ReceiveReorderKeeps DEF HostReceive
  <1>4. ASSUME NEW u \in Uploads, RunnerStep(u)
        PROVE  UploaderInv'
    BY <1>4, TrailingTimerKeeps, HashSliceKeeps, UnwindKeeps, ReceiveInitKeeps, ReceiveStatusKeeps,
       ReceiveChunkKeeps, ReceiveAssetKeeps, ReceiveIncompleteKeeps, ReceiveErrorKeeps, CancelUnwoundKeeps,
       ReceiveCancelledKeeps DEF RunnerStep
  <1>5. ASSUME NEW u \in Uploads, ServerStep(u)
        PROVE  UploaderInv'
    BY <1>5, ServeInitKeeps, ServeStatusKeeps, ServeChunkKeeps, ServeAssetKeeps DEF ServerStep
  <1>6. ASSUME NEW u \in Uploads, FaultStep(u)
        PROVE  UploaderInv'
    BY <1>6, LoseAnswerKeeps, RefuseKeeps, ExpireKeeps DEF FaultStep
  <1>7. CASE UNCHANGED vars
    BY <1>7 DEF vars, UploaderInv, Typed, RunnersAreSound, StepsAreKnown, AddsAreNew, DoneIsBacked,
                NoHangingWaiter, PageComesToShow, SlotsAreUsed, ParallelLimit, Working, Status, Known, Shown
  <1> QED
    BY <1>1, <1>2, <1>3, <1>4, <1>5, <1>6, <1>7 DEF Next, Work

LEMMA UploaderInvAgrees == UploaderInv => UploadsAgree /\ NoIdleSlot /\ Mirror
  <1> SUFFICES ASSUME UploaderInv PROVE UploadsAgree /\ NoIdleSlot /\ Mirror
    OBVIOUS
  <1>1. /\ Typed /\ DoneIsBacked /\ NoHangingWaiter /\ PageComesToShow /\ SlotsAreUsed /\ ParallelLimit
        /\ ToSet(order) \subseteq Uploads
        /\ \A u \in Uploads : Sound(runner[u], server[u])
    BY PartsOfInv DEF RunnersAreSound
  <1>2. TypeOK
    BY <1>1 DEF Typed, TypeOK
  <1>3. StepHasItsContext
    BY <1>1 DEF Sound, StepHasItsContext
  <1>4. DoneIsStored
    BY <1>1 DEF DoneIsBacked, Sound, Status, DoneIsStored
  <1>5. NoIdleSlot
    BY <1>1 DEF SlotsAreUsed, NoIdleSlot, Sound, Status
  <1>6. Mirror
    <2> SUFFICES ASSUME Quiet, trailing = {}, NEW u \in ToSet(order)
                 PROVE  page[u] = Snapshot(runner[u].state)
      BY DEF Mirror
    <2>1. Tells(<<>>, u, Snapshot(runner[u].state), page[u])
      BY <1>1 DEF PageComesToShow, Quiet
    <2> QED
      BY <2>1 DEF Tells
  <1> QED
    BY <1>1, <1>2, <1>3, <1>4, <1>5, <1>6 DEF UploadsAgree

\* Whatever the page calls, the server answers, the network loses and the timers do, the worker, its
\* channels and the page stand as UploaderInv says.
THEOREM UploaderIsSound == Spec => []UploaderInv
  BY UploaderInvInit, UploaderInvNext, PTL DEF Spec

\* A step that runs has what it needs, no more uploads are in a step than maxParallelUploads, a
\* promise of finished() that waits can still be settled, and what is told to be done is stored: for
\* every number of uploads and in every interleaving of calls, retries, lost answers and expiries.
THEOREM UploadsStayInAgreement == Spec => []UploadsAgree
  BY UploaderIsSound, UploaderInvAgrees, PTL

\* The pump of UploadHost.changed leaves no queued upload beside a free slot, except while the cancel
\* of an upload that was removed is still to end and to pump.
THEOREM SlotsAreNeverIdle == Spec => []NoIdleSlot
  BY UploaderIsSound, UploaderInvAgrees, PTL

\* With the channels empty and no snapshot held back, the page shows every upload of the worker just
\* as it is: throttling, trailing timers, removals and reorderings lose no last word.
THEOREM PageMirrorsWorker == Spec => []Mirror
  BY UploaderIsSound, UploaderInvAgrees, PTL
=============================================================================
