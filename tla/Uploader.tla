------------------------------ MODULE Uploader ------------------------------
(***************************************************************************)
(* The uploader of packages/frontend/uploader: the page's Uploader, the    *)
(* worker's UploadHost with one UploadRunner per upload, the two channels  *)
(* between page and worker, and what the runners use of storage_service.   *)
(*                                                                         *)
(* A step of the worker is one task of its event loop: a message, an       *)
(* answer of the server, a timer or a slice that was read, with the        *)
(* microtasks it leaves, so the pump of UploadHost.changed is part of the  *)
(* step that asked for it.  A request is made when its step begins; the    *)
(* server's handling and the answer's arrival are steps of their own, and  *)
(* a pause or a cancel may come between.  An answer that is lost makes     *)
(* withRetry repeat the request; where retries end, the request fails.     *)
(*                                                                         *)
(* Bytes are chunks and slices.  Access tokens, wall-clock time, the       *)
(* partial progress of a request and the file itself are left out; that    *)
(* the file changed shows as the error it leads to.                        *)
(***************************************************************************)
EXTENDS UploadMachine, Selections, Sequences, FiniteSets, SequencesExt

CONSTANTS
    Uploads,        \* ids of uploads
    ModeOf,         \* how storage takes a file it does not have: whole or in chunks
    Chunks,         \* the chunks of a file: an interval of numbers
    Slices,         \* slices of a file that are hashed one by one
    MaxParallel,    \* maxParallelUploads
    MaxConcurrent,  \* chunk requests of one upload at a time, as the server dictates
    MaxLost,        \* MAX_LOST_TRANSACTIONS, 2 in the code
    Commands,       \* the calls of the page that a run makes: a subset of AllCommands
    MaxEvents,      \* bound: calls of the page, uploads aside, and faults of the network, the server
                    \* and the file in a run
    MaxTransit      \* bound: the worker runs on while fewer messages are on their way to the page

AllCommands == {"pause", "resume", "cancel", "retry", "retry-token", "remove", "reorder",
                "pause-all", "resume-all", "cancel-all", "finished", "destroy"}
NoUpload == [status |-> "unknown"]

ASSUME UploaderAssumption ==
    /\ ModeOf \in [Uploads -> {"whole-file", "chunked"}]
    /\ Chunks \subseteq Nat /\ Chunks # {} /\ IsFiniteSet(Chunks)
    /\ Slices \in Nat \ {0}
    /\ MaxParallel \in Nat \ {0} /\ MaxConcurrent \in Nat \ {0}
    /\ MaxLost \in Nat /\ MaxEvents \in Nat /\ MaxTransit \in Nat \ {0}
    /\ Commands \subseteq AllCommands

VARIABLES
    page,       \* the page's snapshot of each upload, NoUpload when it shows none
    pageOrder,  \* the page's list
    waiter,     \* the promise of finished(), for each upload
    toWorker,   \* messages posted to the worker
    fromWorker, \* messages posted to the page
    runner,     \* each upload's UploadRunner, also after the host forgot it
    order,      \* the uploads the host knows, in queue order
    lastSent,   \* the status each upload last sent
    trailing,   \* uploads with a timer for a progress snapshot
    removing,   \* uploads whose remove waits for their cancel
    server,     \* what storage and main_service have of each upload
    alive,      \* the worker has not been terminated
    events      \* how many calls and faults there were

pageVars == <<page, pageOrder, waiter>>
hostVars == <<runner, order, lastSent, trailing, removing>>
vars == <<page, pageOrder, waiter, toWorker, fromWorker, runner, order, lastSent, trailing,
          removing, server, alive, events>>

Known(u) == u \in ToSet(order)
Shown(u) == page[u] # NoUpload
Status(u) == runner[u].state.status

Snapshot(s) ==
    [status |-> s.status,
     step |-> IF s.status \in Resting THEN s.next ELSE s.status,
     hashed |-> s.ctx.hashed,
     uploaded |-> IF s.status = "done" THEN Cardinality(Chunks) ELSE s.ctx.uploaded]

newRunner ==
    [state |-> initialState, unwinding |-> "no", reply |-> "none", asked |-> FALSE, left |-> {},
     fresh |-> FALSE, lost |-> 0, offset |-> 0, cancel |-> "no"]

Init ==
    /\ page = [u \in Uploads |-> NoUpload] /\ pageOrder = <<>>
    /\ waiter = [u \in Uploads |-> "none"]
    /\ toWorker = <<>> /\ fromWorker = <<>>
    /\ runner = [u \in Uploads |-> newRunner]
    /\ order = <<>>
    /\ lastSent = [u \in Uploads |-> "none"] /\ trailing = {} /\ removing = {}
    /\ server = [u \in Uploads |-> [live |-> FALSE, mode |-> "none", got |-> {}, blob |-> FALSE,
                                    asset |-> FALSE, token |-> TRUE]]
    /\ alive = TRUE
    /\ events = 0

-----------------------------------------------------------------------------
(* The page. *)

Message(type, id, arg) == [type |-> type, id |-> id, arg |-> arg]
Everyone == "everyone"

Settled(u, snapshot) ==
    IF waiter[u] # "waiting" THEN waiter
    ELSE [waiter EXCEPT ![u] = IF snapshot.status = "done" THEN "resolved" ELSE "rejected"]

\* upload(): shown right away; the worker's first snapshot replaces it.
Upload(u) ==
    /\ alive /\ ~Shown(u) /\ ~Known(u) /\ runner[u] = newRunner
    /\ Message("add", u, 0) \notin ToSet(toWorker)
    /\ page' = [page EXCEPT ![u] = Snapshot(initialState)]
    /\ pageOrder' = Append(pageOrder, u)
    /\ toWorker' = Append(toWorker, Message("add", u, 0))
    /\ UNCHANGED <<waiter, fromWorker, hostVars, server, alive, events>>

Happens == alive /\ events < MaxEvents /\ events' = events + 1
Spend(command) == command \in Commands /\ Happens

\* pause(), resume(), cancel(), retry() and remove() of a shown upload: posted as they are.
Post(type, u) ==
    /\ Spend(type) /\ Shown(u)
    /\ toWorker' = Append(toWorker, Message(type, u, 0))
    /\ UNCHANGED <<pageVars, fromWorker, hostVars, server, alive>>

PostAll(type) ==
    /\ Spend(type)
    /\ toWorker' = Append(toWorker, Message(type, Everyone, 0))
    /\ UNCHANGED <<pageVars, fromWorker, hostVars, server, alive>>

\* Out of the list, and back at index: counted from 0 without the upload, and cut to the list.
Moved(list, u, index) ==
    LET rest == Those(list, Uploads \ {u})
    IN  InsertAt(rest, (IF index > Len(rest) THEN Len(rest) ELSE index) + 1, u)

ReorderPage(u, index) ==
    /\ Spend("reorder") /\ Shown(u)
    /\ pageOrder' = Moved(pageOrder, u, index)
    /\ toWorker' = Append(toWorker, Message("reorder", u, index))
    /\ UNCHANGED <<page, waiter, fromWorker, hostVars, server, alive>>

Finished(u) ==
    /\ Spend("finished") /\ waiter[u] = "none"
    /\ waiter' = [waiter EXCEPT ![u] = IF page[u].status = "done" THEN "resolved"
                                       ELSE IF page[u].status \in {"unknown", "cancelled"} THEN "rejected"
                                       ELSE "waiting"]
    /\ UNCHANGED <<page, pageOrder, toWorker, fromWorker, hostVars, server, alive>>

\* destroy(): the worker is terminated, and with it everything of the host.
Destroy ==
    /\ Spend("destroy")
    /\ alive' = FALSE
    /\ waiter' = [u \in Uploads |-> IF waiter[u] = "waiting" THEN "rejected" ELSE waiter[u]]
    /\ toWorker' = <<>> /\ fromWorker' = <<>>
    /\ runner' = [u \in Uploads |-> newRunner] /\ order' = <<>>
    /\ lastSent' = [u \in Uploads |-> "none"] /\ trailing' = {} /\ removing' = {}
    /\ UNCHANGED <<page, pageOrder, server>>

ReceiveSnapshot ==
    /\ fromWorker # <<>> /\ Head(fromWorker).type = "snapshot"
    /\ LET u == Head(fromWorker).id
           snapshot == Head(fromWorker).arg
       IN  /\ page' = [page EXCEPT ![u] = snapshot]
           /\ pageOrder' = IF Shown(u) THEN pageOrder ELSE Append(pageOrder, u)
           /\ waiter' = IF isTerminal(snapshot.status) THEN Settled(u, snapshot) ELSE waiter
    /\ fromWorker' = Tail(fromWorker)
    /\ UNCHANGED <<toWorker, hostVars, server, alive, events>>

ReceiveRemoved ==
    /\ fromWorker # <<>> /\ Head(fromWorker).type = "removed"
    /\ LET u == Head(fromWorker).id
       IN  /\ page' = [page EXCEPT ![u] = NoUpload]
           /\ pageOrder' = Those(pageOrder, Uploads \ {u})
           /\ waiter' = Settled(u, NoUpload)
    /\ fromWorker' = Tail(fromWorker)
    /\ UNCHANGED <<toWorker, hostVars, server, alive, events>>

-----------------------------------------------------------------------------
(* What a step of a runner leaves behind. *)

Chunked(s) == s.ctx.mode = "chunked"

\* drive: the step of the state begins.  The chunks of a fresh transaction are all missing; of
\* another the server is asked.
Enter(r) ==
    LET all == r.fresh /\ r.state.status = "uploading" /\ Chunked(r.state)
    IN  [r EXCEPT !.reply = "none", !.asked = all, !.left = IF all THEN Chunks ELSE {},
                  !.fresh = r.fresh /\ ~all]

\* The step is over, or its controller aborted: nothing of it is waited for.
Leave(r) == [r EXCEPT !.reply = "none", !.asked = FALSE, !.left = {}]

Advance(r, s) ==
    IF isStep(s.status) THEN Enter([r EXCEPT !.state = s]) ELSE Leave([r EXCEPT !.state = s])

\* controller.abort(): the step unwinds, at once or when what it waits for answers.
Abort(r, s) ==
    [Leave(r) EXCEPT
        !.state = s,
        !.unwinding = IF r.unwinding # "no" \/ ~isStep(r.state.status) THEN r.unwinding
                      ELSE IF r.state.status = "hashing" THEN "hashing" ELSE "call"]

\* start(): the new drive waits for the one that unwinds.
Begin(r) ==
    LET s == [r EXCEPT !.state = Start(r.state)]
    IN  IF r.unwinding = "no" THEN Enter(s) ELSE s

\* Mutant: an upload keeps its slot while it is paused.
IsWorkingOrPaused(r) == isStep(r.state.status) \/ r.state.status \in {"paused", "cancelling"}

IsWorking(r) == isStep(r.state.status) \/ r.state.status = "cancelling"

\* pump: the queued uploads that are started, front to back, while slots are free.
Started(rs, queue) ==
    LET working == Cardinality({u \in ToSet(queue) : IsWorking(rs[u])})
        free == MaxParallel - working
        queued == Those(queue, {u \in Uploads : rs[u].state.status = "queued"})
    IN  IF working >= MaxParallel THEN <<>>
        ELSE SubSeq(queued, 1, IF free > Len(queued) THEN Len(queued) ELSE free)

Snapshots(rs, us) ==
    [i \in DOMAIN us |-> [type |-> "snapshot", id |-> us[i], arg |-> Snapshot(rs[us[i]].state)]]

\* Mutant: a snapshot within the interval is dropped instead of sent later.
PublishNow(rs, queue, us, held, extra) ==
    LET started == Started(rs, queue)
        after == [u \in Uploads |-> IF u \in ToSet(started) THEN Begin(rs[u]) ELSE rs[u]]
        sent == ToSet(us) \cup ToSet(started)
    IN  /\ runner' = after
        /\ order' = queue
        /\ fromWorker' = fromWorker \o Snapshots(rs, us) \o Snapshots(after, started) \o extra
        /\ lastSent' = [u \in Uploads |-> IF u \in sent THEN after[u].state.status ELSE lastSent[u]]
        /\ trailing' = trailing \ sent

\* The runners are rs, the uploads us send snapshots at once and those of held when their timer
\* fires; then the queue is pumped.
Publish(rs, queue, us, held, extra) ==
    LET started == Started(rs, queue)
        after == [u \in Uploads |-> IF u \in ToSet(started) THEN Begin(rs[u]) ELSE rs[u]]
        sent == ToSet(us) \cup ToSet(started)
    IN  /\ runner' = after
        /\ order' = queue
        /\ fromWorker' = fromWorker \o Snapshots(rs, us) \o Snapshots(after, started) \o extra
        /\ lastSent' = [u \in Uploads |-> IF u \in sent THEN after[u].state.status ELSE lastSent[u]]
        /\ trailing' = (trailing \ sent) \cup (held \ sent)

\* A change of one upload's runner.  Progress within the interval of the last snapshot is held.
Change(u, r) ==
    LET rs == [runner EXCEPT ![u] = r]
    IN  IF r.state = runner[u].state
        THEN runner' = rs /\ UNCHANGED <<order, fromWorker, lastSent, trailing>>
        ELSE \/ Publish(rs, order, <<u>>, {}, <<>>)
             \/ /\ lastSent[u] = r.state.status
                /\ Publish(rs, order, <<>>, {u}, <<>>)

-----------------------------------------------------------------------------
(* The worker: messages of the page. *)

Room == Len(fromWorker) < MaxTransit

Take(types) ==
    /\ Room /\ toWorker # <<>> /\ Head(toWorker).type \in types
    /\ toWorker' = Tail(toWorker)

ReceiveAdd ==
    /\ Take({"add"})
    /\ Publish(runner, Append(order, Head(toWorker).id), <<Head(toWorker).id>>, {}, <<>>)
    /\ UNCHANGED <<pageVars, removing, server, alive, events>>

Paused(r) ==
    LET s == Pause(r.state) IN IF s = r.state THEN r ELSE Abort(r, s)
Resumed(r) == [r EXCEPT !.state = Resume(r.state)]
Retried(r) ==
    IF r.state.status = "failed" THEN [r EXCEPT !.state = Retry(r.state), !.lost = 0] ELSE r
\* cancel() as far as it runs at once; then it waits for the drive to unwind.
Cancelling(r) ==
    LET s == Cancel(r.state)
    IN  IF s = r.state THEN r ELSE [Abort(r, s) EXCEPT !.cancel = "unwinding"]

\* A message to the named upload, or to all: each that changes sends its snapshot.
Apply(us, Becomes(_)) ==
    LET rs == [u \in Uploads |-> IF u \in us THEN Becomes(runner[u]) ELSE runner[u]]
        changed == Those(order, {u \in Uploads : rs[u].state # runner[u].state})
    IN  IF changed = <<>>
        THEN UNCHANGED <<runner, order, fromWorker, lastSent, trailing>>
        ELSE Publish(rs, order, changed, {}, <<>>)

Named == IF Head(toWorker).id = Everyone THEN ToSet(order) ELSE {Head(toWorker).id} \cap ToSet(order)

ReceivePause ==
    /\ Take({"pause", "pause-all"})
    /\ Apply(Named, Paused)
    /\ UNCHANGED <<pageVars, removing, server, alive, events>>

ReceiveResume ==
    /\ Take({"resume", "resume-all"})
    /\ Apply(Named, Resumed)
    /\ UNCHANGED <<pageVars, removing, server, alive, events>>

ReceiveRetry ==
    /\ Take({"retry", "retry-token"})
    /\ Apply(Named, Retried)
    /\ server' = [u \in Uploads |->
                    IF u \in Named /\ Head(toWorker).type = "retry-token" /\ Status(u) = "failed"
                    THEN [server[u] EXCEPT !.token = TRUE] ELSE server[u]]
    /\ UNCHANGED <<pageVars, removing, alive, events>>

ReceiveCancel ==
    /\ Take({"cancel", "cancel-all"})
    /\ Apply(Named, Cancelling)
    /\ UNCHANGED <<pageVars, removing, server, alive, events>>

Without(u) == Those(order, Uploads \ {u})
Removed(u) == [type |-> "removed", id |-> u, arg |-> NoUpload]

\* remove() of an upload whose cancel() does nothing: it is forgotten at once, and nothing pumps.
Forget(u) ==
    /\ runner' = [runner EXCEPT ![u].offset = 0]
    /\ order' = Without(u)
    /\ lastSent' = [lastSent EXCEPT ![u] = "none"] /\ trailing' = trailing \ {u}
    /\ fromWorker' = Append(fromWorker, Removed(u))
    /\ UNCHANGED removing

ReceiveRemove ==
    /\ Take({"remove"})
    /\ LET u == Head(toWorker).id
           r == Cancelling(runner[u])
       IN  \/ /\ ~Known(u)
              /\ UNCHANGED hostVars /\ UNCHANGED fromWorker
           \/ /\ Known(u) /\ r = runner[u]
              /\ Forget(u)
           \/ /\ Known(u) /\ r # runner[u]
              /\ Publish([runner EXCEPT ![u] = r], order, <<u>>, {}, <<>>)
              /\ removing' = removing \cup {u}
    /\ UNCHANGED <<pageVars, server, alive, events>>

ReceiveReorder ==
    /\ Take({"reorder"})
    /\ LET u == Head(toWorker).id
       IN  IF Known(u)
           THEN Publish(runner, Moved(order, u, Head(toWorker).arg), <<>>, {}, <<>>)
           ELSE UNCHANGED <<runner, order, fromWorker, lastSent, trailing>>
    /\ UNCHANGED <<pageVars, removing, server, alive, events>>

TrailingTimer(u) ==
    /\ Room /\ u \in trailing
    /\ trailing' = trailing \ {u}
    /\ fromWorker' = fromWorker \o Snapshots(runner, <<u>>)
    /\ UNCHANGED <<pageVars, toWorker, runner, order, lastSent, removing, server, alive, events>>

-----------------------------------------------------------------------------
(* The worker: the steps of a runner. *)

Works(u, step) == runner[u].unwinding = "no" /\ Status(u) = step

OnlyWorker == Room /\ UNCHANGED <<pageVars, toWorker, removing, server, alive, events>>

\* FileHashing.run: one slice more; the last one gives the hash and frees the hasher.
HashSlice(u) ==
    /\ Works(u, "hashing")
    /\ LET r == runner[u]
           n == r.offset + 1
           s == HashProgress(r.state, n)
       IN  IF n < Slices
           THEN Change(u, [r EXCEPT !.state = s, !.offset = n])
           ELSE Change(u, Advance([r EXCEPT !.offset = 0], Hashed(s)))
    /\ OnlyWorker

\* Mutant: the new drive waits for itself, so the end of an aborted step is never heard under it.
UnwindUnlessFollowed(u) ==
    /\ runner[u].unwinding # "no" /\ ~isStep(Status(u))
    /\ Change(u, [runner[u] EXCEPT !.unwinding = "no"])
    /\ OnlyWorker

\* An aborted step ends.  A slice that was being read still counts; the hash of a last one is lost.
Unwind(u) ==
    /\ runner[u].unwinding # "no"
    /\ LET r == [runner[u] EXCEPT !.unwinding = "no"]
           Ends(n) == [r EXCEPT !.offset = IF n = Slices THEN 0 ELSE n]
           Resumes(q) == IF isStep(q.state.status) THEN Enter(q) ELSE q
       IN  \/ Change(u, Resumes(r))
           \/ /\ runner[u].unwinding = "hashing" /\ Known(u)
              /\ Change(u, Resumes(Ends(r.offset + 1)))
    /\ OnlyWorker

\* uploadInit answered.
ReceiveInit(u) ==
    /\ Works(u, "initializing") /\ runner[u].reply = "ok"
    /\ Change(u, Advance([runner[u] EXCEPT !.fresh = TRUE],
                         Initialized(runner[u].state, server[u].mode)))
    /\ OnlyWorker

\* uploadStatus answered: the missing chunks, or that there are none.
ReceiveStatus(u) ==
    /\ Works(u, "uploading") /\ Chunked(runner[u].state) /\ ~runner[u].asked
    /\ LET r == runner[u]
           got == server[u].got
       IN  \/ /\ r.reply = "complete"
              /\ Change(u, Advance(r, Uploaded(r.state)))
           \/ /\ r.reply = "ok"
              /\ Change(u, [r EXCEPT !.reply = "none", !.asked = TRUE, !.left = Chunks \ got,
                                     !.state = UploadProgress(r.state, Cardinality(got))])
    /\ OnlyWorker

\* The lanes of uploadChunks send what is left in order, at most MaxConcurrent at a time.
InFlight(u) ==
    {c \in runner[u].left : Cardinality({d \in runner[u].left : d < c}) < MaxConcurrent}

ReceiveChunk(u, c) ==
    /\ Works(u, "uploading") /\ c \in InFlight(u) /\ c \in server[u].got
    /\ LET r == runner[u]
           left == r.left \ {c}
           s == UploadProgress(r.state, Cardinality(Chunks \ left))
       IN  IF left = {} THEN Change(u, Advance(r, Uploaded(s)))
           ELSE Change(u, [r EXCEPT !.left = left, !.state = s])
    /\ OnlyWorker

\* uploadWholeFile, uploadVerify or uploadComplete answered with the asset.
ReceiveAsset(u) ==
    /\ \/ Works(u, "uploading") /\ ~Chunked(runner[u].state)
       \/ Works(u, "verifying")
       \/ Works(u, "completing")
    /\ runner[u].reply = "ok"
    /\ Change(u, Advance(runner[u], Completed(runner[u].state)))
    /\ OnlyWorker

ReceiveIncomplete(u) ==
    /\ Works(u, "completing") /\ runner[u].reply = "incomplete"
    /\ Change(u, Advance(runner[u], Incomplete(runner[u].state)))
    /\ OnlyWorker

\* fail(): where a failed step leads.
Failed(r, error) ==
    IF error = "lost" /\ r.state.status # "initializing" /\ r.lost < MaxLost
    THEN Advance([r EXCEPT !.lost = @ + 1], TransactionLost(r.state))
    ELSE IF error = "content"
    THEN Advance([r EXCEPT !.offset = 0], Fail(r.state, error, "hashing"))
    ELSE Advance(r, Fail(r.state, error, IF error = "token" THEN "initializing" ELSE "none"))

ReceiveError(u) ==
    /\ runner[u].reply \in {"lost", "content", "token", "other"}
    /\ Change(u, Failed(runner[u], runner[u].reply))
    /\ OnlyWorker

\* cancel() goes on once the drive has unwound, and ends when there is nothing to drop.
CancelUnwound(u) ==
    /\ Room /\ runner[u].cancel = "unwinding" /\ runner[u].unwinding = "no"
    /\ LET r == [runner[u] EXCEPT !.offset = 0]
       IN  IF Status(u) = "cancelling"
           THEN /\ runner' = [runner EXCEPT ![u] = [r EXCEPT !.cancel = "calling"]]
                /\ UNCHANGED <<order, fromWorker, lastSent, trailing, removing>>
           ELSE IF u \in removing
           THEN /\ runner' = [runner EXCEPT ![u] = [r EXCEPT !.cancel = "no"]]
                /\ order' = Without(u)
                /\ lastSent' = [lastSent EXCEPT ![u] = "none"] /\ trailing' = trailing \ {u}
                /\ fromWorker' = Append(fromWorker, Removed(u))
                /\ removing' = removing \ {u}
           ELSE /\ runner' = [runner EXCEPT ![u] = [r EXCEPT !.cancel = "no"]]
                /\ UNCHANGED <<order, fromWorker, lastSent, trailing, removing>>
    /\ UNCHANGED <<pageVars, toWorker, server, alive, events>>

\* uploadCancel answered or failed; either way the upload is cancelled, and then removed if it was
\* a removal.  The host may have forgotten the upload already: it sends the snapshot all the same.
ReceiveCancelled(u) ==
    /\ Room /\ runner[u].cancel = "calling"
    /\ LET rs == [runner EXCEPT ![u].state = Cancelled(runner[u].state), ![u].cancel = "no"]
       IN  IF u \in removing
           THEN Publish(rs, Without(u), <<u>>, {}, <<Removed(u)>>)
           ELSE Publish(rs, order, <<u>>, {}, <<>>)
    /\ removing' = removing \ {u}
    /\ \/ server' = [server EXCEPT ![u].live = FALSE]
       \/ UNCHANGED server
    /\ UNCHANGED <<pageVars, toWorker, alive, events>>

-----------------------------------------------------------------------------
(* storage_service and main_service, as far as an upload meets them. *)

Waits(u, step) == Works(u, step) /\ runner[u].reply = "none"
Answer(u, reply) == runner' = [runner EXCEPT ![u].reply = reply]
ServerOnly == UNCHANGED <<pageVars, toWorker, fromWorker, order, lastSent, trailing, removing, alive>>

ServeInit(u) ==
    /\ Waits(u, "initializing")
    /\ IF server[u].token
       THEN /\ Answer(u, "ok")
            /\ server' = [server EXCEPT
                            ![u].live = TRUE, ![u].got = {},
                            ![u].mode = IF server[u].blob THEN "verify" ELSE ModeOf[u]]
       ELSE Answer(u, "token") /\ UNCHANGED server
    /\ ServerOnly /\ UNCHANGED events

ServeStatus(u) ==
    /\ Waits(u, "uploading") /\ Chunked(runner[u].state) /\ ~runner[u].asked
    /\ Answer(u, IF ~server[u].live THEN "lost" ELSE IF server[u].got = Chunks THEN "complete" ELSE "ok")
    /\ ServerOnly /\ UNCHANGED <<server, events>>

ServeChunk(u, c) ==
    /\ Waits(u, "uploading") /\ c \in InFlight(u) \ server[u].got
    /\ IF server[u].live
       THEN server' = [server EXCEPT ![u].got = @ \cup {c}] /\ UNCHANGED runner
       ELSE Answer(u, "lost") /\ UNCHANGED server
    /\ ServerOnly /\ UNCHANGED events

\* The file is stored and the asset backed by it; the transaction is gone.
ServeAsset(u) ==
    /\ \/ Waits(u, "uploading") /\ ~Chunked(runner[u].state)
       \/ Waits(u, "verifying")
       \/ Waits(u, "completing")
    /\ IF ~server[u].live THEN Answer(u, "lost") /\ UNCHANGED server
       ELSE IF Status(u) = "completing" /\ server[u].got # Chunks
       THEN Answer(u, "incomplete") /\ UNCHANGED server
       ELSE /\ Answer(u, "ok")
            /\ server' = [server EXCEPT ![u].live = FALSE, ![u].blob = TRUE, ![u].asset = TRUE]
    /\ ServerOnly /\ UNCHANGED events

\* The answer is lost on its way: withRetry makes the request again.
LoseAnswer(u) ==
    /\ Happens /\ runner[u].reply # "none"
    /\ Answer(u, "none")
    /\ ServerOnly /\ UNCHANGED server

\* The request fails for good, or its retries run out.
Refuse(u) ==
    /\ Happens /\ isStep(Status(u)) /\ Works(u, Status(u)) /\ runner[u].reply = "none"
    /\ \/ Answer(u, "other") /\ UNCHANGED server
       \/ /\ Status(u) \in {"verifying", "completing"} \/ (Status(u) = "uploading" /\ ~Chunked(runner[u].state))
          /\ server[u].live
          /\ Answer(u, "content")
          /\ server' = [server EXCEPT ![u].live = FALSE]
    /\ ServerOnly

\* An unfinished upload expires, a chunk is not where it was, an upload token runs out.
Expire(u) ==
    /\ Happens /\ Known(u)
    /\ \/ server[u].live /\ server' = [server EXCEPT ![u].live = FALSE]
       \/ \E c \in server[u].got : server' = [server EXCEPT ![u].got = @ \ {c}]
       \/ server[u].token /\ server' = [server EXCEPT ![u].token = FALSE]
    /\ ServerOnly /\ UNCHANGED runner

-----------------------------------------------------------------------------
PageCall ==
    \/ \E u \in Uploads :
        \/ Upload(u)
        \/ \E type \in {"pause", "resume", "cancel", "retry", "retry-token", "remove"} : Post(type, u)
        \/ \E index \in 0..(Cardinality(Uploads) - 1) : ReorderPage(u, index)
        \/ Finished(u)
    \/ \E type \in {"pause-all", "resume-all", "cancel-all"} : PostAll(type)
    \/ Destroy

PageReceive == ReceiveSnapshot \/ ReceiveRemoved

HostReceive ==
    \/ ReceiveAdd
    \/ ReceivePause
    \/ ReceiveResume
    \/ ReceiveRetry
    \/ ReceiveCancel
    \/ ReceiveRemove
    \/ ReceiveReorder

RunnerStep(u) ==
    \/ TrailingTimer(u)
    \/ HashSlice(u)
    \/ Unwind(u)
    \/ ReceiveInit(u)
    \/ ReceiveStatus(u)
    \/ \E c \in Chunks : ReceiveChunk(u, c)
    \/ ReceiveAsset(u)
    \/ ReceiveIncomplete(u)
    \/ ReceiveError(u)
    \/ CancelUnwound(u)
    \/ ReceiveCancelled(u)

ServerStep(u) ==
    \/ ServeInit(u)
    \/ ServeStatus(u)
    \/ \E c \in Chunks : ServeChunk(u, c)
    \/ ServeAsset(u)

FaultStep(u) ==
    \/ LoseAnswer(u)
    \/ Refuse(u)
    \/ Expire(u)

Work ==
    \/ PageReceive
    \/ \E u \in Uploads : ServerStep(u) \/ RunnerStep(u)
    \/ HostReceive

Next ==
    \/ PageCall
    \/ Work
    \/ \E u \in Uploads : FaultStep(u)

Spec == Init /\ [][Next]_vars

\* Something of what there is to do gets done: a message is delivered, a runner goes on, a request is
\* answered.  Calls and faults are nobody's duty.
Fairness == WF_vars(Work)
FairSpec == Spec /\ Fairness

-----------------------------------------------------------------------------
(* What the worker keeps. *)

RunnerReply == {"none", "ok", "complete", "incomplete", "lost", "content", "token", "other"}
RunnerType ==
    [state : UploadMachineState, unwinding : {"no", "hashing", "call"}, reply : RunnerReply,
     asked : BOOLEAN, left : SUBSET Chunks, fresh : BOOLEAN, lost : 0..MaxLost,
     offset : 0..(Slices - 1), cancel : {"no", "unwinding", "calling"}]

\* The host's lists name each upload at most once, and every runner and snapshot is one.
TypeOK ==
    /\ runner \in [Uploads -> RunnerType]
    /\ order \in Seq(Uploads) /\ IsInjective(order)
    /\ pageOrder \in Seq(Uploads) /\ IsInjective(pageOrder)
    /\ \A u \in Uploads : Shown(u) <=> u \in ToSet(pageOrder)
    /\ trailing \subseteq ToSet(order) /\ removing \subseteq Uploads

\* Whatever was paused, failed, lost or retried before it: a step that runs, or that is to run
\* next, has what the earlier steps produce, so none of the runner's "without a ..." errors and no
\* chunked upload without chunks can happen.
StepHasItsContext == \A u \in Uploads : Coherent(runner[u].state)

\* No more uploads are in a step at a time than maxParallelUploads, the ones the host has forgotten
\* included, however calls, failures and retries interleave.  (The cancel of a paused upload takes
\* a slot no one gave it, so more than that may be working.)
ParallelLimit == Cardinality({u \in Uploads : isStep(Status(u))}) <= MaxParallel

Working == {u \in ToSet(order) : isStep(Status(u)) \/ Status(u) = "cancelling"}

\* No queued upload is left waiting beside a free slot.  A removal of an upload that is being
\* cancelled frees its slot without a pump; the cancel's end pumps.
NoIdleSlot ==
    (\E u \in ToSet(order) : Status(u) = "queued") =>
        \/ Cardinality(Working) >= MaxParallel
        \/ \E v \in Uploads : ~Known(v) /\ runner[v].cancel # "no"

Quiet == alive /\ toWorker = <<>> /\ fromWorker = <<>>

\* Once every message has arrived and no held-back snapshot is due, the page shows each upload the
\* worker has just as it is.
Mirror ==
    (Quiet /\ trailing = {}) => \A u \in ToSet(order) : page[u] = Snapshot(runner[u].state)

\* A promise of finished() that waits can still be settled: its upload is shown, and not at its end.
NoHangingWaiter ==
    \A u \in Uploads : waiter[u] = "waiting" => (alive /\ Shown(u) /\ ~isTerminal(page[u].status))

\* What the page is told is done is stored and backs its asset; a resolved finished() too.
DoneIsStored ==
    \A u \in Uploads :
        (waiter[u] = "resolved" \/ page[u].status = "done" \/ Status(u) = "done") => server[u].asset

\* The worker's side: its lists, what each step stands on, the limit, the promises it keeps and
\* what it says is done.
UploadsAgree == TypeOK /\ StepHasItsContext /\ ParallelLimit /\ NoHangingWaiter /\ DoneIsStored

\* An upload the worker is to work on comes to rest: paused, failed, done or cancelled.
Settles ==
    \A u \in Uploads :
        (Known(u) /\ ~isTerminal(Status(u))) ~>
            (~Known(u) \/ Status(u) \in {"paused", "failed", "done", "cancelled"})

\* "Forgets the upload, cancelling it first if it has not finished" (messages.ts, uploader.ts): what
\* the worker has forgotten and nothing is on its way about, the page shows no more.
RemovedIsGone ==
    (Quiet /\ \A u \in Uploads : runner[u].cancel = "no") => \A u \in Uploads : Shown(u) => Known(u)
=============================================================================
