---------------------------- MODULE UploadStorage ----------------------------
(***************************************************************************)
(* Uploads of apps/storage_service and the assets of apps/main_service     *)
(* they are for.  A handler is one HTTP request; every await that reads or *)
(* changes Redis, Postgres or the disk is one step, and requests and the   *)
(* cleanup workers interleave between steps.  A request may end at any     *)
(* await: the client or the service is gone, or a call fails.              *)
(*                                                                         *)
(* A file is a function from chunks to what is written there.  A content   *)
(* stands for its hash and size, an asset for its upload token.  Hashes    *)
(* tell apart exactly the files with all their own bytes.  MIME types,     *)
(* names, owners and the sampled ranges are left out, and so is what only  *)
(* reads (upload_status, links, downloads).                                *)
(***************************************************************************)
EXTENDS Integers, FiniteSets

CONSTANTS
    Asset,          \* ids of assets, made by clients
    Content,        \* what is uploaded: a hash and its size
    Big,            \* the contents of more than three chunks
    Chunk, First,   \* the chunks of a file; the one that starts at 0
    Tx,             \* ids of upload transactions
    Handler,        \* requests that can run at once
    MaxSlots,       \* MAX_CONCURRENT_UPLOADS, 3 in the code
    Ops,            \* the requests that come: a subset of AllOps
    Workers,        \* the cleanups that run: a subset of AllWorkers
    Patient,        \* clients complete when no chunk request of theirs is running
    InTime,         \* what write_all hands to the blocking pool is written before the next await
    MaxCalls,       \* bound: requests of a run
    NoTx, NoFile, NoCall

AllOps == {"init", "verify", "whole", "chunk", "cancel", "complete"}
AllWorkers == {"transactions", "blobs", "assets"}
Types == {"chunked", "whole", "verify"}

\* What a file has at a chunk: zeros (set_len), its own bytes, or others: the client's file changed.
File == [Chunk -> {"zeros", "right", "wrong"}]
Zeros == [k \in Chunk |-> "zeros"]
FileOf(d) == [k \in Chunk |-> d]
\* What a transaction was created with, and a request's path and body.
Meta == [type : Types, content : Content, asset : Asset, told : BOOLEAN]
Request == [op : {"init"}, tx : Tx, asset : Asset, content : Content]
           \cup [op : AllOps \ {"init"}, tx : Tx, asset : Asset, content : Content,
                 chunk : Chunk, data : {"right", "wrong"}]
NoBlob == 0
NoAsset == [status |-> "none"]

ASSUME UploadAssumption ==
    /\ Big \subseteq Content
    /\ First \in Chunk
    /\ IsFiniteSet(Handler)
    /\ Ops \subseteq AllOps
    /\ Workers \subseteq AllWorkers
    /\ Patient \in BOOLEAN /\ InTime \in BOOLEAN
    /\ MaxSlots \in Nat \ {0} /\ MaxCalls \in Nat
ASSUME NoValueAssumption ==
    NoFile \notin File /\ NoTx \notin Meta /\ NoCall \notin Request /\ NoCall \notin Handler

VARIABLES
    assets,         \* main_service's assets
    blobs,          \* the id of each content's row in blobs; NoBlob: no row
    stored,         \* the assets folder: the file {hash}_{size} of each content
    temp,           \* the temp folder: the file of each transaction
    fds,            \* files open for writing, and writes under way
    info,           \* what transactions were created with, and whether a client was told of them
    alive,          \* Redis: tx:{id}:meta is there
    bits,           \* Redis: tx:{id}:chunks
    active,         \* Redis: tx:{id}:active; 0 when it is not there
    age,            \* Redis: the age of the transaction in tx_activity
    call, pc, blob, \* each handler's request, its next step and the blob it found or made
    sweeper,        \* the transaction cleanup: the step and the transaction it is at
    collector,      \* the blob cleanup: the step and the rows it is about to remove
    made,           \* how many blobs were inserted: ids are new
    calls           \* how many requests have come

redis == <<info, alive, bits, active, age>>
disk == <<stored, temp, fds>>
postgres == <<assets, blobs, made>>
handlers == <<call, pc, blob>>
vars == <<assets, blobs, stored, temp, fds, info, alive, bits, active, age, call, pc, blob,
          sweeper, collector, made, calls>>

Init ==
    /\ assets = [a \in Asset |-> NoAsset]
    /\ blobs = [c \in Content |-> NoBlob]
    /\ stored = [c \in Content |-> NoFile]
    /\ temp = [x \in Tx |-> NoFile]
    /\ fds = {}
    /\ info = [x \in Tx |-> NoTx]
    /\ alive = [x \in Tx |-> FALSE]
    /\ bits = [x \in Tx |-> {}]
    /\ active = [x \in Tx |-> 0]
    /\ age = [x \in Tx |-> "none"]
    /\ call = [h \in Handler |-> NoCall]
    /\ pc = [h \in Handler |-> "idle"]
    /\ blob = [h \in Handler |-> NoBlob]
    /\ sweeper = [step |-> "idle"]
    /\ collector = [step |-> "idle"]
    /\ made = 0
    /\ calls = 0
-----------------------------------------------------------------------------
(* Requests. *)

At(h, step) == pc[h] = step
Goto(h, step) == pc' = [pc EXCEPT ![h] = step] /\ UNCHANGED <<call, blob>>

\* The request ends; files it has open are closed.
Close(h) == fds' = {f \in fds : f.by # h}
Leave(h) ==
    /\ pc' = [pc EXCEPT ![h] = "idle"]
    /\ call' = [call EXCEPT ![h] = NoCall]
    /\ blob' = [blob EXCEPT ![h] = NoBlob]

\* A step that returns to the client and changes nothing.
Return(h) ==
    Leave(h) /\ Close(h) /\ UNCHANGED <<postgres, stored, temp, redis, sweeper, collector, calls>>

\* The request ends at an await.
Lose(h) == pc[h] # "idle" /\ Return(h)

On(x) == {h \in Handler : call[h] # NoCall /\ call[h].tx = x}
Running(x, op) == \E h \in On(x) : call[h].op = op

Start(h, c, step) ==
    /\ At(h, "idle")
    /\ calls < MaxCalls
    /\ calls' = calls + 1
    /\ call' = [call EXCEPT ![h] = c]
    /\ pc' = [pc EXCEPT ![h] = step]
    /\ UNCHANGED <<postgres, disk, redis, blob, sweeper, collector>>

\* upload_init for a token of an asset, with the hash of the file the client has now; the
\* transaction's id is new.
BeginInit(h) ==
    /\ "init" \in Ops
    /\ \E a \in Asset, c \in Content, x \in Tx :
        /\ assets[a] # NoAsset
        /\ info[x] = NoTx /\ temp[x] = NoFile /\ On(x) = {}
        /\ Start(h, [op |-> "init", tx |-> x, asset |-> a, content |-> c], "init")

\* The other requests name a transaction a client was told of.
Begin(h) ==
    \E op \in Ops \ {"init"}, x \in Tx, k \in Chunk, d \in {"right", "wrong"} :
        /\ info[x] # NoTx /\ info[x].told
        /\ op # "chunk" => k = First
        /\ op \notin {"chunk", "whole", "verify"} => d = "right"
        /\ Patient => /\ op = "complete" => ~Running(x, "chunk")
                      /\ op = "chunk" => ~Running(x, "complete")
        /\ Start(h, [op |-> op, tx |-> x, asset |-> info[x].asset, content |-> info[x].content,
                     chunk |-> k, data |-> d], "load")

\* Not the code: cancel forgets a transaction and leaves its temp file.
LoadForCancel(h) ==
    /\ At(h, "load") /\ call[h].op = "cancel" /\ alive[call[h].tx]
    /\ Goto(h, "forget")
    /\ UNCHANGED <<postgres, disk, redis, sweeper, collector, calls>>

\* owned_transaction, and the step the transaction is at
Load(h) ==
    LET x == call[h].tx
        op == call[h].op
        type == info[x].type
    IN  /\ At(h, "load")
        /\ IF \/ ~alive[x]
              \/ op = "verify" /\ type # "verify"
              \/ op = "chunk" /\ type # "chunked"
              \/ op = "complete" /\ type = "verify"
              \/ op = "whole" /\ (type # "whole" \/ call[h].data = "wrong")
           THEN Return(h)
           ELSE /\ Goto(h, CASE op = "verify" -> "lookup"
                             [] op = "whole" -> "lookup"
                             [] op = "chunk" -> "acquire"
                             [] op = "complete" -> "count"
                             [] op = "cancel" -> IF type = "verify" THEN "forget" ELSE "unlink")
                /\ UNCHANGED <<postgres, disk, redis, sweeper, collector, calls>>
-----------------------------------------------------------------------------
(* Redis: redis/transaction.rs. *)

\* TransactionRepository::delete
Deleted(x) ==
    /\ alive' = [alive EXCEPT ![x] = FALSE]
    /\ bits' = [bits EXCEPT ![x] = {}]
    /\ active' = [active EXCEPT ![x] = 0]
    /\ age' = [age EXCEPT ![x] = "none"]
    /\ UNCHANGED info

\* A handler deletes its transaction and returns, or goes on to the blob or to the asset.
Forget(h) ==
    /\ pc[h] \in {"forget", "forgetInsert", "forgetAsset"}
    /\ Deleted(call[h].tx)
    /\ CASE pc[h] = "forget" -> Leave(h)
         [] pc[h] = "forgetInsert" -> Goto(h, "insert")
         [] pc[h] = "forgetAsset" -> Goto(h, "asset")
    /\ UNCHANGED <<postgres, disk, sweeper, collector, calls>>
-----------------------------------------------------------------------------
(* The disk.  An open file stays open when it is renamed or unlinked. *)

\* unlink of a file of the temp folder
Unlinked(x) ==
    /\ temp' = [temp EXCEPT ![x] = NoFile]
    /\ fds' = {IF f.at = "temp" /\ f.tx = x THEN [f EXCEPT !.at = "gone"] ELSE f : f \in fds}
    /\ UNCHANGED stored

\* unlink of a file of the assets folder
Removed(c) ==
    /\ stored' = [stored EXCEPT ![c] = NoFile]
    /\ fds' = {IF f.at = "assets" /\ f.content = c THEN [f EXCEPT !.at = "gone"] ELSE f : f \in fds}
    /\ UNCHANGED temp

\* rename of a temp file to a content's, which it replaces
Renamed(x, c) ==
    /\ stored' = [stored EXCEPT ![c] = temp[x]]
    /\ temp' = [temp EXCEPT ![x] = NoFile]
    /\ fds' = {CASE f.at = "temp" /\ f.tx = x -> [f EXCEPT !.at = "assets", !.content = c]
                 [] f.at = "assets" /\ f.content = c -> [f EXCEPT !.at = "gone"]
                 [] OTHER -> f : f \in fds}

Opened(h, at, chunks) ==
    fds' = fds \cup {[by |-> h, tx |-> call[h].tx, content |-> call[h].content, at |-> at,
                      chunks |-> chunks, data |-> call[h].data]}

\* The bytes of a write reach the file.
Landed(f) ==
    LET Over(file) == [k \in Chunk |-> IF k \in f.chunks THEN f.data ELSE file[k]]
    IN  /\ temp' = IF f.at = "temp" THEN [temp EXCEPT ![f.tx] = Over(@)] ELSE temp
        /\ stored' = IF f.at = "assets" THEN [stored EXCEPT ![f.content] = Over(@)] ELSE stored

\* write_all: tokio's File hands the end of the buffer to a thread and does not wait for it.
WriteAll(h, next) ==
    \E f \in fds :
        /\ f.by = h
        /\ Goto(h, next)
        /\ IF InTime
           THEN fds' = fds \ {f} /\ Landed(f)
           ELSE fds' = (fds \ {f}) \cup {[f EXCEPT !.by = NoCall]} /\ UNCHANGED <<stored, temp>>
        /\ UNCHANGED <<postgres, redis, sweeper, collector, calls>>

\* The thread writes.
Land ==
    \E f \in fds :
        /\ f.by = NoCall
        /\ Landed(f)
        /\ fds' = fds \ {f}
        /\ UNCHANGED <<postgres, redis, handlers, sweeper, collector, calls>>
-----------------------------------------------------------------------------
(* upload_init *)

\* The blob exists: prove possession.  Else a file in the temp folder, before the transaction.
InitLookup(h) ==
    /\ At(h, "init")
    /\ IF blobs[call[h].content] # NoBlob
       THEN Goto(h, "createVerify") /\ UNCHANGED temp
       ELSE Goto(h, "create") /\ temp' = [temp EXCEPT ![call[h].tx] = Zeros]
    /\ UNCHANGED <<postgres, redis, stored, fds, sweeper, collector, calls>>

\* TransactionRepository::create: the transaction,
InitCreate(h) ==
    LET c == call[h].content
        x == call[h].tx
        type == IF At(h, "createVerify") THEN "verify" ELSE IF c \in Big THEN "chunked" ELSE "whole"
    IN  /\ pc[h] \in {"create", "createVerify"}
        /\ info' = [info EXCEPT ![x] = [type |-> type, content |-> c, asset |-> call[h].asset,
                                       told |-> FALSE]]
        /\ alive' = [alive EXCEPT ![x] = TRUE]
        /\ Goto(h, "activity")
        /\ UNCHANGED <<postgres, disk, bits, active, age, sweeper, collector, calls>>

\* then its activity.  The answer tells the client of it.
InitActivity(h) ==
    LET x == call[h].tx
    IN  /\ At(h, "activity")
        /\ age' = [age EXCEPT ![x] = "recent"]
        /\ info' = [info EXCEPT ![x].told = TRUE]
        /\ Leave(h)
        /\ UNCHANGED <<postgres, disk, alive, bits, active, sweeper, collector, calls>>
-----------------------------------------------------------------------------
(* upload_verify and upload_whole_file *)

\* get_one_by_hash: verify needs the blob, whole completes with it at once.
Lookup(h) ==
    LET b == blobs[call[h].content]
        verify == call[h].op = "verify"
    IN  /\ At(h, "lookup")
        /\ IF verify /\ b = NoBlob
           THEN Return(h)
           ELSE /\ blob' = [blob EXCEPT ![h] = b]
                /\ pc' = [pc EXCEPT ![h] = IF verify THEN "compare" ELSE
                                           IF b # NoBlob THEN "asset" ELSE "open"]
                /\ UNCHANGED <<postgres, disk, redis, call, sweeper, collector, calls>>

\* The ranges of the stored file against the ones sent.
Compare(h) ==
    LET file == stored[call[h].content]
    IN  /\ At(h, "compare")
        /\ IF file = NoFile
           THEN Return(h)
           ELSE /\ Goto(h, IF file = FileOf(call[h].data) THEN "forgetAsset" ELSE "forget")
                /\ UNCHANGED <<postgres, disk, redis, sweeper, collector, calls>>

\* OpenOptions::create of the assets file
OpenStored(h) ==
    LET c == call[h].content
    IN  /\ At(h, "open") /\ call[h].op = "whole"
        /\ stored' = [stored EXCEPT ![c] = IF @ = NoFile THEN Zeros ELSE @]
        /\ Opened(h, "assets", Chunk)
        /\ Goto(h, "write")
        /\ UNCHANGED <<postgres, redis, temp, sweeper, collector, calls>>

WriteStored(h) == At(h, "write") /\ call[h].op = "whole" /\ WriteAll(h, "unlink")
-----------------------------------------------------------------------------
(* upload_chunk *)

\* Not the code: the limit is that of the count before.
AcquireOneMore(h) ==
    LET x == call[h].tx
    IN  /\ At(h, "acquire")
        /\ active' = [active EXCEPT ![x] = @ + 1]
        /\ IF active[x] \in 0 .. MaxSlots
           THEN \/ call[h].chunk = First /\ Goto(h, "getMeta")
                \/ Goto(h, "open")
           ELSE Goto(h, "refuse")
        /\ UNCHANGED <<postgres, disk, info, alive, bits, age, sweeper, collector, calls>>

\* try_acquire_upload_slot: INCR.  The count is read as a u64: below 0 is far above the limit.
\* EXPIRE comes next; all it can do here is to fail, as any await (Lose).
Acquire(h) ==
    LET x == call[h].tx
    IN  /\ At(h, "acquire")
        /\ active' = [active EXCEPT ![x] = @ + 1]
        /\ IF active[x] + 1 \in 0 .. MaxSlots
           THEN \/ call[h].chunk = First /\ Goto(h, "getMeta")
                \/ Goto(h, "open")
           ELSE Goto(h, "refuse")
        /\ UNCHANGED <<postgres, disk, info, alive, bits, age, sweeper, collector, calls>>

\* DECR takes back the try that was one too many.
Refuse(h) ==
    /\ At(h, "refuse")
    /\ active' = [active EXCEPT ![call[h].tx] = @ - 1]
    /\ Leave(h)
    /\ UNCHANGED <<postgres, disk, info, alive, bits, age, sweeper, collector, calls>>

\* set_mime_type reads the transaction: `?` returns without a release
GetMeta(h) ==
    /\ At(h, "getMeta")
    /\ IF ~alive[call[h].tx]
       THEN Return(h)
       ELSE /\ Goto(h, "setMeta")
            /\ UNCHANGED <<postgres, disk, redis, sweeper, collector, calls>>

\* and writes it back.
SetMeta(h) ==
    /\ At(h, "setMeta")
    /\ alive' = [alive EXCEPT ![call[h].tx] = TRUE]
    /\ Goto(h, "open")
    /\ UNCHANGED <<postgres, disk, info, bits, active, age, sweeper, collector, calls>>

\* Not the code: the chunk is marked before it is written.
OpenMarked(h) ==
    LET x == call[h].tx
    IN  /\ At(h, "open") /\ call[h].op = "chunk" /\ temp[x] # NoFile
        /\ Opened(h, "temp", {call[h].chunk})
        /\ bits' = [bits EXCEPT ![x] = @ \cup {call[h].chunk}]
        /\ Goto(h, "write")
        /\ UNCHANGED <<postgres, info, alive, active, age, stored, temp, sweeper, collector, calls>>

\* upload_chunk_inner: the file must be there,
OpenTemp(h) ==
    LET x == call[h].tx
    IN  /\ At(h, "open") /\ call[h].op = "chunk"
        /\ IF temp[x] = NoFile
           THEN Goto(h, "release") /\ UNCHANGED fds
           ELSE Opened(h, "temp", {call[h].chunk}) /\ Goto(h, "write")
        /\ UNCHANGED <<postgres, redis, stored, temp, sweeper, collector, calls>>

WriteTemp(h) == At(h, "write") /\ call[h].op = "chunk" /\ WriteAll(h, "mark")

\* set_chunk_uploaded
Mark(h) ==
    LET x == call[h].tx
    IN  /\ At(h, "mark")
        /\ bits' = [bits EXCEPT ![x] = @ \cup {call[h].chunk}]
        /\ age' = [age EXCEPT ![x] = "recent"]
        /\ Goto(h, "release")
        /\ UNCHANGED <<postgres, disk, info, alive, active, sweeper, collector, calls>>

\* release_upload_slot: DECR,
Release(h) ==
    LET x == call[h].tx
    IN  /\ At(h, "release")
        /\ active' = [active EXCEPT ![x] = @ - 1]
        /\ IF active[x] - 1 < 0 THEN Goto(h, "reset") ELSE Leave(h)
        /\ UNCHANGED <<postgres, disk, info, alive, bits, age, sweeper, collector, calls>>

\* and SET 0 when that was below 0.
Reset(h) ==
    /\ At(h, "reset")
    /\ active' = [active EXCEPT ![call[h].tx] = 0]
    /\ Leave(h)
    /\ UNCHANGED <<postgres, disk, info, alive, bits, age, sweeper, collector, calls>>
-----------------------------------------------------------------------------
(* upload_cancel and upload_complete *)

\* The temp file goes: of a cancelled upload, of one stored whole, of one with another hash.
Unlink(h) ==
    LET x == call[h].tx
    IN  /\ At(h, "unlink")
        /\ Unlinked(x)
        /\ Goto(h, IF call[h].op = "whole" THEN "insert" ELSE "forget")
        /\ UNCHANGED <<postgres, redis, sweeper, collector, calls>>

\* is_upload_complete
Count(h) ==
    LET x == call[h].tx
    IN  /\ At(h, "count")
        /\ IF ~alive[x] \/ Cardinality(bits[x]) < Cardinality(Chunk)
           THEN Return(h)
           ELSE /\ Goto(h, "hash")
                /\ UNCHANGED <<postgres, disk, redis, sweeper, collector, calls>>

\* The hash of the temp file
Hash(h) ==
    LET file == temp[call[h].tx]
    IN  /\ At(h, "hash")
        /\ IF file = NoFile
           THEN Return(h)
           ELSE /\ Goto(h, IF file = FileOf("right") THEN "rename" ELSE "mismatch")
                /\ UNCHANGED <<postgres, disk, redis, sweeper, collector, calls>>

\* FILE_HASH_MISMATCH: the file must still be there
Mismatch(h) ==
    LET x == call[h].tx
    IN  /\ At(h, "mismatch")
        /\ IF temp[x] = NoFile
           THEN Return(h)
           ELSE /\ Unlinked(x)
                /\ Goto(h, "forget")
                /\ UNCHANGED <<postgres, redis, sweeper, collector, calls>>

Rename(h) ==
    LET x == call[h].tx
    IN  /\ At(h, "rename")
        /\ IF temp[x] = NoFile
           THEN Return(h)
           ELSE /\ Renamed(x, call[h].content)
                /\ Goto(h, "forgetInsert")
                /\ UNCHANGED <<postgres, redis, sweeper, collector, calls>>
-----------------------------------------------------------------------------
(* The blob and the asset. *)

\* BlobsRepository::create; blobs.hash is unique.
Insert(h) ==
    LET c == call[h].content
    IN  /\ At(h, "insert")
        /\ IF blobs[c] # NoBlob
           THEN Return(h)
           ELSE /\ made' = made + 1
                /\ blobs' = [blobs EXCEPT ![c] = made']
                /\ blob' = [blob EXCEPT ![h] = made']
                /\ pc' = [pc EXCEPT ![h] = IF call[h].op = "whole" THEN "forgetAsset" ELSE "asset"]
                /\ UNCHANGED <<assets, disk, redis, call, sweeper, collector, calls>>

\* Not the code: check_matches is not called.
FindAnyAsset(h) ==
    /\ At(h, "asset") /\ assets[call[h].asset].status = "pending"
    /\ Goto(h, "back")
    /\ UNCHANGED <<postgres, disk, redis, sweeper, collector, calls>>

\* complete_upload of main_service: the asset waits for this content.  A ready one is an answer
\* or a conflict, and stays.
FindAsset(h) ==
    LET asset == assets[call[h].asset]
    IN  /\ At(h, "asset")
        /\ IF asset.status # "pending" \/ asset.content # call[h].content
           THEN Return(h)
           ELSE /\ Goto(h, "back")
                /\ UNCHANGED <<postgres, disk, redis, sweeper, collector, calls>>

\* AssetsRepository::complete: UPDATE ... WHERE status = 'pending'; the foreign key needs the row.
BackAsset(h) ==
    LET a == call[h].asset
    IN  /\ At(h, "back")
        /\ IF assets[a].status # "pending" \/ blobs[call[h].content] # blob[h]
           THEN Return(h)
           ELSE /\ assets' = [assets EXCEPT ![a] = [status |-> "ready", content |-> @.content,
                                                    blob |-> blob[h]]]
                /\ Leave(h)
                /\ UNCHANGED <<blobs, made, disk, redis, sweeper, collector, calls>>

\* create_asset
CreateAsset(a) ==
    /\ assets[a] = NoAsset
    /\ \E c \in Content : assets' = [assets EXCEPT ![a] = [status |-> "pending", content |-> c]]
    /\ UNCHANGED <<blobs, made, disk, redis, handlers, sweeper, collector, calls>>
-----------------------------------------------------------------------------
(* The cleanups. *)

\* Not the code: without status = 'pending', a day after any upload.
AbandonReady(a) ==
    /\ "assets" \in Workers
    /\ assets[a].status \in {"pending", "ready"}
    /\ assets' = [assets EXCEPT ![a] = [status |-> "gone"]]
    /\ UNCHANGED <<blobs, made, disk, redis, handlers, sweeper, collector, calls>>

\* delete_abandoned: a day later the pending asset is gone.  Its id does not come back.
Abandon(a) ==
    /\ "assets" \in Workers
    /\ assets[a].status = "pending"
    /\ assets' = [assets EXCEPT ![a] = [status |-> "gone"]]
    /\ UNCHANGED <<blobs, made, disk, redis, handlers, sweeper, collector, calls>>

\* An hour passes since the last activity of a transaction, then a day.  Requests are short.
Pass(x) ==
    /\ On(x) = {}
    /\ age[x] \in {"recent", "hour"}
    /\ age' = [age EXCEPT ![x] = IF @ = "recent" THEN "hour" ELSE "day"]
    /\ UNCHANGED <<postgres, disk, info, alive, bits, active, handlers, sweeper, collector, calls>>

\* The counter of slots expires a minute after the last try; requests are shorter.  (A try that
\* ended before its EXPIRE leaves a new counter for good, until the next try gives it a minute:
\* here it may go as well.  The three days after which Redis
\* drops a transaction are longer than the cleanup waits, and are left out.)
ExpireSlots(x) ==
    /\ active[x] # 0
    /\ On(x) = {}
    /\ active' = [active EXCEPT ![x] = 0]
    /\ UNCHANGED <<postgres, disk, info, alive, bits, age, handlers, sweeper, collector, calls>>

Sweep(step, x) == sweeper' = [step |-> step, tx |-> x]
SweepDone == sweeper' = [step |-> "idle"]

\* run_cleanup goes through the transactions that were inactive for an hour when it started.
SweepPick ==
    /\ "transactions" \in Workers
    /\ sweeper.step = "idle"
    /\ \E x \in Tx : age[x] \in {"hour", "day"} /\ Sweep("get", x)
    /\ UNCHANGED <<postgres, disk, redis, handlers, collector, calls>>

\* No metadata: it was deleted before.
SweepGet ==
    LET x == sweeper.tx
    IN  /\ sweeper.step = "get"
        /\ IF alive[x]
           THEN Sweep("count", x) /\ UNCHANGED age
           ELSE SweepDone /\ age' = [age EXCEPT ![x] = "none"]
        /\ UNCHANGED <<postgres, disk, info, alive, bits, active, handlers, collector, calls>>

\* Not the code: chunks keep it for good.
SweepEmpty ==
    LET x == sweeper.tx
    IN  /\ sweeper.step = "count"
        /\ IF bits[x] = {} THEN Sweep("unlink", x) ELSE SweepDone
        /\ UNCHANGED <<postgres, disk, redis, handlers, collector, calls>>

\* Chunks keep it for a day.
SweepCount ==
    LET x == sweeper.tx
    IN  /\ sweeper.step = "count"
        /\ IF bits[x] = {} \/ age[x] = "day" THEN Sweep("unlink", x) ELSE SweepDone
        /\ UNCHANGED <<postgres, disk, redis, handlers, collector, calls>>

SweepUnlink ==
    LET x == sweeper.tx
    IN  /\ sweeper.step = "unlink"
        /\ IF info[x].type = "verify" THEN UNCHANGED disk ELSE Unlinked(x)
        /\ Sweep("delete", x)
        /\ UNCHANGED <<postgres, redis, handlers, collector, calls>>

SweepDelete ==
    /\ sweeper.step = "delete"
    /\ Deleted(sweeper.tx)
    /\ SweepDone
    /\ UNCHANGED <<postgres, disk, handlers, collector, calls>>

Used(c) == \E a \in Asset : assets[a].status = "ready" /\ assets[a].blob = blobs[c]

\* run_blob_cleanup asks main_service which blobs are used,
Collect ==
    LET unused == {c \in Content : blobs[c] # NoBlob /\ ~Used(c)}
    IN  /\ "blobs" \in Workers
        /\ collector.step = "idle"
        /\ unused # {}
        /\ collector' = [step |-> "delete", rows |-> {<<c, blobs[c]>> : c \in unused}]
        /\ UNCHANGED <<postgres, disk, redis, handlers, sweeper, calls>>

\* Not the code: nothing restricts the delete.
CollectUsed ==
    /\ collector.step = "delete"
    /\ blobs' = [c \in Content |-> IF <<c, blobs[c]>> \in collector.rows THEN NoBlob ELSE blobs[c]]
    /\ collector' = [step |-> "unlink", rows |-> {r \in collector.rows : blobs[r[1]] = r[2]}]
    /\ UNCHANGED <<assets, made, disk, redis, handlers, sweeper, calls>>

\* deletes the rows of the others - all, or none when an asset uses one by now (RESTRICT) -
CollectDelete ==
    LET rows == {r \in collector.rows : blobs[r[1]] = r[2]}
    IN  /\ collector.step = "delete"
        /\ IF \E r \in rows : Used(r[1])
           THEN collector' = [step |-> "idle"] /\ UNCHANGED blobs
           ELSE /\ blobs' = [c \in Content |-> IF <<c, blobs[c]>> \in rows THEN NoBlob ELSE blobs[c]]
                /\ collector' = [step |-> "unlink", rows |-> rows]
        /\ UNCHANGED <<assets, made, disk, redis, handlers, sweeper, calls>>

\* and removes the files of the rows deleted.
CollectUnlink ==
    /\ collector.step = "unlink"
    /\ \/ \E r \in collector.rows :
            /\ Removed(r[1])
            /\ collector' = [collector EXCEPT !.rows = @ \ {r}]
       \/ /\ collector.rows = {}
          /\ collector' = [step |-> "idle"]
          /\ UNCHANGED disk
    /\ UNCHANGED <<postgres, redis, handlers, sweeper, calls>>
-----------------------------------------------------------------------------
HandlerStep(h) ==
    \/ Load(h) \/ Forget(h)
    \/ InitLookup(h) \/ InitCreate(h) \/ InitActivity(h)
    \/ Lookup(h) \/ Compare(h) \/ OpenStored(h) \/ WriteStored(h)
    \/ Acquire(h) \/ Refuse(h) \/ GetMeta(h) \/ SetMeta(h) \/ OpenTemp(h) \/ WriteTemp(h) \/ Mark(h)
    \/ Release(h) \/ Reset(h)
    \/ Unlink(h) \/ Count(h) \/ Hash(h) \/ Mismatch(h) \/ Rename(h)
    \/ Insert(h) \/ FindAsset(h) \/ BackAsset(h)

SweeperStep == SweepPick \/ SweepGet \/ SweepCount \/ SweepUnlink \/ SweepDelete
CollectorStep == Collect \/ CollectDelete \/ CollectUnlink

Next ==
    \/ \E h \in Handler : BeginInit(h) \/ Begin(h) \/ HandlerStep(h) \/ Lose(h)
    \/ \E a \in Asset : CreateAsset(a) \/ Abandon(a)
    \/ \E x \in Tx : Pass(x) \/ ExpireSlots(x)
    \/ Land \/ SweeperStep \/ CollectorStep

Spec == Init /\ [][Next]_vars

\* Requests go on, time passes and the cron jobs run.
FairSpec ==
    /\ Spec
    /\ \A h \in Handler : WF_vars(HandlerStep(h))
    /\ \A x \in Tx : WF_vars(Pass(x))
    /\ WF_vars(SweeperStep)
-----------------------------------------------------------------------------
(* Properties. *)

TypeOK ==
    /\ blobs \in [Content -> 0 .. made]
    /\ stored \in [Content -> File \cup {NoFile}]
    /\ temp \in [Tx -> File \cup {NoFile}]
    /\ info \in [Tx -> Meta \cup {NoTx}]
    /\ alive \in [Tx -> BOOLEAN]
    /\ bits \in [Tx -> SUBSET Chunk]
    /\ active \in [Tx -> Int]
    /\ age \in [Tx -> {"none", "recent", "hour", "day"}]
    /\ call \in [Handler -> Request \cup {NoCall}]
    /\ made \in Nat /\ calls \in Nat

\* A ready asset keeps a row of blobs with the content that was announced for it: RESTRICT, the
\* check of complete_upload and blob ids that are never used again, against cleanups, retries and
\* uploads of the same content for other assets.
ReadyIsBacked ==
    \A a \in Asset : assets[a].status = "ready" => blobs[assets[a].content] = assets[a].blob

\* An asset that is ready stays so, with its blob: two completes of it at once and the removal of
\* abandoned uploads leave it as it is.
ReadyIsFinal ==
    [][\A a \in Asset : assets[a].status = "ready" => assets'[a] = assets[a]]_assets

\* A row of blobs stands for a file with its content: "Bytes, addressed by their blake3 hash"
\* (migrations/20261012000000_assets.sql).
StoredIsWhole == \A c \in Content : blobs[c] # NoBlob => stored[c] = FileOf("right")

\* The file a ready asset is served from is there: the cleanup of blobs "cannot remove it from
\* under the asset" (assets/repo.rs).
ReadyHasFile ==
    \A a \in Asset : assets[a].status = "ready" => stored[assets[a].content] = FileOf("right")

\* The chunks Redis has as uploaded are in the temp file; upload_status does not ask for them again.
MarkedIsWritten ==
    \A x \in Tx : alive[x] /\ temp[x] # NoFile => \A k \in bits[x] : temp[x][k] # "zeros"

\* What Redis has as uploaded is in the file, and what is stored is what it is stored under.
FilesAreSound == TypeOK /\ MarkedIsWritten /\ StoredIsWhole

\* The chunk requests that have a slot of a transaction, until they give it back.
SlotSteps == {"getMeta", "setMeta", "open", "write", "mark", "release"}
Holders(x) == {h \in On(x) : call[h].op = "chunk" /\ pc[h] \in SlotSteps}

\* While an upload has its temp file no more chunks of it are taken at once than there are slots,
\* however many tries are refused, lost before they gave back what they counted, or repeated: the
\* counter may be too high, never too low.  (It is deleted under requests that hold a slot, and
\* may go below 0, once the file is gone: then they have nothing to write to.)
SlotsAreLimited == \A x \in Tx : temp[x] # NoFile => Cardinality(Holders(x)) <= MaxSlots

\* The temp file of an upload a client was told of is one the cleanup will come to, wherever a
\* request or the service ended: no path forgets the transaction before the file is gone.
TempIsTracked ==
    \A x \in Tx : temp[x] # NoFile /\ info[x] # NoTx /\ info[x].told => alive[x] /\ age[x] # "none"

\* The cleanup does come to it: files of uploads that are not finished do not stay.
TempIsCleaned ==
    \A x \in Tx : (info[x] # NoTx /\ info[x].told /\ temp[x] # NoFile) ~> (temp[x] = NoFile)

=============================================================================
