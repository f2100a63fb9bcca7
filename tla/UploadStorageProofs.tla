------------------------ MODULE UploadStorageProofs ------------------------
(***************************************************************************)
(* What holds of uploads for any number of assets, contents, chunks,       *)
(* transactions, requests and slots, with every cleanup running, requests  *)
(* that end at any await and writes that land late.                        *)
(*                                                                         *)
(* Three invariants, each inductive: Typed, the types; BackInv, which      *)
(* follows a blob from its lookup or insert to the asset it completes; and *)
(* TrackInv, which follows a transaction from the request that makes it to *)
(* the step that deletes it.                                               *)
(*                                                                         *)
(* Then the files, in three more, each on top of the one before.  SlotInv  *)
(* counts the requests that hold a slot of an upload.  MarkInv, when       *)
(* writes land in time, follows an open file from the request that opened  *)
(* it to the chunk it marks.  WholeInv, when clients are patient too and   *)
(* no blob is collected, follows what is stored to the row of blobs that   *)
(* stands for it.                                                          *)
(***************************************************************************)
EXTENDS UploadStorage, FiniteSetTheorems, TLAPS

Pcs == {"idle", "init", "create", "createVerify", "activity", "load", "lookup", "compare", "open",
        "write", "acquire", "refuse", "getMeta", "setMeta", "mark", "release", "reset", "unlink", "count",
        "hash", "mismatch", "rename", "insert", "asset", "back",
        "forget", "forgetInsert", "forgetAsset"}
AssetRow == {NoAsset} \cup [status : {"pending"}, content : Content]
            \cup [status : {"ready"}, content : Content, blob : Nat] \cup [status : {"gone"}]
Fd == [by : Handler \cup {NoCall}, tx : Tx, content : Content, at : {"temp", "assets", "gone"},
       chunks : SUBSET Chunk, data : {"right", "wrong"}]
Sweeping == [step : {"idle"}] \cup [step : {"get", "count", "unlink", "delete"}, tx : Tx]
Collecting == [step : {"idle"}] \cup [step : {"delete", "unlink"}, rows : SUBSET (Content \X Nat)]

\* The types, in the parts that a step leaves alone or changes.
Tables == assets \in [Asset -> AssetRow] /\ blobs \in [Content -> Nat] /\ made \in Nat
Keys ==
    /\ info \in [Tx -> Meta \cup {NoTx}]
    /\ alive \in [Tx -> BOOLEAN]
    /\ age \in [Tx -> {"none", "recent", "hour", "day"}]
Files ==
    /\ temp \in [Tx -> File \cup {NoFile}]
    /\ stored \in [Content -> File \cup {NoFile}]
    /\ fds \subseteq Fd
    /\ \A f \in fds : /\ f.at = "temp" => temp[f.tx] # NoFile
                      /\ f.at = "assets" => stored[f.content] # NoFile
Requests ==
    /\ pc \in [Handler -> Pcs]
    /\ call \in [Handler -> Request \cup {NoCall}]
    /\ blob \in [Handler -> Nat]
    /\ \A h \in Handler : pc[h] = "idle" <=> call[h] = NoCall
    /\ \A h \in Handler : pc[h] = "activity" => info[call[h].tx] # NoTx
    /\ \A h \in Handler : pc[h] = "load" => call[h].op # "init"
    /\ calls \in Nat
\* The steps a request goes on to, but for the last of upload_init.
Steps == Pcs \ {"idle", "load", "activity"}
Typed ==
    Tables /\ Keys /\ Files /\ Requests /\ sweeper \in Sweeping /\ collector \in Collecting

\* What a request has: its transaction, asset and content; a chunk and data unless it is the init.
LEMMA RequestHas ==
    ASSUME NEW r \in Request
    PROVE  /\ r.tx \in Tx /\ r.asset \in Asset /\ r.content \in Content /\ r.op \in AllOps
           /\ r.op # "init" => r.chunk \in Chunk /\ r.data \in {"right", "wrong"}
  BY DEF Request, AllOps

\* A request that runs is one.
LEMMA RunningHas ==
    ASSUME Requests, NEW h \in Handler, pc[h] # "idle"
    PROVE  call[h] \in Request
  BY DEF Requests

\* Going on and ending keep the types of the requests.
LEMMA GotoKeepsRequests ==
    ASSUME Requests, NEW h \in Handler, pc[h] # "idle", NEW s \in Steps, Goto(h, s),
           UNCHANGED <<calls, info>>
    PROVE  Requests'
  BY DEF Requests, Goto, Steps
LEMMA LeaveKeepsRequests ==
    ASSUME Requests, NEW h \in Handler, Leave(h), UNCHANGED <<calls, info>>
    PROVE  Requests'
  BY DEF Requests, Leave, Pcs, NoBlob
LEMMA StartKeepsRequests ==
    ASSUME Requests, NEW h \in Handler, NEW c \in Request, NEW s \in {"init", "load"}, Start(h, c, s),
           s = "load" => c.op # "init"
    PROVE  Requests'
  BY NoValueAssumption DEF Requests, Start, Pcs, redis

\* A step that reads, or that returns, keeps the types.
LEMMA ReadKeepsTyped ==
    ASSUME Typed, NEW h \in Handler, pc[h] # "idle", NEW s \in Steps, Goto(h, s),
           UNCHANGED <<postgres, disk, redis, sweeper, collector, calls>>
    PROVE  Typed'
  <1>1. Requests'
    BY GotoKeepsRequests DEF Typed, redis
  <1>2. QED
    BY <1>1 DEF Typed, Tables, Keys, Files, postgres, disk, redis
LEMMA ReturnKeepsTyped ==
    ASSUME Typed, NEW h \in Handler, Return(h)
    PROVE  Typed'
  <1>1. Requests'
    BY LeaveKeepsRequests DEF Typed, Return, redis
  <1>2. QED
    BY <1>1 DEF Typed, Tables, Keys, Files, Return, Close, postgres, redis

\* What a written file has at each chunk is the write's or what it had.
LEMMA LandedKeepsFiles ==
    ASSUME Files, NEW f \in fds, Landed(f), fds' \subseteq Fd,
           \A g \in fds' : \E e \in fds : g.at = e.at /\ g.tx = e.tx /\ g.content = e.content
    PROVE  Files'
  <1> DEFINE Over(file) == [k \in Chunk |-> IF k \in f.chunks THEN f.data ELSE file[k]]
  <1>1. \A file \in File : Over(file) \in File /\ Over(file) # NoFile
    BY NoValueAssumption DEF File, Fd, Files
  <1> HIDE DEF Over
  <1>2. /\ temp' = IF f.at = "temp" THEN [temp EXCEPT ![f.tx] = Over(@)] ELSE temp
        /\ stored' = IF f.at = "assets" THEN [stored EXCEPT ![f.content] = Over(@)] ELSE stored
    BY DEF Landed, Over
  <1>3. f.tx \in Tx /\ f.content \in Content
    BY DEF Fd, Files
  <1>4. /\ temp' \in [Tx -> File \cup {NoFile}] /\ stored' \in [Content -> File \cup {NoFile}]
        /\ \A x \in Tx : temp[x] # NoFile => temp'[x] # NoFile
        /\ \A c \in Content : stored[c] # NoFile => stored'[c] # NoFile
    <2>1. CASE f.at = "temp"
      <3>1. temp' = [temp EXCEPT ![f.tx] = Over(temp[f.tx])] /\ stored' = stored
        BY <1>2, <2>1
      <3>2. temp[f.tx] \in File
        BY <1>3, <2>1 DEF Files
      <3>3. Over(temp[f.tx]) \in File /\ Over(temp[f.tx]) # NoFile
        BY <1>1, <3>2
      <3>4. QED
        BY <1>3, <3>1, <3>3 DEF Files
    <2>2. CASE f.at = "assets"
      <3>1. stored' = [stored EXCEPT ![f.content] = Over(stored[f.content])] /\ temp' = temp
        BY <1>2, <2>2
      <3>2. Over(stored[f.content]) \in File /\ Over(stored[f.content]) # NoFile
        BY <1>1, <1>3, <2>2 DEF Files
      <3>3. QED
        BY <1>3, <3>1, <3>2 DEF Files
    <2>3. CASE f.at = "gone"
      BY <1>2, <2>3 DEF Files
    <2>4. QED
      BY <2>1, <2>2, <2>3 DEF Files, Fd
  <1>5. \A g \in fds : g.tx \in Tx /\ g.content \in Content
    BY DEF Files, Fd
  <1>6. QED
    BY <1>4, <1>5 DEF Files

\* unlink and rename keep the types: what is open is not at the place its file left.
LEMMA UnlinkedKeepsFiles ==
    ASSUME Files, NEW x \in Tx, Unlinked(x)
    PROVE  Files'
  <1>1. fds' \subseteq Fd
    BY DEF Files, Unlinked, Fd
  <1>2. \A g \in fds' : g.at = "temp" => g \in fds /\ g.tx # x
    BY DEF Files, Unlinked, Fd
  <1>3. \A g \in fds' : g.at = "assets" => g \in fds
    BY DEF Files, Unlinked, Fd
  <1>4. QED
    BY <1>1, <1>2, <1>3 DEF Files, Unlinked, Fd
LEMMA RemovedKeepsFiles ==
    ASSUME Files, NEW c \in Content, Removed(c)
    PROVE  Files'
  <1>1. fds' \subseteq Fd
    BY DEF Files, Removed, Fd
  <1>2. \A g \in fds' : g.at = "assets" => g \in fds /\ g.content # c
    BY DEF Files, Removed, Fd
  <1>3. \A g \in fds' : g.at = "temp" => g \in fds
    BY DEF Files, Removed, Fd
  <1>4. QED
    BY <1>1, <1>2, <1>3 DEF Files, Removed, Fd
LEMMA RenamedKeepsFiles ==
    ASSUME Files, NEW x \in Tx, NEW c \in Content, temp[x] # NoFile, Renamed(x, c)
    PROVE  Files'
  <1>1. \A g \in fds' : g \in Fd /\ \/ g.at = "assets" /\ g.content = c
                                    \/ g.at = "gone"
                                    \/ g \in fds /\ (g.at = "temp" => g.tx # x)
    <2> SUFFICES ASSUME NEW f \in fds,
                        NEW g, g = CASE f.at = "temp" /\ f.tx = x -> [f EXCEPT !.at = "assets", !.content = c]
                                     [] f.at = "assets" /\ f.content = c -> [f EXCEPT !.at = "gone"]
                                     [] OTHER -> f
                 PROVE  g \in Fd /\ \/ g.at = "assets" /\ g.content = c
                                    \/ g.at = "gone"
                                    \/ g \in fds /\ (g.at = "temp" => g.tx # x)
      BY DEF Renamed
    <2>1. f \in Fd
      BY DEF Files
    <2>2. CASE f.at = "temp" /\ f.tx = x
      <3>1. g = [f EXCEPT !.at = "assets", !.content = c]
        BY <2>2
      <3>2. QED
        BY <2>1, <3>1 DEF Fd
    <2>3. CASE f.at = "assets" /\ f.content = c
      <3>1. g = [f EXCEPT !.at = "gone"]
        BY <2>3
      <3>2. QED
        BY <2>1, <3>1 DEF Fd
    <2>4. CASE ~(f.at = "temp" /\ f.tx = x) /\ ~(f.at = "assets" /\ f.content = c)
      BY <2>1, <2>4
    <2>5. QED
      BY <2>2, <2>3, <2>4
  <1>2. /\ stored' = [stored EXCEPT ![c] = temp[x]] /\ temp' = [temp EXCEPT ![x] = NoFile]
    BY DEF Renamed
  <1>3. \A g \in Fd : g.tx \in Tx /\ g.content \in Content
    BY DEF Fd
  <1>4. QED
    BY <1>1, <1>2, <1>3 DEF Files

\* Opening does, where the file is.
LEMMA OpenedIsFd ==
    ASSUME Files, Requests, NEW h \in Handler, pc[h] # "idle", call[h].op # "init",
           NEW at \in {"temp", "assets"}, NEW chunks \in SUBSET Chunk, Opened(h, at, chunks)
    PROVE  /\ fds' \subseteq Fd
           /\ \A g \in fds' \ fds : g.at = at /\ g.tx = call[h].tx /\ g.content = call[h].content
  <1>1. call[h] \in Request
    BY RunningHas
  <1>2. /\ call[h].tx \in Tx /\ call[h].content \in Content /\ call[h].data \in {"right", "wrong"}
    BY <1>1, RequestHas
  <1>3. QED
    BY <1>2 DEF Opened, Fd, Files
-----------------------------------------------------------------------------
(* Every step keeps the types. *)

LEMMA InitTyped == Init => Typed
  <1> SUFFICES ASSUME Init PROVE Typed
    OBVIOUS
  <1>1. Tables
    BY DEF Init, Tables, AssetRow, NoBlob
  <1>2. Keys
    BY DEF Init, Keys
  <1>3. Files
    BY DEF Init, Files
  <1>4. Requests
    BY DEF Init, Requests, Pcs, NoBlob
  <1>5. QED
    BY <1>1, <1>2, <1>3, <1>4 DEF Init, Typed, Sweeping, Collecting

LEMMA BeginKeepsTyped ==
    ASSUME Typed, NEW h \in Handler, BeginInit(h) \/ Begin(h)
    PROVE  Typed'
  <1>1. \E c \in Request, s \in {"init", "load"} :
           Start(h, c, s) /\ (s = "load" => c.op # "init")
    <2>1. CASE BeginInit(h)
      BY <2>1 DEF BeginInit, Request
    <2>2. CASE Begin(h)
      <3>1. PICK op \in Ops \ {"init"}, x \in Tx, k \in Chunk, d \in {"right", "wrong"} :
              /\ info[x] # NoTx
              /\ Start(h, [op |-> op, tx |-> x, asset |-> info[x].asset, content |-> info[x].content,
                           chunk |-> k, data |-> d], "load")
        BY <2>2 DEF Begin
      <3>2. info[x].asset \in Asset /\ info[x].content \in Content
        BY <3>1 DEF Typed, Keys, Meta
      <3>3. op \in AllOps \ {"init"}
        BY UploadAssumption
      <3>4. QED
        BY <3>1, <3>2, <3>3 DEF Request
    <2>3. QED
      BY <2>1, <2>2
  <1>2. PICK c \in Request, s \in {"init", "load"} :
           Start(h, c, s) /\ (s = "load" => c.op # "init")
    BY <1>1
  <1>3. Requests'
    BY <1>2, StartKeepsRequests DEF Typed
  <1>4. QED
    BY <1>2, <1>3 DEF Typed, Start, Tables, Keys, Files, postgres, disk, redis

\* Steps that read.
LEMMA LoadReads ==
    ASSUME Typed, NEW h \in Handler, Load(h)
    PROVE  \/ Return(h)
           \/ /\ pc[h] # "idle" /\ \E s \in Steps : Goto(h, s)
              /\ UNCHANGED <<postgres, disk, redis, sweeper, collector, calls>>
  <1>1. call[h].op \in AllOps
    BY RequestHas, RunningHas DEF Load, At, Typed
  <1>2. QED
    BY <1>1 DEF Load, At, Pcs, Steps, AllOps, Typed, Requests
LEMMA ReadsKeepTyped ==
    ASSUME Typed, NEW h \in Handler,
           \/ Load(h) \/ Compare(h) \/ GetMeta(h) \/ Count(h) \/ Hash(h) \/ FindAsset(h) \/ Lose(h)
    PROVE  Typed'
  <1>1. \/ Return(h)
        \/ /\ pc[h] # "idle" /\ \E s \in Steps : Goto(h, s)
           /\ UNCHANGED <<postgres, disk, redis, sweeper, collector, calls>>
    <2>1. CASE Load(h)
      BY <2>1, LoadReads
    <2>2. CASE Compare(h) \/ GetMeta(h) \/ Count(h) \/ Hash(h) \/ FindAsset(h)
      BY <2>2 DEF Compare, GetMeta, Count, Hash, FindAsset, At, Pcs, Steps
    <2>3. CASE Lose(h)
      BY <2>3 DEF Lose
    <2>4. QED
      BY <2>1, <2>2, <2>3
  <1>2. QED
    BY <1>1, ReadKeepsTyped, ReturnKeepsTyped

\* Steps on Redis.
LEMMA InitCreateKeepsTyped ==
    ASSUME Typed, NEW h \in Handler, InitCreate(h)
    PROVE  Typed'
  <1>1. pc[h] # "idle" /\ call[h] \in Request
    BY RunningHas DEF InitCreate, Typed
  <1>2. call[h].tx \in Tx /\ call[h].asset \in Asset /\ call[h].content \in Content
    BY <1>1, RequestHas
  <1>3. PICK m \in Meta : info' = [info EXCEPT ![call[h].tx] = m]
    <2>1. PICK type \in Types : info' =
            [info EXCEPT ![call[h].tx] = [type |-> type, content |-> call[h].content,
                                          asset |-> call[h].asset, told |-> FALSE]]
      BY DEF InitCreate, Types
    <2>2. QED
      BY <1>2, <2>1 DEF Meta
  <1>4. Keys'
    BY <1>2, <1>3 DEF InitCreate, Typed, Keys
  <1>5. \A x \in Tx : x = call[h].tx \/ info[x] # NoTx => info'[x] # NoTx
    BY <1>2, <1>3, NoValueAssumption DEF Typed, Keys
  <1>6. \A g \in Handler : pc[g] # "idle" => call[g].tx \in Tx
    BY RunningHas, RequestHas DEF Typed
  <1>7. Requests'
    BY <1>1, <1>2, <1>5, <1>6 DEF InitCreate, Goto, Typed, Requests, Pcs
  <1>8. QED
    BY <1>4, <1>7 DEF InitCreate, Typed, Tables, Files, postgres, disk

LEMMA InitActivityKeepsTyped ==
    ASSUME Typed, NEW h \in Handler, InitActivity(h)
    PROVE  Typed'
  <1>1. pc[h] # "idle" /\ call[h] \in Request
    BY RunningHas DEF InitActivity, At, Typed
  <1>2. call[h].tx \in Tx
    BY <1>1, RequestHas
  <1>3. info[call[h].tx] \in Meta
    BY <1>2 DEF InitActivity, At, Typed, Requests, Keys
  <1>4. [info[call[h].tx] EXCEPT !.told = TRUE] \in Meta
    BY <1>3 DEF Meta
  <1>5. info' = [info EXCEPT ![call[h].tx] = [info[call[h].tx] EXCEPT !.told = TRUE]]
    BY DEF InitActivity
  <1>6. Keys'
    BY <1>2, <1>4, <1>5 DEF InitActivity, Typed, Keys
  <1>7. \A x \in Tx : info[x] # NoTx => info'[x] # NoTx
    BY <1>2, <1>4, <1>5, NoValueAssumption DEF Typed, Keys
  <1>8. \A g \in Handler : pc[g] # "idle" => call[g].tx \in Tx
    BY RunningHas, RequestHas DEF Typed
  <1>9. Requests'
    BY <1>1, <1>2, <1>7, <1>8 DEF InitActivity, Leave, Typed, Requests, Pcs, NoBlob
  <1>10. QED
    BY <1>6, <1>9 DEF InitActivity, Typed, Tables, Files, postgres, disk

LEMMA RedisStepsKeepTyped ==
    ASSUME Typed, NEW h \in Handler,
           Forget(h) \/ Acquire(h) \/ Refuse(h) \/ SetMeta(h) \/ Mark(h) \/ Release(h) \/ Reset(h)
    PROVE  Typed'
  <1>1. pc[h] # "idle" /\ UNCHANGED <<info, postgres, disk, sweeper, collector, calls>>
    BY DEF Forget, Deleted, Acquire, Refuse, SetMeta, Mark, Release, Reset, At, disk
  <1>2. call[h].tx \in Tx
    BY <1>1, RunningHas, RequestHas DEF Typed
  <1>3. Requests'
    <2>1. Leave(h) \/ \E s \in Steps : Goto(h, s)
      BY DEF Forget, Acquire, Refuse, SetMeta, Mark, Release, Reset, Pcs, Steps, At
    <2>2. QED
      BY <1>1, <2>1, GotoKeepsRequests, LeaveKeepsRequests DEF Typed
  <1>4. Keys'
    BY <1>2 DEF Forget, Deleted, Acquire, Refuse, SetMeta, Mark, Release, Reset, Typed, Keys
  <1>5. QED
    BY <1>1, <1>3, <1>4 DEF Typed, Tables, Files, postgres, disk

\* Steps on the disk.
LEMMA DiskStepsKeepTyped ==
    ASSUME Typed, NEW h \in Handler, pc[h] # "idle", NEW s \in Steps, Goto(h, s), Files',
           UNCHANGED <<postgres, redis, sweeper, collector, calls>>
    PROVE  Typed'
  <1>1. Requests'
    BY GotoKeepsRequests DEF Typed, redis
  <1>2. QED
    BY <1>1 DEF Typed, Tables, Keys, postgres, redis

LEMMA MakingKeepsTyped ==
    ASSUME Typed, NEW h \in Handler, InitLookup(h) \/ OpenStored(h) \/ OpenTemp(h)
    PROVE  Typed'
  <1>1. pc[h] # "idle" /\ call[h] \in Request
    BY RunningHas DEF InitLookup, OpenStored, OpenTemp, At, Typed
  <1>2. call[h].tx \in Tx /\ call[h].content \in Content
    BY <1>1, RequestHas
  <1>3. Zeros \in File /\ Zeros # NoFile
    BY NoValueAssumption DEF Zeros, File
  <1>4. Files'
    <2>1. CASE InitLookup(h)
      BY <1>2, <1>3, <2>1 DEF InitLookup, Typed, Files, Fd
    <2>2. CASE OpenStored(h)
      <3>1. /\ fds' \subseteq Fd
            /\ \A g \in fds' \ fds : g.at = "assets" /\ g.content = call[h].content
        BY <1>1, <2>2, OpenedIsFd DEF OpenStored, Typed
      <3>2. \A g \in fds : g.content \in Content
        BY DEF Typed, Files, Fd
      <3>3. /\ stored' \in [Content -> File \cup {NoFile}] /\ temp' = temp
            /\ stored'[call[h].content] # NoFile
            /\ \A c \in Content : stored[c] # NoFile => stored'[c] # NoFile
        BY <1>2, <1>3, <2>2 DEF OpenStored, Typed, Files
      <3>4. QED
        BY <3>1, <3>2, <3>3 DEF Typed, Files
    <2>3. CASE OpenTemp(h) /\ temp[call[h].tx] = NoFile
      BY <2>3 DEF OpenTemp, Typed, Files
    <2>4. CASE OpenTemp(h) /\ temp[call[h].tx] # NoFile
      <3>1. /\ fds' \subseteq Fd
            /\ \A g \in fds' \ fds : g.at = "temp" /\ g.tx = call[h].tx
        <4>1. Opened(h, "temp", {call[h].chunk}) /\ call[h].op = "chunk"
          BY <2>4 DEF OpenTemp
        <4>2. {call[h].chunk} \in SUBSET Chunk
          BY <1>1, <4>1, RequestHas
        <4>3. QED
          BY <1>1, <4>1, <4>2, OpenedIsFd DEF Typed
      <3>2. QED
        BY <2>4, <3>1 DEF OpenTemp, Typed, Files
    <2>5. QED
      BY <2>1, <2>2, <2>3, <2>4
  <1>5. /\ \E s \in Steps : Goto(h, s)
        /\ UNCHANGED <<postgres, redis, sweeper, collector, calls>>
    BY DEF InitLookup, OpenStored, OpenTemp, Steps, Pcs
  <1>6. QED
    BY <1>1, <1>4, <1>5, DiskStepsKeepTyped

LEMMA WriteKeepsTyped ==
    ASSUME Typed, NEW h \in Handler, WriteStored(h) \/ WriteTemp(h)
    PROVE  Typed'
  <1>1. PICK s \in {"unlink", "mark"} : pc[h] # "idle" /\ WriteAll(h, s)
    BY DEF WriteStored, WriteTemp, At
  <1>2. PICK f \in fds :
          /\ Goto(h, s)
          /\ IF InTime
             THEN fds' = fds \ {f} /\ Landed(f)
             ELSE fds' = (fds \ {f}) \cup {[f EXCEPT !.by = NoCall]} /\ UNCHANGED <<stored, temp>>
          /\ UNCHANGED <<postgres, redis, sweeper, collector, calls>>
    BY <1>1 DEF WriteAll
  <1>3. Files'
    <2>1. CASE InTime
      BY <1>2, <2>1, LandedKeepsFiles DEF Typed, Files
    <2>2. CASE ~InTime
      <3>1. f \in Fd
        BY DEF Typed, Files
      <3>2. /\ [f EXCEPT !.by = NoCall] \in Fd
            /\ [f EXCEPT !.by = NoCall].at = f.at
            /\ [f EXCEPT !.by = NoCall].tx = f.tx
            /\ [f EXCEPT !.by = NoCall].content = f.content
        BY <3>1 DEF Fd
      <3>3. QED
        BY <1>2, <2>2, <3>2 DEF Typed, Files
    <2>3. QED
      BY <2>1, <2>2
  <1>4. QED
    BY <1>1, <1>2, <1>3, DiskStepsKeepTyped DEF Steps, Pcs

LEMMA MovingKeepsTyped ==
    ASSUME Typed, NEW h \in Handler, Unlink(h) \/ Mismatch(h) \/ Rename(h)
    PROVE  Typed'
  <1>1. CASE Return(h)
    BY <1>1, ReturnKeepsTyped
  <1>2. CASE ~Return(h)
    <2>1. pc[h] # "idle" /\ call[h] \in Request
      BY RunningHas DEF Unlink, Mismatch, Rename, At, Typed
    <2>2. call[h].tx \in Tx /\ call[h].content \in Content
      BY <2>1, RequestHas
    <2>3. Files'
      BY <1>2, <2>2, UnlinkedKeepsFiles, RenamedKeepsFiles DEF Unlink, Mismatch, Rename, Typed
    <2>4. /\ \E s \in Steps : Goto(h, s)
          /\ UNCHANGED <<postgres, redis, sweeper, collector, calls>>
      BY <1>2 DEF Unlink, Mismatch, Rename, Steps, Pcs
    <2>5. QED
      BY <2>1, <2>3, <2>4, DiskStepsKeepTyped
  <1>3. QED
    BY <1>1, <1>2

\* Steps on the tables.
LEMMA LookupKeepsTyped ==
    ASSUME Typed, NEW h \in Handler, Lookup(h)
    PROVE  Typed'
  <1>1. CASE Return(h)
    BY <1>1, ReturnKeepsTyped
  <1>2. CASE ~Return(h)
    <2>1. pc[h] # "idle" /\ call[h].content \in Content
      BY RunningHas, RequestHas DEF Lookup, At, Typed
    <2>2. /\ blob' = [blob EXCEPT ![h] = blobs[call[h].content]] /\ blobs[call[h].content] \in Nat
          /\ \E s \in Steps : pc' = [pc EXCEPT ![h] = s]
          /\ UNCHANGED <<postgres, disk, redis, call, sweeper, collector, calls>>
      BY <1>2, <2>1 DEF Lookup, Steps, Pcs, Typed, Tables
    <2>3. Requests'
      BY <2>1, <2>2 DEF Typed, Requests, Steps, redis
    <2>4. QED
      BY <2>2, <2>3 DEF Typed, Tables, Keys, Files, postgres, disk, redis
  <1>3. QED
    BY <1>1, <1>2

LEMMA InsertKeepsTyped ==
    ASSUME Typed, NEW h \in Handler, Insert(h)
    PROVE  Typed'
  <1>1. CASE Return(h)
    BY <1>1, ReturnKeepsTyped
  <1>2. CASE ~Return(h)
    <2>1. pc[h] # "idle" /\ call[h].content \in Content
      BY RunningHas, RequestHas DEF Insert, At, Typed
    <2>2. /\ made' = made + 1 /\ blobs' = [blobs EXCEPT ![call[h].content] = made']
          /\ blob' = [blob EXCEPT ![h] = made']
          /\ \E s \in Steps : pc' = [pc EXCEPT ![h] = s]
          /\ UNCHANGED <<assets, disk, redis, call, sweeper, collector, calls>>
      BY <1>2, <2>1 DEF Insert, Steps, Pcs
    <2>3. Requests'
      BY <2>1, <2>2 DEF Typed, Requests, Tables, Steps, redis
    <2>4. Tables'
      BY <2>1, <2>2 DEF Typed, Tables
    <2>5. QED
      BY <2>2, <2>3, <2>4 DEF Typed, Keys, Files, disk, redis
  <1>3. QED
    BY <1>1, <1>2

\* A waiting asset names its content.
LEMMA PendingHasContent ==
    ASSUME Typed, NEW a \in Asset, assets[a].status = "pending"
    PROVE  assets[a].content \in Content
  <1>1. assets[a] \in AssetRow
    BY DEF Typed, Tables
  <1>2. QED
    BY <1>1 DEF AssetRow, NoAsset

LEMMA BackAssetKeepsTyped ==
    ASSUME Typed, NEW h \in Handler, BackAsset(h)
    PROVE  Typed'
  <1>1. CASE Return(h)
    BY <1>1, ReturnKeepsTyped
  <1>2. CASE ~Return(h)
    <2>1. pc[h] # "idle" /\ call[h].asset \in Asset
      BY RunningHas, RequestHas DEF BackAsset, At, Typed
    <2>2. /\ assets' = [assets EXCEPT ![call[h].asset] =
                          [status |-> "ready", content |-> assets[call[h].asset].content, blob |-> blob[h]]]
          /\ assets[call[h].asset].status = "pending"
          /\ Leave(h) /\ UNCHANGED <<blobs, made, disk, redis, sweeper, collector, calls>>
      BY <1>2 DEF BackAsset
    <2>3. assets[call[h].asset].content \in Content /\ blob[h] \in Nat
      BY <2>1, <2>2, PendingHasContent DEF Typed, Requests
    <2>4. [status |-> "ready", content |-> assets[call[h].asset].content, blob |-> blob[h]] \in AssetRow
      BY <2>3 DEF AssetRow
    <2>5. Tables'
      BY <2>1, <2>2, <2>4 DEF Typed, Tables
    <2>6. Requests'
      BY <2>2, LeaveKeepsRequests DEF Typed, redis
    <2>7. QED
      BY <2>2, <2>5, <2>6 DEF Typed, Keys, Files, disk, redis
  <1>3. QED
    BY <1>1, <1>2

LEMMA AssetStepsKeepTyped ==
    ASSUME Typed, NEW a \in Asset, CreateAsset(a) \/ Abandon(a)
    PROVE  Typed'
  <1>1. Tables'
    BY DEF CreateAsset, Abandon, Typed, Tables, AssetRow
  <1>2. QED
    BY <1>1 DEF CreateAsset, Abandon, Typed, Requests, Keys, Files, disk, redis, handlers

\* Time and the cleanups.
LEMMA TimeKeepsTyped ==
    ASSUME Typed, NEW x \in Tx, Pass(x) \/ ExpireSlots(x)
    PROVE  Typed'
  <1>1. Keys'
    BY DEF Pass, ExpireSlots, Typed, Keys
  <1>2. QED
    BY <1>1 DEF Pass, ExpireSlots, Typed, Requests, Tables, Files, disk, postgres, handlers

LEMMA SweeperKeepsTyped ==
    ASSUME Typed, SweeperStep
    PROVE  Typed'
  <1>1. CASE SweepPick
    <2>1. sweeper' \in Sweeping
      BY <1>1 DEF SweepPick, Sweep, Sweeping
    <2>2. QED
      BY <1>1, <2>1 DEF SweepPick, Typed, Requests, Keys, Tables, Files, disk, redis, postgres, handlers
  <1>2. CASE SweepGet \/ SweepCount \/ SweepUnlink \/ SweepDelete
    <2>1. sweeper.tx \in Tx
      BY <1>2 DEF SweepGet, SweepCount, SweepUnlink, SweepDelete, Typed, Sweeping
    <2>2. sweeper' \in Sweeping
      BY <1>2, <2>1 DEF SweepGet, SweepCount, SweepUnlink, SweepDelete, Sweep, SweepDone, Sweeping
    <2>3. Keys'
      BY <1>2, <2>1 DEF SweepGet, SweepCount, SweepUnlink, SweepDelete, Deleted, Typed, Keys, redis
    <2>4. Files'
      BY <1>2, <2>1, UnlinkedKeepsFiles
         DEF SweepGet, SweepCount, SweepUnlink, SweepDelete, Typed, Files, disk
    <2>5. UNCHANGED <<postgres, info, handlers, calls, collector>>
      BY <1>2 DEF SweepGet, SweepCount, SweepUnlink, SweepDelete, Deleted, redis
    <2>6. QED
      BY <2>2, <2>3, <2>4, <2>5 DEF Typed, Requests, Tables, postgres, handlers
  <1>3. QED
    BY <1>1, <1>2 DEF SweeperStep

LEMMA CollectorKeepsTyped ==
    ASSUME Typed, CollectorStep
    PROVE  Typed'
  <1>1. CASE Collect
    <2>1. {<<c, blobs[c]>> : c \in {d \in Content : blobs[d] # NoBlob /\ ~Used(d)}} \subseteq Content \X Nat
      BY DEF Typed, Tables
    <2>2. collector' \in Collecting
      BY <1>1, <2>1 DEF Collect, Collecting
    <2>3. UNCHANGED <<postgres, disk, redis, handlers, sweeper, calls>>
      BY <1>1 DEF Collect
    <2>4. QED
      BY <2>2, <2>3 DEF Typed, Requests, Keys, Tables, Files, disk, redis, postgres, handlers
  <1>2. CASE CollectDelete
    <2>1. {r \in collector.rows : blobs[r[1]] = r[2]} \subseteq Content \X Nat
      BY <1>2 DEF CollectDelete, Typed, Collecting
    <2>2. collector' \in Collecting
      BY <1>2, <2>1 DEF CollectDelete, Collecting
    <2>3. Tables'
      <3>1. \/ UNCHANGED blobs
            \/ \E R : blobs' = [c \in Content |-> IF <<c, blobs[c]>> \in R THEN NoBlob ELSE blobs[c]]
        BY <1>2 DEF CollectDelete
      <3>2. \A c \in Content : NoBlob \in Nat /\ blobs[c] \in Nat
        BY DEF Typed, Tables, NoBlob
      <3>3. blobs' \in [Content -> Nat]
        BY <3>1, <3>2 DEF Typed, Tables
      <3>4. QED
        BY <1>2, <3>3 DEF CollectDelete, Typed, Tables
    <2>4. QED
      BY <1>2, <2>2, <2>3 DEF CollectDelete, Typed, Requests, Keys, Files, disk, redis, handlers
  <1>3. CASE CollectUnlink
    <2>1. collector.rows \subseteq Content \X Nat /\ collector \in Collecting
      BY <1>3 DEF CollectUnlink, Typed, Collecting
    <2>2. Files'
      BY <1>3, <2>1, RemovedKeepsFiles DEF CollectUnlink, Typed, Files, disk
    <2>3. collector' \in Collecting
      BY <1>3, <2>1 DEF CollectUnlink, Collecting
    <2>4. QED
      BY <1>3, <2>2, <2>3 DEF CollectUnlink, Typed, Requests, Keys, Tables, redis, postgres, handlers
  <1>4. QED
    BY <1>1, <1>2, <1>3 DEF CollectorStep

LEMMA LandKeepsTyped ==
    ASSUME Typed, Land
    PROVE  Typed'
  <1>1. Files'
    BY LandedKeepsFiles DEF Land, Typed, Files
  <1>2. QED
    BY <1>1 DEF Land, Typed, Requests, Keys, Tables, redis, postgres, handlers

LEMMA NextKeepsTyped == Typed /\ [Next]_vars => Typed'
  <1> SUFFICES ASSUME Typed, [Next]_vars PROVE Typed'
    OBVIOUS
  <1>1. ASSUME NEW h \in Handler, HandlerStep(h)
        PROVE  Typed'
    BY <1>1, ReadsKeepTyped, InitCreateKeepsTyped, InitActivityKeepsTyped, RedisStepsKeepTyped,
       MakingKeepsTyped, WriteKeepsTyped, MovingKeepsTyped, LookupKeepsTyped, InsertKeepsTyped,
       BackAssetKeepsTyped
       DEF HandlerStep
  <1>2. CASE UNCHANGED vars
    BY <1>2 DEF vars, Typed, Requests, Keys, Tables, Files
  <1>3. QED
    BY <1>1, <1>2, BeginKeepsTyped, ReadsKeepTyped, AssetStepsKeepTyped, TimeKeepsTyped,
       LandKeepsTyped, SweeperKeepsTyped, CollectorKeepsTyped
       DEF Next

\* The types of tables, keys, files and requests: a request never works on a transaction, an asset
\* or a content there is not.
THEOREM UploadsAreTyped == Spec => []Typed
  BY InitTyped, NextKeepsTyped, PTL DEF Spec
-----------------------------------------------------------------------------
(* ReadyIsBacked.  A request that is about to complete an asset has a blob *)
(* (HasBlob) and saw that the asset waits for this content (Matches).      *)

HasBlob(h) == pc[h] \in {"compare", "forgetAsset", "asset", "back"} => blob[h] # NoBlob
Matches(h) ==
    pc[h] = "back" =>
        LET asset == assets[call[h].asset]
        IN  /\ asset.status # "none"
            /\ asset.status = "pending" => asset.content = call[h].content
ReadyHasBlob == \A a \in Asset : assets[a].status = "ready" => assets[a].blob # NoBlob

BackInv ==
    /\ Typed
    /\ \A h \in Handler : HasBlob(h) /\ Matches(h)
    /\ ReadyHasBlob /\ ReadyIsBacked

\* A request's step that leaves the tables alone and keeps what is said of the request.
LEMMA OneRequestKeepsBackInv ==
    ASSUME BackInv, Typed', NEW h \in Handler, HasBlob(h)', Matches(h)', UNCHANGED <<assets, blobs>>,
           \A g \in Handler \ {h} : pc'[g] = pc[g] /\ call'[g] = call[g] /\ blob'[g] = blob[g]
    PROVE  BackInv'
  <1>1. ASSUME NEW g \in Handler PROVE HasBlob(g)' /\ Matches(g)'
    <2>1. CASE g = h
      BY <2>1
    <2>2. CASE g # h
      BY <2>2 DEF BackInv, HasBlob, Matches
    <2>3. QED
      BY <2>1, <2>2
  <1>2. QED
    BY <1>1 DEF BackInv, ReadyHasBlob, ReadyIsBacked

LEMMA GotoKeepsBackInv ==
    ASSUME BackInv, Typed', NEW h \in Handler, NEW s, Goto(h, s), UNCHANGED <<assets, blobs>>,
           s \in {"compare", "forgetAsset", "asset", "back"} => blob[h] # NoBlob,
           s # "back"
    PROVE  BackInv'
  <1>1. HasBlob(h)' /\ Matches(h)'
    BY DEF Goto, HasBlob, Matches, BackInv, Typed, Requests
  <1>2. QED
    BY <1>1, OneRequestKeepsBackInv DEF Goto, BackInv, Typed, Requests
LEMMA LeaveKeepsBackInv ==
    ASSUME BackInv, Typed', NEW h \in Handler, Leave(h), UNCHANGED <<assets, blobs>>
    PROVE  BackInv'
  <1>1. HasBlob(h)' /\ Matches(h)'
    BY DEF Leave, HasBlob, Matches, BackInv, Typed, Requests
  <1>2. QED
    BY <1>1, OneRequestKeepsBackInv DEF Leave, BackInv, Typed, Requests

\* Most steps neither find nor complete anything.
LEMMA PlainStepsKeepBackInv ==
    ASSUME BackInv, Typed', NEW h \in Handler,
           \/ Load(h) \/ Forget(h) \/ InitLookup(h) \/ InitCreate(h) \/ InitActivity(h)
           \/ Compare(h) \/ OpenStored(h) \/ WriteStored(h)
           \/ Acquire(h) \/ Refuse(h) \/ GetMeta(h) \/ SetMeta(h) \/ OpenTemp(h) \/ WriteTemp(h) \/ Mark(h)
           \/ Release(h) \/ Reset(h)
           \/ Unlink(h) \/ Count(h) \/ Hash(h) \/ Mismatch(h) \/ Rename(h) \/ Lose(h)
    PROVE  BackInv'
  <1>1. UNCHANGED <<assets, blobs>>
    BY DEF Load, Forget, InitLookup, InitCreate, InitActivity, Compare, OpenStored, WriteStored,
           WriteAll, Acquire, Refuse, GetMeta, SetMeta, OpenTemp, WriteTemp, Mark, Release, Reset, Unlink,
           Count, Hash, Mismatch, Rename, Lose, Return, postgres
  <1>2. CASE Load(h)
    <2>1. call[h].op \in AllOps \ {"init"}
      BY <1>2, RunningHas, RequestHas DEF Load, At, BackInv, Typed, Requests
    <2>2. \/ Leave(h)
          \/ \E s \in {"lookup", "acquire", "count", "forget", "unlink"} : Goto(h, s)
      BY <1>2, <2>1 DEF Load, Return, AllOps
    <2>3. QED
      BY <1>1, <2>2, GotoKeepsBackInv, LeaveKeepsBackInv
  <1>3. CASE Forget(h) \/ Compare(h)
    <2>1. HasBlob(h)
      BY DEF BackInv
    <2>2. \/ Leave(h) \/ Goto(h, "insert") \/ Goto(h, "forget")
          \/ blob[h] # NoBlob /\ \E s \in {"asset", "forgetAsset"} : Goto(h, s)
      BY <1>3, <2>1 DEF Forget, Compare, At, Return, HasBlob
    <2>3. QED
      BY <1>1, <2>2, GotoKeepsBackInv, LeaveKeepsBackInv
  <1>4. CASE ~(Load(h) \/ Forget(h) \/ Compare(h))
    <2>1. \/ Leave(h)
          \/ \E s \in {"create", "createVerify", "activity", "write", "unlink", "refuse", "getMeta",
                       "setMeta", "open", "mark", "release", "reset", "insert", "forget", "hash", "rename",
                       "mismatch", "forgetInsert"} : Goto(h, s)
      BY <1>4 DEF InitLookup, InitCreate, InitActivity, OpenStored, WriteStored, WriteAll, Acquire,
           Refuse, GetMeta, SetMeta, OpenTemp, WriteTemp, Mark, Release, Reset, Unlink, Count, Hash,
           Mismatch, Rename, Lose, Return
    <2>2. QED
      BY <1>1, <2>1, GotoKeepsBackInv, LeaveKeepsBackInv
  <1>5. QED
    BY <1>2, <1>3, <1>4

\* A step that only reads the tables: the request goes on with a blob there is, or with an asset
\* that waits for its content.
LEMMA FindsKeepBackInv ==
    ASSUME BackInv, Typed', NEW h \in Handler, Lookup(h) \/ FindAsset(h) \/ BeginInit(h) \/ Begin(h)
    PROVE  BackInv'
  <1>1. UNCHANGED <<assets, blobs>>
    BY DEF Lookup, FindAsset, BeginInit, Begin, Start, Return, postgres
  <1>2. CASE Return(h)
    BY <1>1, <1>2, LeaveKeepsBackInv DEF Return
  <1>3. CASE Lookup(h) /\ ~Return(h)
    <2>1. HasBlob(h)' /\ Matches(h)'
      BY <1>3 DEF Lookup, HasBlob, Matches, BackInv, Typed, Requests
    <2>2. QED
      BY <1>1, <1>3, <2>1, OneRequestKeepsBackInv DEF Lookup, BackInv, Typed, Requests
  <1>4. CASE FindAsset(h) /\ ~Return(h)
    <2>1. HasBlob(h)' /\ Matches(h)'
      BY <1>1, <1>4 DEF FindAsset, At, Goto, HasBlob, Matches, BackInv, Typed, Requests
    <2>2. QED
      BY <1>1, <1>4, <2>1, OneRequestKeepsBackInv DEF FindAsset, Goto, BackInv, Typed, Requests
  <1>5. CASE BeginInit(h) \/ Begin(h)
    <2>1. /\ \E s \in {"init", "load"} : pc' = [pc EXCEPT ![h] = s]
          /\ \E c : call' = [call EXCEPT ![h] = c]
          /\ UNCHANGED blob
      BY <1>5 DEF BeginInit, Begin, Start
    <2>2. HasBlob(h)' /\ Matches(h)'
      BY <2>1 DEF HasBlob, Matches, BackInv, Typed, Requests
    <2>3. QED
      BY <1>1, <2>1, <2>2, OneRequestKeepsBackInv DEF BackInv, Typed, Requests
  <1>6. QED
    BY <1>2, <1>3, <1>4, <1>5

\* A new row is for a content no ready asset has.
LEMMA InsertKeepsBackInv ==
    ASSUME BackInv, Typed', NEW h \in Handler, Insert(h)
    PROVE  BackInv'
  <1>1. CASE Return(h)
    BY <1>1, LeaveKeepsBackInv DEF Return, postgres
  <1>2. CASE ~Return(h)
    <2>1. /\ blobs[call[h].content] = NoBlob /\ made' = made + 1
          /\ blobs' = [blobs EXCEPT ![call[h].content] = made']
          /\ blob' = [blob EXCEPT ![h] = made'] /\ UNCHANGED <<assets, call>>
          /\ \E s \in {"forgetAsset", "asset"} : pc' = [pc EXCEPT ![h] = s]
      BY <1>2 DEF Insert
    <2>2. made' # NoBlob
      BY <2>1 DEF BackInv, Typed, Tables, NoBlob
    <2>3. ASSUME NEW g \in Handler PROVE HasBlob(g)' /\ Matches(g)'
      BY <2>1, <2>2 DEF HasBlob, Matches, BackInv, Typed, Requests
    <2>4. ReadyHasBlob' /\ ReadyIsBacked'
      <3> SUFFICES ASSUME NEW a \in Asset, assets[a].status = "ready"
                   PROVE  assets[a].blob # NoBlob /\ blobs'[assets[a].content] = assets[a].blob
        BY <2>1 DEF ReadyHasBlob, ReadyIsBacked
      <3>1. assets[a].blob # NoBlob /\ blobs[assets[a].content] = assets[a].blob
        BY DEF BackInv, ReadyHasBlob, ReadyIsBacked
      <3>2. assets[a].content \in Content
        BY DEF BackInv, Typed, Tables, AssetRow, NoAsset
      <3>3. QED
        BY <2>1, <3>1, <3>2 DEF BackInv, Typed, Tables
    <2>5. QED
      BY <2>3, <2>4 DEF BackInv
  <1>3. QED
    BY <1>1, <1>2

\* The asset that becomes ready has the content of the row its blob is in.
LEMMA BackAssetKeepsBackInv ==
    ASSUME BackInv, Typed', NEW h \in Handler, BackAsset(h)
    PROVE  BackInv'
  <1>1. CASE Return(h)
    BY <1>1, LeaveKeepsBackInv DEF Return, postgres
  <1>2. CASE ~Return(h)
    <2> DEFINE a == call[h].asset
               row == [status |-> "ready", content |-> assets[a].content, blob |-> blob[h]]
    <2>1. /\ pc[h] = "back" /\ assets[a].status = "pending" /\ blobs[call[h].content] = blob[h]
          /\ assets' = [assets EXCEPT ![a] = row] /\ Leave(h) /\ UNCHANGED blobs
      BY <1>2 DEF BackAsset, At
    <2>2. a \in Asset
      BY <2>1, RunningHas, RequestHas DEF BackInv, Typed
    <2>3. assets[a].content = call[h].content /\ blob[h] # NoBlob
      BY <2>1 DEF BackInv, HasBlob, Matches
    <2>4. assets'[a] = row /\ \A b \in Asset \ {a} : assets'[b] = assets[b]
      BY <2>1, <2>2 DEF BackInv, Typed, Tables
    <2>5. ReadyHasBlob' /\ ReadyIsBacked'
      BY <2>1, <2>3, <2>4 DEF BackInv, ReadyHasBlob, ReadyIsBacked
    <2>6. ASSUME NEW g \in Handler PROVE HasBlob(g)' /\ Matches(g)'
      <3>1. CASE g = h
        BY <2>1, <3>1 DEF Leave, HasBlob, Matches, BackInv, Typed, Requests
      <3>2. CASE g # h
        <4>1. pc'[g] = pc[g] /\ call'[g] = call[g] /\ blob'[g] = blob[g] /\ HasBlob(g) /\ Matches(g)
          BY <2>1, <3>2 DEF Leave, BackInv, Typed, Requests
        <4>2. pc[g] = "back" => call[g].asset \in Asset
          BY RunningHas, RequestHas DEF BackInv, Typed
        <4>3. QED
          BY <2>4, <4>1, <4>2 DEF HasBlob, Matches
      <3>3. QED
        BY <3>1, <3>2
    <2>7. QED
      BY <2>5, <2>6 DEF BackInv
  <1>3. QED
    BY <1>1, <1>2

\* A created asset is nobody's yet; one that is abandoned waited.
LEMMA AssetStepsKeepBackInv ==
    ASSUME BackInv, Typed', NEW a \in Asset, CreateAsset(a) \/ Abandon(a)
    PROVE  BackInv'
  <1>1. /\ UNCHANGED <<blobs, pc, call, blob>>
        /\ \A b \in Asset \ {a} : assets'[b] = assets[b]
        /\ assets[a].status = "none" \/ assets'[a].status = "gone"
        /\ assets'[a].status \in {"pending", "gone"}
    BY DEF CreateAsset, Abandon, handlers, NoAsset, BackInv, Typed, Tables
  <1>2. ASSUME NEW g \in Handler PROVE HasBlob(g)' /\ Matches(g)'
    <2>1. HasBlob(g) /\ Matches(g)
      BY DEF BackInv
    <2>2. pc[g] = "back" => call[g].asset \in Asset
      BY RunningHas, RequestHas DEF BackInv, Typed
    <2>3. QED
      BY <1>1, <2>1, <2>2 DEF HasBlob, Matches
  <1>3. ReadyHasBlob' /\ ReadyIsBacked'
    BY <1>1 DEF BackInv, ReadyHasBlob, ReadyIsBacked
  <1>4. QED
    BY <1>2, <1>3 DEF BackInv

\* Rows that assets use are not deleted, whatever the collector was told of them before.
LEMMA CollectorKeepsBackInv ==
    ASSUME BackInv, Typed', CollectDelete
    PROVE  BackInv'
  <1>1. UNCHANGED <<assets, pc, call, blob>>
    BY DEF CollectDelete, handlers
  <1>2. ReadyIsBacked'
    <2> SUFFICES ASSUME NEW a \in Asset, assets[a].status = "ready"
                 PROVE  blobs'[assets[a].content] = assets[a].blob
      BY <1>1 DEF ReadyIsBacked
    <2> DEFINE c == assets[a].content
               rows == {r \in collector.rows : blobs[r[1]] = r[2]}
    <2>1. blobs[c] = assets[a].blob
      BY DEF BackInv, ReadyIsBacked
    <2>2. Used(c)
      BY <2>1 DEF Used
    <2>3. c \in Content
      BY DEF BackInv, Typed, Tables, AssetRow, NoAsset
    <2>4. CASE \E r \in rows : Used(r[1])
      BY <2>1, <2>4 DEF CollectDelete
    <2>5. CASE ~\E r \in rows : Used(r[1])
      <3>1. <<c, blobs[c]>> \notin rows
        BY <2>2, <2>5
      <3>2. blobs' = [d \in Content |-> IF <<d, blobs[d]>> \in rows THEN NoBlob ELSE blobs[d]]
        BY <2>5 DEF CollectDelete
      <3>3. QED
        BY <2>1, <2>3, <3>1, <3>2
    <2>6. QED
      BY <2>4, <2>5
  <1>3. QED
    BY <1>1, <1>2 DEF BackInv, HasBlob, Matches, ReadyHasBlob

LEMMA InitBackInv == Init => BackInv
  BY InitTyped DEF Init, BackInv, HasBlob, Matches, ReadyHasBlob, ReadyIsBacked, NoAsset

LEMMA NextKeepsBackInv == BackInv /\ [Next]_vars => BackInv'
  <1> SUFFICES ASSUME BackInv, [Next]_vars PROVE BackInv'
    OBVIOUS
  <1>1. Typed'
    BY NextKeepsTyped DEF BackInv
  <1>2. ASSUME NEW h \in Handler, BeginInit(h) \/ Begin(h) \/ HandlerStep(h) \/ Lose(h)
        PROVE  BackInv'
    BY <1>1, <1>2, PlainStepsKeepBackInv, FindsKeepBackInv, InsertKeepsBackInv, BackAssetKeepsBackInv
       DEF HandlerStep
  <1>3. ASSUME UNCHANGED <<assets, blobs, pc, call, blob>>
        PROVE  BackInv'
    BY <1>1, <1>3 DEF BackInv, HasBlob, Matches, ReadyHasBlob, ReadyIsBacked
  <1>4. CASE \/ \E x \in Tx : Pass(x) \/ ExpireSlots(x)
             \/ Land \/ SweeperStep \/ Collect \/ CollectUnlink \/ UNCHANGED vars
    <2>1. UNCHANGED <<assets, blobs, pc, call, blob>>
      BY <1>4 DEF Pass, ExpireSlots, Land, SweeperStep, SweepPick, SweepGet, SweepCount, SweepUnlink,
                  SweepDelete, Collect, CollectUnlink, postgres, handlers, vars
    <2>2. QED
      BY <1>3, <2>1
  <1>5. QED
    BY <1>1, <1>2, <1>4, AssetStepsKeepBackInv, CollectorKeepsBackInv DEF Next, CollectorStep

\* A ready asset keeps a row of blobs with its content, for any uploads, retries and cleanups of any
\* assets and contents at once.
THEOREM ReadyAssetsAreBacked == Spec => []ReadyIsBacked
  <1>1. BackInv => ReadyIsBacked
    BY DEF BackInv
  <1>2. QED
    BY <1>1, InitBackInv, NextKeepsBackInv, PTL DEF Spec

\* complete never updates a ready asset, and delete_abandoned leaves it: its content and blob stay.
THEOREM ReadyAssetsStay == Spec => ReadyIsFinal
  <1>1. Typed /\ [Next]_vars => [\A a \in Asset : assets[a].status = "ready" => assets'[a] = assets[a]]_assets
    <2> SUFFICES ASSUME Typed, [Next]_vars, NEW a \in Asset, assets[a].status = "ready"
                 PROVE  assets'[a] = assets[a]
      OBVIOUS
    <2>1. ASSUME NEW h \in Handler, BackAsset(h) PROVE assets'[a] = assets[a]
      BY <2>1 DEF BackAsset, Return, postgres, Typed, Tables
    <2>2. ASSUME NEW b \in Asset, CreateAsset(b) \/ Abandon(b) PROVE assets'[a] = assets[a]
      BY <2>2 DEF CreateAsset, Abandon, NoAsset, Typed, Tables
    <2>3. ASSUME NEW h \in Handler, HandlerStep(h), ~BackAsset(h) PROVE assets'[a] = assets[a]
      <3>1. UNCHANGED assets
        BY <2>3 DEF HandlerStep, Load, Forget, InitLookup, InitCreate,
             InitActivity, Lookup, Compare, OpenStored, WriteStored, WriteAll, Acquire, Refuse, GetMeta,
             SetMeta, OpenTemp, WriteTemp, Mark, Release, Reset, Unlink, Count, Hash, Mismatch,
             Rename, Insert, FindAsset, Return, postgres
      <3>2. QED
        BY <3>1
    <2>4. ASSUME NEW h \in Handler, BeginInit(h) \/ Begin(h) \/ Lose(h) PROVE assets'[a] = assets[a]
      BY <2>4 DEF BeginInit, Begin, Start, Lose, Return, postgres
    <2>5. CASE \/ \E x \in Tx : Pass(x) \/ ExpireSlots(x)
               \/ Land \/ SweeperStep \/ CollectorStep \/ UNCHANGED vars
      BY <2>5 DEF Pass, ExpireSlots, Land, SweeperStep, SweepPick, SweepGet, SweepCount, SweepUnlink,
           SweepDelete, CollectorStep, Collect, CollectDelete, CollectUnlink, postgres, vars
    <2>6. QED
      BY <2>1, <2>2, <2>3, <2>4, <2>5 DEF Next
  <1>2. QED
    BY <1>1, UploadsAreTyped, PTL DEF Spec, ReadyIsFinal
-----------------------------------------------------------------------------
(* TempIsTracked.  One request makes a transaction (Makes); nobody else    *)
(* has it before its client was told of it (Told, Untold); and it is       *)
(* deleted only when its temp file is gone (Forgets, SweepForgets): the    *)
(* transactions that prove possession never had one (Verifies).            *)

MakePcs == {"init", "create", "createVerify", "activity"}
ForgetPcs == {"forget", "forgetInsert", "forgetAsset", "insert"}

\* Has x a client was told of.
Known(x) == info[x] # NoTx /\ info[x].told

Makes(h) ==
    pc[h] \in MakePcs =>
        /\ ~Known(call[h].tx)
        /\ pc[h] # "activity" => info[call[h].tx] = NoTx
        /\ pc[h] \in {"init", "createVerify"} => temp[call[h].tx] = NoFile
        /\ \A g \in Handler \ {h} : pc[g] # "idle" => call[g].tx # call[h].tx
Told(h) == pc[h] \notin MakePcs \cup {"idle"} => Known(call[h].tx)
Untold(x) ==
    ~Known(x) =>
        /\ age[x] = "none"
        /\ sweeper.step # "idle" => sweeper.tx # x
        /\ info[x] # NoTx => alive[x]
Verifies(x) == info[x] # NoTx /\ info[x].type = "verify" => temp[x] = NoFile
VerifySteps(h) ==
    pc[h] = "compare" \/ (pc[h] = "lookup" /\ call[h].op = "verify") => info[call[h].tx].type = "verify"
Forgets(h) == pc[h] \in ForgetPcs => temp[call[h].tx] = NoFile
SweepForgets == sweeper.step = "delete" => temp[sweeper.tx] = NoFile

TrackInv ==
    /\ Typed
    /\ \A h \in Handler : Makes(h) /\ Told(h) /\ VerifySteps(h) /\ Forgets(h)
    /\ \A x \in Tx : Untold(x) /\ Verifies(x)
    /\ SweepForgets /\ TempIsTracked

\* No file of the temp folder is new.
NoNewTemp == \A x \in Tx : temp[x] = NoFile => temp'[x] = NoFile

\* A request works on a transaction.
LEMMA RunningOnTx ==
    ASSUME Typed, NEW h \in Handler, pc[h] # "idle"
    PROVE  call[h].tx \in Tx
  BY RunningHas, RequestHas DEF Typed

\* What is said of transactions stays while Redis and the sweeper stay and no temp file is new.
LEMMA ShrinkingKeepsTx ==
    ASSUME TrackInv, NoNewTemp, UNCHANGED <<info, alive, age, sweeper>>
    PROVE  /\ \A x \in Tx : Untold(x)' /\ Verifies(x)'
           /\ SweepForgets' /\ TempIsTracked'
  <1>1. sweeper.step = "delete" => sweeper.tx \in Tx
    BY DEF TrackInv, Typed, Sweeping
  <1>2. QED
    BY <1>1 DEF TrackInv, NoNewTemp, Untold, Verifies, SweepForgets, TempIsTracked, Known

\* The other requests, when one goes on with its transaction or ends.
LEMMA OthersKeepTheirs ==
    ASSUME TrackInv, NoNewTemp, UNCHANGED info, NEW h \in Handler,
           \A g \in Handler \ {h} : pc'[g] = pc[g] /\ call'[g] = call[g],
           pc'[h] # "idle" => pc[h] # "idle" /\ call'[h] = call[h],
           NEW g \in Handler \ {h}
    PROVE  Makes(g)' /\ Told(g)' /\ VerifySteps(g)' /\ Forgets(g)'
  <1>1. Makes(g) /\ Told(g) /\ VerifySteps(g) /\ Forgets(g)
    BY DEF TrackInv
  <1>2. pc[g] # "idle" => call[g].tx \in Tx
    BY RunningOnTx DEF TrackInv
  <1>3. "idle" \notin MakePcs \cup ForgetPcs
    BY DEF MakePcs, ForgetPcs
  <1>4. Makes(g)'
    BY <1>1, <1>2, <1>3 DEF Makes, Known, NoNewTemp
  <1>5. Told(g)' /\ VerifySteps(g)' /\ Forgets(g)'
    BY <1>1, <1>2, <1>3 DEF Told, VerifySteps, Forgets, Known, NoNewTemp
  <1>6. QED
    BY <1>4, <1>5

LEMMA LeaveKeepsTrackInv ==
    ASSUME TrackInv, Typed', NEW h \in Handler, Leave(h), NoNewTemp,
           UNCHANGED <<info, alive, age, sweeper>>
    PROVE  TrackInv'
  <1>1. /\ pc'[h] = "idle"
        /\ \A g \in Handler \ {h} : pc'[g] = pc[g] /\ call'[g] = call[g]
    BY DEF Leave, TrackInv, Typed, Requests
  <1>2. Makes(h)' /\ Told(h)' /\ VerifySteps(h)' /\ Forgets(h)'
    BY <1>1 DEF Makes, Told, VerifySteps, Forgets, MakePcs, ForgetPcs
  <1>3. QED
    BY <1>1, <1>2, OthersKeepTheirs, ShrinkingKeepsTx DEF TrackInv

\* A step of a request past upload_init.
LEMMA MoveKeepsTrackInv ==
    ASSUME TrackInv, Typed', NEW h \in Handler, pc[h] \notin MakePcs \cup {"idle"},
           NEW s \in Pcs \ (MakePcs \cup {"idle"}), pc' = [pc EXCEPT ![h] = s], UNCHANGED call,
           NoNewTemp, UNCHANGED <<info, alive, age, sweeper>>,
           s = "compare" \/ (s = "lookup" /\ call[h].op = "verify") => info[call[h].tx].type = "verify",
           s \in ForgetPcs => temp'[call[h].tx] = NoFile
    PROVE  TrackInv'
  <1>1. /\ pc'[h] = s /\ s # "idle" /\ pc[h] # "idle"
        /\ \A g \in Handler \ {h} : pc'[g] = pc[g] /\ call'[g] = call[g]
    BY DEF TrackInv, Typed, Requests
  <1>2. Makes(h)' /\ VerifySteps(h)' /\ Forgets(h)'
    BY <1>1 DEF Makes, VerifySteps, Forgets
  <1>3. Told(h)'
    BY <1>1 DEF Told, Known, TrackInv
  <1>4. QED
    BY <1>1, <1>2, <1>3, OthersKeepTheirs, ShrinkingKeepsTx DEF TrackInv

\* What lands in a file does not make it.
LEMMA LandedIsNoNewTemp ==
    ASSUME Typed, NEW f \in fds, Landed(f)
    PROVE  NoNewTemp
  <1> DEFINE Over(file) == [k \in Chunk |-> IF k \in f.chunks THEN f.data ELSE file[k]]
  <1>1. CASE f.at = "temp"
    <2> HIDE DEF Over
    <2>1. temp' = [temp EXCEPT ![f.tx] = Over(temp[f.tx])]
      BY <1>1 DEF Landed, Over
    <2>2. temp[f.tx] # NoFile
      BY <1>1 DEF Typed, Files
    <2>3. QED
      BY <2>1, <2>2 DEF NoNewTemp, Typed, Files
  <1>2. CASE f.at # "temp"
    BY <1>2 DEF Landed, NoNewTemp
  <1>3. QED
    BY <1>1, <1>2

LEMMA WriteAllIsNoNewTemp ==
    ASSUME Typed, NEW h \in Handler, NEW s, WriteAll(h, s)
    PROVE  NoNewTemp
  <1>1. PICK f \in fds :
          IF InTime
          THEN fds' = fds \ {f} /\ Landed(f)
          ELSE fds' = (fds \ {f}) \cup {[f EXCEPT !.by = NoCall]} /\ UNCHANGED <<stored, temp>>
    BY DEF WriteAll
  <1>2. CASE InTime
    BY <1>1, <1>2, LandedIsNoNewTemp
  <1>3. CASE ~InTime
    BY <1>1, <1>3 DEF NoNewTemp
  <1>4. QED
    BY <1>2, <1>3

LEMMA LoadKeepsTrackInv ==
    ASSUME TrackInv, Typed', NEW h \in Handler, Load(h)
    PROVE  TrackInv'
  <1> DEFINE x == call[h].tx
  <1>1. pc[h] = "load" /\ call[h].op \in AllOps \ {"init"} /\ x \in Tx
    BY RunningHas, RequestHas DEF Load, At, TrackInv, Typed, Requests
  <1>2. NoNewTemp /\ UNCHANGED <<info, alive, age, sweeper>>
    BY DEF Load, Return, NoNewTemp, disk, redis
  <1>3. CASE Return(h)
    BY <1>2, <1>3, LeaveKeepsTrackInv DEF Return
  <1>4. CASE ~Return(h)
    <2>1. PICK s \in {"lookup", "acquire", "count", "forget", "unlink"} :
            /\ Goto(h, s)
            /\ s = "lookup" /\ call[h].op = "verify" => info[x].type = "verify"
            /\ s = "forget" => info[x].type = "verify"
      <3>1. /\ call[h].op = "verify" => info[x].type = "verify"
            /\ Goto(h, CASE call[h].op = "verify" -> "lookup"
                         [] call[h].op = "whole" -> "lookup"
                         [] call[h].op = "chunk" -> "acquire"
                         [] call[h].op = "complete" -> "count"
                         [] call[h].op = "cancel" -> IF info[x].type = "verify" THEN "forget" ELSE "unlink")
        BY <1>4 DEF Load
      <3>2. QED
        BY <1>1, <3>1 DEF AllOps
    <2>2. Known(x) /\ Verifies(x)
      BY <1>1 DEF TrackInv, Told, MakePcs
    <2>3. s = "forget" => temp[x] = NoFile
      BY <2>1, <2>2 DEF Verifies, Known
    <2>4. s = "forget" => temp'[x] = NoFile
      BY <1>1, <1>2, <2>3 DEF NoNewTemp
    <2>5. s \in Pcs \ (MakePcs \cup {"idle"}) /\ (s \in ForgetPcs => s = "forget")
      BY <2>1 DEF Pcs, MakePcs, ForgetPcs
    <2>6. pc[h] \notin MakePcs \cup {"idle"}
      BY <1>1 DEF MakePcs
    <2>7. pc' = [pc EXCEPT ![h] = s] /\ UNCHANGED call
      BY <2>1 DEF Goto
    <2>8. s # "compare"
      OBVIOUS
    <2>9. QED
      BY <1>2, <2>1, <2>4, <2>5, <2>6, <2>7, <2>8, MoveKeepsTrackInv
  <1>5. QED
    BY <1>3, <1>4

\* Steps that end the request, or go on where nothing is to be said of the temp file.
LEMMA PlainStepsKeepTrackInv ==
    ASSUME TrackInv, Typed', NEW h \in Handler,
           \/ OpenStored(h) \/ WriteStored(h)
           \/ Acquire(h) \/ Refuse(h) \/ GetMeta(h) \/ OpenTemp(h) \/ WriteTemp(h) \/ Release(h) \/ Reset(h)
           \/ Count(h) \/ Hash(h) \/ FindAsset(h) \/ BackAsset(h) \/ Lose(h)
    PROVE  TrackInv'
  <1>1. UNCHANGED <<info, alive, age, sweeper>>
    BY DEF OpenStored, WriteStored, WriteAll, Acquire, Refuse, GetMeta, OpenTemp, WriteTemp, Release, Reset,
           Count, Hash, FindAsset, BackAsset, Lose, Return, redis
  <1>2. NoNewTemp
    <2>1. CASE WriteStored(h) \/ WriteTemp(h)
      BY <2>1, WriteAllIsNoNewTemp DEF WriteStored, WriteTemp, TrackInv
    <2>2. CASE ~(WriteStored(h) \/ WriteTemp(h))
      <3>1. UNCHANGED temp
        BY <2>2 DEF OpenStored, Acquire, Refuse, GetMeta, OpenTemp, Release, Reset,
                    Count, Hash, FindAsset, BackAsset, Lose, Return, disk
      <3>2. QED
        BY <3>1 DEF NoNewTemp
    <2>3. QED
      BY <2>1, <2>2
  <1>3. \/ Leave(h)
        \/ /\ pc[h] \notin MakePcs \cup {"idle"}
           /\ \E s \in {"write", "unlink", "refuse", "getMeta", "setMeta", "open", "mark", "release", "reset",
                        "hash", "rename", "mismatch", "back"} : Goto(h, s)
    BY DEF OpenStored, WriteStored, WriteAll, Acquire, Refuse, GetMeta, OpenTemp, WriteTemp, Release, Reset,
           Count, Hash, FindAsset, BackAsset, Lose, Return, At, MakePcs
  <1>4. CASE Leave(h)
    BY <1>1, <1>2, <1>4, LeaveKeepsTrackInv
  <1>5. ASSUME NEW s \in {"write", "unlink", "refuse", "getMeta", "setMeta", "open", "mark", "release", "reset",
                          "hash", "rename", "mismatch", "back"},
               Goto(h, s), pc[h] \notin MakePcs \cup {"idle"}
        PROVE  TrackInv'
    <2>1. s \in Pcs \ (MakePcs \cup {"idle"}) /\ s \notin ForgetPcs \cup {"compare", "lookup"}
      BY DEF Pcs, MakePcs, ForgetPcs
    <2>2. QED
      BY <1>1, <1>2, <1>5, <2>1, MoveKeepsTrackInv DEF Goto
  <1>6. QED
    BY <1>3, <1>4, <1>5

\* The file is unlinked or moved before the transaction is forgotten.
LEMMA MovingKeepsTrackInv ==
    ASSUME TrackInv, Typed', NEW h \in Handler,
           Compare(h) \/ Lookup(h) \/ Unlink(h) \/ Mismatch(h) \/ Rename(h) \/ Insert(h)
    PROVE  TrackInv'
  <1> DEFINE x == call[h].tx
  <1>1. pc[h] \notin MakePcs \cup {"idle"}
    BY DEF Compare, Lookup, Unlink, Mismatch, Rename, Insert, At, MakePcs
  <1>2. x \in Tx /\ Known(x) /\ Verifies(x) /\ VerifySteps(h) /\ Forgets(h)
    BY <1>1, RunningOnTx DEF TrackInv, Told
  <1>3. UNCHANGED <<info, alive, age, sweeper>>
    BY DEF Compare, Lookup, Unlink, Mismatch, Rename, Insert, Return, redis
  <1>4. NoNewTemp
    BY <1>2 DEF Compare, Lookup, Unlink, Unlinked, Mismatch, Rename, Renamed, Insert, Return, disk, NoNewTemp,
           TrackInv, Typed, Files
  <1>5. CASE Return(h)
    BY <1>3, <1>4, <1>5, LeaveKeepsTrackInv DEF Return
  <1>6. CASE ~Return(h)
    <2>1. PICK s \in {"compare", "asset", "open", "forget", "forgetInsert", "forgetAsset", "insert"} :
            /\ pc' = [pc EXCEPT ![h] = s] /\ UNCHANGED call
            /\ s = "compare" => pc[h] = "lookup" /\ call[h].op = "verify"
            /\ s \in ForgetPcs => pc[h] = "compare" \/ pc[h] = "insert" \/ temp'[x] = NoFile
      BY <1>2, <1>6 DEF Compare, Lookup, Unlink, Unlinked, Mismatch, Rename, Renamed, Insert, At, Goto,
                        ForgetPcs, TrackInv, Typed, Files
    <2>2. s = "compare" => info[x].type = "verify"
      BY <1>2, <2>1 DEF VerifySteps
    <2>3. pc[h] = "compare" \/ pc[h] = "insert" => temp[x] = NoFile
      <3>1. pc[h] = "compare" => info[x].type = "verify"
        BY <1>2 DEF VerifySteps
      <3>2. info[x].type = "verify" => temp[x] = NoFile
        BY <1>2 DEF Verifies, Known
      <3>3. pc[h] = "insert" => temp[x] = NoFile
        BY <1>2 DEF Forgets, ForgetPcs
      <3>4. QED
        BY <3>1, <3>2, <3>3
    <2>4. s \in ForgetPcs => temp'[x] = NoFile
      BY <1>2, <1>4, <2>1, <2>3 DEF NoNewTemp
    <2>5. s \in Pcs \ (MakePcs \cup {"idle"}) /\ s # "lookup"
      BY <2>1 DEF Pcs, MakePcs
    <2>6. QED
      BY <1>1, <1>3, <1>4, <2>1, <2>2, <2>4, <2>5, MoveKeepsTrackInv
  <1>7. QED
    BY <1>5, <1>6

\* What is said of transactions stays when one that is known changes and stays tracked or has no file.
LEMMA KnownChangesKeepTx ==
    ASSUME TrackInv, Typed', NEW x \in Tx, Known(x), UNCHANGED <<info, temp, sweeper>>,
           \A y \in Tx \ {x} : alive'[y] = alive[y] /\ age'[y] = age[y],
           temp[x] = NoFile \/ (alive'[x] /\ age'[x] # "none")
    PROVE  /\ \A y \in Tx : Untold(y)' /\ Verifies(y)'
           /\ SweepForgets' /\ TempIsTracked'
  <1>1. \A y \in Tx : Untold(y)'
    BY DEF TrackInv, Untold, Known
  <1>2. (\A y \in Tx : Verifies(y)') /\ SweepForgets'
    BY DEF TrackInv, Verifies, SweepForgets
  <1>3. TempIsTracked'
    BY DEF TrackInv, TempIsTracked, Known
  <1>4. QED
    BY <1>1, <1>2, <1>3

LEMMA RedisStepsKeepTrackInv ==
    ASSUME TrackInv, Typed', NEW h \in Handler, SetMeta(h) \/ Mark(h) \/ Forget(h)
    PROVE  TrackInv'
  <1> DEFINE x == call[h].tx
  <1>1. pc[h] \notin MakePcs \cup {"idle"}
    BY DEF SetMeta, Mark, Forget, At, MakePcs
  <1>2. x \in Tx /\ Known(x) /\ Forgets(h)
    BY <1>1, RunningOnTx DEF TrackInv, Told
  <1>3. UNCHANGED <<info, temp, sweeper>>
    BY DEF SetMeta, Mark, Forget, Deleted, disk
  <1>4. /\ \A y \in Tx \ {x} : alive'[y] = alive[y] /\ age'[y] = age[y]
        /\ temp[x] = NoFile \/ (alive'[x] /\ age'[x] # "none")
    <2>0. alive \in [Tx -> BOOLEAN] /\ age \in [Tx -> {"none", "recent", "hour", "day"}]
      BY DEF TrackInv, Typed, Keys
    <2>1. CASE SetMeta(h) \/ Mark(h)
      <3>1. temp[x] # NoFile => alive[x] /\ age[x] # "none"
        BY <1>2 DEF TrackInv, TempIsTracked, Known
      <3>2. \/ alive' = [alive EXCEPT ![x] = TRUE] /\ age' = age
            \/ age' = [age EXCEPT ![x] = "recent"] /\ alive' = alive
        BY <2>1 DEF SetMeta, Mark
      <3>3. QED
        BY <1>2, <2>0, <3>1, <3>2
    <2>2. CASE Forget(h)
      <3>1. temp[x] = NoFile
        BY <1>2, <2>2 DEF Forget, Forgets, ForgetPcs
      <3>2. alive' = [alive EXCEPT ![x] = FALSE] /\ age' = [age EXCEPT ![x] = "none"]
        BY <2>2 DEF Forget, Deleted
      <3>3. QED
        BY <1>2, <2>0, <3>1, <3>2
    <2>3. QED
      BY <2>1, <2>2
  <1>5. /\ \A y \in Tx : Untold(y)' /\ Verifies(y)'
        /\ SweepForgets' /\ TempIsTracked'
    BY <1>2, <1>3, <1>4, KnownChangesKeepTx
  <1>6. NoNewTemp
    BY <1>3 DEF NoNewTemp
  <1>7. /\ \A g \in Handler \ {h} : pc'[g] = pc[g] /\ call'[g] = call[g]
        /\ \/ pc'[h] = "idle"
           \/ /\ pc'[h] \in {"open", "release", "insert", "asset"} /\ call'[h] = call[h]
              /\ pc'[h] = "insert" => Forget(h)
    BY DEF SetMeta, Mark, Forget, Goto, Leave, At, TrackInv, Typed, Requests
  <1>8. Makes(h)' /\ Told(h)' /\ VerifySteps(h)' /\ Forgets(h)'
    <2>1. CASE pc'[h] = "idle"
      BY <2>1 DEF Makes, Told, VerifySteps, Forgets, MakePcs, ForgetPcs
    <2>2. CASE pc'[h] \in {"open", "release", "insert", "asset"}
      <3>1. Makes(h)' /\ VerifySteps(h)'
        BY <2>2 DEF Makes, VerifySteps, MakePcs
      <3>2. Told(h)' /\ Forgets(h)'
        BY <1>2, <1>3, <1>7, <2>2 DEF Told, Known, Forgets, Forget, ForgetPcs
      <3>3. QED
        BY <3>1, <3>2
    <2>3. QED
      BY <1>7, <2>1, <2>2
  <1>9. ASSUME NEW g \in Handler \ {h} PROVE Makes(g)' /\ Told(g)' /\ VerifySteps(g)' /\ Forgets(g)'
    BY <1>1, <1>3, <1>6, <1>7, OthersKeepTheirs
  <1>10. QED
    BY <1>5, <1>8, <1>9 DEF TrackInv

\* A request that begins an upload has a new id; the others have one a client was told of.
LEMMA BeginKeepsTrackInv ==
    ASSUME TrackInv, Typed', NEW h \in Handler, BeginInit(h) \/ Begin(h)
    PROVE  TrackInv'
  <1>1. PICK c \in Request, s \in {"init", "load"} :
          /\ Start(h, c, s)
          /\ s = "init" => info[c.tx] = NoTx /\ temp[c.tx] = NoFile /\ On(c.tx) = {}
          /\ s = "load" => Known(c.tx)
    <2>1. CASE BeginInit(h)
      <3>1. PICK a \in Asset, c \in Content, x \in Tx :
              /\ info[x] = NoTx /\ temp[x] = NoFile /\ On(x) = {}
              /\ Start(h, [op |-> "init", tx |-> x, asset |-> a, content |-> c], "init")
        BY <2>1 DEF BeginInit
      <3>2. [op |-> "init", tx |-> x, asset |-> a, content |-> c] \in Request
        BY DEF Request
      <3>3. QED
        BY <3>1, <3>2
    <2>2. CASE Begin(h)
      <3>1. PICK op \in Ops \ {"init"}, x \in Tx, k \in Chunk, d \in {"right", "wrong"} :
              /\ Known(x)
              /\ Start(h, [op |-> op, tx |-> x, asset |-> info[x].asset, content |-> info[x].content,
                           chunk |-> k, data |-> d], "load")
        BY <2>2 DEF Begin, Known
      <3>2. info[x].asset \in Asset /\ info[x].content \in Content
        BY <3>1 DEF Known, TrackInv, Typed, Keys, Meta
      <3>3. [op |-> op, tx |-> x, asset |-> info[x].asset, content |-> info[x].content,
             chunk |-> k, data |-> d] \in Request
        BY <3>2, UploadAssumption DEF Request
      <3>4. QED
        BY <3>1, <3>3
    <2>3. QED
      BY <2>1, <2>2
  <1> DEFINE x == c.tx
  <1>2. /\ pc[h] = "idle" /\ pc'[h] = s /\ call'[h] = c
        /\ \A g \in Handler \ {h} : pc'[g] = pc[g] /\ call'[g] = call[g]
        /\ UNCHANGED <<info, temp, alive, age, sweeper>>
    BY <1>1 DEF Start, At, disk, redis, TrackInv, Typed, Requests
  <1>3. NoNewTemp
    BY <1>2 DEF NoNewTemp
  <1>4. ASSUME NEW g \in Handler \ {h} PROVE Makes(g)' /\ Told(g)' /\ VerifySteps(g)' /\ Forgets(g)'
    <2>1. Makes(g) /\ Told(g) /\ VerifySteps(g) /\ Forgets(g)
      BY DEF TrackInv
    <2>2. pc[g] \in MakePcs => call[g].tx # x
      <3>1. CASE s = "init"
        <4>1. pc[g] # "idle" => call[g] # NoCall
          BY DEF TrackInv, Typed, Requests
        <4>2. pc[g] # "idle" => call[g].tx # x
          BY <1>1, <3>1, <4>1 DEF On
        <4>3. QED
          BY <4>2 DEF MakePcs
      <3>2. CASE s = "load"
        BY <1>1, <2>1, <3>2 DEF Makes
      <3>3. QED
        BY <3>1, <3>2
    <2>3. Makes(g)'
      BY <1>2, <2>1, <2>2 DEF Makes, Known
    <2>4. QED
      BY <1>2, <2>1, <2>3 DEF Told, VerifySteps, Forgets, Known
  <1>5. Makes(h)' /\ Told(h)' /\ VerifySteps(h)' /\ Forgets(h)'
    <2>1. s = "init" => \A g \in Handler \ {h} : pc'[g] # "idle" => call'[g].tx # x
      <3>1. \A g \in Handler : pc[g] # "idle" => call[g] # NoCall
        BY DEF TrackInv, Typed, Requests
      <3>2. QED
        BY <1>1, <1>2, <3>1 DEF On
    <2>2. Makes(h)'
      BY <1>1, <1>2, <2>1 DEF Makes, Known, MakePcs
    <2>3. Told(h)' /\ VerifySteps(h)' /\ Forgets(h)'
      BY <1>1, <1>2 DEF Told, VerifySteps, Forgets, Known, MakePcs, ForgetPcs
    <2>4. QED
      BY <2>2, <2>3
  <1>6. QED
    BY <1>2, <1>3, <1>4, <1>5, ShrinkingKeepsTx DEF TrackInv

\* upload_init: the requests that do not make x do not have it, and nothing but the request knows of it.
LEMMA OnlyOneMakes ==
    ASSUME TrackInv, NEW h \in Handler, pc[h] \in MakePcs, NEW g \in Handler \ {h}
    PROVE  pc[g] # "idle" => call[g].tx \in Tx \ {call[h].tx}
  <1>1. Makes(h)
    BY DEF TrackInv
  <1>2. QED
    BY <1>1, RunningOnTx DEF Makes, TrackInv

LEMMA OthersKeepTheirsInInit ==
    ASSUME TrackInv, NEW h \in Handler, pc[h] \in MakePcs,
           \A x \in Tx \ {call[h].tx} : info'[x] = info[x] /\ temp'[x] = temp[x],
           \A g \in Handler \ {h} : pc'[g] = pc[g] /\ call'[g] = call[g],
           pc'[h] # "idle" => call'[h] = call[h],
           NEW g \in Handler \ {h}
    PROVE  Makes(g)' /\ Told(g)' /\ VerifySteps(g)' /\ Forgets(g)'
  <1>1. Makes(g) /\ Told(g) /\ VerifySteps(g) /\ Forgets(g)
    BY DEF TrackInv
  <1>2. pc[g] # "idle" => call[g].tx \in Tx \ {call[h].tx}
    BY OnlyOneMakes
  <1>3. "idle" \notin MakePcs \cup ForgetPcs
    BY DEF MakePcs, ForgetPcs
  <1>4. Makes(g)'
    BY <1>1, <1>2, <1>3 DEF Makes, Known
  <1>5. Told(g)' /\ VerifySteps(g)' /\ Forgets(g)'
    BY <1>1, <1>2, <1>3 DEF Told, VerifySteps, Forgets, Known
  <1>6. QED
    BY <1>4, <1>5

LEMMA InitLookupKeepsTrackInv ==
    ASSUME TrackInv, Typed', NEW h \in Handler, InitLookup(h)
    PROVE  TrackInv'
  <1> DEFINE x == call[h].tx
  <1>1. pc[h] = "init" /\ pc[h] \in MakePcs /\ x \in Tx
    BY RunningOnTx DEF InitLookup, At, MakePcs, TrackInv
  <1>2. Makes(h) /\ info[x] = NoTx /\ temp[x] = NoFile
    BY <1>1 DEF TrackInv, Makes
  <1>3. /\ UNCHANGED <<info, alive, age, sweeper, call>>
        /\ \A y \in Tx \ {x} : temp'[y] = temp[y]
        /\ \A g \in Handler \ {h} : pc'[g] = pc[g]
        /\ \/ pc'[h] = "createVerify" /\ temp'[x] = NoFile
           \/ pc'[h] = "create"
    BY <1>1, <1>2 DEF InitLookup, Goto, redis, TrackInv, Typed, Files, Requests
  <1>4. ASSUME NEW g \in Handler \ {h} PROVE Makes(g)' /\ Told(g)' /\ VerifySteps(g)' /\ Forgets(g)'
    BY <1>1, <1>3, OthersKeepTheirsInInit
  <1>5. Makes(h)' /\ Told(h)' /\ VerifySteps(h)' /\ Forgets(h)'
    <2>1. Makes(h)'
      BY <1>1, <1>2, <1>3 DEF Makes, Known, MakePcs
    <2>2. Told(h)' /\ VerifySteps(h)' /\ Forgets(h)'
      BY <1>3 DEF Told, VerifySteps, Forgets, MakePcs, ForgetPcs
    <2>3. QED
      BY <2>1, <2>2
  <1>6. /\ \A y \in Tx : Untold(y)' /\ Verifies(y)'
        /\ SweepForgets' /\ TempIsTracked'
    <2>1. sweeper.step # "idle" => sweeper.tx \in Tx \ {x}
      BY <1>1, <1>2 DEF TrackInv, Typed, Sweeping, Untold, Known
    <2>2. QED
      BY <1>2, <1>3, <2>1 DEF TrackInv, Untold, Verifies, SweepForgets, TempIsTracked, Known
  <1>7. QED
    BY <1>4, <1>5, <1>6 DEF TrackInv

LEMMA InitCreateKeepsTrackInv ==
    ASSUME TrackInv, Typed', NEW h \in Handler, InitCreate(h)
    PROVE  TrackInv'
  <1> DEFINE x == call[h].tx
  <1>1. pc[h] \in {"create", "createVerify"} /\ pc[h] \in MakePcs /\ x \in Tx
    BY RunningOnTx DEF InitCreate, At, MakePcs, TrackInv
  <1>2. Makes(h) /\ info[x] = NoTx
    BY <1>1 DEF TrackInv, Makes
  <1>3. PICK type \in Types :
          /\ info' = [info EXCEPT ![x] = [type |-> type, content |-> call[h].content,
                                          asset |-> call[h].asset, told |-> FALSE]]
          /\ type = "verify" => pc[h] = "createVerify"
    BY DEF InitCreate, At, Types
  <1>4. /\ info'[x].type = type /\ ~info'[x].told /\ alive'[x]
        /\ \A y \in Tx \ {x} : info'[y] = info[y] /\ alive'[y] = alive[y]
        /\ UNCHANGED <<age, temp, sweeper, call>>
        /\ pc'[h] = "activity" /\ \A g \in Handler \ {h} : pc'[g] = pc[g]
    <2>1. info \in [Tx -> Meta \cup {NoTx}] /\ alive \in [Tx -> BOOLEAN] /\ pc \in [Handler -> Pcs]
      BY DEF TrackInv, Typed, Keys, Requests
    <2>2. info'[x] = [type |-> type, content |-> call[h].content, asset |-> call[h].asset, told |-> FALSE]
      BY <1>1, <1>3, <2>1
    <2>3. alive' = [alive EXCEPT ![x] = TRUE] /\ UNCHANGED <<age, temp, sweeper, call>>
      BY DEF InitCreate, Goto, disk
    <2>4. pc' = [pc EXCEPT ![h] = "activity"]
      BY DEF InitCreate, Goto
    <2>5. \A y \in Tx \ {x} : info'[y] = info[y]
      BY <1>1, <1>3, <2>1
    <2>6. alive'[x] /\ \A y \in Tx \ {x} : alive'[y] = alive[y]
      BY <1>1, <2>1, <2>3
    <2>7. pc'[h] = "activity" /\ \A g \in Handler \ {h} : pc'[g] = pc[g]
      BY <2>1, <2>4
    <2>8. info'[x].type = type /\ info'[x].told = FALSE
      BY <2>2
    <2>9. QED
      BY <2>3, <2>5, <2>6, <2>7, <2>8
  <1>5. ASSUME NEW g \in Handler \ {h} PROVE Makes(g)' /\ Told(g)' /\ VerifySteps(g)' /\ Forgets(g)'
    BY <1>1, <1>4, OthersKeepTheirsInInit
  <1>6. Makes(h)' /\ Told(h)' /\ VerifySteps(h)' /\ Forgets(h)'
    <2>1. Makes(h)'
      BY <1>1, <1>2, <1>4 DEF Makes, Known, MakePcs
    <2>2. Told(h)' /\ VerifySteps(h)' /\ Forgets(h)'
      BY <1>4 DEF Told, VerifySteps, Forgets, MakePcs, ForgetPcs
    <2>3. QED
      BY <2>1, <2>2
  <1>7. \A y \in Tx : Untold(y)'
    BY <1>2, <1>4 DEF TrackInv, Untold, Known
  <1>8. \A y \in Tx : Verifies(y)'
    <2>1. type = "verify" => temp[x] = NoFile
      BY <1>2, <1>3 DEF Makes, MakePcs
    <2>2. QED
      BY <1>4, <2>1 DEF TrackInv, Verifies
  <1>9. SweepForgets' /\ TempIsTracked'
    BY <1>4 DEF TrackInv, SweepForgets, TempIsTracked
  <1>10. QED
    BY <1>5, <1>6, <1>7, <1>8, <1>9 DEF TrackInv

\* The client is told of the transaction when it is there and its activity is set.
LEMMA InitActivityKeepsTrackInv ==
    ASSUME TrackInv, Typed', NEW h \in Handler, InitActivity(h)
    PROVE  TrackInv'
  <1> DEFINE x == call[h].tx
  <1>1. pc[h] = "activity" /\ pc[h] \in MakePcs /\ x \in Tx
    BY RunningOnTx DEF InitActivity, At, MakePcs, TrackInv
  <1>2. info[x] \in Meta /\ ~info[x].told /\ alive[x]
    BY <1>1, NoValueAssumption DEF TrackInv, Makes, Known, Untold, Typed, Keys, Requests
  <1>3. info' = [info EXCEPT ![x] = [info[x] EXCEPT !.told = TRUE]]
    BY DEF InitActivity
  <1>4. info'[x].type = info[x].type /\ info'[x] \in Meta /\ info'[x].told
    BY <1>1, <1>2, <1>3 DEF Meta, TrackInv, Typed, Keys
  <1>5. info[x] # NoTx /\ info'[x] # NoTx
    BY <1>2, <1>4, NoValueAssumption
  <1>6. /\ \A y \in Tx \ {x} : info'[y] = info[y] /\ age'[y] = age[y]
        /\ age'[x] = "recent"
        /\ UNCHANGED <<alive, temp, sweeper>>
        /\ pc'[h] = "idle"
        /\ \A g \in Handler \ {h} : pc'[g] = pc[g] /\ call'[g] = call[g]
    BY <1>1, <1>3 DEF InitActivity, Leave, disk, TrackInv, Typed, Keys, Requests
  <1>7. ASSUME NEW g \in Handler \ {h} PROVE Makes(g)' /\ Told(g)' /\ VerifySteps(g)' /\ Forgets(g)'
    BY <1>1, <1>6, OthersKeepTheirsInInit
  <1>8. Makes(h)' /\ Told(h)' /\ VerifySteps(h)' /\ Forgets(h)'
    BY <1>6 DEF Makes, Told, VerifySteps, Forgets, MakePcs, ForgetPcs
  <1>9. \A y \in Tx : Untold(y)'
    BY <1>4, <1>5, <1>6 DEF TrackInv, Untold, Known
  <1>10. \A y \in Tx : Verifies(y)'
    BY <1>4, <1>5, <1>6 DEF TrackInv, Verifies
  <1>11. SweepForgets' /\ TempIsTracked'
    BY <1>2, <1>6 DEF TrackInv, SweepForgets, TempIsTracked
  <1>12. QED
    BY <1>7, <1>8, <1>9, <1>10, <1>11 DEF TrackInv

\* Time passes for transactions no request works on, and only for those with an activity.
LEMMA TimeKeepsTrackInv ==
    ASSUME TrackInv, Typed', NEW x \in Tx, Pass(x) \/ ExpireSlots(x)
    PROVE  TrackInv'
  <1>1. UNCHANGED <<info, temp, alive, sweeper, pc, call>>
    BY DEF Pass, ExpireSlots, disk, handlers
  <1>2. \A y \in Tx : age'[y] = "none" <=> age[y] = "none"
    BY DEF Pass, ExpireSlots, TrackInv, Typed, Keys
  <1>3. QED
    BY <1>1, <1>2 DEF TrackInv, Makes, Told, VerifySteps, Forgets, Untold, Verifies, SweepForgets,
                      TempIsTracked, Known

\* The sweeper deletes what it has unlinked.
LEMMA SweeperKeepsTrackInv ==
    ASSUME TrackInv, Typed', SweeperStep
    PROVE  TrackInv'
  <1> DEFINE x == sweeper.tx
  <1>1. UNCHANGED <<info, pc, call>>
    BY DEF SweeperStep, SweepPick, SweepGet, SweepCount, SweepUnlink, SweepDelete, Deleted, redis, handlers
  <1>2. sweeper.step # "idle" => x \in Tx /\ Known(x)
    BY DEF TrackInv, Typed, Sweeping, Untold
  <1>3. NoNewTemp
    BY <1>2 DEF SweeperStep, SweepPick, SweepGet, SweepCount, SweepUnlink, SweepDelete, Unlinked, disk,
         NoNewTemp, TrackInv, Typed, Files
  <1>4. ASSUME NEW g \in Handler PROVE Makes(g)' /\ Told(g)' /\ VerifySteps(g)' /\ Forgets(g)'
    <2>1. Makes(g) /\ Told(g) /\ VerifySteps(g) /\ Forgets(g)
      BY DEF TrackInv
    <2>2. pc[g] # "idle" => call[g].tx \in Tx
      BY RunningOnTx DEF TrackInv
    <2>3. "idle" \notin MakePcs \cup ForgetPcs
      BY DEF MakePcs, ForgetPcs
    <2>4. Makes(g)' /\ Told(g)' /\ VerifySteps(g)' /\ Forgets(g)'
      BY <1>1, <1>3, <2>1, <2>2, <2>3 DEF Makes, Told, VerifySteps, Forgets, Known, NoNewTemp
    <2>5. QED
      BY <2>4
  <1>5. \A y \in Tx : Verifies(y)'
    BY <1>1, <1>3 DEF TrackInv, Verifies, NoNewTemp
  <1>6. (\A y \in Tx : Untold(y)') /\ SweepForgets' /\ TempIsTracked'
    <2>1. CASE SweepPick
      <3>1. UNCHANGED <<temp, alive, age>>
        BY <2>1 DEF SweepPick, disk, redis
      <3>2. sweeper'.step = "get" /\ age[sweeper'.tx] # "none"
        BY <2>1 DEF SweepPick, Sweep
      <3>3. QED
        BY <1>1, <3>1, <3>2 DEF TrackInv, Untold, Known, SweepForgets, TempIsTracked
    <2>2. CASE SweepGet \/ SweepCount
      <3>1. x \in Tx /\ Known(x) /\ UNCHANGED <<temp, alive>>
        BY <1>2, <2>2 DEF SweepGet, SweepCount, disk, redis
      <3>2. sweeper'.step \in {"idle", "count", "unlink"} /\ (sweeper'.step # "idle" => sweeper'.tx = x)
        BY <2>2 DEF SweepGet, SweepCount, Sweep, SweepDone
      <3>3. UNCHANGED age \/ (~alive[x] /\ age' = [age EXCEPT ![x] = "none"])
        BY <2>2 DEF SweepGet, SweepCount, redis
      <3>4. \A y \in Tx : age'[y] = age[y] \/ (age'[y] = "none" /\ ~alive[y])
        BY <3>1, <3>3 DEF TrackInv, Typed, Keys
      <3>5. QED
        BY <1>1, <3>1, <3>2, <3>4 DEF TrackInv, Untold, Known, SweepForgets, TempIsTracked
    <2>3. CASE SweepUnlink
      <3>1. x \in Tx /\ Known(x) /\ UNCHANGED <<alive, age>>
        BY <1>2, <2>3 DEF SweepUnlink, redis
      <3>2. sweeper'.step = "delete" /\ sweeper'.tx = x
        BY <2>3 DEF SweepUnlink, Sweep
      <3>3. temp'[x] = NoFile
        BY <1>3, <2>3, <3>1 DEF SweepUnlink, Unlinked, disk, Known, TrackInv, Verifies, Typed, Files
      <3>4. QED
        BY <1>1, <1>3, <3>1, <3>2, <3>3 DEF TrackInv, Untold, Known, SweepForgets, TempIsTracked, NoNewTemp
    <2>4. CASE SweepDelete
      <3>1. x \in Tx /\ Known(x) /\ temp[x] = NoFile /\ UNCHANGED temp
        BY <1>2, <2>4 DEF SweepDelete, disk, TrackInv, SweepForgets
      <3>2. sweeper'.step = "idle"
        BY <2>4 DEF SweepDelete, SweepDone
      <3>3. \A y \in Tx \ {x} : alive'[y] = alive[y] /\ age'[y] = age[y]
        BY <2>4, <3>1 DEF SweepDelete, Deleted, TrackInv, Typed, Keys
      <3>4. QED
        BY <1>1, <3>1, <3>2, <3>3 DEF TrackInv, Untold, Known, SweepForgets, TempIsTracked
    <2>5. QED
      BY <2>1, <2>2, <2>3, <2>4 DEF SweeperStep
  <1>7. QED
    BY <1>4, <1>5, <1>6 DEF TrackInv

\* Writes that land, assets and the blob cleanup leave transactions alone and make no temp file.
LEMMA ElsewhereKeepsTrackInv ==
    ASSUME TrackInv, Typed', NoNewTemp, UNCHANGED <<info, alive, age, sweeper, pc, call>>
    PROVE  TrackInv'
  <1>1. ASSUME NEW g \in Handler PROVE Makes(g)' /\ Told(g)' /\ VerifySteps(g)' /\ Forgets(g)'
    <2>1. Makes(g) /\ Told(g) /\ VerifySteps(g) /\ Forgets(g)
      BY DEF TrackInv
    <2>2. pc[g] # "idle" => call[g].tx \in Tx
      BY RunningOnTx DEF TrackInv
    <2>3. "idle" \notin MakePcs \cup ForgetPcs
      BY DEF MakePcs, ForgetPcs
    <2>4. QED
      BY <2>1, <2>2, <2>3 DEF Makes, Told, VerifySteps, Forgets, Known, NoNewTemp
  <1>2. QED
    BY <1>1, ShrinkingKeepsTx DEF TrackInv

LEMMA InitTrackInv == Init => TrackInv
  BY InitTyped DEF Init, TrackInv, Makes, Told, VerifySteps, Forgets, Untold, Verifies, SweepForgets,
     TempIsTracked, Known, MakePcs, ForgetPcs

LEMMA NextKeepsTrackInv == TrackInv /\ [Next]_vars => TrackInv'
  <1> SUFFICES ASSUME TrackInv, [Next]_vars PROVE TrackInv'
    OBVIOUS
  <1>1. Typed'
    BY NextKeepsTyped DEF TrackInv
  <1>2. ASSUME NEW h \in Handler, BeginInit(h) \/ Begin(h) \/ HandlerStep(h) \/ Lose(h)
        PROVE  TrackInv'
    BY <1>1, <1>2, BeginKeepsTrackInv, LoadKeepsTrackInv, PlainStepsKeepTrackInv, MovingKeepsTrackInv,
       RedisStepsKeepTrackInv, InitLookupKeepsTrackInv, InitCreateKeepsTrackInv, InitActivityKeepsTrackInv
       DEF HandlerStep
  <1>3. CASE (\E a \in Asset : CreateAsset(a) \/ Abandon(a)) \/ Land \/ CollectorStep \/ UNCHANGED vars
    <2>1. UNCHANGED <<info, alive, age, sweeper, pc, call>>
      BY <1>3 DEF CreateAsset, Abandon, Land, CollectorStep, Collect, CollectDelete, CollectUnlink,
                  redis, handlers, vars
    <2>2. NoNewTemp
      <3>1. CASE Land
        BY <3>1, LandedIsNoNewTemp DEF Land, TrackInv
      <3>2. CASE ~Land
        <4>1. UNCHANGED temp
          BY <1>3, <3>2 DEF CreateAsset, Abandon, CollectorStep, Collect, CollectDelete, CollectUnlink,
                            Removed, disk, vars
        <4>2. QED
          BY <4>1 DEF NoNewTemp
      <3>3. QED
        BY <3>1, <3>2
    <2>3. QED
      BY <1>1, <2>1, <2>2, ElsewhereKeepsTrackInv
  <1>4. QED
    BY <1>1, <1>2, <1>3, TimeKeepsTrackInv, SweeperKeepsTrackInv DEF Next

\* The temp file of an upload a client was told of is one the cleanup will come to, wherever requests
\* end: no path forgets a transaction before its file is gone.
THEOREM TempFilesAreTracked == Spec => []TempIsTracked
  <1>1. TrackInv => TempIsTracked
    BY DEF TrackInv
  <1>2. QED
    BY <1>1, InitTrackInv, NextKeepsTrackInv, PTL DEF Spec
-----------------------------------------------------------------------------
(* The slots of an upload. *)

\* The steps of each request.
CanBeAt(s, op) ==
    /\ op = "init" => s \in MakePcs
    /\ op = "verify" => s \in {"load", "lookup", "compare", "forgetAsset", "forget", "asset", "back"}
    /\ op = "whole" =>
         s \in {"load", "lookup", "open", "write", "unlink", "insert", "forgetAsset", "asset", "back"}
    /\ op = "chunk" => s \in {"load", "acquire", "refuse", "getMeta", "setMeta", "open", "write", "mark",
                              "release", "reset"}
    /\ op = "cancel" => s \in {"load", "forget", "unlink"}
    /\ op = "complete" => s \in {"load", "count", "hash", "mismatch", "forget", "rename",
                                 "forgetInsert", "insert", "asset", "back"}
Control(h) == pc[h] # "idle" => CanBeAt(pc[h], call[h].op)

\* The requests that have counted themselves on x, and have not yet taken that back.
Counted(x) ==
    {h \in Handler : call[h] # NoCall /\ call[h].tx = x /\ call[h].op = "chunk"
                     /\ pc[h] \in SlotSteps \cup {"refuse"}}

\* The counter of a transaction starts at 0.  While the temp file is there it is not lower than the
\* requests that count on it, and those that have a slot are within the limit.
Slots(x) ==
    /\ info[x] = NoTx => active[x] = 0
    /\ temp[x] # NoFile => /\ active[x] >= Cardinality(Counted(x))
                           /\ Cardinality(Holders(x)) <= MaxSlots
\* The counter is only set to 0 by a release when the file is gone.
Resets(h) == pc[h] = "reset" => temp[call[h].tx] = NoFile

SlotInv ==
    /\ TrackInv
    /\ \A h \in Handler : Control(h) /\ Resets(h)
    /\ \A c \in Content : blobs[c] <= made
    /\ bits \in [Tx -> SUBSET Chunk]
    /\ active \in [Tx -> Int]
    /\ \A x \in Tx : Slots(x)

\* A chunk request that comes to a step has counted itself before, but for the try itself.
SlotsOf(h, s) ==
    /\ s \in SlotSteps /\ call[h].op = "chunk" => pc[h] \in SlotSteps \cup {"acquire"}
    /\ s = "refuse" => pc[h] = "acquire"
    /\ s = "reset" => pc[h] = "release"

\* A step of a request is its own, and leads to a step of such a request.
LEMMA RequestSteps ==
    ASSUME Typed, NEW h \in Handler, Control(h), HandlerStep(h) \/ Lose(h)
    PROVE  /\ pc[h] # "idle"
           /\ \E s \in Pcs :
                /\ pc' = [pc EXCEPT ![h] = s]
                /\ \/ s = "idle" /\ call' = [call EXCEPT ![h] = NoCall]
                   \/ s # "idle" /\ call' = call /\ CanBeAt(s, call[h].op)
                /\ SlotsOf(h, s)
  <1> DEFINE op == call[h].op
             To(s) == pc' = [pc EXCEPT ![h] = s] /\ call' = call
             Goes(s) == /\ To(s)
                        /\ s # "idle" /\ CanBeAt(s, op)
                        /\ SlotsOf(h, s)
  <1>1. pc[h] # "idle"
    BY DEF HandlerStep, Lose, Load, Forget, InitLookup, InitCreate, InitActivity, Lookup, Compare,
           OpenStored, WriteStored, Acquire, Refuse, GetMeta, SetMeta, OpenTemp, WriteTemp, Mark, Release,
           Reset, Unlink, Count, Hash, Mismatch, Rename, Insert, FindAsset, BackAsset, At
  <1>2. CanBeAt(pc[h], op) /\ op \in AllOps
    BY <1>1, RunningHas, RequestHas DEF Control, Typed
  <1>3. CASE Leave(h)
    BY <1>1, <1>3 DEF Leave, SlotsOf, SlotSteps, Pcs
  <1>4. CASE ~Leave(h)
    <2>1. ASSUME NEW s \in Pcs, Goes(s)
          PROVE  \E u \in Pcs :
                   /\ pc' = [pc EXCEPT ![h] = u]
                   /\ \/ u = "idle" /\ call' = [call EXCEPT ![h] = NoCall]
                      \/ u # "idle" /\ call' = call /\ CanBeAt(u, call[h].op)
                   /\ SlotsOf(h, u)
      BY <2>1
    <2>2. CASE Load(h)
      <3>1. \E s \in {"lookup", "acquire", "count", "forget", "unlink"} : Goes(s)
        <4>1. pc[h] = "load" /\ Goto(h, CASE op = "verify" -> "lookup"
                             [] op = "whole" -> "lookup"
                             [] op = "chunk" -> "acquire"
                             [] op = "complete" -> "count"
                             [] op = "cancel" -> IF info[call[h].tx].type = "verify" THEN "forget" ELSE "unlink")
          BY <1>4, <2>2 DEF Load, Return, At
        <4>2. op \in {"verify", "whole", "chunk", "complete", "cancel"}
          BY <1>2, <4>1 DEF CanBeAt, AllOps, MakePcs
        <4>3. CASE op \in {"verify", "whole"}
          BY <4>1, <4>3 DEF Goto, CanBeAt, SlotsOf, SlotSteps
        <4>4. CASE op = "chunk"
          BY <4>1, <4>4 DEF Goto, CanBeAt, SlotsOf, SlotSteps
        <4>5. CASE op = "complete"
          BY <4>1, <4>5 DEF Goto, CanBeAt, SlotsOf, SlotSteps
        <4>6. CASE op = "cancel"
          BY <4>1, <4>6 DEF Goto, CanBeAt, SlotsOf, SlotSteps
        <4>7. QED
          BY <4>2, <4>3, <4>4, <4>5, <4>6
      <3>2. QED
        BY <1>1, <2>1, <3>1 DEF Pcs
    <2>3. CASE Forget(h)
      <3>1. /\ pc[h] \in {"forget", "forgetInsert", "forgetAsset"}
            /\ CASE pc[h] = "forget" -> Leave(h)
                 [] pc[h] = "forgetInsert" -> Goto(h, "insert")
                 [] pc[h] = "forgetAsset" -> Goto(h, "asset")
        BY <2>3 DEF Forget
      <3>2. CASE pc[h] = "forget"
        BY <1>4, <3>1, <3>2
      <3>3. CASE pc[h] = "forgetInsert"
        BY <1>2, <2>1, <3>1, <3>3 DEF Goto, CanBeAt, AllOps, MakePcs, SlotsOf, SlotSteps, Pcs
      <3>4. CASE pc[h] = "forgetAsset"
        BY <1>2, <2>1, <3>1, <3>4 DEF Goto, CanBeAt, AllOps, MakePcs, SlotsOf, SlotSteps, Pcs
      <3>5. QED
        BY <3>1, <3>2, <3>3, <3>4
    <2>4. CASE InitLookup(h) \/ InitCreate(h) \/ InitActivity(h)
      <3>1. \/ pc[h] = "init" /\ To("createVerify")
            \/ pc[h] = "init" /\ To("create")
            \/ pc[h] \in {"create", "createVerify"} /\ To("activity")
        BY <1>4, <2>4 DEF InitLookup, InitCreate, InitActivity, At, Goto
      <3>2. QED
        BY <1>2, <2>1, <3>1 DEF CanBeAt, AllOps, MakePcs, SlotsOf, SlotSteps, Pcs
    <2>5. CASE Lookup(h) \/ Compare(h) \/ OpenStored(h) \/ WriteStored(h)
      <3>1. \/ pc[h] = "lookup" /\ To("compare") /\ op = "verify"
            \/ pc[h] = "lookup" /\ To("asset") /\ op # "verify"
            \/ pc[h] = "lookup" /\ To("open") /\ op # "verify"
            \/ pc[h] = "compare" /\ To("forgetAsset")
            \/ pc[h] = "compare" /\ To("forget")
            \/ pc[h] = "open" /\ To("write") /\ op = "whole"
            \/ pc[h] = "write" /\ To("unlink") /\ op = "whole"
        BY <1>4, <2>5 DEF Lookup, Compare, OpenStored, WriteStored, WriteAll, Return, At, Goto
      <3>2. QED
        BY <1>2, <2>1, <3>1 DEF CanBeAt, AllOps, MakePcs, SlotsOf, SlotSteps, Pcs
    <2>6. CASE Acquire(h) \/ Refuse(h) \/ GetMeta(h) \/ SetMeta(h) \/ OpenTemp(h)
      <3>1. \/ pc[h] = "acquire" /\ To("getMeta")
            \/ pc[h] = "acquire" /\ To("refuse")
            \/ pc[h] = "acquire" /\ To("open")
            \/ pc[h] = "getMeta" /\ To("setMeta")
            \/ pc[h] = "setMeta" /\ To("open")
            \/ pc[h] = "open" /\ To("release") /\ op = "chunk"
            \/ pc[h] = "open" /\ To("write") /\ op = "chunk"
        BY <1>4, <2>6 DEF Acquire, Refuse, GetMeta, SetMeta, OpenTemp, Return, At, Goto
      <3>2. QED
        BY <1>2, <2>1, <3>1 DEF CanBeAt, AllOps, MakePcs, SlotsOf, SlotSteps, Pcs
    <2>7. CASE WriteTemp(h) \/ Mark(h) \/ Release(h) \/ Reset(h)
      <3>1. \/ pc[h] = "write" /\ To("mark") /\ op = "chunk"
            \/ pc[h] = "mark" /\ To("release")
            \/ pc[h] = "release" /\ To("reset")
        BY <1>4, <2>7 DEF WriteTemp, WriteAll, Mark, Release, Reset, At, Goto
      <3>2. QED
        BY <1>2, <2>1, <3>1 DEF CanBeAt, AllOps, MakePcs, SlotsOf, SlotSteps, Pcs
    <2>8. CASE Unlink(h) \/ Count(h) \/ Hash(h)
      <3>1. \/ pc[h] = "unlink" /\ To("insert") /\ op = "whole"
            \/ pc[h] = "unlink" /\ To("forget") /\ op # "whole"
            \/ pc[h] = "count" /\ To("hash")
            \/ pc[h] = "hash" /\ To("rename")
            \/ pc[h] = "hash" /\ To("mismatch")
        BY <1>4, <2>8 DEF Unlink, Count, Hash, Return, At, Goto
      <3>2. QED
        BY <1>2, <2>1, <3>1 DEF CanBeAt, AllOps, MakePcs, SlotsOf, SlotSteps, Pcs
    <2>9. CASE Mismatch(h) \/ Rename(h)
      <3>1. \/ pc[h] = "mismatch" /\ To("forget")
            \/ pc[h] = "rename" /\ To("forgetInsert")
        BY <1>4, <2>9 DEF Mismatch, Rename, Return, At, Goto
      <3>2. QED
        BY <1>2, <2>1, <3>1 DEF CanBeAt, AllOps, MakePcs, SlotsOf, SlotSteps, Pcs
    <2>10. CASE Insert(h) \/ FindAsset(h) \/ BackAsset(h)
      <3>1. \/ pc[h] = "insert" /\ To("forgetAsset") /\ op = "whole"
            \/ pc[h] = "insert" /\ To("asset") /\ op # "whole"
            \/ pc[h] = "asset" /\ To("back")
        BY <1>4, <2>10 DEF Insert, FindAsset, BackAsset, Return, At, Goto
      <3>2. QED
        BY <1>2, <2>1, <3>1 DEF CanBeAt, AllOps, MakePcs, SlotsOf, SlotSteps, Pcs
    <2>11. CASE Lose(h)
      BY <1>4, <2>11 DEF Lose, Return
    <2>12. QED
      BY <2>2, <2>3, <2>5, <2>6, <2>7, <2>8, <2>9, <2>10, <2>11, <2>4 DEF HandlerStep
  <1>5. QED
    BY <1>1, <1>3, <1>4

\* The requests of a transaction are finitely many.
LEMMA CountsAreFinite ==
    ASSUME NEW x
    PROVE  /\ IsFiniteSet(Counted(x)) /\ IsFiniteSet(Holders(x))
           /\ Cardinality(Counted(x)) \in Nat /\ Cardinality(Holders(x)) \in Nat
           /\ Holders(x) \subseteq Counted(x)
  <1>1. Counted(x) \subseteq Handler /\ Holders(x) \subseteq Handler /\ Holders(x) \subseteq Counted(x)
    BY DEF Counted, Holders, On
  <1>2. QED
    BY <1>1, UploadAssumption, FS_Subset, FS_CardinalityType

\* Who counts on x, and who has a slot, after a step of h: nobody new, but for the one that tries.
LEMMA CountedStay ==
    ASSUME Typed, NEW h \in Handler, Control(h),
           Lose(h) \/ (HandlerStep(h) /\ pc[h] # "acquire"), NEW x
    PROVE  Counted(x)' \subseteq Counted(x) /\ Holders(x)' \subseteq Holders(x)
  <1>1. PICK s \in Pcs :
          /\ pc' = [pc EXCEPT ![h] = s]
          /\ \/ s = "idle" /\ call' = [call EXCEPT ![h] = NoCall]
             \/ s # "idle" /\ call' = call /\ CanBeAt(s, call[h].op)
          /\ SlotsOf(h, s)
    BY RequestSteps
  <1>2. "idle" \notin SlotSteps \cup {"refuse"}
    BY DEF SlotSteps
  <1>3. pc[h] = "acquire" => pc'[h] = "idle"
    BY DEF Lose, Return, Leave, Typed, Requests
  <1>4. /\ \A g \in Handler \ {h} : pc'[g] = pc[g] /\ call'[g] = call[g]
        /\ pc'[h] = s /\ (s = "idle" \/ call'[h] = call[h])
    BY <1>1 DEF Typed, Requests
  <1>5. ASSUME s \in SlotSteps, call[h].op = "chunk" PROVE pc[h] \in SlotSteps /\ call[h] # NoCall
    BY <1>1, <1>2, <1>3, <1>4, <1>5, RequestSteps DEF SlotsOf, Typed, Requests
  <1>6. s # "refuse"
    BY <1>1, <1>3, <1>4 DEF SlotsOf
  <1>7. QED
    BY <1>2, <1>4, <1>5, <1>6 DEF Counted, Holders, On

\* The counter stays and fewer count on it.
LEMMA FewerKeepSlots ==
    ASSUME NEW x \in Tx, Slots(x), active[x] \in Int, active'[x] = active[x],
           Counted(x)' \subseteq Counted(x), Holders(x)' \subseteq Holders(x),
           info'[x] = NoTx => info[x] = NoTx, temp'[x] # NoFile => temp[x] # NoFile
    PROVE  Slots(x)'
  <1>1. /\ Cardinality(Counted(x)') <= Cardinality(Counted(x)) /\ Cardinality(Counted(x)') \in Nat
        /\ Cardinality(Holders(x)') <= Cardinality(Holders(x)) /\ Cardinality(Holders(x)') \in Nat
        /\ Cardinality(Counted(x)) \in Nat /\ Cardinality(Holders(x)) \in Nat
    <2>1. IsFiniteSet(Counted(x)') /\ IsFiniteSet(Holders(x)')
      BY CountsAreFinite, FS_Subset
    <2>2. QED
      BY <2>1, CountsAreFinite, FS_Subset, FS_CardinalityType
  <1>2. CASE temp'[x] # NoFile
    <2>1. active[x] >= Cardinality(Counted(x)) /\ Cardinality(Holders(x)) <= MaxSlots
      BY <1>2 DEF Slots
    <2>2. active'[x] >= Cardinality(Counted(x)') /\ Cardinality(Holders(x)') <= MaxSlots
      BY <1>1, <2>1, UploadAssumption
    <2>3. QED
      BY <2>2 DEF Slots
  <1>3. CASE temp'[x] = NoFile
    BY <1>3 DEF Slots
  <1>4. QED
    BY <1>2, <1>3

\* Nobody counts on it, and it is 0 or stays at 0.
LEMMA NobodyKeepsSlots ==
    ASSUME NEW x \in Tx, Counted(x)' = {}, Holders(x)' = {}, active'[x] = 0
    PROVE  Slots(x)'
  BY FS_EmptySet, UploadAssumption DEF Slots

\* A chunk request is about a transaction its client was told of.
LEMMA ChunksAreKnown ==
    ASSUME SlotInv, NEW h \in Handler,
           pc[h] \in {"acquire", "release", "reset", "refuse", "forget", "forgetInsert", "forgetAsset"}
    PROVE  /\ Typed /\ Control(h) /\ call[h].tx \in Tx /\ info[call[h].tx] # NoTx /\ call[h] # NoCall
           /\ pc[h] \in {"acquire", "release", "reset", "refuse"} => call[h].op = "chunk"
  <1>1. Typed /\ Control(h) /\ Told(h)
    BY DEF SlotInv, TrackInv
  <1>2. call[h].tx \in Tx /\ call[h].op \in AllOps /\ call[h] # NoCall
    BY <1>1, RunningOnTx, RunningHas, RequestHas DEF Typed, Requests
  <1>3. info[call[h].tx] # NoTx
    BY <1>1 DEF Told, MakePcs, Known
  <1>4. CanBeAt(pc[h], call[h].op)
    BY <1>1 DEF Control
  <1>5. pc[h] \in {"acquire", "release", "reset", "refuse"} => call[h].op = "chunk"
    BY <1>2, <1>4 DEF CanBeAt, AllOps, MakePcs
  <1>6. QED
    BY <1>1, <1>2, <1>3, <1>5

\* A try: the counter is one more, and so are the requests that count on it.
LEMMA AcquireKeepsSlots ==
    ASSUME SlotInv, NEW h \in Handler, Acquire(h), NEW x \in Tx
    PROVE  Slots(x)'
  <1> DEFINE y == call[h].tx
  <1>1. /\ pc[h] = "acquire" /\ UNCHANGED <<info, temp, call>> /\ active' = [active EXCEPT ![y] = @ + 1]
        /\ \E s \in SlotSteps \cup {"refuse"} :
             pc' = [pc EXCEPT ![h] = s] /\ (s = "refuse" \/ active[y] + 1 \in 0 .. MaxSlots)
    BY DEF Acquire, At, Goto, disk, SlotSteps
  <1>2. /\ Typed /\ y \in Tx /\ call[h].op = "chunk" /\ call[h] # NoCall /\ info[y] # NoTx
        /\ Slots(x) /\ active[x] \in Int
    BY <1>1, ChunksAreKnown DEF SlotInv
  <1>3. /\ \A g \in Handler \ {h} : pc'[g] = pc[g]
        /\ pc'[h] \in SlotSteps \cup {"refuse"}
        /\ pc'[h] = "refuse" \/ active[y] + 1 <= MaxSlots
    BY <1>1, <1>2, UploadAssumption DEF Typed, Requests
  <1>4. "acquire" \notin SlotSteps \cup {"refuse"} /\ "refuse" \notin SlotSteps
    BY DEF SlotSteps
  <1>5. CASE x # y
    <2>1. Counted(x)' \subseteq Counted(x) /\ Holders(x)' \subseteq Holders(x)
      BY <1>1, <1>2, <1>3, <1>5 DEF Counted, Holders, On
    <2>2. active'[x] = active[x]
      BY <1>1, <1>2, <1>5 DEF SlotInv
    <2>3. QED
      BY <1>1, <1>2, <2>1, <2>2, FewerKeepSlots
  <1>6. CASE x = y
    <2>1. h \notin Counted(x) /\ h \notin Holders(x)
      BY <1>1, <1>4 DEF Counted, Holders
    <2>2. Counted(x)' = Counted(x) \cup {h}
      BY <1>1, <1>2, <1>3, <1>6 DEF Counted
    <2>3. Cardinality(Counted(x)') = Cardinality(Counted(x)) + 1
      BY <2>1, <2>2, CountsAreFinite, FS_AddElement
    <2>4. active'[x] = active[x] + 1
      BY <1>1, <1>2, <1>6 DEF SlotInv
    <2>5. CASE pc'[h] = "refuse"
      <3>1. Holders(x)' = Holders(x)
        BY <1>1, <1>3, <1>4, <2>5 DEF Holders, On
      <3>2. QED
        BY <1>1, <1>2, <1>6, <2>3, <2>4, <3>1, CountsAreFinite DEF Slots
    <2>6. CASE pc'[h] # "refuse"
      <3>1. Holders(x)' = Holders(x) \cup {h}
        BY <1>1, <1>2, <1>3, <1>6, <2>6 DEF Holders, On
      <3>2. Cardinality(Holders(x)') = Cardinality(Holders(x)) + 1
        BY <2>1, <3>1, CountsAreFinite, FS_AddElement
      <3>3. Cardinality(Holders(x)) <= Cardinality(Counted(x))
        BY CountsAreFinite, FS_Subset
      <3>4. active[x] + 1 <= MaxSlots
        BY <1>3, <1>6, <2>6
      <3>5. ASSUME temp[x] # NoFile
            PROVE  active'[x] >= Cardinality(Counted(x)') /\ Cardinality(Holders(x)') <= MaxSlots
        <4>1. active[x] >= Cardinality(Counted(x))
          BY <1>2, <3>5 DEF Slots
        <4>2. QED
          BY <1>2, <2>3, <2>4, <3>2, <3>3, <3>4, <4>1, CountsAreFinite, UploadAssumption
      <3>6. QED
        BY <1>1, <1>2, <1>6, <3>5 DEF Slots
    <2>7. QED
      BY <2>5, <2>6
  <1>7. QED
    BY <1>5, <1>6

\* What was counted is taken back: both are one less.
LEMMA ReleaseKeepsSlots ==
    ASSUME SlotInv, NEW h \in Handler, Release(h) \/ Refuse(h), NEW x \in Tx
    PROVE  Slots(x)'
  <1> DEFINE y == call[h].tx
  <1>1. /\ pc[h] \in {"release", "refuse"} /\ UNCHANGED <<info, temp>>
        /\ active' = [active EXCEPT ![y] = @ - 1]
        /\ \E s \in {"reset", "idle"} : pc' = [pc EXCEPT ![h] = s]
        /\ call' = call \/ call' = [call EXCEPT ![h] = NoCall]
    BY DEF Release, Refuse, Goto, Leave, At, disk
  <1>2. /\ Typed /\ y \in Tx /\ call[h].op = "chunk" /\ call[h] # NoCall /\ info[y] # NoTx
        /\ Slots(x) /\ active[x] \in Int
    BY <1>1, ChunksAreKnown DEF SlotInv
  <1>3. /\ \A g \in Handler \ {h} : pc'[g] = pc[g] /\ call'[g] = call[g]
        /\ pc'[h] \notin SlotSteps \cup {"refuse"} /\ pc[h] \in SlotSteps \cup {"refuse"}
    BY <1>1, <1>2 DEF Typed, Requests, SlotSteps
  <1>4. Counted(x)' = Counted(x) \ {h} /\ Holders(x)' \subseteq Holders(x)
    BY <1>1, <1>3 DEF Counted, Holders, On
  <1>5. CASE x # y
    <2>1. active'[x] = active[x]
      BY <1>1, <1>2, <1>5 DEF SlotInv
    <2>2. QED
      BY <1>1, <1>2, <1>4, <2>1, FewerKeepSlots
  <1>6. CASE x = y
    <2>1. h \in Counted(x)
      BY <1>2, <1>3, <1>6 DEF Counted
    <2>2. Cardinality(Counted(x)') = Cardinality(Counted(x)) - 1
      BY <1>4, <2>1, CountsAreFinite, FS_RemoveElement
    <2>3. Cardinality(Holders(x)') <= Cardinality(Holders(x)) /\ Cardinality(Holders(x)') \in Nat
      BY <1>4, CountsAreFinite, FS_Subset, FS_CardinalityType
    <2>4. active'[x] = active[x] - 1
      BY <1>1, <1>2, <1>6 DEF SlotInv
    <2>5. ASSUME temp[x] # NoFile
          PROVE  active'[x] >= Cardinality(Counted(x)') /\ Cardinality(Holders(x)') <= MaxSlots
      BY <1>2, <2>2, <2>3, <2>4, <2>5, CountsAreFinite, UploadAssumption DEF Slots
    <2>6. QED
      BY <1>1, <1>2, <1>6, <2>5 DEF Slots
  <1>7. QED
    BY <1>5, <1>6

\* Only upload_init makes a file of the temp folder.
LEMMA RequestMakesNoTemp ==
    ASSUME Typed, NEW h \in Handler, HandlerStep(h) \/ Lose(h), ~InitLookup(h)
    PROVE  NoNewTemp
  <1>1. CASE WriteStored(h) \/ WriteTemp(h)
    BY <1>1, WriteAllIsNoNewTemp DEF WriteStored, WriteTemp
  <1>2. CASE Unlink(h) \/ Mismatch(h) \/ Rename(h)
    <2>1. call[h].tx \in Tx
      BY <1>2, RunningOnTx DEF Unlink, Mismatch, Rename, At
    <2>2. temp' = temp \/ temp' = [temp EXCEPT ![call[h].tx] = NoFile]
      BY <1>2 DEF Unlink, Unlinked, Mismatch, Rename, Renamed, Return
    <2>3. QED
      BY <2>1, <2>2 DEF NoNewTemp, Typed, Files
  <1>3. CASE ~(WriteStored(h) \/ WriteTemp(h)) /\ ~(Unlink(h) \/ Mismatch(h) \/ Rename(h))
    <2>1. temp' = temp
      BY <1>3 DEF HandlerStep, Lose, Load, Forget, InitCreate, InitActivity, Lookup, Compare, OpenStored,
           Acquire, Refuse, GetMeta, SetMeta, OpenTemp, Mark, Release, Reset, Count, Hash, Insert,
           FindAsset, BackAsset, Return, disk
    <2>2. QED
      BY <2>1 DEF NoNewTemp
  <1>4. QED
    BY <1>1, <1>2, <1>3

\* Redis: what a step does to the counters and to what is marked.
LEMMA CountersAndMarks ==
    ASSUME Typed, NEW h \in Handler, HandlerStep(h) \/ Lose(h)
    PROVE  LET x == call[h].tx
           IN  /\ \/ Acquire(h) \/ Release(h) \/ Refuse(h)
                  \/ /\ Lose(h) \/ pc[h] # "acquire"
                     /\ \/ active' = active
                        \/ (Forget(h) \/ Reset(h)) /\ active' = [active EXCEPT ![x] = 0]
               /\ \/ bits' = bits
                  \/ Forget(h) /\ bits' = [bits EXCEPT ![x] = {}]
                  \/ Mark(h) /\ bits' = [bits EXCEPT ![x] = @ \cup {call[h].chunk}]
  <1> USE DEF At, redis
  <1>1. CASE Load(h) \/ GetMeta(h) \/ Count(h) \/ Hash(h) \/ Compare(h) \/ FindAsset(h)
    BY <1>1 DEF Load, GetMeta, Count, Hash, Compare, FindAsset, Return
  <1>2. CASE InitLookup(h) \/ InitCreate(h) \/ InitActivity(h) \/ Lookup(h)
    BY <1>2 DEF InitLookup, InitCreate, InitActivity, Lookup, Return
  <1>3. CASE OpenStored(h) \/ WriteStored(h) \/ OpenTemp(h) \/ WriteTemp(h)
    BY <1>3 DEF OpenStored, WriteStored, OpenTemp, WriteTemp, WriteAll
  <1>4. CASE Unlink(h) \/ Mismatch(h) \/ Rename(h) \/ Insert(h) \/ BackAsset(h)
    BY <1>4 DEF Unlink, Mismatch, Rename, Insert, BackAsset, Return
  <1>5. CASE Forget(h) \/ Acquire(h) \/ Refuse(h) \/ SetMeta(h) \/ Mark(h) \/ Release(h) \/ Reset(h)
    BY <1>5 DEF Forget, Deleted, Acquire, Refuse, SetMeta, Mark, Release, Reset, Return
  <1>6. CASE Lose(h)
    BY <1>6 DEF Lose, Return
  <1>7. QED
    BY <1>1, <1>2, <1>3, <1>4, <1>5, <1>6 DEF HandlerStep

\* The rows of blobs: a new one has a new id.
LEMMA BlobsStayBelowMade ==
    ASSUME Typed, \A c \in Content : blobs[c] <= made, [Next]_vars
    PROVE  \A c \in Content : blobs'[c] <= made'
  <1>1. CASE \E h \in Handler : Insert(h)
    <2>1. PICK h \in Handler : Insert(h)
      BY <1>1
    <2>2. UNCHANGED <<blobs, made>> \/ (made' = made + 1 /\ \E c : blobs' = [blobs EXCEPT ![c] = made'])
      BY <2>1 DEF Insert, Return, postgres
    <2>3. QED
      BY <2>2 DEF Typed, Tables
  <1>2. CASE CollectDelete
    <2>1. /\ made' = made
          /\ \/ blobs' = blobs
             \/ \E rows : blobs' = [c \in Content |-> IF <<c, blobs[c]>> \in rows THEN NoBlob ELSE blobs[c]]
      BY <1>2 DEF CollectDelete
    <2>2. \A c \in Content : blobs'[c] \in {blobs[c], 0}
      BY <2>1 DEF NoBlob
    <2>3. QED
      BY <2>1, <2>2 DEF Typed, Tables
  <1>3. CASE ~(\E h \in Handler : Insert(h)) /\ ~CollectDelete
    <2>1. UNCHANGED <<blobs, made>>
      <3>1. ASSUME NEW h \in Handler, HandlerStep(h), ~Insert(h) PROVE UNCHANGED <<blobs, made>>
        BY <3>1 DEF HandlerStep, Load, Forget, InitLookup, InitCreate, InitActivity, Lookup, Compare,
             OpenStored, WriteStored, WriteAll, Acquire, Refuse, GetMeta, SetMeta, OpenTemp, WriteTemp, Mark,
             Release, Reset, Unlink, Count, Hash, Mismatch, Rename, FindAsset, BackAsset, Return,
             postgres
      <3>2. ASSUME NEW h \in Handler, BeginInit(h) \/ Begin(h) \/ Lose(h) PROVE UNCHANGED <<blobs, made>>
        BY <3>2 DEF BeginInit, Begin, Start, Lose, Return, postgres
      <3>3. CASE \/ \E a \in Asset : CreateAsset(a) \/ Abandon(a)
                 \/ \E x \in Tx : Pass(x) \/ ExpireSlots(x)
                 \/ Land \/ SweeperStep \/ Collect \/ CollectUnlink \/ UNCHANGED vars
        BY <3>3 DEF CreateAsset, Abandon, Pass, ExpireSlots, Land, SweeperStep, SweepPick, SweepGet,
             SweepCount, SweepUnlink, SweepDelete, Collect, CollectUnlink, postgres, vars
      <3>4. QED
        BY <1>3, <3>1, <3>2, <3>3 DEF Next, CollectorStep
    <2>2. QED
      BY <2>1
  <1>4. QED
    BY <1>1, <1>2, <1>3

LEMMA InfoStays ==
    ASSUME Typed, Typed', NEW h \in Handler, HandlerStep(h) \/ Lose(h), NEW x \in Tx, info'[x] = NoTx
    PROVE  info[x] = NoTx
  <1>1. CASE InitCreate(h)
    <2>1. pc[h] # "idle" /\ pc'[h] = "activity" /\ call'[h] = call[h]
      BY <1>1 DEF InitCreate, Goto, Typed, Requests
    <2>2. info'[call[h].tx] # NoTx
      BY <2>1 DEF Typed, Requests
    <2>3. \E m : info' = [info EXCEPT ![call[h].tx] = m]
      BY <1>1 DEF InitCreate
    <2>4. QED
      BY <2>2, <2>3 DEF Typed, Keys
  <1>2. CASE InitActivity(h)
    <2>1. call[h].tx \in Tx /\ info[call[h].tx] \in Meta
      BY <1>2, RunningOnTx DEF InitActivity, At, Typed, Requests, Keys
    <2>2. [info[call[h].tx] EXCEPT !.told = TRUE] # NoTx
      BY <2>1, NoValueAssumption DEF Meta
    <2>3. info' = [info EXCEPT ![call[h].tx] = [info[call[h].tx] EXCEPT !.told = TRUE]]
      BY <1>2 DEF InitActivity
    <2>4. QED
      BY <2>1, <2>2, <2>3 DEF Typed, Keys
  <1>3. CASE ~InitCreate(h) /\ ~InitActivity(h)
    <2>1. info' = info
      BY <1>3 DEF HandlerStep, Lose, Load, Forget, Deleted, InitLookup, Lookup, Compare, OpenStored,
           WriteStored, WriteAll, Acquire, Refuse, GetMeta, SetMeta, OpenTemp, WriteTemp, Mark, Release, Reset,
           Unlink, Count, Hash, Mismatch, Rename, Insert, FindAsset, BackAsset, Return, redis
    <2>2. QED
      BY <2>1
  <1>4. QED
    BY <1>1, <1>2, <1>3

\* The part of the invariant that is about the requests and the counters, on a step of a request
LEMMA RequestKeepsSlots ==
    ASSUME SlotInv, Typed', NEW h \in Handler, HandlerStep(h) \/ Lose(h)
    PROVE  /\ \A g \in Handler : Control(g)' /\ Resets(g)'
           /\ bits' \in [Tx -> SUBSET Chunk]
           /\ active' \in [Tx -> Int]
           /\ \A x \in Tx : Slots(x)'
  <1> DEFINE y == call[h].tx
  <1>1. Typed /\ Control(h)
    BY DEF SlotInv, TrackInv
  <1>2. PICK s \in Pcs :
          /\ pc' = [pc EXCEPT ![h] = s]
          /\ \/ s = "idle" /\ call' = [call EXCEPT ![h] = NoCall]
             \/ s # "idle" /\ call' = call /\ CanBeAt(s, call[h].op)
          /\ SlotsOf(h, s)
    BY <1>1, RequestSteps
  <1>3. pc[h] # "idle" /\ y \in Tx
    BY <1>1, RequestSteps, RunningOnTx
  <1>4. \A g \in Handler : Control(g)'
    BY <1>1, <1>2 DEF SlotInv, Control, Typed, Requests
  <1>5. bits' \in [Tx -> SUBSET Chunk]
    <2>1. CASE Mark(h)
      <3>1. call[h].op = "chunk"
        <4>1. CanBeAt("mark", call[h].op) /\ call[h].op \in AllOps
          BY <1>1, <1>3, <2>1, RunningHas, RequestHas DEF Control, Typed, Mark, At
        <4>2. QED
          BY <4>1 DEF CanBeAt, AllOps, MakePcs
      <3>2. call[h].chunk \in Chunk
        BY <1>1, <1>3, <3>1, RunningHas, RequestHas DEF Typed
      <3>3. QED
        BY <2>1, <3>2 DEF Mark, SlotInv
    <2>2. CASE ~Mark(h)
      BY <1>1, <2>2, CountersAndMarks DEF SlotInv
    <2>3. QED
      BY <2>1, <2>2
  <1>6. active' \in [Tx -> Int] /\ \A x \in Tx : Slots(x)'
    <2>1. CASE Acquire(h)
      <3>1. active' = [active EXCEPT ![y] = @ + 1]
        BY <2>1 DEF Acquire
      <3>2. QED
        BY <1>3, <2>1, <3>1, AcquireKeepsSlots DEF SlotInv
    <2>2. CASE Release(h) \/ Refuse(h)
      <3>1. active' = [active EXCEPT ![y] = @ - 1]
        BY <2>2 DEF Release, Refuse
      <3>2. QED
        BY <1>3, <2>2, <3>1, ReleaseKeepsSlots DEF SlotInv
    <2>3. CASE ~Acquire(h) /\ ~Release(h) /\ ~Refuse(h)
      <3>1. /\ Lose(h) \/ (HandlerStep(h) /\ pc[h] # "acquire")
            /\ \/ active' = active
               \/ (Forget(h) \/ Reset(h)) /\ active' = [active EXCEPT ![y] = 0]
        BY <1>1, <2>3, CountersAndMarks
      <3>2. active' \in [Tx -> Int]
        BY <3>1 DEF SlotInv
      <3>3. ASSUME NEW x \in Tx PROVE Slots(x)'
        <4>1. Counted(x)' \subseteq Counted(x) /\ Holders(x)' \subseteq Holders(x)
          BY <1>1, <3>1, CountedStay
        <4>2. info'[x] = NoTx => info[x] = NoTx
          BY <1>1, InfoStays
        <4>3. Slots(x) /\ active \in [Tx -> Int]
          BY DEF SlotInv
        <4>4. CASE (Forget(h) \/ Reset(h)) /\ x = y /\ active' = [active EXCEPT ![y] = 0]
          <5>1. temp' = temp
            BY <4>4 DEF Forget, Reset, disk
          <5>2. temp[y] = NoFile
            BY <4>4 DEF Forget, Reset, At, SlotInv, TrackInv, Forgets, ForgetPcs, Resets
          <5>3. active'[x] = 0
            BY <4>3, <4>4
          <5>4. QED
            BY <4>4, <5>1, <5>2, <5>3 DEF Slots
        <4>5. CASE InitLookup(h) /\ x = y
          <5>1. /\ pc[h] = "init" /\ Makes(h) /\ \A g \in Handler : Told(g)
            BY <4>5 DEF InitLookup, At, SlotInv, TrackInv
          <5>2. info[x] = NoTx
            BY <4>5, <5>1 DEF Makes, MakePcs
          <5>3. ASSUME NEW g \in Counted(x) PROVE FALSE
            <6>1. g \in Handler /\ call[g].tx = x /\ pc[g] \in SlotSteps \cup {"refuse"}
              BY DEF Counted
            <6>2. info[x] # NoTx
              BY <5>1, <6>1 DEF Told, MakePcs, SlotSteps, Known
            <6>3. QED
              BY <5>2, <6>2
          <5>4. Holders(x) \subseteq Counted(x)
            BY CountsAreFinite
          <5>5. active' = active
            BY <4>5 DEF InitLookup, redis
          <5>6. active[x] = 0
            BY <4>3, <5>2 DEF Slots
          <5>7. QED
            BY <4>1, <5>3, <5>4, <5>5, <5>6, NobodyKeepsSlots
        <4>6. CASE /\ ~((Forget(h) \/ Reset(h)) /\ x = y /\ active' = [active EXCEPT ![y] = 0])
                   /\ ~(InitLookup(h) /\ x = y)
          <5>1. active'[x] = active[x]
            BY <3>1, <4>3, <4>6
          <5>2. temp'[x] # NoFile => temp[x] # NoFile
            <6>1. CASE InitLookup(h)
              <7>1. temp' = temp \/ temp' = [temp EXCEPT ![y] = Zeros]
                BY <6>1 DEF InitLookup
              <7>2. QED
                BY <1>1, <4>6, <6>1, <7>1 DEF Typed, Files
            <6>2. CASE ~InitLookup(h)
              BY <1>1, <6>2, RequestMakesNoTemp DEF NoNewTemp
            <6>3. QED
              BY <6>1, <6>2
          <5>3. QED
            BY <4>1, <4>2, <4>3, <5>1, <5>2, FewerKeepSlots
        <4>7. QED
          BY <4>4, <4>5, <4>6
      <3>4. QED
        BY <3>2, <3>3
    <2>4. QED
      BY <2>1, <2>2, <2>3
  <1>7. ASSUME NEW g \in Handler PROVE Resets(g)'
    <2>1. CASE g = h
      <3>1. SUFFICES ASSUME pc'[h] = "reset" PROVE temp'[y] = NoFile
        BY <1>1, <1>2, <2>1 DEF Resets, Typed, Requests
      <3>2. pc[h] = "release" /\ call' = call
        BY <1>1, <1>2, <3>1 DEF SlotsOf, Typed, Requests
      <3>3. Release(h)
        <4>1. ~Lose(h)
          BY <1>2, <3>1 DEF Lose, Return, Leave, Typed, Requests
        <4>2. QED
          BY <3>2, <4>1 DEF HandlerStep, Load, Forget, InitLookup, InitCreate, InitActivity, Lookup, Compare,
             OpenStored, WriteStored, Acquire, Refuse, GetMeta, SetMeta, OpenTemp, WriteTemp, Mark, Reset,
             Unlink, Count, Hash, Mismatch, Rename, Insert, FindAsset, BackAsset, At
      <3>4. active[y] - 1 < 0 /\ temp' = temp
        BY <1>1, <3>1, <3>3 DEF Release, Leave, Typed, Requests, disk
      <3>5. h \in Counted(y)
        BY <1>3, <3>2, ChunksAreKnown DEF Counted, SlotSteps
      <3>6. Cardinality(Counted(y)) # 0
        BY <3>5, CountsAreFinite, FS_EmptySet
      <3>7. active[y] \in Int /\ Slots(y)
        BY <1>3 DEF SlotInv
      <3>8. QED
        BY <3>4, <3>6, <3>7, CountsAreFinite DEF Slots
    <2>2. CASE g # h
      <3>1. pc'[g] = pc[g] /\ call'[g] = call[g] /\ Resets(g) /\ Told(g)
        BY <1>1, <1>2, <2>2 DEF Typed, Requests, SlotInv, TrackInv
      <3>2. SUFFICES ASSUME pc[g] = "reset" PROVE temp'[call[g].tx] = NoFile
        BY <3>1 DEF Resets
      <3>3. call[g].tx \in Tx /\ temp[call[g].tx] = NoFile /\ info[call[g].tx] # NoTx
        BY <3>1, <3>2, ChunksAreKnown DEF Resets
      <3>4. CASE InitLookup(h)
        <4>1. info[y] = NoTx
          BY <3>4 DEF InitLookup, At, SlotInv, TrackInv, Makes, MakePcs
        <4>2. temp' = temp \/ temp' = [temp EXCEPT ![y] = Zeros]
          BY <3>4 DEF InitLookup
        <4>3. QED
          BY <1>1, <3>3, <4>1, <4>2 DEF Typed, Files
      <3>5. CASE ~InitLookup(h)
        BY <1>1, <3>3, <3>5, RequestMakesNoTemp DEF NoNewTemp
      <3>6. QED
        BY <3>4, <3>5
    <2>3. QED
      BY <2>1, <2>2
  <1>8. QED
    BY <1>4, <1>5, <1>6, <1>7

\* Everybody else counts on nothing, makes no temp file and no transaction, and leaves the counters
\* or sets one to 0: on a transaction without a file, or without requests.
LEMMA ElsewhereKeepsSlots ==
    ASSUME SlotInv, UNCHANGED <<pc, call, info>>, NoNewTemp, bits' \in [Tx -> SUBSET Chunk],
           \/ active' = active
           \/ \E y \in Tx : /\ active' = [active EXCEPT ![y] = 0]
                            /\ temp'[y] = NoFile \/ On(y) = {}
    PROVE  /\ \A g \in Handler : Control(g)' /\ Resets(g)'
           /\ bits' \in [Tx -> SUBSET Chunk]
           /\ active' \in [Tx -> Int]
           /\ \A x \in Tx : Slots(x)'
  <1>1. active' \in [Tx -> Int]
    BY DEF SlotInv
  <1>2. ASSUME NEW x \in Tx PROVE Slots(x)'
    <2>1. Counted(x)' = Counted(x) /\ Holders(x)' = Holders(x)
      BY DEF Counted, Holders, On
    <2>2. Slots(x) /\ active \in [Tx -> Int]
      BY DEF SlotInv
    <2>3. CASE active'[x] = active[x]
      BY <2>1, <2>2, <2>3, FewerKeepSlots DEF NoNewTemp
    <2>4. CASE active'[x] = 0 /\ temp'[x] = NoFile
      BY <2>4 DEF Slots
    <2>5. CASE active'[x] = 0 /\ On(x) = {}
      <3>1. Counted(x) = {} /\ Holders(x) = {}
        BY <2>5 DEF Counted, Holders, On
      <3>2. QED
        BY <2>1, <2>5, <3>1, NobodyKeepsSlots
    <2>6. QED
      BY <2>2, <2>3, <2>4, <2>5
  <1>3. ASSUME NEW g \in Handler PROVE Control(g)' /\ Resets(g)'
    <2>1. Control(g) /\ Resets(g)
      BY DEF SlotInv
    <2>2. pc[g] = "reset" => call[g].tx \in Tx
      BY ChunksAreKnown
    <2>3. QED
      BY <2>1, <2>2 DEF Control, Resets, NoNewTemp
  <1>4. QED
    BY <1>1, <1>2, <1>3

LEMMA BeginKeepsSlots ==
    ASSUME SlotInv, NEW h \in Handler, BeginInit(h) \/ Begin(h)
    PROVE  /\ \A g \in Handler : Control(g)' /\ Resets(g)'
           /\ bits' \in [Tx -> SUBSET Chunk]
           /\ active' \in [Tx -> Int]
           /\ \A x \in Tx : Slots(x)'
  <1>1. \E c, s : /\ Start(h, c, s)
                  /\ \/ c.op = "init" /\ s = "init"
                     \/ c.op \in AllOps \ {"init"} /\ s = "load"
    <2>1. CASE BeginInit(h)
      <3>1. PICK a \in Asset, c \in Content, x \in Tx :
              Start(h, [op |-> "init", tx |-> x, asset |-> a, content |-> c], "init")
        BY <2>1 DEF BeginInit
      <3>2. [op |-> "init", tx |-> x, asset |-> a, content |-> c].op = "init"
        OBVIOUS
      <3>3. QED
        BY <3>1, <3>2
    <2>2. CASE Begin(h)
      <3>1. PICK op \in Ops \ {"init"}, x \in Tx, k \in Chunk, d \in {"right", "wrong"} :
              Start(h, [op |-> op, tx |-> x, asset |-> info[x].asset, content |-> info[x].content,
                        chunk |-> k, data |-> d], "load")
        BY <2>2 DEF Begin
      <3>2. op \in AllOps \ {"init"}
        BY UploadAssumption
      <3>3. QED
        BY <3>1, <3>2
    <2>3. QED
      BY <2>1, <2>2
  <1>2. PICK c, s : /\ Start(h, c, s)
                    /\ \/ c.op = "init" /\ s = "init"
                       \/ c.op \in AllOps \ {"init"} /\ s = "load"
    BY <1>1
  <1>3. /\ pc[h] = "idle" /\ pc' = [pc EXCEPT ![h] = s] /\ call' = [call EXCEPT ![h] = c]
        /\ UNCHANGED <<active, bits, info, temp>>
    BY <1>2 DEF Start, redis, disk, At
  <1>4. CanBeAt(s, c.op) /\ s \notin SlotSteps \cup {"refuse", "reset"}
    BY <1>2 DEF CanBeAt, AllOps, MakePcs, SlotSteps
  <1>5. Typed
    BY DEF SlotInv, TrackInv
  <1>6. \A g \in Handler : Control(g)' /\ Resets(g)'
    BY <1>3, <1>4, <1>5 DEF SlotInv, Control, Resets, Typed, Requests
  <1>7. \A x \in Tx : Counted(x)' \subseteq Counted(x) /\ Holders(x)' \subseteq Holders(x)
    BY <1>3, <1>4, <1>5 DEF Counted, Holders, On, Typed, Requests
  <1>8. \A x \in Tx : Slots(x)'
    BY <1>3, <1>7, FewerKeepSlots DEF SlotInv
  <1>9. QED
    BY <1>3, <1>6, <1>8 DEF SlotInv

LEMMA InitSlotInv == Init => SlotInv
  <1> SUFFICES ASSUME Init PROVE SlotInv
    OBVIOUS
  <1>1. ASSUME NEW x \in Tx PROVE Slots(x)
    <2>1. active[x] = 0 /\ temp[x] = NoFile
      BY DEF Init
    <2>2. QED
      BY <2>1 DEF Slots
  <1>2. QED
    BY <1>1, InitTrackInv DEF Init, SlotInv, Control, Resets, NoBlob

LEMMA NextKeepsSlotInv == SlotInv /\ [Next]_vars => SlotInv'
  <1> SUFFICES ASSUME SlotInv, [Next]_vars PROVE SlotInv'
    OBVIOUS
  <1>1. TrackInv' /\ Typed' /\ \A c \in Content : blobs'[c] <= made'
    BY NextKeepsTrackInv, BlobsStayBelowMade DEF SlotInv, TrackInv
  <1>2. CASE \E h \in Handler : HandlerStep(h) \/ Lose(h)
    BY <1>1, <1>2, RequestKeepsSlots DEF SlotInv
  <1>3. CASE \E h \in Handler : BeginInit(h) \/ Begin(h)
    BY <1>1, <1>3, BeginKeepsSlots DEF SlotInv
  <1>4. CASE ~\E h \in Handler : BeginInit(h) \/ Begin(h) \/ HandlerStep(h) \/ Lose(h)
    <2>1. UNCHANGED <<pc, call, info>>
      BY <1>4 DEF Next, CreateAsset, Abandon, Pass, ExpireSlots, Land, SweeperStep, SweepPick, SweepGet,
           SweepCount, SweepUnlink, SweepDelete, Deleted, CollectorStep, Collect, CollectDelete,
           CollectUnlink, handlers, redis, vars
    <2>2. NoNewTemp /\ Typed
      <3>1. Typed
        BY DEF SlotInv, TrackInv
      <3>2. CASE Land
        BY <3>1, <3>2, LandedIsNoNewTemp DEF Land
      <3>3. CASE SweepUnlink
        <4>1. sweeper.tx \in Tx
          BY <3>1, <3>3 DEF SweepUnlink, Typed, Sweeping
        <4>2. temp' = temp \/ temp' = [temp EXCEPT ![sweeper.tx] = NoFile]
          BY <3>3 DEF SweepUnlink, Unlinked, disk
        <4>3. QED
          BY <3>1, <4>1, <4>2 DEF NoNewTemp, Typed, Files
      <3>4. CASE ~Land /\ ~SweepUnlink
        <4>1. temp' = temp
          BY <1>4, <3>4 DEF Next, CreateAsset, Abandon, Pass, ExpireSlots, SweeperStep, SweepPick, SweepGet,
             SweepCount, SweepDelete, CollectorStep, Collect, CollectDelete, CollectUnlink, Removed,
             disk, vars
        <4>2. QED
          BY <3>1, <4>1 DEF NoNewTemp
      <3>5. QED
        BY <3>1, <3>2, <3>3, <3>4
    <2>3. CASE \E x \in Tx : ExpireSlots(x)
      <3>1. PICK x \in Tx : ExpireSlots(x)
        BY <2>3
      <3>2. active' = [active EXCEPT ![x] = 0] /\ On(x) = {} /\ bits' = bits
        BY <3>1 DEF ExpireSlots
      <3>3. bits' \in [Tx -> SUBSET Chunk]
        BY <3>2 DEF SlotInv
      <3>4. QED
        BY <1>1, <2>1, <2>2, <3>2, <3>3, ElsewhereKeepsSlots DEF SlotInv
    <2>4. CASE SweepDelete
      <3>1. sweeper.tx \in Tx
        BY <2>2, <2>4 DEF SweepDelete, Typed, Sweeping
      <3>2. /\ active' = [active EXCEPT ![sweeper.tx] = 0]
            /\ bits' = [bits EXCEPT ![sweeper.tx] = {}]
            /\ temp' = temp
        BY <2>4 DEF SweepDelete, Deleted, disk
      <3>3. temp'[sweeper.tx] = NoFile
        BY <2>4, <3>2 DEF SweepDelete, SlotInv, TrackInv, SweepForgets
      <3>4. bits' \in [Tx -> SUBSET Chunk]
        BY <3>2 DEF SlotInv
      <3>5. QED
        BY <1>1, <2>1, <2>2, <3>1, <3>2, <3>3, <3>4, ElsewhereKeepsSlots DEF SlotInv
    <2>5. CASE ~(\E x \in Tx : ExpireSlots(x)) /\ ~SweepDelete
      <3>1. active' = active /\ bits' = bits
        BY <1>4, <2>5 DEF Next, CreateAsset, Abandon, Pass, Land, SweeperStep, SweepPick, SweepGet,
             SweepCount, SweepUnlink, CollectorStep, Collect, CollectDelete, CollectUnlink, redis, vars
      <3>2. bits' \in [Tx -> SUBSET Chunk]
        BY <3>1 DEF SlotInv
      <3>3. QED
        BY <1>1, <2>1, <2>2, <3>1, <3>2, ElsewhereKeepsSlots DEF SlotInv
    <2>6. QED
      BY <2>3, <2>4, <2>5
  <1>5. QED
    BY <1>2, <1>3, <1>4

\* While an upload has its temp file, no more chunks of it are taken at once than there are slots:
\* for any number of requests and slots, whatever tries are refused, repeated or lost between INCR
\* and DECR.
THEOREM UploadsKeepToTheirSlots == Spec => []SlotsAreLimited
  <1>1. SlotInv => SlotsAreLimited
    BY DEF SlotInv, Slots, SlotsAreLimited
  <1>2. QED
    BY <1>1, InitSlotInv, NextKeepsSlotInv, PTL DEF Spec

\* The types, blobs below the ids given out among them, whatever is lost, deleted or expires.
THEOREM TypesStay == Spec => []TypeOK
  <1>1. SlotInv => TypeOK
    <2> SUFFICES ASSUME SlotInv PROVE TypeOK
      OBVIOUS
    <2>1. Typed
      BY DEF SlotInv, TrackInv
    <2>2. \A c \in Content : blobs[c] \in 0 .. made
      BY <2>1 DEF SlotInv, Typed, Tables
    <2>3. QED
      BY <2>1, <2>2 DEF SlotInv, Typed, Tables, Keys, Files, Requests, TypeOK
  <1>2. QED
    BY <1>1, InitSlotInv, NextKeepsSlotInv, PTL DEF Spec
-----------------------------------------------------------------------------
(* The chunks of an upload, when writes land in time. *)

\* An open file is that of a request that is writing it; a chunk's is the temp file, or that is gone.
Opens(f) ==
    LET c == call[f.by]
    IN  /\ f.by \in Handler /\ pc[f.by] = "write"
        /\ f.tx = c.tx /\ f.data = c.data
        /\ c.op = "chunk" => f.chunks = {c.chunk} /\ (f.at # "temp" => temp[f.tx] = NoFile)
        /\ c.op = "whole" => f.chunks = Chunk /\ f.at # "temp" /\ f.content = c.content
OneFile == \A f, g \in fds : f.by = g.by => f = g

HasChunk(x, k) == temp[x] # NoFile => temp[x][k] # "zeros"
Marks(h) == pc[h] = "mark" => HasChunk(call[h].tx, call[h].chunk)
Marked(x) == \A k \in bits[x] : HasChunk(x, k)
Unmarked(x) == info[x] = NoTx => bits[x] = {}

MarkInv ==
    /\ TrackInv /\ SlotInv
    /\ \A f \in fds : Opens(f)
    /\ OneFile
    /\ \A h \in Handler : Marks(h)
    /\ \A x \in Tx : Marked(x) /\ Unmarked(x)

\* Two records of one open file, which may have moved
Like(f, e) ==
    /\ f.by = e.by /\ f.tx = e.tx /\ f.data = e.data /\ f.chunks = e.chunks
    /\ e.at # "temp" => f.content = e.content

\* Every file open afterwards was open before, and is where it was or has left the temp folder.
SameFiles ==
    \A f \in fds' : \E e \in fds :
        /\ Like(f, e)
        /\ f.at = e.at \/ (f.at # "temp" /\ (e.at = "temp" => temp'[f.tx] = NoFile))

LEMMA UnlinkedIsSameFiles ==
    ASSUME Typed, OneFile, NEW x \in Tx, Unlinked(x)
    PROVE  SameFiles /\ OneFile'
  <1> DEFINE F(f) == IF f.at = "temp" /\ f.tx = x THEN [f EXCEPT !.at = "gone"] ELSE f
  <1>1. fds' = {F(f) : f \in fds} /\ temp'[x] = NoFile
    BY DEF Unlinked, Typed, Files
  <1>2. \A f \in fds : Like(F(f), f) /\ (F(f) = f \/ (F(f).at = "gone" /\ f.tx = x))
    <2> SUFFICES ASSUME NEW f \in fds PROVE Like(F(f), f) /\ (F(f) = f \/ (F(f).at = "gone" /\ f.tx = x))
      OBVIOUS
    <2>1. f \in Fd
      BY DEF Typed, Files
    <2>2. QED
      BY <2>1 DEF Fd, Like
  <1> HIDE DEF F
  <1>3. SameFiles
    BY <1>1, <1>2 DEF SameFiles, Like
  <1>4. OneFile'
    BY <1>1, <1>2 DEF OneFile, Like
  <1>5. QED
    BY <1>3, <1>4

LEMMA RemovedIsSameFiles ==
    ASSUME Typed, OneFile, NEW c \in Content, Removed(c)
    PROVE  SameFiles /\ OneFile'
  <1> DEFINE F(f) == IF f.at = "assets" /\ f.content = c THEN [f EXCEPT !.at = "gone"] ELSE f
  <1>1. fds' = {F(f) : f \in fds}
    BY DEF Removed
  <1>2. \A f \in fds : Like(F(f), f) /\ (F(f) = f \/ (F(f).at = "gone" /\ f.at = "assets"))
    <2> SUFFICES ASSUME NEW f \in fds PROVE Like(F(f), f) /\ (F(f) = f \/ (F(f).at = "gone" /\ f.at = "assets"))
      OBVIOUS
    <2>1. f \in Fd
      BY DEF Typed, Files
    <2>2. QED
      BY <2>1 DEF Fd, Like
  <1> HIDE DEF F
  <1>3. SameFiles
    BY <1>1, <1>2 DEF SameFiles, Like
  <1>4. OneFile'
    BY <1>1, <1>2 DEF OneFile, Like
  <1>5. QED
    BY <1>3, <1>4

LEMMA RenamedIsSameFiles ==
    ASSUME Typed, OneFile, NEW x \in Tx, NEW c \in Content, Renamed(x, c)
    PROVE  SameFiles /\ OneFile'
  <1> DEFINE F(f) == CASE f.at = "temp" /\ f.tx = x -> [f EXCEPT !.at = "assets", !.content = c]
                       [] f.at = "assets" /\ f.content = c -> [f EXCEPT !.at = "gone"]
                       [] OTHER -> f
  <1>1. fds' = {F(f) : f \in fds} /\ temp'[x] = NoFile
    BY DEF Renamed, Typed, Files
  <1>2. \A f \in fds : /\ Like(F(f), f)
                       /\ F(f).at = f.at \/ (F(f).at # "temp" /\ (f.at = "temp" => f.tx = x))
    <2> SUFFICES ASSUME NEW f \in fds
                 PROVE  /\ Like(F(f), f)
                        /\ F(f).at = f.at \/ (F(f).at # "temp" /\ (f.at = "temp" => f.tx = x))
      OBVIOUS
    <2>1. f \in Fd
      BY DEF Typed, Files
    <2>2. CASE f.at = "temp" /\ f.tx = x
      <3>1. F(f) = [f EXCEPT !.at = "assets", !.content = c]
        BY <2>2
      <3>2. QED
        BY <2>1, <2>2, <3>1 DEF Fd, Like
    <2>3. CASE f.at = "assets" /\ f.content = c
      <3>1. F(f) = [f EXCEPT !.at = "gone"]
        BY <2>3
      <3>2. QED
        BY <2>1, <2>3, <3>1 DEF Fd, Like
    <2>4. CASE ~(f.at = "temp" /\ f.tx = x) /\ ~(f.at = "assets" /\ f.content = c)
      BY <2>4 DEF Like
    <2>5. QED
      BY <2>2, <2>3, <2>4
  <1> HIDE DEF F
  <1>3. SameFiles
    BY <1>1, <1>2 DEF SameFiles, Like
  <1>4. OneFile'
    BY <1>1, <1>2 DEF OneFile, Like
  <1>5. QED
    BY <1>3, <1>4

LEMMA FewerIsSameFiles ==
    ASSUME OneFile, fds' \subseteq fds
    PROVE  SameFiles /\ OneFile'
  BY DEF SameFiles, OneFile, Like

\* Who writes: nobody else but its file's request has a file open.
WritersStay ==
    \A g \in Handler : pc[g] = "write" =>
        (pc'[g] = "write" /\ call'[g] = call[g]) \/ (\A f \in fds' : f.by # g)

\* A step that opens, writes, makes and marks nothing keeps what is said of chunks.
LEMMA QuietKeepsMarkInv ==
    ASSUME MarkInv, TrackInv', SlotInv', SameFiles, OneFile', WritersStay,
           \A g \in Handler : pc'[g] = "mark" => pc[g] = "mark" /\ call'[g] = call[g],
           \A x \in Tx : temp'[x] \in {temp[x], NoFile},
           \A x \in Tx : bits'[x] \subseteq bits[x] /\ (info'[x] = NoTx => info[x] = NoTx)
    PROVE  MarkInv'
  <1>1. ASSUME NEW f \in fds' PROVE Opens(f)'
    <2>1. PICK e \in fds : /\ Like(f, e)
                           /\ f.at = e.at \/ (f.at # "temp" /\ (e.at = "temp" => temp'[f.tx] = NoFile))
      BY <1>1 DEF SameFiles
    <2>2. Opens(e) /\ e.by \in Handler /\ f.by = e.by
      BY <2>1 DEF MarkInv, Opens, Like
    <2>3. pc[f.by] = "write" /\ pc'[f.by] = "write" /\ call'[f.by] = call[f.by]
      BY <1>1, <2>2 DEF Opens, WritersStay
    <2>4. f.tx \in Tx
      BY <1>1 DEF TrackInv, Typed, Files, Fd
    <2>5. temp[f.tx] = NoFile => temp'[f.tx] = NoFile
      BY <2>4
    <2>6. QED
      BY <2>1, <2>2, <2>3, <2>5 DEF Opens, Like
  <1>2. \A x \in Tx : \A k : HasChunk(x, k) => HasChunk(x, k)'
    BY DEF HasChunk
  <1>3. ASSUME NEW g \in Handler PROVE Marks(g)'
    <2>1. SUFFICES ASSUME pc'[g] = "mark" PROVE HasChunk(call[g].tx, call[g].chunk)'
      BY DEF Marks
    <2>2. pc[g] = "mark" /\ call'[g] = call[g] /\ call[g].tx \in Tx
      BY <2>1, RunningOnTx DEF MarkInv, TrackInv
    <2>3. HasChunk(call[g].tx, call[g].chunk)
      BY <2>2 DEF MarkInv, Marks
    <2>4. HasChunk(call[g].tx, call[g].chunk)
            => (temp'[call[g].tx] # NoFile => temp'[call[g].tx][call[g].chunk] # "zeros")
      BY <2>2 DEF HasChunk
    <2>5. QED
      BY <2>2, <2>3, <2>4 DEF HasChunk
  <1>4. \A x \in Tx : Marked(x)'
    BY <1>2 DEF MarkInv, Marked
  <1>5. \A x \in Tx : Unmarked(x)'
    BY DEF MarkInv, Unmarked
  <1>6. QED
    BY <1>1, <1>3, <1>4, <1>5 DEF MarkInv

\* Steps of a request that leave the disk alone
AtRest(h) ==
    \/ Load(h) \/ Forget(h) \/ InitCreate(h) \/ InitActivity(h) \/ Lookup(h) \/ Compare(h)
    \/ Acquire(h) \/ Refuse(h) \/ GetMeta(h) \/ SetMeta(h) \/ Release(h) \/ Reset(h)
    \/ Count(h) \/ Hash(h) \/ Insert(h) \/ FindAsset(h) \/ BackAsset(h)

\* A request that goes on to another step than mark, and has no file open if it was writing.
LEMMA RequestIsQuiet ==
    ASSUME MarkInv, TrackInv', SlotInv', NEW h \in Handler, HandlerStep(h) \/ Lose(h), ~Mark(h),
           SameFiles, OneFile', pc[h] # "write" \/ Close(h), pc'[h] # "mark",
           \A x \in Tx : temp'[x] \in {temp[x], NoFile}
    PROVE  MarkInv'
  <1>1. Typed /\ Typed' /\ Control(h)
    BY DEF MarkInv, TrackInv, SlotInv
  <1>2. PICK s \in Pcs :
          /\ pc' = [pc EXCEPT ![h] = s]
          /\ \/ s = "idle" /\ call' = [call EXCEPT ![h] = NoCall]
             \/ s # "idle" /\ call' = call
    BY <1>1, RequestSteps
  <1>3. \A g \in Handler \ {h} : pc'[g] = pc[g] /\ call'[g] = call[g]
    BY <1>1, <1>2 DEF Typed, Requests
  <1>4. WritersStay
    BY <1>3 DEF WritersStay, Close
  <1>5. \A x \in Tx : bits'[x] \subseteq bits[x]
    BY <1>1, CountersAndMarks DEF MarkInv, SlotInv
  <1>6. \A x \in Tx : info'[x] = NoTx => info[x] = NoTx
    BY <1>1, InfoStays
  <1>7. QED
    BY <1>3, <1>4, <1>5, <1>6, QuietKeepsMarkInv

LEMMA RestKeepsMarkInv ==
    ASSUME MarkInv, TrackInv', SlotInv', NEW h \in Handler, AtRest(h) \/ Lose(h) \/ (HandlerStep(h) /\ Return(h))
    PROVE  MarkInv'
  <1>1. Typed /\ Control(h)
    BY DEF MarkInv, TrackInv, SlotInv
  <1>2. HandlerStep(h) \/ Lose(h)
    BY DEF AtRest, HandlerStep
  <1>3. CASE Return(h)
    <2>1. /\ Close(h) /\ temp' = temp /\ pc'[h] = "idle"
      BY <1>1, <1>3 DEF Return, Leave, Typed, Requests
    <2>2. SameFiles /\ OneFile'
      BY <2>1, FewerIsSameFiles DEF Close, MarkInv
    <2>3. ~Mark(h)
      BY <1>1, <2>1 DEF Mark, Goto, Typed, Requests
    <2>4. QED
      BY <1>2, <2>1, <2>2, <2>3, RequestIsQuiet
  <1>4. CASE ~Return(h)
    <2>1. AtRest(h)
      BY <1>4 DEF Lose
    <2>2. fds' = fds /\ temp' = temp
      BY <1>4, <2>1 DEF AtRest, Load, Forget, InitCreate, InitActivity, Lookup, Compare, Acquire, Refuse, GetMeta,
           SetMeta, Release, Reset, Count, Hash, Insert, FindAsset, BackAsset, disk
    <2>3. pc[h] # "write" /\ ~Mark(h)
      BY <2>1 DEF AtRest, Load, Forget, InitCreate, InitActivity, Lookup, Compare, Acquire, Refuse, GetMeta,
           SetMeta, Release, Reset, Count, Hash, Insert, FindAsset, BackAsset, At, Mark
    <2>4. pc'[h] # "mark"
      <3>1. pc[h] \in Pcs /\ pc \in [Handler -> Pcs]
        BY <1>1 DEF Typed, Requests
      <3>2. CASE Load(h)
        <4>1. call[h].op \in AllOps /\ call[h].op # "init"
          BY <1>1, <3>2, RunningHas, RequestHas DEF Typed, Requests, Load, At
        <4>2. \E s \in {"lookup", "acquire", "count", "forget", "unlink"} : Goto(h, s)
          BY <1>4, <3>2, <4>1 DEF Load, AllOps
        <4>3. QED
          BY <3>1, <4>2 DEF Goto
      <3>3. CASE Forget(h)
        BY <3>1, <3>3 DEF Forget, Goto, Leave
      <3>4. CASE InitCreate(h) \/ InitActivity(h) \/ Lookup(h) \/ Compare(h)
        BY <1>4, <3>1, <3>4 DEF InitCreate, InitActivity, Lookup, Compare, Goto, Leave
      <3>5. CASE Acquire(h) \/ Refuse(h) \/ GetMeta(h) \/ SetMeta(h) \/ Release(h) \/ Reset(h)
        BY <1>4, <3>1, <3>5 DEF Acquire, Refuse, GetMeta, SetMeta, Release, Reset, Goto, Leave
      <3>6. CASE Count(h) \/ Hash(h) \/ Insert(h) \/ FindAsset(h) \/ BackAsset(h)
        BY <1>4, <3>1, <3>6 DEF Count, Hash, Insert, FindAsset, BackAsset, Goto, Leave
      <3>7. QED
        BY <2>1, <3>2, <3>3, <3>4, <3>5, <3>6 DEF AtRest
    <2>5. SameFiles /\ OneFile'
      BY <2>2, FewerIsSameFiles DEF MarkInv
    <2>6. QED
      BY <1>2, <2>2, <2>3, <2>4, <2>5, RequestIsQuiet
  <1>5. QED
    BY <1>3, <1>4

\* A file that goes from the temp folder
LEMMA MovingKeepsMarkInv ==
    ASSUME MarkInv, TrackInv', SlotInv', NEW h \in Handler, Unlink(h) \/ Mismatch(h) \/ Rename(h)
    PROVE  MarkInv'
  <1> DEFINE x == call[h].tx
  <1>1. Typed /\ Control(h) /\ HandlerStep(h)
    BY DEF MarkInv, TrackInv, SlotInv, HandlerStep
  <1>2. CASE Return(h)
    BY <1>1, <1>2, RestKeepsMarkInv
  <1>3. CASE ~Return(h)
    <2>1. /\ pc[h] # "idle" /\ pc[h] # "write"
          /\ Unlinked(x) \/ Renamed(x, call[h].content)
          /\ \E s \in {"insert", "forget", "forgetInsert"} : Goto(h, s)
      BY <1>3 DEF Unlink, Mismatch, Rename, At
    <2>2. x \in Tx /\ call[h].content \in Content
      BY <1>1, <2>1, RunningHas, RequestHas DEF Typed
    <2>3. SameFiles /\ OneFile'
      BY <1>1, <2>1, <2>2, UnlinkedIsSameFiles, RenamedIsSameFiles DEF MarkInv
    <2>4. pc'[h] # "mark" /\ \A y \in Tx : temp'[y] \in {temp[y], NoFile}
      BY <1>1, <2>1, <2>2 DEF Goto, Unlinked, Renamed, Typed, Requests, Files
    <2>5. ~Mark(h)
      BY DEF Unlink, Mismatch, Rename, Mark, At
    <2>6. QED
      BY <1>1, <2>1, <2>3, <2>4, <2>5, RequestIsQuiet
  <1>4. QED
    BY <1>2, <1>3

\* A chunk is marked: it was written, and its transaction is one a client was told of.
LEMMA MarkKeepsMarkInv ==
    ASSUME MarkInv, TrackInv', SlotInv', NEW h \in Handler, Mark(h)
    PROVE  MarkInv'
  <1> DEFINE x == call[h].tx
  <1>1. Typed /\ pc[h] = "mark" /\ Marks(h) /\ Told(h) /\ x \in Tx
    BY RunningOnTx DEF MarkInv, TrackInv, Mark, At
  <1>2. /\ bits' = [bits EXCEPT ![x] = @ \cup {call[h].chunk}]
        /\ pc' = [pc EXCEPT ![h] = "release"] /\ UNCHANGED <<call, temp, fds, info>>
    BY DEF Mark, Goto, disk
  <1>3. HasChunk(x, call[h].chunk) /\ info[x] # NoTx
    BY <1>1 DEF Marks, Told, Known, MakePcs
  <1>4. \A f \in fds' : Opens(f)'
    <2>1. \A f \in fds : Opens(f) /\ f.by \in Handler /\ f.by # h
      BY <1>1 DEF MarkInv, Opens
    <2>2. \A f \in fds : pc'[f.by] = pc[f.by]
      BY <1>2, <2>1
    <2>3. QED
      BY <1>2, <2>1, <2>2 DEF Opens
  <1>5. \A g \in Handler : Marks(g)'
    BY <1>1, <1>2 DEF MarkInv, Marks, HasChunk, Typed, Requests
  <1>6. \A y \in Tx : Marked(y)' /\ Unmarked(y)'
    BY <1>1, <1>2, <1>3 DEF MarkInv, SlotInv, Marked, Unmarked, HasChunk
  <1>7. QED
    BY <1>2, <1>4, <1>5, <1>6 DEF MarkInv, OneFile

\* A new temp file: nobody else is on its transaction, and nothing is marked.
LEMMA InitLookupKeepsMarkInv ==
    ASSUME MarkInv, TrackInv', SlotInv', NEW h \in Handler, InitLookup(h)
    PROVE  MarkInv'
  <1> DEFINE x == call[h].tx
  <1>1. /\ Typed /\ Control(h) /\ HandlerStep(h) /\ pc[h] = "init" /\ x \in Tx /\ Makes(h)
        /\ pc \in [Handler -> Pcs]
    BY RunningOnTx DEF MarkInv, TrackInv, SlotInv, HandlerStep, InitLookup, At, Typed, Requests
  <1>2. CASE temp' = temp
    <2>1. fds' = fds /\ pc'[h] \in {"createVerify", "create"} /\ ~Mark(h)
      BY <1>1 DEF InitLookup, Goto, Mark, At
    <2>2. SameFiles /\ OneFile'
      BY <2>1, FewerIsSameFiles DEF MarkInv
    <2>3. QED
      BY <1>1, <1>2, <2>1, <2>2, RequestIsQuiet
  <1>3. CASE temp' # temp
    <2>1. /\ temp' = [temp EXCEPT ![x] = Zeros] /\ pc' = [pc EXCEPT ![h] = "create"]
          /\ UNCHANGED <<call, fds, info, bits>>
      BY <1>3 DEF InitLookup, Goto, redis
    <2>2. /\ \A g \in Handler \ {h} : pc[g] # "idle" => call[g].tx # x
          /\ info[x] = NoTx
      BY <1>1 DEF Makes, MakePcs
    <2>3. \A f \in fds' : Opens(f)'
      <3>1. \A f \in fds : Opens(f) /\ f.by \in Handler /\ f.by # h /\ f.tx # x
        BY <1>1, <2>2 DEF MarkInv, Opens
      <3>2. \A f \in fds : pc'[f.by] = pc[f.by] /\ temp'[f.tx] = temp[f.tx]
        BY <2>1, <3>1 DEF MarkInv, Typed, Files, Fd
      <3>3. QED
        BY <2>1, <3>1, <3>2 DEF Opens
    <2>4. \A g \in Handler : Marks(g)'
      <3>1. SUFFICES ASSUME NEW g \in Handler, pc'[g] = "mark"
                     PROVE  HasChunk(call[g].tx, call[g].chunk)'
        BY <2>1 DEF Marks
      <3>2. g # h /\ pc[g] = "mark" /\ call[g].tx # x
        BY <1>1, <2>1, <2>2, <3>1
      <3>3. HasChunk(call[g].tx, call[g].chunk) /\ call[g].tx \in Tx
        BY <1>1, <3>2, RunningOnTx DEF MarkInv, Marks
      <3>4. temp'[call[g].tx] = temp[call[g].tx]
        BY <2>1, <3>2, <3>3
      <3>5. QED
        BY <2>1, <3>3, <3>4 DEF HasChunk
    <2>5. bits[x] = {}
      BY <1>1, <2>2 DEF MarkInv, Unmarked
    <2>6. \A y \in Tx : Marked(y)' /\ Unmarked(y)'
      <3> SUFFICES ASSUME NEW y \in Tx PROVE Marked(y)' /\ Unmarked(y)'
        OBVIOUS
      <3>1. Marked(y) /\ Unmarked(y)
        BY DEF MarkInv
      <3>2. Unmarked(y)'
        BY <2>1, <3>1 DEF Unmarked
      <3>3. y # x => temp'[y] = temp[y]
        BY <2>1
      <3>4. QED
        BY <2>1, <2>5, <3>1, <3>2, <3>3 DEF Marked, HasChunk
    <2>7. QED
      BY <2>1, <2>3, <2>4, <2>6 DEF MarkInv, OneFile
  <1>4. QED
    BY <1>2, <1>3

\* A file is opened: for a chunk where the file is, for a whole file in the assets folder.
LEMMA OpenKeepsMarkInv ==
    ASSUME MarkInv, TrackInv', SlotInv', NEW h \in Handler, OpenStored(h) \/ OpenTemp(h)
    PROVE  MarkInv'
  <1> DEFINE x == call[h].tx
  <1>1. /\ Typed /\ Control(h) /\ HandlerStep(h) /\ pc[h] = "open" /\ x \in Tx
        /\ pc \in [Handler -> Pcs]
    BY RunningOnTx DEF MarkInv, TrackInv, SlotInv, HandlerStep, OpenStored, OpenTemp, At, Typed, Requests
  <1>2. CASE fds' = fds
    <2>1. temp' = temp /\ pc'[h] \in {"release", "write"} /\ ~Mark(h)
      BY <1>1 DEF OpenStored, OpenTemp, Goto, Mark, At
    <2>2. SameFiles /\ OneFile'
      BY <1>2, FewerIsSameFiles DEF MarkInv
    <2>3. QED
      BY <1>1, <2>1, <2>2, RequestIsQuiet
  <1>3. CASE fds' # fds
    <2>1. /\ pc' = [pc EXCEPT ![h] = "write"] /\ UNCHANGED <<call, temp, info, bits>>
      BY <1>3 DEF OpenStored, OpenTemp, Goto, redis
    <2>2. \/ call[h].op = "whole" /\ Opened(h, "assets", Chunk)
          \/ call[h].op = "chunk" /\ Opened(h, "temp", {call[h].chunk})
      BY <1>3 DEF OpenStored, OpenTemp
    <2>3. PICK e : /\ fds' = fds \cup {e}
                   /\ e.by = h /\ e.tx = x /\ e.content = call[h].content /\ e.data = call[h].data
                   /\ \/ call[h].op = "whole" /\ e.at = "assets" /\ e.chunks = Chunk
                      \/ call[h].op = "chunk" /\ e.at = "temp" /\ e.chunks = {call[h].chunk}
      <3> DEFINE E(at, chunks) == [by |-> h, tx |-> x, content |-> call[h].content, at |-> at,
                                   chunks |-> chunks, data |-> call[h].data]
      <3>1. CASE call[h].op = "whole" /\ Opened(h, "assets", Chunk)
        <4> DEFINE e == E("assets", Chunk)
        <4>1. fds' = fds \cup {e}
          BY <3>1 DEF Opened
        <4>2. /\ e.by = h /\ e.tx = x /\ e.content = call[h].content /\ e.data = call[h].data
              /\ e.at = "assets" /\ e.chunks = Chunk
          OBVIOUS
        <4> HIDE DEF e
        <4>3. QED
          BY <3>1, <4>1, <4>2
      <3>2. CASE call[h].op = "chunk" /\ Opened(h, "temp", {call[h].chunk})
        <4> DEFINE e == E("temp", {call[h].chunk})
        <4>1. fds' = fds \cup {e}
          BY <3>2 DEF Opened
        <4>2. /\ e.by = h /\ e.tx = x /\ e.content = call[h].content /\ e.data = call[h].data
              /\ e.at = "temp" /\ e.chunks = {call[h].chunk}
          OBVIOUS
        <4> HIDE DEF e
        <4>3. QED
          BY <3>2, <4>1, <4>2
      <3>3. QED
        BY <2>2, <3>1, <3>2
    <2>4. Opens(e)'
      BY <1>1, <2>1, <2>3 DEF Opens
    <2>5. \A f \in fds : Opens(f) /\ f.by \in Handler /\ f.by # h
      BY <1>1 DEF MarkInv, Opens
    <2>6. \A f \in fds : Opens(f)'
      <3>1. \A f \in fds : pc'[f.by] = pc[f.by]
        BY <2>1, <2>5
      <3>2. QED
        BY <2>1, <2>5, <3>1 DEF Opens
    <2>7. OneFile'
      BY <2>3, <2>5 DEF MarkInv, OneFile
    <2>8. \A g \in Handler : Marks(g)'
      BY <1>1, <2>1 DEF MarkInv, Marks, HasChunk
    <2>9. \A y \in Tx : Marked(y)' /\ Unmarked(y)'
      BY <2>1 DEF MarkInv, Marked, Unmarked, HasChunk
    <2>10. QED
      BY <2>3, <2>4, <2>6, <2>7, <2>8, <2>9 DEF MarkInv
  <1>4. QED
    BY <1>2, <1>3

\* A write in time: what is written is there, and was never zeros.
LEMMA LandedHasChunks ==
    ASSUME Typed, NEW f \in fds, Landed(f)
    PROVE  /\ \A x \in Tx : temp'[x] = NoFile <=> temp[x] = NoFile
           /\ \A x \in Tx, k \in Chunk : HasChunk(x, k) => HasChunk(x, k)'
           /\ f.at = "temp" => \A k \in f.chunks : HasChunk(f.tx, k)'
  <1> DEFINE Over(file) == [k \in Chunk |-> IF k \in f.chunks THEN f.data ELSE file[k]]
  <1>1. f.tx \in Tx /\ f.chunks \subseteq Chunk /\ f.data \in {"right", "wrong"}
    BY DEF Typed, Files, Fd
  <1>2. \A file \in File : Over(file) \in File /\ Over(file) # NoFile
    BY <1>1, NoValueAssumption DEF File
  <1>3. CASE f.at = "temp"
    <2>1. temp' = [temp EXCEPT ![f.tx] = Over(temp[f.tx])]
      BY <1>3 DEF Landed
    <2>2. temp[f.tx] \in File /\ temp[f.tx] # NoFile
      BY <1>1, <1>3, NoValueAssumption DEF Typed, Files
    <2>3. temp'[f.tx] = Over(temp[f.tx]) /\ temp'[f.tx] # NoFile
      BY <1>1, <1>2, <2>1, <2>2 DEF Typed, Files
    <2>4. \A x \in Tx : x # f.tx => temp'[x] = temp[x]
      BY <2>1 DEF Typed, Files
    <2>5. \A k \in Chunk : temp'[f.tx][k] = IF k \in f.chunks THEN f.data ELSE temp[f.tx][k]
      BY <2>3
    <2>6. \A k \in f.chunks : HasChunk(f.tx, k)'
      BY <1>1, <2>5 DEF HasChunk
    <2>7. \A k \in Chunk : HasChunk(f.tx, k) => HasChunk(f.tx, k)'
      BY <1>1, <2>2, <2>5 DEF HasChunk
    <2>8. QED
      BY <2>2, <2>3, <2>4, <2>6, <2>7 DEF HasChunk
  <1>4. CASE f.at # "temp"
    <2>1. temp' = temp
      BY <1>4 DEF Landed
    <2>2. QED
      BY <1>4, <2>1 DEF HasChunk
  <1>5. QED
    BY <1>3, <1>4

LEMMA WriteKeepsMarkInv ==
    ASSUME MarkInv, TrackInv', SlotInv', InTime, NEW h \in Handler, WriteStored(h) \/ WriteTemp(h)
    PROVE  MarkInv'
  <1> DEFINE x == call[h].tx
  <1>1. Typed /\ pc[h] = "write" /\ x \in Tx /\ pc \in [Handler -> Pcs]
    BY RunningOnTx DEF MarkInv, TrackInv, WriteStored, WriteTemp, At, Typed, Requests
  <1>2. PICK f \in fds :
          /\ f.by = h /\ fds' = fds \ {f} /\ Landed(f)
          /\ \E s \in {"unlink", "mark"} : /\ pc' = [pc EXCEPT ![h] = s]
                                           /\ s = "mark" => call[h].op = "chunk"
          /\ UNCHANGED <<call, info, bits>>
    BY DEF WriteStored, WriteTemp, WriteAll, Goto, redis
  <1>3. /\ \A y \in Tx : temp'[y] = NoFile <=> temp[y] = NoFile
        /\ \A y \in Tx, k \in Chunk : HasChunk(y, k) => HasChunk(y, k)'
        /\ f.at = "temp" => \A k \in f.chunks : HasChunk(f.tx, k)'
    BY <1>1, <1>2, LandedHasChunks
  <1>4. \A g \in fds' : Opens(g)'
    <2> SUFFICES ASSUME NEW g \in fds' PROVE Opens(g)'
      OBVIOUS
    <2>1. g \in fds /\ g # f /\ g.by # h /\ Opens(g) /\ g.tx \in Tx
      BY <1>2 DEF MarkInv, OneFile, TrackInv, Typed, Files, Fd
    <2>2. pc'[g.by] = pc[g.by] /\ (temp[g.tx] = NoFile => temp'[g.tx] = NoFile)
      BY <1>1, <1>2, <1>3, <2>1 DEF Opens
    <2>3. QED
      BY <1>2, <2>1, <2>2 DEF Opens
  <1>5. \A g \in Handler : Marks(g)'
    <2> SUFFICES ASSUME NEW g \in Handler, pc'[g] = "mark"
                 PROVE  HasChunk(call[g].tx, call[g].chunk)'
      BY <1>2 DEF Marks
    <2>1. CASE g # h
      <3>1. pc[g] = "mark" /\ Marks(g) /\ SlotInv /\ Control(g)
        BY <1>1, <1>2, <2>1 DEF MarkInv, SlotInv
      <3>2. call[g] \in Request /\ call[g].tx \in Tx /\ call[g].op \in AllOps
        BY <1>1, <3>1, RunningHas, RequestHas DEF Typed
      <3>3. call[g].chunk \in Chunk
        <4>1. call[g].op = "chunk"
          BY <3>1, <3>2 DEF Control, CanBeAt, AllOps, MakePcs
        <4>2. QED
          BY <3>2, <4>1, RequestHas
      <3>4. PICK y \in Tx, k \in Chunk : y = call[g].tx /\ k = call[g].chunk
        BY <3>2, <3>3
      <3>5. HasChunk(y, k)'
        BY <1>3, <3>1, <3>4 DEF Marks
      <3>6. QED
        BY <1>2, <3>4, <3>5 DEF HasChunk
    <2>2. CASE g = h
      <3>1. call[h].op = "chunk" /\ Opens(f)
        BY <1>1, <1>2, <2>2 DEF MarkInv
      <3>2. f.tx = x /\ f.chunks = {call[h].chunk} /\ (f.at # "temp" => temp[x] = NoFile)
        BY <1>2, <3>1 DEF Opens
      <3>3. CASE f.at = "temp"
        BY <1>2, <1>3, <2>2, <3>2, <3>3 DEF HasChunk
      <3>4. CASE f.at # "temp"
        BY <1>1, <1>2, <1>3, <2>2, <3>2, <3>4 DEF HasChunk
      <3>5. QED
        BY <3>3, <3>4
    <2>3. QED
      BY <2>1, <2>2
  <1>6. \A y \in Tx : Marked(y)' /\ Unmarked(y)'
    <2>1. \A y \in Tx : bits[y] \subseteq Chunk
      BY DEF MarkInv, SlotInv
    <2>2. QED
      BY <1>2, <1>3, <2>1 DEF MarkInv, Marked, Unmarked
  <1>7. OneFile'
    BY <1>2 DEF MarkInv, OneFile
  <1>8. QED
    BY <1>4, <1>5, <1>6, <1>7 DEF MarkInv

LEMMA BeginKeepsMarkInv ==
    ASSUME MarkInv, TrackInv', SlotInv', NEW h \in Handler, BeginInit(h) \/ Begin(h)
    PROVE  MarkInv'
  <1>1. \E c, s : Start(h, c, s) /\ s \in {"init", "load"}
    BY DEF BeginInit, Begin
  <1>2. PICK c, s : Start(h, c, s) /\ s \in {"init", "load"}
    BY <1>1
  <1>3. /\ pc[h] = "idle" /\ pc' = [pc EXCEPT ![h] = s] /\ call' = [call EXCEPT ![h] = c]
        /\ UNCHANGED <<fds, temp, info, bits>>
    BY <1>2 DEF Start, At, disk, redis
  <1>4. pc \in [Handler -> Pcs] /\ DOMAIN call = Handler
    BY DEF MarkInv, TrackInv, Typed, Requests
  <1>5. WritersStay /\ \A g \in Handler : pc'[g] = "mark" => pc[g] = "mark" /\ call'[g] = call[g]
    BY <1>2, <1>3, <1>4 DEF WritersStay
  <1>6. SameFiles /\ OneFile'
    BY <1>3, FewerIsSameFiles DEF MarkInv
  <1>7. QED
    BY <1>3, <1>5, <1>6, QuietKeepsMarkInv

\* Everybody else opens, writes and marks nothing.
LEMMA ElsewhereKeepsMarkInv ==
    ASSUME MarkInv, TrackInv', SlotInv', UNCHANGED <<pc, call, info>>, SameFiles, OneFile',
           \A x \in Tx : temp'[x] \in {temp[x], NoFile}, \A x \in Tx : bits'[x] \subseteq bits[x]
    PROVE  MarkInv'
  BY QuietKeepsMarkInv DEF WritersStay

LEMMA CleanupsKeepMarkInv ==
    ASSUME MarkInv, TrackInv', SlotInv', SweeperStep \/ CollectorStep
    PROVE  MarkInv'
  <1>1. Typed /\ OneFile
    BY DEF MarkInv, TrackInv
  <1>2. UNCHANGED <<pc, call, info>>
    BY DEF SweeperStep, SweepPick, SweepGet, SweepCount, SweepUnlink, SweepDelete, Deleted,
           CollectorStep, Collect, CollectDelete, CollectUnlink, handlers, redis
  <1>3. SameFiles /\ OneFile' /\ \A x \in Tx : temp'[x] \in {temp[x], NoFile}
    <2>1. CASE SweepUnlink /\ fds' # fds
      <3>1. sweeper.tx \in Tx /\ Unlinked(sweeper.tx)
        BY <1>1, <2>1 DEF SweepUnlink, Typed, Sweeping, disk
      <3>2. \A x \in Tx : temp'[x] \in {temp[x], NoFile}
        BY <1>1, <3>1 DEF Unlinked, Typed, Files
      <3>3. QED
        BY <1>1, <3>1, <3>2, UnlinkedIsSameFiles
    <2>2. CASE CollectUnlink /\ fds' # fds
      <3>1. PICK r \in collector.rows : Removed(r[1])
        BY <2>2 DEF CollectUnlink, disk
      <3>2. r[1] \in Content
        BY <1>1, <2>2, <3>1 DEF CollectUnlink, Typed, Collecting
      <3>3. temp' = temp
        BY <3>1 DEF Removed
      <3>4. QED
        BY <1>1, <3>1, <3>2, <3>3, RemovedIsSameFiles
    <2>3. CASE fds' = fds
      <3>1. \A x \in Tx : temp'[x] \in {temp[x], NoFile}
        <4>1. CASE SweepUnlink
          <5>1. sweeper.tx \in Tx /\ (temp' = temp \/ temp' = [temp EXCEPT ![sweeper.tx] = NoFile])
            BY <1>1, <4>1 DEF SweepUnlink, Unlinked, Typed, Sweeping, disk
          <5>2. QED
            BY <1>1, <5>1 DEF Typed, Files
        <4>2. CASE ~SweepUnlink
          BY <4>2 DEF SweeperStep, SweepPick, SweepGet, SweepCount, SweepDelete, CollectorStep, Collect,
             CollectDelete, CollectUnlink, Removed, disk
        <4>3. QED
          BY <4>1, <4>2
      <3>2. QED
        BY <1>1, <2>3, <3>1, FewerIsSameFiles
    <2>4. CASE ~SweepUnlink /\ ~CollectUnlink
      <3>1. fds' = fds
        BY <2>4 DEF SweeperStep, SweepPick, SweepGet, SweepCount, SweepDelete, CollectorStep, Collect,
           CollectDelete, disk
      <3>2. QED
        BY <2>3, <3>1
    <2>5. QED
      BY <2>1, <2>2, <2>3, <2>4
  <1>4. \A x \in Tx : bits'[x] \subseteq bits[x]
    <2>1. CASE SweepDelete
      <3>1. sweeper.tx \in Tx /\ bits' = [bits EXCEPT ![sweeper.tx] = {}]
        BY <1>1, <2>1 DEF SweepDelete, Deleted, Typed, Sweeping
      <3>2. QED
        BY <3>1 DEF MarkInv, SlotInv
    <2>2. CASE ~SweepDelete
      BY <2>2 DEF SweeperStep, SweepPick, SweepGet, SweepCount, SweepUnlink, CollectorStep, Collect,
         CollectDelete, CollectUnlink, redis
    <2>3. QED
      BY <2>1, <2>2
  <1>5. QED
    BY <1>2, <1>3, <1>4, ElsewhereKeepsMarkInv

LEMMA InitMarkInv == Init => MarkInv
  BY InitTrackInv, InitSlotInv
     DEF Init, MarkInv, OneFile, Marks, Marked, Unmarked

LEMMA NextKeepsMarkInv == InTime /\ MarkInv /\ [Next]_vars => MarkInv'
  <1> SUFFICES ASSUME InTime, MarkInv, [Next]_vars PROVE MarkInv'
    OBVIOUS
  <1>1. TrackInv' /\ SlotInv'
    BY NextKeepsTrackInv, NextKeepsSlotInv DEF MarkInv
  <1>2. ASSUME NEW h \in Handler, HandlerStep(h) \/ Lose(h) PROVE MarkInv'
    BY <1>1, <1>2, RestKeepsMarkInv, MovingKeepsMarkInv, MarkKeepsMarkInv, InitLookupKeepsMarkInv,
       OpenKeepsMarkInv, WriteKeepsMarkInv DEF HandlerStep, AtRest
  <1>3. ASSUME NEW h \in Handler, BeginInit(h) \/ Begin(h) PROVE MarkInv'
    BY <1>1, <1>3, BeginKeepsMarkInv
  <1>4. CASE SweeperStep \/ CollectorStep
    BY <1>1, <1>4, CleanupsKeepMarkInv
  <1>5. CASE Land
    BY <1>5, NoValueAssumption DEF Land, MarkInv, Opens
  <1>6. CASE \/ \E a \in Asset : CreateAsset(a) \/ Abandon(a)
             \/ \E x \in Tx : Pass(x) \/ ExpireSlots(x)
             \/ UNCHANGED vars
    <2>1. UNCHANGED <<pc, call, info, fds, temp, bits>>
      BY <1>6 DEF CreateAsset, Abandon, Pass, ExpireSlots, handlers, redis, disk, vars
    <2>2. SameFiles /\ OneFile'
      BY <2>1, FewerIsSameFiles DEF MarkInv
    <2>3. QED
      BY <1>1, <2>1, <2>2, ElsewhereKeepsMarkInv
  <1>7. QED
    BY <1>2, <1>3, <1>4, <1>5, <1>6 DEF Next

\* When write_all writes before it returns, what Redis has as uploaded is in the temp file: through
\* cancelled and lost requests, the cleanup and files that are renamed under an open descriptor.
THEOREM MarkedChunksAreWritten ==
    ASSUME InTime
    PROVE  Spec => []MarkedIsWritten
  <1>1. MarkInv => MarkedIsWritten
    BY DEF MarkInv, Marked, HasChunk, MarkedIsWritten
  <1>2. MarkInv /\ [Next]_vars => MarkInv'
    BY NextKeepsMarkInv
  <1>3. QED
    BY <1>1, <1>2, InitMarkInv, PTL DEF Spec
-----------------------------------------------------------------------------
(* The files of the blobs, when clients are patient and no blob is collected. *)

IsWhole(c) == stored[c] = FileOf("right")

\* An upload is not completed while a chunk of it is on its way.
Waits(g, h) ==
    pc[g] # "idle" /\ call[g].op = "chunk" /\ pc[h] # "idle" /\ call[h].op = "complete" =>
        call[g].tx # call[h].tx
\* A file sent whole was checked against its hash.
Checked(h) == pc[h] \notin {"idle", "load"} /\ call[h].op = "whole" => call[h].data = "right"
\* Stored files are written whole; the file replaced under a writer was replaced by a whole one.
WritesWhole(f) ==
    /\ f.at = "assets" => call[f.by].op = "whole"
    /\ f.at = "gone" /\ call[f.by].op = "whole" => IsWhole(f.content)
\* The blob is inserted when its file is there, and a file is renamed that has the hash.
Stores(h) ==
    /\ pc[h] \in {"forgetInsert", "insert"} => IsWhole(call[h].content)
    /\ pc[h] = "unlink" /\ call[h].op = "whole" => IsWhole(call[h].content)
    /\ pc[h] = "rename" => temp[call[h].tx] \in {NoFile, FileOf("right")}

WholeInv ==
    /\ MarkInv
    /\ \A g, h \in Handler : Waits(g, h)
    /\ \A h \in Handler : Checked(h) /\ Stores(h)
    /\ \A f \in fds : WritesWhole(f)
    /\ collector.step = "idle"
    /\ StoredIsWhole

\* Who writes in the assets folder, and who in the temp folder.
LEMMA WritersInFolders ==
    ASSUME WholeInv, NEW f \in fds
    PROVE  /\ f.by \in Handler /\ pc[f.by] = "write" /\ f.tx \in Tx /\ f.content \in Content
           /\ f.at = "assets" => f.chunks = Chunk /\ f.data = "right" /\ f.content = call[f.by].content
           /\ f.at = "temp" => call[f.by].op = "chunk" /\ call[f.by].tx = f.tx
  <1>1. Opens(f) /\ WritesWhole(f) /\ f \in Fd
    BY DEF WholeInv, MarkInv, TrackInv, Typed, Files
  <1>2. f.by \in Handler /\ Control(f.by) /\ Checked(f.by) /\ pc[f.by] = "write"
    BY <1>1 DEF WholeInv, MarkInv, SlotInv, Opens
  <1>3. call[f.by].op \in AllOps
    BY <1>2, RunningHas, RequestHas DEF WholeInv, MarkInv, TrackInv, Typed
  <1>4. call[f.by].op \in {"whole", "chunk"}
    BY <1>2, <1>3 DEF Control, CanBeAt, AllOps, MakePcs
  <1>5. QED
    BY <1>1, <1>2, <1>4 DEF Opens, WritesWhole, Checked, Fd

\* A write leaves whole files whole, and makes the one it is in whole.
LEMMA LandedIsWhole ==
    ASSUME WholeInv, NEW f \in fds, Landed(f)
    PROVE  /\ \A c \in Content : IsWhole(c) => stored'[c] = FileOf("right")
           /\ f.at = "assets" => stored'[f.content] = FileOf("right")
  <1> DEFINE Over(file) == [k \in Chunk |-> IF k \in f.chunks THEN f.data ELSE file[k]]
  <1>1. /\ f.content \in Content /\ stored \in [Content -> File \cup {NoFile}]
        /\ f.at = "assets" => f.chunks = Chunk /\ f.data = "right"
    BY WritersInFolders DEF WholeInv, MarkInv, TrackInv, Typed, Files
  <1>2. CASE f.at = "assets"
    <2>1. stored' = [stored EXCEPT ![f.content] = Over(stored[f.content])]
      BY <1>2 DEF Landed
    <2>2. Over(stored[f.content]) = FileOf("right")
      BY <1>1, <1>2 DEF FileOf
    <2>3. QED
      BY <1>1, <2>1, <2>2 DEF IsWhole
  <1>3. CASE f.at # "assets"
    BY <1>3 DEF Landed, IsWhole
  <1>4. QED
    BY <1>2, <1>3

\* Nobody writes in the temp file of an upload that is being completed.
LEMMA CompletedIsNotWritten ==
    ASSUME WholeInv, NEW h \in Handler, pc[h] = "rename"
    PROVE  /\ call[h].op = "complete" /\ call[h].tx \in Tx /\ call[h].content \in Content
           /\ info[call[h].tx] # NoTx
           /\ \A f \in fds : f.at = "temp" => f.tx # call[h].tx
  <1>1. Control(h) /\ Told(h) /\ Typed
    BY DEF WholeInv, MarkInv, SlotInv, TrackInv
  <1>2. call[h].op \in AllOps /\ call[h].tx \in Tx /\ call[h].content \in Content
    BY <1>1, RunningHas, RequestHas DEF Typed
  <1>3. call[h].op = "complete"
    BY <1>1, <1>2 DEF Control, CanBeAt, AllOps, MakePcs
  <1>4. info[call[h].tx] # NoTx
    BY <1>1 DEF Told, Known, MakePcs
  <1>5. ASSUME NEW f \in fds, f.at = "temp" PROVE f.tx # call[h].tx
    <2>1. f.by \in Handler /\ pc[f.by] = "write" /\ call[f.by].op = "chunk" /\ call[f.by].tx = f.tx
      BY <1>5, WritersInFolders
    <2>2. Waits(f.by, h)
      BY <2>1 DEF WholeInv
    <2>3. QED
      BY <1>3, <2>1, <2>2 DEF Waits
  <1>6. QED
    BY <1>2, <1>3, <1>4, <1>5

\* The disk, on any step: what is whole stays whole, and what is completed is not written.
DiskStays ==
    /\ \A c \in Content : IsWhole(c) => IsWhole(c)'
    /\ \A g \in Handler : pc[g] = "rename" => temp'[call[g].tx] \in {temp[call[g].tx], NoFile}
    /\ \A f \in fds' : \/ f \in fds
                       \/ f.at = "temp"
                       \/ f.at = "assets" /\ call'[f.by].op = "whole"
                       \/ f.at = "gone" /\ call[f.by].op # "whole" /\ f.by \in Handler
                       \/ f.at = "gone" /\ f.content \in Content /\ IsWhole(f.content)'

\* A file that left the temp folder was a chunk's, and the one it replaced was replaced by a whole one.
LEMMA UnlinkedDiskStays ==
    ASSUME WholeInv, NEW x \in Tx, Unlinked(x)
    PROVE  DiskStays
  <1>1. Typed
    BY DEF WholeInv, MarkInv, TrackInv
  <1>2. \A g \in Handler : pc[g] = "rename" => temp'[call[g].tx] \in {temp[call[g].tx], NoFile}
    <2>1. \A y \in Tx : temp'[y] \in {temp[y], NoFile}
      BY <1>1 DEF Unlinked, Typed, Files
    <2>2. QED
      BY <2>1, CompletedIsNotWritten
  <1>3. ASSUME NEW f \in fds' PROVE f \in fds \/ (f.at = "gone" /\ call[f.by].op # "whole" /\ f.by \in Handler)
    <2>1. PICK e \in fds : f = IF e.at = "temp" /\ e.tx = x THEN [e EXCEPT !.at = "gone"] ELSE e
      BY <1>3 DEF Unlinked
    <2>2. CASE e.at = "temp" /\ e.tx = x
      <3>1. e \in Fd /\ call[e.by].op = "chunk" /\ e.by \in Handler
        BY <1>1, <2>2, WritersInFolders DEF Typed, Files
      <3>2. f.at = "gone" /\ f.by = e.by
        BY <2>1, <2>2, <3>1 DEF Fd
      <3>3. QED
        BY <3>1, <3>2
    <2>3. QED
      BY <2>1, <2>2
  <1>4. QED
    BY <1>2, <1>3 DEF DiskStays, Unlinked, IsWhole

LEMMA RenamedDiskStays ==
    ASSUME WholeInv, NEW h \in Handler, pc[h] = "rename", temp[call[h].tx] # NoFile,
           Renamed(call[h].tx, call[h].content)
    PROVE  DiskStays /\ stored'[call[h].content] = FileOf("right")
  <1> DEFINE x == call[h].tx
             c == call[h].content
  <1>1. /\ Typed /\ x \in Tx /\ c \in Content /\ temp[x] = FileOf("right")
        /\ \A f \in fds : f.at = "temp" => f.tx # x
    BY CompletedIsNotWritten DEF WholeInv, MarkInv, TrackInv, Stores
  <1>2. /\ stored' = [stored EXCEPT ![c] = FileOf("right")] /\ temp' = [temp EXCEPT ![x] = NoFile]
    BY <1>1 DEF Renamed
  <1>3. \A d \in Content : IsWhole(d) => stored'[d] = FileOf("right")
    BY <1>1, <1>2 DEF IsWhole, Typed, Files
  <1>4. \A g \in Handler : pc[g] = "rename" => temp'[call[g].tx] \in {temp[call[g].tx], NoFile}
    <2>1. \A y \in Tx : temp'[y] \in {temp[y], NoFile}
      BY <1>1, <1>2 DEF Typed, Files
    <2>2. QED
      BY <2>1, CompletedIsNotWritten
  <1>5. ASSUME NEW f \in fds' PROVE f \in fds \/ (f.at = "gone" /\ f.content = c)
    <2>1. PICK e \in fds : f = CASE e.at = "temp" /\ e.tx = x -> [e EXCEPT !.at = "assets", !.content = c]
                                 [] e.at = "assets" /\ e.content = c -> [e EXCEPT !.at = "gone"]
                                 [] OTHER -> e
      BY <1>5 DEF Renamed
    <2>2. CASE e.at = "assets" /\ e.content = c
      <3>1. f = [e EXCEPT !.at = "gone"] /\ e \in Fd
        BY <1>1, <2>1, <2>2 DEF Typed, Files
      <3>2. f.at = "gone" /\ f.content = c
        BY <2>2, <3>1 DEF Fd
      <3>3. QED
        BY <3>2
    <2>3. CASE ~(e.at = "assets" /\ e.content = c)
      BY <1>1, <2>1, <2>3
    <2>4. QED
      BY <2>2, <2>3
  <1>6. stored'[c] = FileOf("right")
    BY <1>1, <1>2 DEF Typed, Files
  <1>7. QED
    BY <1>1, <1>3, <1>4, <1>5, <1>6 DEF DiskStays, IsWhole

\* Each step of a request: the disk, and what it has when it goes on to store.
LEMMA RestDiskStays ==
    ASSUME WholeInv, UNCHANGED <<stored, temp>>, fds' \subseteq fds
    PROVE  DiskStays
  BY DEF DiskStays, IsWhole

LEMMA InitLookupDiskStays ==
    ASSUME WholeInv, NEW h \in Handler, InitLookup(h)
    PROVE  DiskStays
  <1>1. Typed /\ Makes(h) /\ pc[h] = "init" /\ call[h].tx \in Tx
    BY RunningOnTx DEF WholeInv, MarkInv, TrackInv, InitLookup, At
  <1>2. info[call[h].tx] = NoTx
    BY <1>1 DEF Makes, MakePcs
  <1>3. /\ temp' = temp \/ temp' = [temp EXCEPT ![call[h].tx] = Zeros]
        /\ UNCHANGED <<stored, fds>>
    BY DEF InitLookup
  <1>4. \A g \in Handler : pc[g] = "rename" => temp'[call[g].tx] = temp[call[g].tx]
    <2> SUFFICES ASSUME NEW g \in Handler, pc[g] = "rename" PROVE temp'[call[g].tx] = temp[call[g].tx]
      OBVIOUS
    <2>1. call[g].tx \in Tx /\ call[g].tx # call[h].tx
      BY <1>2, CompletedIsNotWritten
    <2>2. QED
      BY <1>1, <1>3, <2>1 DEF Typed, Files
  <1>5. QED
    BY <1>3, <1>4 DEF DiskStays, IsWhole

LEMMA OpenDiskStays ==
    ASSUME WholeInv, NEW h \in Handler, OpenStored(h) \/ OpenTemp(h)
    PROVE  DiskStays
  <1>1. \A c \in Content : IsWhole(c) => IsWhole(c)'
    <2>1. FileOf("right") # NoFile
      BY NoValueAssumption DEF File, FileOf
    <2>2. \/ stored' = stored
          \/ stored' = [stored EXCEPT ![call[h].content] = IF @ = NoFile THEN Zeros ELSE @]
      BY DEF OpenStored, OpenTemp
    <2>3. QED
      BY <2>1, <2>2 DEF IsWhole, WholeInv, MarkInv, TrackInv, Typed, Files
  <1>2. temp' = temp
    BY DEF OpenStored, OpenTemp
  <1>3. \A f \in fds' : f \in fds \/ f.at = "temp" \/ (f.at = "assets" /\ call'[f.by].op = "whole")
    <2>1. CASE OpenStored(h)
      <3>1. call[h].op = "whole" /\ call' = call /\ Opened(h, "assets", Chunk)
        BY <2>1 DEF OpenStored, Goto
      <3>2. QED
        BY <3>1 DEF Opened
    <2>2. CASE OpenTemp(h)
      <3>1. fds' = fds \/ Opened(h, "temp", {call[h].chunk})
        BY <2>2 DEF OpenTemp
      <3>2. QED
        BY <3>1 DEF Opened
    <2>3. QED
      BY <2>1, <2>2
  <1>4. QED
    BY <1>1, <1>2, <1>3 DEF DiskStays

LEMMA WriteDiskStays ==
    ASSUME WholeInv, InTime, NEW h \in Handler, WriteStored(h) \/ WriteTemp(h)
    PROVE  DiskStays /\ (call[h].op = "whole" => stored'[call[h].content] = FileOf("right"))
  <1>1. PICK f \in fds : f.by = h /\ fds' = fds \ {f} /\ Landed(f)
    BY DEF WriteStored, WriteTemp, WriteAll
  <1>2. \A c \in Content : IsWhole(c) => stored'[c] = FileOf("right")
    BY <1>1, LandedIsWhole
  <1>3. \A g \in Handler : pc[g] = "rename" => temp'[call[g].tx] = temp[call[g].tx]
    <2> SUFFICES ASSUME NEW g \in Handler, pc[g] = "rename" PROVE temp'[call[g].tx] = temp[call[g].tx]
      OBVIOUS
    <2>1. call[g].tx \in Tx /\ (f.at = "temp" => f.tx # call[g].tx)
      BY <1>1, CompletedIsNotWritten
    <2>2. CASE f.at = "temp"
      <3>1. \E file : temp' = [temp EXCEPT ![f.tx] = file]
        BY <1>1, <2>2 DEF Landed
      <3>2. QED
        BY <2>1, <2>2, <3>1
    <2>3. CASE f.at # "temp"
      BY <1>1, <2>3 DEF Landed
    <2>4. QED
      BY <2>2, <2>3
  <1>4. call[h].op = "whole" => stored'[call[h].content] = FileOf("right")
    <2> SUFFICES ASSUME call[h].op = "whole" PROVE stored'[call[h].content] = FileOf("right")
      OBVIOUS
    <2>1. /\ Opens(f) /\ WritesWhole(f) /\ f \in Fd
          /\ f.content \in Content /\ f.content = call[h].content /\ f.at \in {"assets", "gone"}
      BY <1>1 DEF WholeInv, MarkInv, TrackInv, Typed, Files, Opens, Fd
    <2>2. CASE f.at = "assets"
      BY <1>1, <2>1, <2>2, LandedIsWhole
    <2>3. CASE f.at = "gone"
      BY <1>1, <1>2, <2>1, <2>3 DEF WritesWhole
    <2>4. QED
      BY <2>1, <2>2, <2>3
  <1>5. DiskStays
    BY <1>1, <1>2, <1>3 DEF DiskStays, IsWhole
  <1>6. QED
    BY <1>4, <1>5

LEMMA RequestDiskStays ==
    ASSUME WholeInv, InTime, NEW h \in Handler, HandlerStep(h) \/ Lose(h)
    PROVE  DiskStays
  <1>1. CASE Return(h) \/ AtRest(h)
    <2>1. UNCHANGED <<stored, temp>> /\ fds' \subseteq fds
      BY <1>1 DEF AtRest, Load, Forget, InitCreate, InitActivity, Lookup, Compare, Acquire, Refuse, GetMeta,
           SetMeta, Release, Reset, Count, Hash, Insert, FindAsset, BackAsset, Return, Close, disk
    <2>2. QED
      BY <2>1, RestDiskStays
  <1>2. CASE Mark(h)
    BY <1>2, RestDiskStays DEF Mark, disk
  <1>3. CASE InitLookup(h) \/ OpenStored(h) \/ OpenTemp(h) \/ WriteStored(h) \/ WriteTemp(h)
    BY <1>3, InitLookupDiskStays, OpenDiskStays, WriteDiskStays
  <1>4. CASE (Unlink(h) \/ Mismatch(h)) /\ ~Return(h)
    <2>1. Unlinked(call[h].tx) /\ pc[h] # "idle"
      BY <1>4 DEF Unlink, Mismatch, At
    <2>2. call[h].tx \in Tx
      BY <2>1, RunningOnTx DEF WholeInv, MarkInv, TrackInv
    <2>3. QED
      BY <2>1, <2>2, UnlinkedDiskStays
  <1>5. CASE Rename(h) /\ ~Return(h)
    BY <1>5, RenamedDiskStays DEF Rename, At
  <1>6. QED
    BY <1>1, <1>2, <1>3, <1>4, <1>5 DEF HandlerStep, AtRest, Lose

\* How a request comes to the steps that store.
LEMMA ComesToStore ==
    ASSUME Typed, NEW h \in Handler, Control(h), HandlerStep(h) \/ Lose(h)
    PROVE  /\ pc'[h] = "forgetInsert" => Rename(h) /\ ~Return(h)
           /\ pc'[h] = "insert" => pc[h] = "forgetInsert" \/ (pc[h] = "unlink" /\ call[h].op = "whole")
           /\ pc'[h] = "unlink" /\ call[h].op = "whole" => WriteStored(h)
           /\ pc'[h] = "rename" => temp[call[h].tx] = FileOf("right") /\ temp' = temp
           /\ pc'[h] # "idle" => pc'[h] # "load" /\ call'[h] = call[h]
           /\ pc[h] = "load" /\ pc'[h] # "idle" /\ call[h].op = "whole" => call[h].data = "right"
  <1>1. PICK s \in Pcs :
          /\ pc' = [pc EXCEPT ![h] = s]
          /\ s = "idle" \/ (s # "idle" /\ call' = call /\ CanBeAt(s, call[h].op))
    BY RequestSteps
  <1>2. /\ pc[h] # "idle" /\ call[h].op \in AllOps /\ CanBeAt(pc[h], call[h].op)
        /\ pc'[h] = s /\ pc \in [Handler -> Pcs]
    BY <1>1, RequestSteps, RunningHas, RequestHas DEF Typed, Requests, Control
  <1>3. CASE s = "idle"
    BY <1>2, <1>3
  <1>4. CASE s # "idle" /\ Load(h)
    <2>1. /\ ~Return(h) /\ pc[h] = "load" /\ call[h].op # "init"
          /\ call[h].op = "whole" => call[h].data = "right"
      <3>1. ~Return(h)
        BY <1>2, <1>4 DEF Return, Leave
      <3>2. pc[h] = "load" /\ (call[h].op = "whole" => call[h].data # "wrong")
        BY <1>4, <3>1 DEF Load, At
      <3>3. call[h] \in Request /\ call[h].op # "init"
        BY <3>2, RunningHas DEF Typed, Requests
      <3>4. call[h].data \in {"right", "wrong"}
        BY <3>3, RequestHas
      <3>5. QED
        BY <3>1, <3>2, <3>3, <3>4
    <2>2. s \in {"lookup", "acquire", "count", "forget", "unlink"} /\ (s = "unlink" => call[h].op # "whole")
      BY <1>1, <1>2, <1>4, <2>1 DEF Load, Goto, AllOps
    <2>3. QED
      BY <1>1, <1>2, <1>4, <2>1, <2>2
  <1>5. CASE s # "idle" /\ ~Load(h)
    <2>1. ~Return(h) /\ ~Leave(h) /\ ~Lose(h)
      BY <1>2, <1>5 DEF Lose, Return, Leave, Typed, Requests
    <2>2. call'[h] = call[h] /\ pc[h] # "load"
      BY <1>1, <1>2, <1>5, <2>1 DEF HandlerStep, Forget, InitLookup, InitCreate, InitActivity, Lookup, Compare,
         OpenStored, WriteStored, Acquire, Refuse, GetMeta, SetMeta, OpenTemp, WriteTemp, Mark, Release, Reset,
         Unlink, Count, Hash, Mismatch, Rename, Insert, FindAsset, BackAsset, At
    <2>3. CASE \/ Forget(h) \/ InitLookup(h) \/ InitCreate(h) \/ Lookup(h) \/ Compare(h)
      <3>1. \/ s \in {"asset", "createVerify", "create", "activity", "compare", "open",
                      "forgetAsset", "forget"}
            \/ s = "insert" /\ pc[h] = "forgetInsert"
        BY <1>1, <1>2, <2>1, <2>3 DEF Forget, InitLookup, InitCreate, Lookup, Compare, Goto, At
      <3>2. QED
        BY <1>2, <1>5, <2>2, <3>1
    <2>4. CASE \/ OpenStored(h) \/ Acquire(h) \/ Refuse(h) \/ GetMeta(h) \/ SetMeta(h) \/ OpenTemp(h) \/ WriteTemp(h)
               \/ Mark(h) \/ Release(h) \/ Count(h) \/ Mismatch(h) \/ Insert(h) \/ FindAsset(h)
      <3>1. s \in {"write", "refuse", "getMeta", "open", "setMeta", "release", "mark", "reset", "hash", "forget",
                   "forgetAsset", "asset", "back"}
        BY <1>1, <1>2, <2>1, <2>4 DEF OpenStored, Acquire, Refuse, GetMeta, SetMeta, OpenTemp, WriteTemp, WriteAll,
           Mark, Release, Count, Mismatch, Insert, FindAsset, Goto
      <3>2. QED
        BY <1>2, <1>5, <2>2, <3>1
    <2>5. CASE WriteStored(h)
      <3>1. s = "unlink"
        BY <1>1, <1>2, <2>5 DEF WriteStored, WriteAll, Goto
      <3>2. QED
        BY <1>2, <2>2, <2>5, <3>1
    <2>6. CASE Unlink(h)
      <3>1. s = "forget" \/ (s = "insert" /\ call[h].op = "whole" /\ pc[h] = "unlink")
        BY <1>1, <1>2, <2>6 DEF Unlink, Goto, At
      <3>2. QED
        BY <1>2, <2>2, <3>1
    <2>7. CASE Hash(h)
      <3>1. s = "mismatch" \/ (s = "rename" /\ temp[call[h].tx] = FileOf("right") /\ temp' = temp)
        BY <1>1, <1>2, <2>1, <2>7 DEF Hash, Goto, disk
      <3>2. QED
        BY <1>2, <2>2, <3>1
    <2>8. CASE Rename(h)
      <3>1. s = "forgetInsert"
        BY <1>1, <1>2, <2>1, <2>8 DEF Rename, Goto
      <3>2. QED
        BY <1>2, <2>1, <2>2, <2>8, <3>1
    <2>9. QED
      BY <1>5, <2>1, <2>3, <2>4, <2>5, <2>6, <2>7, <2>8 DEF HandlerStep, InitActivity, BackAsset, Reset
  <1>6. QED
    BY <1>3, <1>4, <1>5

\* The parts of the invariant that follow a request.
LEMMA RequestKeepsStores ==
    ASSUME WholeInv, MarkInv', DiskStays, InTime, NEW h \in Handler, HandlerStep(h) \/ Lose(h)
    PROVE  /\ \A g, k \in Handler : Waits(g, k)'
           /\ \A g \in Handler : Checked(g)' /\ Stores(g)'
           /\ \A f \in fds' : WritesWhole(f)'
  <1>1. Typed /\ Typed' /\ Control(h)
    BY DEF WholeInv, MarkInv, TrackInv, SlotInv
  <1>2. PICK s \in Pcs :
          /\ pc' = [pc EXCEPT ![h] = s]
          /\ \/ s = "idle" /\ call' = [call EXCEPT ![h] = NoCall]
             \/ s # "idle" /\ call' = call
    BY RequestSteps DEF WholeInv, MarkInv, TrackInv, SlotInv
  <1>3. /\ pc[h] # "idle"
        /\ \A g \in Handler : pc'[g] # "idle" => pc[g] # "idle" /\ call'[g] = call[g]
        /\ \A g \in Handler \ {h} : pc'[g] = pc[g] /\ call'[g] = call[g]
    BY <1>2, RequestSteps DEF WholeInv, MarkInv, TrackInv, SlotInv, Typed, Requests
  <1>4. \A g, k \in Handler : Waits(g, k)'
    BY <1>3 DEF WholeInv, Waits
  <1>5. /\ pc'[h] = "forgetInsert" => Rename(h) /\ ~Return(h)
        /\ pc'[h] = "insert" => pc[h] = "forgetInsert" \/ (pc[h] = "unlink" /\ call[h].op = "whole")
        /\ pc'[h] = "unlink" /\ call[h].op = "whole" => WriteStored(h)
        /\ pc'[h] = "rename" => temp[call[h].tx] = FileOf("right") /\ temp' = temp
        /\ pc'[h] # "idle" => pc'[h] # "load" /\ call'[h] = call[h]
        /\ pc[h] = "load" /\ pc'[h] # "idle" /\ call[h].op = "whole" => call[h].data = "right"
    BY ComesToStore DEF WholeInv, MarkInv, TrackInv, SlotInv
  <1>6. \A g \in Handler : Checked(g)'
    BY <1>3, <1>5 DEF WholeInv, Checked
  <1>7. \A c \in Content : IsWhole(c) => stored'[c] = FileOf("right")
    BY DEF DiskStays, IsWhole
  <1>8. \A g \in Handler : pc[g] # "idle" => call[g].content \in Content
    BY RunningHas, RequestHas DEF WholeInv, MarkInv, TrackInv, Typed
  <1>9. \A g \in Handler \ {h} : Stores(g)'
    <2> SUFFICES ASSUME NEW g \in Handler \ {h} PROVE Stores(g)'
      OBVIOUS
    <2>1. Stores(g) /\ pc'[g] = pc[g] /\ call'[g] = call[g]
      BY <1>3 DEF WholeInv
    <2>2. pc[g] = "rename" => temp'[call[g].tx] \in {temp[call[g].tx], NoFile}
      BY DEF DiskStays
    <2>3. QED
      BY <1>7, <1>8, <2>1, <2>2 DEF Stores, IsWhole
  <1>10. Stores(h)'
    <2>1. Stores(h) /\ call[h].content \in Content
      BY <1>3, <1>8 DEF WholeInv
    <2>2. CASE pc'[h] = "forgetInsert"
      <3>1. stored'[call[h].content] = FileOf("right")
        BY <1>5, <2>2, RenamedDiskStays DEF Rename, At
      <3>2. QED
        BY <1>5, <2>2, <3>1 DEF Stores, IsWhole
    <2>3. CASE pc'[h] = "insert"
      BY <1>5, <1>7, <2>1, <2>3 DEF Stores, IsWhole
    <2>4. CASE pc'[h] = "unlink"
      BY <1>5, <2>4, WriteDiskStays DEF Stores, IsWhole
    <2>5. CASE pc'[h] = "rename"
      BY <1>5, <2>5 DEF Stores
    <2>6. QED
      BY <2>2, <2>3, <2>4, <2>5 DEF Stores
  <1>11. ASSUME NEW f \in fds' PROVE WritesWhole(f)'
    <2>1. f.by \in Handler /\ pc'[f.by] = "write" /\ f.content \in Content /\ Opens(f)'
      BY <1>11 DEF MarkInv, Opens, TrackInv, Typed, Files, Fd
    <2>2. call'[f.by] = call[f.by]
      BY <1>3, <2>1
    <2>3. CASE f \in fds
      BY <1>7, <2>1, <2>2, <2>3 DEF WholeInv, WritesWhole, IsWhole
    <2>4. CASE f \notin fds
      BY <1>11, <2>1, <2>2, <2>4 DEF DiskStays, WritesWhole
    <2>5. QED
      BY <2>3, <2>4
  <1>12. QED
    BY <1>4, <1>6, <1>9, <1>10, <1>11

\* The rows of blobs: one that is new was inserted for a whole file.
LEMMA RequestKeepsRows ==
    ASSUME WholeInv, MarkInv', DiskStays, NEW h \in Handler, HandlerStep(h) \/ Lose(h)
    PROVE  StoredIsWhole'
  <1>1. \A c \in Content : IsWhole(c) => stored'[c] = FileOf("right")
    BY DEF DiskStays, IsWhole
  <1>2. CASE blobs' = blobs
    BY <1>1, <1>2 DEF WholeInv, StoredIsWhole, IsWhole
  <1>3. CASE blobs' # blobs
    <2>1. Insert(h) /\ ~Return(h)
      BY <1>3 DEF HandlerStep, Lose, Load, Forget, InitLookup, InitCreate, InitActivity, Lookup, Compare,
         OpenStored, WriteStored, WriteAll, Acquire, Refuse, GetMeta, SetMeta, OpenTemp, WriteTemp, Mark, Release,
         Reset, Unlink, Count, Hash, Mismatch, Rename, Insert, FindAsset, BackAsset, Return, postgres
    <2>2. /\ IsWhole(call[h].content) /\ call[h].content \in Content
          /\ \E b : blobs' = [blobs EXCEPT ![call[h].content] = b]
      BY <2>1, RunningHas, RequestHas DEF Insert, At, WholeInv, Stores, MarkInv, TrackInv, Typed
    <2>3. \A c \in Content : blobs'[c] # NoBlob => IsWhole(c)
      BY <2>2 DEF WholeInv, StoredIsWhole, IsWhole, MarkInv, TrackInv, Typed, Tables
    <2>4. QED
      BY <1>1, <2>3 DEF StoredIsWhole
  <1>4. QED
    BY <1>2, <1>3

LEMMA RequestKeepsWholeInv ==
    ASSUME WholeInv, MarkInv', InTime, NEW h \in Handler, HandlerStep(h) \/ Lose(h)
    PROVE  WholeInv'
  <1>1. DiskStays
    BY RequestDiskStays
  <1>2. collector' = collector
    BY DEF HandlerStep, Lose, Load, Forget, InitLookup, InitCreate, InitActivity, Lookup, Compare,
       OpenStored, WriteStored, WriteAll, Acquire, Refuse, GetMeta, SetMeta, OpenTemp, WriteTemp, Mark, Release,
       Reset, Unlink, Count, Hash, Mismatch, Rename, Insert, FindAsset, BackAsset, Return
  <1>3. QED
    BY <1>1, <1>2, RequestKeepsStores, RequestKeepsRows DEF WholeInv

\* A patient client starts no completion while a chunk is on its way, and no chunk while it completes.
LEMMA BeginKeepsWholeInv ==
    ASSUME WholeInv, MarkInv', Patient, NEW h \in Handler, BeginInit(h) \/ Begin(h)
    PROVE  WholeInv'
  <1>1. /\ pc \in [Handler -> Pcs] /\ DOMAIN call = Handler
        /\ \A g \in Handler : pc[g] # "idle" => call[g] # NoCall
    BY DEF WholeInv, MarkInv, TrackInv, Typed, Requests
  <1>2. \E c, s : /\ Start(h, c, s) /\ s \in {"init", "load"}
                  /\ s = "init" => c.op # "whole"
                  /\ c.op = "complete" => ~Running(c.tx, "chunk")
                  /\ c.op = "chunk" => ~Running(c.tx, "complete")
    <2>1. CASE BeginInit(h)
      <3>1. PICK a \in Asset, b \in Content, x \in Tx :
              Start(h, [op |-> "init", tx |-> x, asset |-> a, content |-> b], "init")
        BY <2>1 DEF BeginInit
      <3> DEFINE c == [op |-> "init", tx |-> x, asset |-> a, content |-> b]
      <3>2. c.op = "init"
        OBVIOUS
      <3> HIDE DEF c
      <3>3. QED
        BY <3>1, <3>2 DEF c
    <2>2. CASE Begin(h)
      <3>1. PICK op \in Ops \ {"init"}, x \in Tx, k \in Chunk, d \in {"right", "wrong"} :
              /\ op = "complete" => ~Running(x, "chunk")
              /\ op = "chunk" => ~Running(x, "complete")
              /\ Start(h, [op |-> op, tx |-> x, asset |-> info[x].asset, content |-> info[x].content,
                           chunk |-> k, data |-> d], "load")
        BY <2>2 DEF Begin
      <3> DEFINE c == [op |-> op, tx |-> x, asset |-> info[x].asset, content |-> info[x].content,
                       chunk |-> k, data |-> d]
      <3>2. c.op = op /\ c.tx = x
        OBVIOUS
      <3>3. Start(h, c, "load")
        BY <3>1
      <3> HIDE DEF c
      <3>4. QED
        BY <3>1, <3>2, <3>3
    <2>3. QED
      BY <2>1, <2>2
  <1>3. PICK c, s : /\ Start(h, c, s) /\ s \in {"init", "load"}
                    /\ s = "init" => c.op # "whole"
                    /\ c.op = "complete" => ~Running(c.tx, "chunk")
                    /\ c.op = "chunk" => ~Running(c.tx, "complete")
    BY <1>2
  <1>4. /\ pc[h] = "idle" /\ pc' = [pc EXCEPT ![h] = s] /\ call' = [call EXCEPT ![h] = c]
        /\ UNCHANGED <<fds, temp, stored, blobs, collector>>
    BY <1>3 DEF Start, At, disk, postgres
  <1>5. /\ pc'[h] = s /\ call'[h] = c
        /\ \A g \in Handler \ {h} : pc'[g] = pc[g] /\ call'[g] = call[g]
    BY <1>1, <1>4
  <1>6. \A g, k \in Handler : Waits(g, k)'
    <2> SUFFICES ASSUME NEW g \in Handler, NEW k \in Handler,
                        pc'[g] # "idle", call'[g].op = "chunk", pc'[k] # "idle", call'[k].op = "complete"
                 PROVE  call'[g].tx # call'[k].tx
      BY DEF Waits
    <2>1. CASE g # h /\ k # h
      BY <1>5, <2>1 DEF WholeInv, Waits
    <2>2. CASE g = h /\ k # h
      <3>1. k \in Handler /\ call[k] # NoCall /\ call[k].op = "complete"
        BY <1>1, <1>5, <2>2
      <3>2. ~Running(c.tx, "complete")
        BY <1>3, <1>5, <2>2
      <3>3. QED
        BY <1>5, <2>2, <3>1, <3>2 DEF Running, On
    <2>3. CASE g # h /\ k = h
      <3>1. g \in Handler /\ call[g] # NoCall /\ call[g].op = "chunk"
        BY <1>1, <1>5, <2>3
      <3>2. ~Running(c.tx, "chunk")
        BY <1>3, <1>5, <2>3
      <3>3. QED
        BY <1>5, <2>3, <3>1, <3>2 DEF Running, On
    <2>4. QED
      BY <2>1, <2>2, <2>3
  <1>7. \A g \in Handler : Checked(g)' /\ Stores(g)'
    <2> SUFFICES ASSUME NEW g \in Handler PROVE Checked(g)' /\ Stores(g)'
      OBVIOUS
    <2>1. CASE g = h
      <3>1. pc'[g] \in {"init", "load"} /\ (pc'[g] = "init" => c.op # "whole")
        BY <1>3, <1>5, <2>1
      <3>2. QED
        BY <1>5, <2>1, <3>1 DEF Checked, Stores
    <2>2. CASE g # h
      <3>1. Checked(g) /\ Stores(g) /\ pc'[g] = pc[g] /\ call'[g] = call[g]
        BY <1>5, <2>2 DEF WholeInv
      <3>2. QED
        BY <1>4, <3>1 DEF Checked, Stores, IsWhole
    <2>3. QED
      BY <2>1, <2>2
  <1>8. \A f \in fds' : WritesWhole(f)'
    <2>1. \A f \in fds : f.by # h /\ f.by \in Handler /\ WritesWhole(f)
      BY <1>4, WritersInFolders DEF WholeInv
    <2>2. QED
      BY <1>4, <1>5, <2>1 DEF WritesWhole, IsWhole
  <1>9. QED
    BY <1>4, <1>6, <1>7, <1>8 DEF WholeInv, StoredIsWhole

\* Everybody else leaves what is stored, and at most unlinks a temp file.
LEMMA ElsewhereKeepsWholeInv ==
    ASSUME WholeInv, MarkInv', UNCHANGED <<pc, call, stored, blobs, collector>>, DiskStays
    PROVE  WholeInv'
  <1>1. \A g, k \in Handler : Waits(g, k)'
    BY DEF WholeInv, Waits
  <1>2. \A g \in Handler : Checked(g)' /\ Stores(g)'
    BY DEF WholeInv, Checked, Stores, IsWhole, DiskStays
  <1>3. ASSUME NEW f \in fds' PROVE WritesWhole(f)'
    <2>1. CASE f \in fds
      BY <2>1 DEF WholeInv, WritesWhole, IsWhole
    <2>2. CASE f \notin fds
      BY <1>3, <2>2 DEF DiskStays, WritesWhole
    <2>3. QED
      BY <2>1, <2>2
  <1>4. QED
    BY <1>1, <1>2, <1>3 DEF WholeInv, StoredIsWhole

LEMMA InitWholeInv == Init => WholeInv
  BY InitMarkInv DEF Init, WholeInv, Waits, Checked, Stores, StoredIsWhole

LEMMA NextKeepsWholeInv ==
    InTime /\ Patient /\ "blobs" \notin Workers /\ WholeInv /\ [Next]_vars => WholeInv'
  <1> SUFFICES ASSUME InTime, Patient, "blobs" \notin Workers, WholeInv, [Next]_vars PROVE WholeInv'
    OBVIOUS
  <1>1. MarkInv'
    BY NextKeepsMarkInv DEF WholeInv
  <1>2. ASSUME NEW h \in Handler, BeginInit(h) \/ Begin(h) \/ HandlerStep(h) \/ Lose(h) PROVE WholeInv'
    BY <1>1, <1>2, BeginKeepsWholeInv, RequestKeepsWholeInv
  <1>3. CASE SweepUnlink
    <2>1. UNCHANGED <<pc, call, stored, blobs, collector>>
      BY <1>3 DEF SweepUnlink, Unlinked, handlers, postgres, disk
    <2>2. sweeper.tx \in Tx /\ (UNCHANGED disk \/ Unlinked(sweeper.tx))
      BY <1>3 DEF SweepUnlink, WholeInv, MarkInv, TrackInv, Typed, Sweeping
    <2>3. DiskStays
      BY <2>2, RestDiskStays, UnlinkedDiskStays DEF disk
    <2>4. QED
      BY <1>1, <2>1, <2>3, ElsewhereKeepsWholeInv
  <1>4. CASE CollectorStep \/ Land
    BY <1>4, NoValueAssumption DEF CollectorStep, Collect, CollectDelete, CollectUnlink, Land, WholeInv,
       MarkInv, Opens
  <1>5. CASE \/ \E a \in Asset : CreateAsset(a) \/ Abandon(a)
             \/ \E x \in Tx : Pass(x) \/ ExpireSlots(x)
             \/ SweepPick \/ SweepGet \/ SweepCount \/ SweepDelete \/ UNCHANGED vars
    <2>1. UNCHANGED <<pc, call, stored, temp, fds, blobs, collector>>
      BY <1>5 DEF CreateAsset, Abandon, Pass, ExpireSlots, SweepPick, SweepGet, SweepCount, SweepDelete,
         handlers, disk, postgres, vars
    <2>2. QED
      BY <1>1, <2>1, RestDiskStays, ElsewhereKeepsWholeInv
  <1>6. QED
    BY <1>2, <1>3, <1>4, <1>5 DEF Next, SweeperStep

\* When writes land in time, clients complete only what has arrived and no blob is collected, what is
\* stored is what it is stored under, what Redis has as uploaded is in the temp file and the counter of
\* slots is in its range: however requests of any number of uploads of the same contents interleave,
\* are lost or are retried, and whatever the cleanup of transactions unlinks under them.
THEOREM FilesOfPatientClientsAreSound ==
    ASSUME InTime, Patient, "blobs" \notin Workers
    PROVE  Spec => []FilesAreSound
  <1>1. WholeInv /\ [Next]_vars => WholeInv'
    BY NextKeepsWholeInv
  <1>2. WholeInv => StoredIsWhole
    BY DEF WholeInv
  <1>3. Spec => []StoredIsWhole
    BY <1>1, <1>2, InitWholeInv, PTL DEF Spec
  <1>4. StoredIsWhole /\ TypeOK /\ MarkedIsWritten => FilesAreSound
    BY DEF FilesAreSound
  <1>5. QED
    BY <1>3, <1>4, TypesStay, MarkedChunksAreWritten, PTL
=============================================================================
