--------------------------- MODULE UploadMachine ---------------------------
(***************************************************************************)
(* The upload state machine of the uploader's worker: what one upload is,  *)
(* and what each event makes of it.  An event that does not apply returns  *)
(* the same state; callers tell "ignored" by that.                         *)
(*                                                                         *)
(* A hash is known or not, and so is a transaction.  Progress is counted   *)
(* in slices hashed and chunks confirmed.  Chunk sizes, limits and ranges, *)
(* which come and go with the mode, are left out.                          *)
(***************************************************************************)
EXTENDS Naturals

STEPS == {"hashing", "initializing", "uploading", "verifying", "completing"}
isStep(status) == status \in STEPS
Resting == {"queued", "paused", "failed"}
isTerminal(status) == status \in {"done", "cancelled"}
UploadStatus == STEPS \cup Resting \cup {"cancelling"} \cup {"done", "cancelled"}
UploadMode == {"none", "whole-file", "chunked", "verify"}
\* The kinds of error a failed step tells apart, see fail.
UploadError == {"none", "lost", "content", "token", "other"}

UploadContext ==
    [hash : BOOLEAN, transactionId : BOOLEAN, mode : UploadMode, hashed : Nat, uploaded : Nat]
UploadMachineState ==
    [status : UploadStatus, next : STEPS \cup {"none"}, error : UploadError, ctx : UploadContext]

noContext ==
    [hash |-> FALSE, transactionId |-> FALSE, mode |-> "none", hashed |-> 0, uploaded |-> 0]

At(status, ctx) == [status |-> status, next |-> "none", error |-> "none", ctx |-> ctx]
Rest(status, next, ctx) == [status |-> status, next |-> next, error |-> "none", ctx |-> ctx]

initialState == Rest("queued", "hashing", noContext)

\* Mutant: the hash is forgotten with the transaction.
contextForWithoutHash(step, ctx) ==
    IF step \in {"hashing", "initializing"} THEN noContext ELSE ctx

\* Going back to a step forgets what that step and the later ones produce.
contextFor(step, ctx) ==
    CASE step = "hashing" -> noContext
      [] step = "initializing" -> [noContext EXCEPT !.hash = ctx.hash, !.hashed = ctx.hashed]
      [] OTHER -> ctx

-----------------------------------------------------------------------------
(* One operator per event. *)

Start(s) == IF s.status = "queued" THEN At(s.next, s.ctx) ELSE s

HashProgress(s, n) == IF s.status = "hashing" THEN [s EXCEPT !.ctx.hashed = n] ELSE s

Hashed(s) ==
    IF s.status = "hashing" THEN At("initializing", [s.ctx EXCEPT !.hash = TRUE]) ELSE s

Initialized(s, mode) ==
    IF s.status = "initializing"
    THEN At(IF mode = "verify" THEN "verifying" ELSE "uploading",
            [s.ctx EXCEPT !.transactionId = TRUE, !.mode = mode, !.uploaded = 0])
    ELSE s

UploadProgress(s, n) == IF s.status = "uploading" THEN [s EXCEPT !.ctx.uploaded = n] ELSE s

Uploaded(s) ==
    IF s.status = "uploading" /\ s.ctx.mode = "chunked" THEN At("completing", s.ctx) ELSE s

Incomplete(s) == IF s.status = "completing" THEN At("uploading", s.ctx) ELSE s

Completed(s) ==
    IF s.status \in {"uploading", "verifying", "completing"} THEN At("done", s.ctx) ELSE s

TransactionLost(s) ==
    IF s.status \in {"uploading", "verifying", "completing"}
    THEN At("initializing", contextFor("initializing", s.ctx))
    ELSE s

Pause(s) ==
    IF s.status = "queued" THEN Rest("paused", s.next, s.ctx)
    ELSE IF isStep(s.status) THEN Rest("paused", s.status, s.ctx)
    ELSE s

Resume(s) == IF s.status = "paused" THEN Rest("queued", s.next, s.ctx) ELSE s

\* next is "none" for the step that failed.
Fail(s, error, next) ==
    IF ~isStep(s.status) THEN s
    ELSE IF next = "none"
         THEN [Rest("failed", s.status, s.ctx) EXCEPT !.error = error]
         ELSE [Rest("failed", next, contextFor(next, s.ctx)) EXCEPT !.error = error]

Retry(s) == IF s.status = "failed" THEN Rest("queued", s.next, s.ctx) ELSE s

\* Without a transaction the server holds nothing for this upload.
Cancel(s) ==
    IF isTerminal(s.status) \/ s.status = "cancelling" THEN s
    ELSE At(IF s.ctx.transactionId THEN "cancelling" ELSE "cancelled", s.ctx)

Cancelled(s) == IF s.status = "cancelling" THEN At("cancelled", s.ctx) ELSE s

-----------------------------------------------------------------------------
(* What a step needs from the steps before it: without it the runner throws *)
(* ("initializing without a hash", "... without a transaction") or takes    *)
(* the wrong way of uploading.                                              *)

Ready(step, ctx) ==
    CASE step = "hashing" -> TRUE
      [] step = "initializing" -> ctx.hash
      [] step = "uploading" ->
            ctx.hash /\ ctx.transactionId /\ ctx.mode \in {"whole-file", "chunked"}
      [] step = "verifying" -> ctx.hash /\ ctx.transactionId /\ ctx.mode = "verify"
      [] step = "completing" -> ctx.hash /\ ctx.transactionId /\ ctx.mode = "chunked"

Coherent(s) ==
    /\ isStep(s.status) => Ready(s.status, s.ctx)
    /\ s.status \in Resting => (s.next \in STEPS /\ Ready(s.next, s.ctx))
    /\ s.status = "cancelling" => s.ctx.transactionId
=============================================================================
