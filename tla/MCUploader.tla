----------------------------- MODULE MCUploader -----------------------------
(***************************************************************************)
(* Uploader with one upload sent in chunks and one sent whole.             *)
(***************************************************************************)
EXTENDS Uploader

CONSTANTS u1, u2

OneUpload == {u1}
TwoUploads == {u1, u2}
InChunks == [u \in OneUpload |-> "chunked"]
ChunkedAndWhole == [u \in TwoUploads |-> IF u = u1 THEN "chunked" ELSE "whole-file"]
TwoChunks == {0, 1}
Mixed == {"pause-all", "resume", "cancel", "retry-token", "remove", "reorder", "finished", "destroy"}
Removal == {"cancel", "remove"}
=============================================================================
