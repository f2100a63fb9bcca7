-------------------------- MODULE MCUploadStorage --------------------------
(***************************************************************************)
(* UploadStorage on one or two assets, contents, transactions and requests.*)
(* Requests, transactions and assets are alike.                            *)
(***************************************************************************)
EXTENDS UploadStorage, TLC

CONSTANTS h1, h2, x1, x2, a1, a2, c1, c2

OneAsset == {a1}
TwoAssets == {a1, a2}
OneContent == {c1}
TwoContents == {c1, c2}
None == {}
OneTx == {x1}
TwoTx == {x1, x2}
TwoHandlers == {h1, h2}
TwoChunks == {0, 1}
OneChunk == {0}

Chunked == {"init", "chunk", "cancel", "complete"}
Whole == {"init", "verify", "whole"}
Sweeper == {"transactions"}
Collector == {"blobs"}
CollectorAndAssets == {"blobs", "assets"}

Symmetry == Permutations(Handler) \cup Permutations(Tx) \cup Permutations(Asset)
=============================================================================
