---------------------------- MODULE MCBucketHeap ----------------------------
(* Small instances of BucketHeap for TLC. *)
EXTENDS BucketHeap
=============================================================================
