----------------------------- MODULE MCPageAlloc -----------------------------
(* Small instances of PageAlloc for TLC. *)
EXTENDS PageAlloc

CONSTANTS h1, h2
=============================================================================
