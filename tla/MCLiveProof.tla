----------------------------- MODULE MCLiveProof -----------------------------
(* A small instance: two jobs that overlap, one of which cleans up in the       *)
(* proof itself.                                                               *)
EXTENDS LiveProof

CONSTANTS j1, j2
=============================================================================
