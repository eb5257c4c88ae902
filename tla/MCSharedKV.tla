----------------------------- MODULE MCSharedKV -----------------------------
(* Instances of SharedKV: constant values only. *)
EXTENDS SharedKV

CONSTANTS x, y

=============================================================================
