---------------------------- MODULE MCWarmSlot ----------------------------
(* Small instances of WarmSlot for TLC. *)
EXTENDS WarmSlot
=============================================================================
