-------------------------- MODULE MCPolledInbound --------------------------
(* Small instances of PolledInbound for TLC. *)
EXTENDS PolledInbound
=============================================================================
