--------------------------- MODULE MCBootSupervisor ---------------------------
(* The supervisor with every duration scaled down to a few ticks. *)
EXTENDS BootSupervisor
=============================================================================
