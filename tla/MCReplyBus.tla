----------------------------- MODULE MCReplyBus -----------------------------
(* Small instances of ReplyBus for TLC. *)
EXTENDS ReplyBus, TLC

CONSTANT matrix

\* Task 1 is for a channel nobody serves and stays in the backlog for ever; task
\* 2 has no route.
Blocked == [t \in Tasks |-> CASE t = 1 -> "unserved" [] t = 2 -> "no_route" [] OTHER -> matrix]
AllMatrix == [a \in Asks |-> matrix]
=============================================================================
