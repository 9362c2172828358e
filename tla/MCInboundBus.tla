---------------------------- MODULE MCInboundBus ----------------------------
(* Two peers of a transport that vouches for them, one of a transport that
   does not. *)
EXTENDS InboundBus, TLC

CONSTANTS matrix, email, alice, bob, carol, k1, k2, s1, s2, a1

Prose(c, p, e) ==
    [channel |-> c, peer |-> p, nul |-> FALSE, evidence |-> e, shape |-> "prose",
     tokens |-> {}, code |-> Nothing, big |-> FALSE]

Said(p) == Prose(matrix, p, Nothing)

Mailed(t) == Prose(email, carol, [dmarc |-> TRUE, token |-> t])

\* Two peers present one code, which the second finds spent while k2 is live.
Traffic ==
    { [Said(alice) EXCEPT !.code = k1],
      [Said(bob) EXCEPT !.code = k1],
      [Said(alice) EXCEPT !.shape = "command", !.tokens = {a1}],
      [Said(alice) EXCEPT !.shape = "mention", !.tokens = {a1}],
      Mailed(s1) }

Owners == a1 :> alice
=============================================================================
