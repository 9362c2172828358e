------------------------------ MODULE InboundBus ------------------------------
(***************************************************************************)
(* What a channel bus does with a message its transport hands over         *)
(* (core/src/channel/bus_inbound.rs `handle_inbound', with inbound_nul.rs, *)
(* auth.rs, pairing.rs, ask_message.rs, ingest.rs and pg_events.rs), and   *)
(* the tables it reads and writes there: pairings, pairing codes and asks  *)
(* (db/src/pairings.rs, db/src/asks.rs).                                   *)
(*                                                                         *)
(* Each channel's pump handles one message at a time, with an await at     *)
(* every database call; between two of them the other pump, the operator's *)
(* CLI and the ask sweep run, and a stop of the bus abandons the handler.  *)
(* A call that writes can fail with or without having committed.           *)
(*                                                                         *)
(* A body is reduced to what the handler asks of it: its shape as a        *)
(* command, the ask tokens and the pairing code in it, whether it is over  *)
(* the caps of the token scan.  What the injection guard makes of it is    *)
(* left open.                                                              *)
(***************************************************************************)
EXTENDS Integers, FiniteSets

CONSTANTS
    Channels,   \* one bus pump each
    Peers,
    Messages,   \* records [channel, peer, nul, evidence, shape, tokens, code, big]
    Codes,      \* pairing codes
    Secrets,    \* per-pairing tokens of issue-token
    Tokened,    \* the peers the operator issues them to
    Asks,       \* asks; an ask stands for its token
    Owner,      \* the peer whose task raised each ask
    Nothing,    \* no evidence, no code, no token
    MaxFaults,  \* bound on failed database calls, refused sends and stops
    MaxRevokes  \* bound on revocations

Shapes == {"command", "shaped", "mention", "prose"}

Evidence == [dmarc : BOOLEAN, token : Secrets \cup {Nothing}]

ASSUME ConstantsAssumption ==
    /\ MaxFaults \in Nat /\ MaxRevokes \in Nat
    /\ Owner \in [Asks -> Peers] /\ Tokened \subseteq Peers
    /\ \A m \in Messages :
          /\ m.channel \in Channels /\ m.peer \in Peers
          /\ m.nul \in BOOLEAN /\ m.big \in BOOLEAN
          /\ m.evidence \in Evidence \cup {Nothing}
          /\ m.shape \in Shapes
          /\ m.tokens \subseteq Asks
          /\ m.shape = "command" => Cardinality(m.tokens) = 1
          /\ m.code \in Codes \cup {Nothing}

VARIABLES
    unread,     \* messages the transports still hold
    pump,       \* each pump: where it stands, its message, the row and ack it owes
    pairings,   \* each peer's active pairing
    issued,     \* pairing tokens issued so far
    codes,      \* pairing codes, with the peers they bound
    asks,       \* asks, with the message that resolved them
    tasks,      \* messages that became tasks
    said,       \* what each message left: its rows and lines
    vouched,    \* history: messages whose sender was paired while in hand
    faults, revokes

vars == <<unread, pump, pairings, issued, codes, asks, tasks, said, vouched, faults, revokes>>

tables == <<pairings, issued, codes, asks>>

-----------------------------------------------------------------------------
(* Pairings.  A peer has at most one active row (pairings_active_uniq); the
   row carries the hash of a token or none. *)

Unpaired == [active |-> FALSE, token |-> Nothing]

Paired(token) == [active |-> TRUE, token |-> token]

\* A variant that reads revoked rows too: `pairings' keeps the last row.
token_hash_with_revoked(p) == [pairings[p] EXCEPT !.active = @ \/ pairings[p].token # Nothing]

token_hash_for(p) == pairings[p]

\* DbPeerAuthorizer::authorize, the lookup having succeeded.
authorize(m) ==
    LET row == token_hash_for(m.peer) IN
    IF ~row.active THEN "Rejected"
    ELSE IF row.token = Nothing
    THEN IF m.evidence = Nothing THEN "Recognised" ELSE "RejectedUnauthentic"
    ELSE IF /\ m.evidence # Nothing
            /\ m.evidence.dmarc
            /\ m.evidence.token = row.token
         THEN "Recognised" ELSE "RejectedUnauthentic"

(* What being paired means for a message, whatever the handler does. *)
Credentialed(m, rows) ==
    /\ rows[m.peer].active
    /\ IF m.evidence = Nothing THEN rows[m.peer].token = Nothing
       ELSE m.evidence.dmarc /\ rows[m.peer].token = m.evidence.token

-----------------------------------------------------------------------------
(* Pairing codes and asks *)

Unissued == [state |-> "none", bound |-> {}]

any_active_code == \E k \in Codes : codes[k].state = "live"

\* claim_code's conditional UPDATE; and one that only looks at the expiry.
claimable_again(k) == k # Nothing /\ codes[k].state \in {"live", "consumed"}
claimable(k) == k # Nothing /\ codes[k].state = "live"

\* live_ask_for_claimant!: the tail shared by resolution and containment.
live_for(a, p) == asks[a].state = "pending" /\ Owner[a] = p

-----------------------------------------------------------------------------
(* ask_message.rs *)

parse_ask_command(m) == m.shape = "command"

looks_like_ask_command(m) == m.shape \in {"command", "shaped", "mention"}

is_command_shaped(m) == m.shape \in {"command", "shaped"}

\* candidate_tokens: None over the caps, never a prefix of the body.
scannable(m) == ~m.big

-----------------------------------------------------------------------------
(* The handler's state: `at' names the await it stands at. *)

Rows == {"rejected_malformed", "rejected_unauthentic", "rejected_unverifiable",
         "rejected_unpaired", "paired", "ask_resolved", "ask_answer_rejected",
         "received", "enqueue_failed", "injection_blocked", "undelivered"}

Places == {"authorize", "any_code", "claim", "resolve", "scan", "enqueue", "audit", "ack"}

Idle == [at |-> "idle", msg |-> Nothing, row |-> Nothing, ack |-> FALSE]

At(place, m) == [at |-> place, msg |-> m, row |-> Nothing, ack |-> FALSE]

Owes(row, m, ack) == [at |-> "audit", msg |-> m, row |-> row, ack |-> ack]

InHand(p) == {p[c].msg : c \in {d \in Channels : p[d].at # "idle"}}

\* Messages in hand join the history as soon as their sender is paired.
witness(p, rows) == vouched \cup {m \in InHand(p) : Credentialed(m, rows)}

Init ==
    /\ unread = Messages
    /\ pump = [c \in Channels |-> Idle]
    /\ pairings = [p \in Peers |-> Unpaired]
    /\ issued = {}
    /\ codes = [k \in Codes |-> Unissued]
    /\ asks = [a \in Asks |-> [state |-> "none", by |-> Nothing]]
    /\ tasks = {}
    /\ said = [m \in Messages |-> {}]
    /\ vouched = {}
    /\ faults = 0 /\ revokes = 0

\* Past containment: a fumbled command earns the usage hint.
uncontained(m) ==
    IF is_command_shaped(m) THEN Owes("ask_answer_rejected", m, TRUE) ELSE At("enqueue", m)

\* What follows recognition: the answer, the containment question, or the
\* message itself.
recognised(m) ==
    IF parse_ask_command(m) THEN At("resolve", m)
    ELSE IF ~looks_like_ask_command(m) THEN At("enqueue", m)
    ELSE IF scannable(m) THEN At("scan", m)
    ELSE Owes("ask_answer_rejected", m, TRUE)

\* What follows a decision; the pairing carve-out is for transports that
\* vouch for their peers.
decided(decision, m) ==
    CASE decision = "Recognised" -> recognised(m)
      [] decision = "RejectedUnauthentic" -> Owes("rejected_unauthentic", m, FALSE)
      [] decision = "Rejected" -> IF m.evidence = Nothing THEN At("any_code", m)
                                  ELSE Owes("rejected_unpaired", m, FALSE)

Goes(c, next) == pump' = [pump EXCEPT ![c] = next]

Handling(c, place) == pump[c].at = place

Leaves(m, marks) == said' = [said EXCEPT ![m] = @ \cup marks]

\* A call that succeeds, and one that fails.
Works == UNCHANGED faults

Fails == faults < MaxFaults /\ faults' = faults + 1

-----------------------------------------------------------------------------
(* The pump takes a message: an ask's token can be in a body only once the
   ask has been raised.  The NUL boundary comes before everything else. *)
recv(c) ==
    /\ Handling(c, "idle")
    /\ \E m \in unread :
          /\ m.channel = c
          /\ \A a \in m.tokens : asks[a].state # "none"
          /\ m.evidence # Nothing => m.evidence.token \in issued \cup {Nothing}
          /\ m.code # Nothing => codes[m.code].state # "none"
          /\ unread' = unread \ {m}
          /\ Goes(c, IF m.nul THEN Owes("rejected_malformed", m, FALSE) ELSE At("authorize", m))
    /\ vouched' = witness(pump', pairings)
    /\ UNCHANGED <<tables, tasks, said, faults, revokes>>

authorized(c) ==
    /\ Handling(c, "authorize")
    /\ \/ Works /\ Goes(c, decided(authorize(pump[c].msg), pump[c].msg))
       \/ Fails /\ Goes(c, Owes("rejected_unverifiable", pump[c].msg, FALSE))
    /\ UNCHANGED <<unread, tables, tasks, said, vouched, revokes>>

(* try_pair: the gate, then one transaction that claims the code and binds
   the peer.  A call that fails is "not a pairing attempt". *)
try_pair_gate(c) ==
    /\ Handling(c, "any_code")
    /\ \/ Works /\ any_active_code /\ Goes(c, At("claim", pump[c].msg))
       \/ /\ (Works /\ ~any_active_code) \/ Fails
          /\ Goes(c, Owes("rejected_unpaired", pump[c].msg, FALSE))
    /\ UNCHANGED <<unread, tables, tasks, said, vouched, revokes>>

\* insert_pairing is ON CONFLICT DO NOTHING: an active row stays as it is.
bind(m) ==
    /\ codes' = [codes EXCEPT ![m.code] = [state |-> "consumed", bound |-> @.bound \cup {m.peer}]]
    /\ pairings' = IF pairings[m.peer].active THEN pairings
                   ELSE [pairings EXCEPT ![m.peer] = Paired(Nothing)]
    /\ UNCHANGED <<issued, asks>>

unclaimed(m) == Owes("rejected_unpaired", m, FALSE)

try_pair(c) ==
    LET m == pump[c].msg IN
    /\ Handling(c, "claim")
    /\ \/ /\ claimable(m.code)
          /\ bind(m)
          /\ \/ Works /\ Goes(c, Owes("paired", m, TRUE))
             \/ Fails /\ Goes(c, Owes("rejected_unpaired", m, FALSE))  \* committed all the same
       \/ /\ (Works /\ ~claimable(m.code)) \/ Fails
          /\ Goes(c, unclaimed(m))
          /\ UNCHANGED tables
    /\ vouched' = witness(pump, pairings')
    /\ UNCHANGED <<unread, tasks, said, revokes>>

(* An answer: resolve_with_nonce for the sender's own ask.  The ask's task is
   resumed in the same transaction. *)
settled_by(a, m) ==
    /\ asks' = [asks EXCEPT ![a] = [state |-> "resolved", by |-> m]]
    /\ UNCHANGED <<pairings, issued, codes>>

resolve_with_nonce(c) ==
    LET m == pump[c].msg IN
    /\ Handling(c, "resolve")
    /\ \/ \E a \in m.tokens :
             /\ live_for(a, m.peer)
             /\ settled_by(a, m)
             /\ \/ Works /\ Goes(c, Owes("ask_resolved", m, TRUE))
                \/ Fails /\ Goes(c, Owes("ask_answer_rejected", m, TRUE))  \* committed all the same
       \/ /\ (Works /\ \A a \in m.tokens : ~live_for(a, m.peer)) \/ Fails
          /\ Goes(c, Owes("ask_answer_rejected", m, TRUE))
          /\ UNCHANGED tables
    /\ UNCHANGED <<unread, tasks, said, vouched, revokes>>

(* Containment: no live token of the sender's may reach tasks.payload; an
   unanswered question refuses. *)
\* A variant that takes the error for a "no".
error_is_no(m) == uncontained(m)

error_refuses(m) == Owes("ask_answer_rejected", m, TRUE)

containment_refusal(c) ==
    LET m == pump[c].msg IN
    /\ Handling(c, "scan")
    /\ \/ /\ Works
          /\ Goes(c, IF \E a \in m.tokens : live_for(a, m.peer)
                     THEN Owes("ask_answer_rejected", m, TRUE) ELSE uncontained(m))
       \/ Fails /\ Goes(c, error_refuses(m))
    /\ UNCHANGED <<unread, tables, tasks, said, vouched, revokes>>

(* screen_and_classify, the injection guard's verdict being open, and the
   insert of the task. *)
enqueue(c) ==
    LET m == pump[c].msg IN
    /\ Handling(c, "enqueue")
    /\ \/ Works /\ UNCHANGED tasks /\ Goes(c, Owes("injection_blocked", m, FALSE))
       \/ /\ Works
          /\ tasks' = tasks \cup {m}
          /\ Goes(c, Owes("received", m, FALSE))
       \/ /\ Fails
          /\ tasks' \in {tasks, tasks \cup {m}}
          /\ Goes(c, Owes("enqueue_failed", m, FALSE))
    /\ UNCHANGED <<unread, tables, said, vouched, revokes>>

(* The row the handler owes, written or reported lost on [audit-lost]. *)
audit(c) ==
    LET p == pump[c] IN
    /\ Handling(c, "audit")
    /\ \/ Works /\ Leaves(p.msg, {p.row})
       \/ Fails /\ Leaves(p.msg, {"line"})
    /\ Goes(c, IF p.ack THEN At("ack", p.msg) ELSE Idle)
    /\ UNCHANGED <<unread, tables, tasks, vouched, revokes>>

(* send_or_record: a refused ack leaves its own row. *)
send_or_record(c) ==
    /\ Handling(c, "ack")
    /\ \/ Works /\ UNCHANGED said
       \/ Fails /\ \E mark \in {"undelivered", "line"} : Leaves(pump[c].msg, {mark})
    /\ Goes(c, Idle)
    /\ UNCHANGED <<unread, tables, tasks, vouched, revokes>>

-----------------------------------------------------------------------------
(* ChannelBus::shutdown aborts the pump where it stands: the guards armed
   around the handler and around its row say so.  A statement already sent
   may still commit. *)

\* A variant of the guard, armed only around the row's insert.
says_rows_only(c) == IF pump[c].at = "audit" THEN {"line"} ELSE {}

abandoned(c) == {"line"}

stop(c) ==
    LET m == pump[c].msg IN
    /\ ~Handling(c, "idle") /\ Fails
    /\ Leaves(m, abandoned(c))
    /\ Goes(c, Idle)
    /\ \/ Handling(c, "claim") /\ claimable(m.code) /\ bind(m) /\ UNCHANGED tasks
       \/ /\ Handling(c, "resolve")
          /\ \E a \in m.tokens : live_for(a, m.peer) /\ settled_by(a, m)
          /\ UNCHANGED tasks
       \/ Handling(c, "enqueue") /\ tasks' = tasks \cup {m} /\ UNCHANGED tables
       \/ UNCHANGED <<tables, tasks>>
    /\ vouched' = witness(pump', pairings')
    /\ UNCHANGED <<unread, revokes>>

-----------------------------------------------------------------------------
(* The operator's CLI, and the asks the scheduler raises and retires. *)

Elsewhere == UNCHANGED <<unread, pump, tasks, said, faults>>

pair_issue(k) ==
    /\ codes[k].state = "none"
    /\ codes' = [codes EXCEPT ![k].state = "live"]
    /\ UNCHANGED <<pairings, issued, asks, vouched, revokes>> /\ Elsewhere

code_expires(k) ==
    /\ codes[k].state = "live"
    /\ codes' = [codes EXCEPT ![k].state = "expired"]
    /\ UNCHANGED <<pairings, issued, asks, vouched, revokes>> /\ Elsewhere

(* A fresh token each time; the unique index refuses a second active row. *)
pair_issue_token(p, t) ==
    /\ ~pairings[p].active /\ t \notin issued
    /\ pairings' = [pairings EXCEPT ![p] = Paired(t)]
    /\ issued' = issued \cup {t}
    /\ vouched' = witness(pump, pairings')
    /\ UNCHANGED <<codes, asks, revokes>> /\ Elsewhere

revoke_pairing(p) ==
    /\ pairings[p].active /\ revokes < MaxRevokes
    /\ pairings' = [pairings EXCEPT ![p].active = FALSE]
    /\ revokes' = revokes + 1
    /\ UNCHANGED <<issued, codes, asks, vouched>> /\ Elsewhere

ask_raised(a) ==
    /\ asks[a].state = "none"
    /\ asks' = [asks EXCEPT ![a].state = "pending"]
    /\ UNCHANGED <<pairings, issued, codes, vouched, revokes>> /\ Elsewhere

(* Resolved on the command line, cancelled with its task, or past its deadline. *)
ask_retired(a) ==
    /\ asks[a].state = "pending"
    /\ asks' = [asks EXCEPT ![a].state = "retired"]
    /\ UNCHANGED <<pairings, issued, codes, vouched, revokes>> /\ Elsewhere

handler(c) ==
    \/ authorized(c) \/ try_pair_gate(c) \/ try_pair(c) \/ resolve_with_nonce(c)
    \/ containment_refusal(c) \/ enqueue(c) \/ audit(c) \/ send_or_record(c)

Next ==
    \/ \E c \in Channels : recv(c) \/ handler(c) \/ stop(c)
    \/ \E k \in Codes : pair_issue(k) \/ code_expires(k)
    \/ \E p \in Peers : revoke_pairing(p)
    \/ \E p \in Tokened : \E t \in Secrets : pair_issue_token(p, t)
    \/ \E a \in Asks : ask_raised(a) \/ ask_retired(a)

Spec == Init /\ [][Next]_vars

-----------------------------------------------------------------------------
(* Properties *)

\* The type of the state.
TypeOK ==
    /\ unread \subseteq Messages /\ tasks \subseteq Messages /\ vouched \subseteq Messages
    /\ pump \in [Channels -> [at : Places \cup {"idle"}, msg : Messages \cup {Nothing},
                              row : Rows \cup {Nothing}, ack : BOOLEAN]]
    /\ pairings \in [Peers -> [active : BOOLEAN, token : Secrets \cup {Nothing}]]
    /\ issued \subseteq Secrets
    /\ codes \in [Codes -> [state : {"none", "live", "expired", "consumed"},
                            bound : SUBSET Peers]]
    /\ asks \in [Asks -> [state : {"none", "pending", "resolved", "retired"},
                          by : Messages \cup {Nothing}]]
    /\ said \in [Messages -> SUBSET (Rows \cup {"line"})]
    /\ faults \in 0 .. MaxFaults /\ revokes \in 0 .. MaxRevokes

\* A message becomes a task, or answers an ask, only if its sender held an
\* active pairing (and, on a transport that cannot vouch for it, that very
\* pairing's token) at some moment while the message was in hand: a
\* revocation can be outrun by the one message already past its lookup and by
\* no other (auth.rs:148, bus_inbound.rs:107).
AdmittedWhilePaired ==
    /\ tasks \subseteq vouched
    /\ \A a \in Asks : asks[a].by \in vouched \cup {Nothing}

\* No task holds a token its own sender could still answer with: a body that
\* mentions a verb is enqueued only after each of its tokens is dead, and a
\* dead token never comes back (bus_inbound.rs:345, asks.rs:531).
TokensContained ==
    \A m \in tasks : looks_like_ask_command(m) =>
        \A a \in m.tokens : ~(asks[a].state = "pending" /\ Owner[a] = m.peer)

\* The state has its types, and a pairing code binds one peer, however many
\* present it while another code keeps the gate open, and is spent exactly when
\* it has bound one, whichever stop or lost acknowledgement got in between
\* (pairing.rs:45, pairings.rs:266).
CodesBindOnce ==
    /\ TypeOK
    /\ \A k \in Codes :
        /\ Cardinality(codes[k].bound) <= 1
        /\ codes[k].state = "consumed" <=> codes[k].bound # {}

\* Every message a pump has taken and let go of has left a row or a line, a stop
\* in the middle included, and its rows tell what happened: a `received' has its
\* task, a `paired' its bound code, an `ask.resolved' the ask this very message
\* resolved, and a message with a refusal's row is no task (bus_guards.rs:94,
\* bus_inbound.rs:173, 272).
RowsTellTheTruth ==
    \A m \in Messages :
        /\ m \in unread \/ m \in InHand(pump) \/ said[m] # {}
        /\ "received" \in said[m] => m \in tasks
        /\ "paired" \in said[m] => m.peer \in codes[m.code].bound
        /\ "ask_resolved" \in said[m] => \E a \in m.tokens : asks[a].by = m /\ Owner[a] = m.peer
        /\ said[m] \cap (Rows \ {"received", "enqueue_failed"}) # {} => m \notin tasks
=============================================================================
