------------------------------ MODULE ReplyBus ------------------------------
(***************************************************************************)
(* The outbound half of the channel bus: core/src/channel/bus.rs,          *)
(* bus_outbound.rs, bus_deliver.rs, bus_guards.rs, outbox.rs and the reply *)
(* claim of db/src/tasks/reply_claim.rs.                                   *)
(*                                                                         *)
(* A bus serves one channel (the daemon spawns one bus per channel family) *)
(* with two pumps.  Its completed-task pump hears of a finished task by    *)
(* NOTIFY or finds it in a sweep of the backlog, routes it, and queues the *)
(* reply unclaimed.  Its channel pump takes an item, claims the reply with *)
(* one autocommit UPDATE, and sends it.  Raised asks enter the same queue  *)
(* from the scheduler.  A stop aborts both pumps wherever they are; a      *)
(* statement sent to the server may still run after its client is gone.    *)
(*                                                                         *)
(* done is the tasks row in a terminal state, which it never leaves (that  *)
(* is TaskStore's NothingReopens).                                         *)
(***************************************************************************)
EXTENDS Integers, Sequences, FiniteSets

CONSTANTS
  Tasks,      \* task ids, positive
  Asks,       \* the asks the scheduler raises
  Buses,      \* the buses, each named after the channel it serves
  Origin,     \* the payload's channel: a bus, "unserved", "no_route" or "cli"
  AskBus,     \* the channel an ask's task came from
  Nothing,    \* no task or ask
  QueueCap,   \* capacity of a channel's queue (32 in the code)
  SweepPage,  \* backlog ids per page (100 in the code)
  MaxFaults   \* the errors, stops and crashes a behaviour may have

Dispositions == {"routed", "unroutable"}

ASSUME ReplyAssumption ==
  /\ Tasks \subseteq Nat \ {0} /\ IsFiniteSet(Tasks) /\ IsFiniteSet(Asks)
  /\ Tasks \cap Asks = {} /\ Nothing \notin Tasks \cup Asks
  /\ Origin \in [Tasks -> Buses \cup {"unserved", "no_route", "cli"}]
  /\ Buses \cap {"unserved", "no_route", "cli"} = {}
  /\ AskBus \in [Asks -> Buses]
  /\ QueueCap \in Nat \ {0} /\ SweepPage \in Nat \ {0} /\ MaxFaults \in Nat

RouterPCs == {"ended", "select", "read", "load", "push", "claim", "reread"}
DeliverPCs == {"ended", "idle", "claim", "reread", "send"}
AskStates == {"none", "reserved", "queued", "sent", "failed", "refused", "said",
              "strayed", "vanished", "crashed"}

VARIABLES
  done,     \* the task is in a terminal state
  settled,  \* tasks.reply_disposition, "none" while reply_settled_at is null
  up,       \* the bus: "up" (its queue registered), "stopping" or "down"
  notes,    \* the NOTIFYs its listener holds
  rpc,      \* the completed-task pump
  rtask,    \* the task it is routing
  page,     \* the rest of the backlog page
  more,     \* that page was full
  after,    \* the sweep's cursor
  queue,    \* the channel's queue: replies (task ids) and asks
  dpc,      \* the channel pump
  ditem,    \* the item it is delivering
  stmt,     \* the claim of each pump: not sent, sent, won or lost
  orphans,  \* claims whose client is gone and which the server may still run
  asks,     \* what became of each ask
  sent,     \* how often a reply was handed to the transport
  said,     \* the tasks with an undelivered or unroutable row, or [audit-lost]
  behind,   \* the tasks whose failed claim outlived the re-read that denied it
  crashed,  \* the tasks a daemon crash caught in flight
  faults    \* the faults so far

db        == <<done, settled>>
router    == <<rpc, rtask, page, more, after>>
deliverer == <<dpc, ditem>>
claims    == <<stmt, orphans>>
history   == <<sent, said, behind, crashed>>
vars == <<db, up, notes, router, queue, deliverer, claims, asks, history, faults>>

SentCap == 2   \* a third send of one reply is not told apart from a second
Fault == faults < MaxFaults /\ faults' = faults + 1
NoFault == faults' = faults

Least(S) == CHOOSE x \in S : \A y \in S : x <= y
Greatest(S) == CHOOSE x \in S : \A y \in S : y <= x
AsksIn(q) == {a \in Asks : \E i \in 1..Len(q) : q[i] = a}

-----------------------------------------------------------------------------
(* The reply claim. *)

\* claim_reply's WHERE.
settleable_again(t) == done[t]
settleable(t) == done[t] /\ settled[t] = "none"

\* The task a pump's claim is for.
Claiming(b, d) == IF d = "routed" THEN ditem[b] ELSE rtask[b]

\* The server runs a claim and has its answer on the way.
claim_reply(b, d) ==
  LET t == Claiming(b, d) IN
  /\ stmt[<<b, d>>] = "sent"
  /\ IF settleable(t)
     THEN /\ settled' = [settled EXCEPT ![t] = d]
          /\ stmt' = [stmt EXCEPT ![<<b, d>>] = "won"]
     ELSE /\ stmt' = [stmt EXCEPT ![<<b, d>>] = "lost"]
          /\ UNCHANGED settled
  /\ UNCHANGED <<done, up, notes, router, queue, deliverer, orphans, asks, history, faults>>

\* The server runs a claim nobody waits for any more.
claim_reply_orphaned(t, d) ==
  /\ <<t, d>> \in orphans
  /\ settled' = IF settleable(t) THEN [settled EXCEPT ![t] = d] ELSE settled
  /\ orphans' = orphans \ {<<t, d>>}
  /\ UNCHANGED <<done, up, notes, router, queue, deliverer, stmt, asks, history, faults>>

\* The claims among the pumps P that are left with the server when they go.
Abandoned(P) == {<<Claiming(p[1], p[2]), p[2]>> : p \in {p \in P : stmt[p] = "sent"}}

-----------------------------------------------------------------------------
(* The completed-task pump. *)

\* A task finishes; the trigger's NOTIFY reaches every listener.
finish(t) ==
  /\ ~done[t]
  /\ done' = [done EXCEPT ![t] = TRUE]
  /\ notes' = [b \in Buses |-> IF up[b] # "down" THEN Append(notes[b], t) ELSE notes[b]]
  /\ UNCHANGED <<settled, up, router, queue, deliverer, claims, asks, history, faults>>

\* PgListener reconnects: what was sent meanwhile is gone.
reconnect(b) ==
  /\ notes[b] # <<>> /\ Fault
  /\ notes' = [notes EXCEPT ![b] = Tail(@)]
  /\ UNCHANGED <<db, up, router, queue, deliverer, claims, asks, history>>

next_completed(b) ==
  /\ rpc[b] = "select" /\ notes[b] # <<>>
  /\ notes' = [notes EXCEPT ![b] = Tail(@)]
  /\ rpc' = [rpc EXCEPT ![b] = "load"]
  /\ rtask' = [rtask EXCEPT ![b] = Head(notes[b])]
  /\ UNCHANGED <<db, up, page, more, after, queue, deliverer, claims, asks, history, faults>>

\* recv gives up: the pump breaks its loop.
listener_error(b) ==
  /\ rpc[b] = "select" /\ Fault
  /\ rpc' = [rpc EXCEPT ![b] = "ended"]
  /\ UNCHANGED <<db, up, notes, rtask, page, more, after, queue, deliverer, claims, asks, history>>

\* The tick wins the select!; a NOTIFY being received may be lost with it.
sweep_tick(b) ==
  /\ rpc[b] = "select"
  /\ rpc' = [rpc EXCEPT ![b] = "read"]
  /\ after' = [after EXCEPT ![b] = 0]
  /\ \/ UNCHANGED notes
     \/ notes[b] # <<>> /\ notes' = [notes EXCEPT ![b] = Tail(@)]
  /\ UNCHANGED <<db, up, rtask, page, more, queue, deliverer, claims, asks, history, faults>>

\* unsettled_channel_replies: the ids above the cursor, oldest first; and a
\* read that forgets the cursor.
Backlog_from_start(n) == {t \in Tasks : settleable(t) /\ Origin[t] # "cli"}
Backlog(n) == {t \in Tasks : settleable(t) /\ Origin[t] # "cli" /\ t > n}
Page(n) ==
  {t \in Backlog(n) : Cardinality({u \in Backlog(n) : u < t}) < SweepPage}

\* One page of the sweep.  A full page that does not move the cursor is its last.
unsettled(b) ==
  LET P == Page(after[b]) IN
  /\ rpc[b] = "read"
  /\ IF P = {}
     THEN /\ rpc' = [rpc EXCEPT ![b] = "select"]
          /\ more' = [more EXCEPT ![b] = FALSE]
          /\ UNCHANGED <<rtask, page, after>>
     ELSE /\ rpc' = [rpc EXCEPT ![b] = "load"]
          /\ rtask' = [rtask EXCEPT ![b] = Least(P)]
          /\ page' = [page EXCEPT ![b] = P \ {Least(P)}]
          /\ more' = [more EXCEPT ![b] = Cardinality(P) = SweepPage /\ Greatest(P) > after[b]]
          /\ after' = [after EXCEPT ![b] = Greatest(P)]
  /\ UNCHANGED <<db, up, notes, queue, deliverer, claims, asks, history, faults>>

unsettled_error(b) ==
  /\ rpc[b] = "read" /\ Fault
  /\ rpc' = [rpc EXCEPT ![b] = "select"]
  /\ more' = [more EXCEPT ![b] = FALSE]
  /\ UNCHANGED <<db, up, notes, rtask, page, after, queue, deliverer, claims, asks, history>>

\* route_one has returned: the next id of the page, the next page, or the select!.
routed(b) ==
  /\ after' = after
  /\ IF page[b] # {}
     THEN /\ rpc' = [rpc EXCEPT ![b] = "load"]
          /\ rtask' = [rtask EXCEPT ![b] = Least(page[b])]
          /\ page' = [page EXCEPT ![b] = @ \ {Least(@)}]
          /\ UNCHANGED more
     ELSE /\ rpc' = [rpc EXCEPT ![b] = IF more[b] THEN "read" ELSE "select"]
          /\ rtask' = [rtask EXCEPT ![b] = Nothing]
          /\ more' = [more EXCEPT ![b] = FALSE]
          /\ UNCHANGED page

\* load and the pure route: a reply of this bus goes on to its queue, one with
\* no route to settle_unroutable, the others are not this bus's.
route_one(b) ==
  LET o == Origin[rtask[b]] IN
  /\ rpc[b] = "load"
  /\ \/ /\ o = b
        /\ rpc' = [rpc EXCEPT ![b] = "push"]
        /\ UNCHANGED <<rtask, page, more, after, stmt>>
     \/ /\ o = "no_route"
        /\ rpc' = [rpc EXCEPT ![b] = "claim"]
        /\ stmt' = [stmt EXCEPT ![<<b, "unroutable">>] = "sent"]
        /\ UNCHANGED <<rtask, page, more, after>>
     \/ /\ o \notin {b, "no_route"}
        /\ routed(b)
        /\ UNCHANGED stmt
  /\ UNCHANGED <<db, up, notes, queue, deliverer, orphans, asks, history, faults>>

load_error(b) ==
  /\ rpc[b] = "load" /\ Fault
  /\ routed(b)
  /\ UNCHANGED <<db, up, notes, queue, deliverer, claims, asks, history>>

\* The slots tokio's mpsc has handed out and not yet filled, and whether there is
\* one left; and a queue that counts only the filled ones.
Reserved(b) == {a \in Asks : asks[a] = "reserved" /\ AskBus[a] = b}
Room(b) == Len(queue[b]) + Cardinality(Reserved(b)) < QueueCap

\* tx.send: waits for room; a closed queue leaves the reply for catch-up.
push(b) ==
  /\ rpc[b] = "push"
  /\ \/ /\ dpc[b] # "ended" /\ Room(b)
        /\ queue' = [queue EXCEPT ![b] = Append(@, rtask[b])]
     \/ /\ dpc[b] = "ended"
        /\ UNCHANGED queue
  /\ routed(b)
  /\ UNCHANGED <<db, up, notes, deliverer, claims, asks, history, faults>>

\* settle_unroutable: the claim's winner writes the row.
settle_unroutable(b) ==
  /\ rpc[b] = "claim" /\ stmt[<<b, "unroutable">>] \in {"won", "lost"}
  /\ said' = IF stmt[<<b, "unroutable">>] = "won" THEN said \cup {rtask[b]} ELSE said
  /\ stmt' = [stmt EXCEPT ![<<b, "unroutable">>] = "none"]
  /\ routed(b)
  /\ UNCHANGED <<db, up, notes, queue, deliverer, orphans, asks, sent, behind, crashed, faults>>

\* The claim came back as an error, whether or not the server ran it.
settle_unroutable_error(b) ==
  /\ rpc[b] = "claim" /\ Fault
  /\ rpc' = [rpc EXCEPT ![b] = "reread"]
  /\ orphans' = orphans \cup Abandoned({<<b, "unroutable">>})
  /\ stmt' = [stmt EXCEPT ![<<b, "unroutable">>] = "none"]
  /\ UNCHANGED <<db, up, notes, rtask, page, more, after, queue, deliverer, asks, history>>

\* claim_outcome's re-read: settled, and said as uncertain; not settled, and
\* left for catch-up, perhaps too early; or unknown, which is only logged.
settle_unroutable_reread(b) ==
  LET t == rtask[b] IN
  /\ rpc[b] = "reread"
  /\ \/ /\ NoFault
        /\ said' = IF settled[t] # "none" THEN said \cup {t} ELSE said
        /\ behind' = IF settled[t] = "none" /\ <<t, "unroutable">> \in orphans
                     THEN behind \cup {t} ELSE behind
     \/ /\ Fault
        /\ behind' = behind \cup {t}
        /\ UNCHANGED said
  /\ routed(b)
  /\ UNCHANGED <<db, up, notes, queue, deliverer, claims, asks, sent, crashed>>

-----------------------------------------------------------------------------
(* The channel pump. *)

\* The pump takes an item: an ask goes to the transport, a reply to its claim.
deliver(b) ==
  /\ dpc[b] = "idle" /\ queue[b] # <<>>
  /\ queue' = [queue EXCEPT ![b] = Tail(@)]
  /\ ditem' = [ditem EXCEPT ![b] = Head(queue[b])]
  /\ IF Head(queue[b]) \in Tasks
     THEN /\ dpc' = [dpc EXCEPT ![b] = "claim"]
          /\ stmt' = [stmt EXCEPT ![<<b, "routed">>] = "sent"]
     ELSE /\ dpc' = [dpc EXCEPT ![b] = "send"]
          /\ UNCHANGED stmt
  /\ UNCHANGED <<db, up, notes, router, orphans, asks, history, faults>>

\* The item is dealt with.
delivered(b) ==
  /\ dpc' = [dpc EXCEPT ![b] = "idle"]
  /\ ditem' = [ditem EXCEPT ![b] = Nothing]

\* deliver_reply's claim has an answer: won (and channel.replied written), or
\* another copy's.
deliver_reply(b) ==
  /\ dpc[b] = "claim"
  /\ \/ /\ stmt[<<b, "routed">>] = "won"
        /\ dpc' = [dpc EXCEPT ![b] = "send"]
        /\ UNCHANGED ditem
     \/ /\ stmt[<<b, "routed">>] = "lost"
        /\ delivered(b)
  /\ stmt' = [stmt EXCEPT ![<<b, "routed">>] = "none"]
  /\ UNCHANGED <<db, up, notes, router, queue, orphans, asks, history, faults>>

deliver_reply_error(b) ==
  /\ dpc[b] = "claim" /\ Fault
  /\ dpc' = [dpc EXCEPT ![b] = "reread"]
  /\ orphans' = orphans \cup Abandoned({<<b, "routed">>})
  /\ stmt' = [stmt EXCEPT ![<<b, "routed">>] = "none"]
  /\ UNCHANGED <<db, up, notes, router, queue, ditem, asks, history>>

\* claim_outcome: settled, and recorded as claim_unknown instead of sent; not
\* settled, and left for catch-up, perhaps too early; unknown, and said.  Before
\* it, a form that takes a settled reply for another copy's.
claim_outcome_quiet(b) ==
  LET t == ditem[b] IN
  /\ dpc[b] = "reread" /\ NoFault
  /\ behind' = IF settled[t] = "none" /\ <<t, "routed">> \in orphans
               THEN behind \cup {t} ELSE behind
  /\ delivered(b)
  /\ UNCHANGED <<db, up, notes, router, queue, claims, asks, sent, said, crashed>>
claim_outcome(b) ==
  LET t == ditem[b] IN
  /\ dpc[b] = "reread"
  /\ \/ /\ NoFault
        /\ said' = IF settled[t] # "none" THEN said \cup {t} ELSE said
        /\ behind' = IF settled[t] = "none" /\ <<t, "routed">> \in orphans
                     THEN behind \cup {t} ELSE behind
     \/ /\ Fault
        /\ said' = said \cup {t}
        /\ UNCHANGED behind
  /\ delivered(b)
  /\ UNCHANGED <<db, up, notes, router, queue, claims, asks, sent, crashed>>

Sends(S) == [t \in Tasks |-> IF t \in S /\ sent[t] < SentCap THEN sent[t] + 1 ELSE sent[t]]

\* The transport takes the message, or refuses it and the row is written.
send_or_record(b) ==
  LET m == ditem[b] IN
  /\ dpc[b] = "send"
  /\ \/ /\ NoFault
        /\ sent' = Sends({m})
        /\ asks' = [a \in Asks |-> IF a = m THEN "sent" ELSE asks[a]]
        /\ UNCHANGED said
     \/ /\ Fault
        /\ said' = said \cup ({m} \cap Tasks)
        /\ asks' = [a \in Asks |-> IF a = m THEN "refused" ELSE asks[a]]
        /\ UNCHANGED sent
  /\ delivered(b)
  /\ UNCHANGED <<db, up, notes, router, queue, claims, behind, crashed>>

\* The transport closes; PumpQueue's drop says the asks that were queued.
recv_closed(b) ==
  /\ dpc[b] = "idle" /\ Fault
  /\ dpc' = [dpc EXCEPT ![b] = "ended"]
  /\ asks' = [a \in Asks |-> IF a \in AsksIn(queue[b]) THEN "said" ELSE asks[a]]
  /\ queue' = [queue EXCEPT ![b] = <<>>]
  /\ UNCHANGED <<db, up, notes, router, ditem, claims, history>>

-----------------------------------------------------------------------------
(* Raised asks. *)

\* try_deliver under the registry's read lock: try_send takes a slot ...
try_deliver(a) ==
  LET b == AskBus[a] IN
  /\ asks[a] = "none"
  /\ asks' = [asks EXCEPT ![a] = IF up[b] = "up" /\ dpc[b] # "ended" /\ Room(b)
                                 THEN "reserved" ELSE "failed"]
  /\ UNCHANGED <<db, up, notes, router, queue, deliverer, claims, history, faults>>

\* ... and the item lands in it; if the pump has ended in between, with the
\* receiver that nobody drains any more.
try_send_lands(a) ==
  LET b == AskBus[a] IN
  /\ asks[a] = "reserved"
  /\ IF dpc[b] # "ended"
     THEN /\ queue' = [queue EXCEPT ![b] = Append(@, a)]
          /\ asks' = [asks EXCEPT ![a] = "queued"]
     ELSE /\ asks' = [asks EXCEPT ![a] = IF up[b] = "up" THEN "strayed" ELSE "vanished"]
          /\ UNCHANGED queue
  /\ UNCHANGED <<db, up, notes, router, deliverer, claims, history, faults>>

-----------------------------------------------------------------------------
(* Start, stop and crash of a bus. *)

\* connect and spawn: LISTEN, a fresh queue, the start sweep.
spawn(b) ==
  /\ up[b] = "down"
  /\ up' = [up EXCEPT ![b] = "up"]
  /\ rpc' = [rpc EXCEPT ![b] = "read"]
  /\ dpc' = [dpc EXCEPT ![b] = "idle"]
  /\ UNCHANGED <<db, notes, rtask, page, more, after, queue, ditem, claims, asks, history, faults>>

\* deregister takes the registry's write lock: no try_deliver is under way.
deregister_free_unchecked(b) == TRUE
deregister_free(b) == Reserved(b) = {}

\* shutdown begins: on a pump's death, or on request.
shutdown(b) ==
  /\ up[b] = "up" /\ deregister_free(b)
  /\ IF dpc[b] = "ended" \/ rpc[b] = "ended" THEN NoFault ELSE Fault
  /\ up' = [up EXCEPT ![b] = "stopping"]
  /\ UNCHANGED <<db, notes, router, queue, deliverer, claims, asks, history>>

\* The tasks whose in-flight guards are armed.
guarded(b) ==
  {t \in Tasks : ditem[b] = t \/ (rpc[b] \in {"claim", "reread"} /\ rtask[b] = t)}

\* The pumps of the buses B are gone with all they held.  A message being sent
\* may have gone out, a claim may still run.
PumpsGo(B) ==
  /\ orphans' = orphans \cup Abandoned(B \X Dispositions)
  /\ stmt' = [p \in Buses \X Dispositions |-> IF p[1] \in B THEN "none" ELSE stmt[p]]
  /\ \E W \in SUBSET {b \in B : dpc[b] = "send"} : sent' = Sends({ditem[b] : b \in W})
  /\ up' = [b \in Buses |-> IF b \in B THEN "down" ELSE up[b]]
  /\ notes' = [b \in Buses |-> IF b \in B THEN <<>> ELSE notes[b]]
  /\ rpc' = [b \in Buses |-> IF b \in B THEN "ended" ELSE rpc[b]]
  /\ rtask' = [b \in Buses |-> IF b \in B THEN Nothing ELSE rtask[b]]
  /\ page' = [b \in Buses |-> IF b \in B THEN {} ELSE page[b]]
  /\ more' = [b \in Buses |-> IF b \in B THEN FALSE ELSE more[b]]
  /\ after' = [b \in Buses |-> IF b \in B THEN 0 ELSE after[b]]
  /\ queue' = [b \in Buses |-> IF b \in B THEN <<>> ELSE queue[b]]
  /\ dpc' = [b \in Buses |-> IF b \in B THEN "ended" ELSE dpc[b]]
  /\ ditem' = [b \in Buses |-> IF b \in B THEN Nothing ELSE ditem[b]]

\* The abort: dropped guards and the dropped queue say what they held.
abort_pumps(b) ==
  /\ up[b] = "stopping"
  /\ PumpsGo({b})
  /\ said' = said \cup guarded(b)
  /\ asks' = [a \in Asks |-> IF a \in AsksIn(queue[b]) \cup {ditem[b]} THEN "said" ELSE asks[a]]
  /\ UNCHANGED <<db, behind, crashed, faults>>

\* The daemon dies: nobody says anything.
daemon_crash ==
  /\ Fault
  /\ \E b \in Buses : up[b] # "down"
  /\ PumpsGo(Buses)
  /\ crashed' = crashed \cup UNION {guarded(b) : b \in Buses}
  /\ asks' = [a \in Asks |-> IF asks[a] \in {"reserved", "queued"} THEN "crashed" ELSE asks[a]]
  /\ UNCHANGED <<db, said, behind>>

-----------------------------------------------------------------------------
Init ==
  /\ done = [t \in Tasks |-> FALSE]
  /\ settled = [t \in Tasks |-> "none"]
  /\ up = [b \in Buses |-> "down"]
  /\ notes = [b \in Buses |-> <<>>]
  /\ rpc = [b \in Buses |-> "ended"] /\ rtask = [b \in Buses |-> Nothing]
  /\ page = [b \in Buses |-> {}] /\ more = [b \in Buses |-> FALSE]
  /\ after = [b \in Buses |-> 0]
  /\ queue = [b \in Buses |-> <<>>]
  /\ dpc = [b \in Buses |-> "ended"] /\ ditem = [b \in Buses |-> Nothing]
  /\ stmt = [p \in Buses \X Dispositions |-> "none"] /\ orphans = {}
  /\ asks = [a \in Asks |-> "none"]
  /\ sent = [t \in Tasks |-> 0] /\ said = {} /\ behind = {} /\ crashed = {}
  /\ faults = 0

RouterStep(b) ==
  next_completed(b) \/ unsettled(b) \/ route_one(b) \/ push(b) \/ settle_unroutable(b)
  \/ settle_unroutable_reread(b)
RouterFails(b) ==
  reconnect(b) \/ listener_error(b) \/ unsettled_error(b) \/ load_error(b)
  \/ settle_unroutable_error(b)
PumpStep(b) == deliver(b) \/ deliver_reply(b) \/ claim_outcome(b) \/ send_or_record(b)
PumpFails(b) == deliver_reply_error(b) \/ recv_closed(b)

Next ==
  \/ \E t \in Tasks : finish(t)
  \/ \E b \in Buses :
       \/ RouterStep(b) \/ sweep_tick(b) \/ RouterFails(b)
       \/ PumpStep(b) \/ PumpFails(b)
       \/ \E d \in Dispositions : claim_reply(b, d)
       \/ spawn(b) \/ shutdown(b) \/ abort_pumps(b)
  \/ \E t \in Tasks, d \in Dispositions : claim_reply_orphaned(t, d)
  \/ \E a \in Asks : try_deliver(a) \/ try_send_lands(a)
  \/ daemon_crash

Spec == Init /\ [][Next]_vars

\* The pumps are scheduled, the tick comes round, the server answers, the
\* supervisor stops a bus with a dead pump and brings it up again.
Fairness ==
  /\ \A b \in Buses :
       /\ WF_vars(RouterStep(b)) /\ WF_vars(sweep_tick(b)) /\ WF_vars(PumpStep(b))
       /\ WF_vars(\E d \in Dispositions : claim_reply(b, d))
       /\ WF_vars(spawn(b)) /\ WF_vars(abort_pumps(b))
       /\ WF_vars(shutdown(b) /\ (dpc[b] = "ended" \/ rpc[b] = "ended"))
  /\ \A a \in Asks : WF_vars(try_send_lands(a))

FairSpec == Spec /\ Fairness

-----------------------------------------------------------------------------
(* Properties. *)

\* Every variable keeps to its domain: the pumps of bus.rs at one of their
\* awaits, the queue within its capacity, the claim one of claim_reply's answers.
TypeOK ==
  /\ done \in [Tasks -> BOOLEAN]
  /\ settled \in [Tasks -> {"none"} \cup Dispositions]
  /\ up \in [Buses -> {"up", "stopping", "down"}]
  /\ \A b \in Buses : notes[b] \in Seq(Tasks) /\ Len(notes[b]) <= Cardinality(Tasks)
  /\ rpc \in [Buses -> RouterPCs]
  /\ rtask \in [Buses -> Tasks \cup {Nothing}]
  /\ page \in [Buses -> SUBSET Tasks] /\ more \in [Buses -> BOOLEAN]
  /\ after \in [Buses -> Nat]
  /\ \A b \in Buses : queue[b] \in Seq(Tasks \cup Asks) /\ Len(queue[b]) <= QueueCap
  /\ dpc \in [Buses -> DeliverPCs]
  /\ ditem \in [Buses -> Tasks \cup Asks \cup {Nothing}]
  /\ stmt \in [Buses \X Dispositions -> {"none", "sent", "won", "lost"}]
  /\ orphans \subseteq Tasks \X Dispositions
  /\ asks \in [Asks -> AskStates]
  /\ sent \in [Tasks -> 0..SentCap]
  /\ said \subseteq Tasks /\ behind \subseteq Tasks /\ crashed \subseteq Tasks
  /\ faults \in 0..MaxFaults

\* A reply is handed to its transport at most once, whatever is queued twice,
\* retried, restarted or still running at the server: the claim of bus_deliver.rs.
AtMostOnce == \A t \in Tasks : sent[t] <= 1

\* A settled reply was sent, or its loss is on record: a row, an [audit-lost]
\* line, a crash of the daemon, or a claim that committed behind its re-read.
\* A pump that holds it has yet to say so (bus_deliver.rs, bus_guards.rs).
LossIsSaid ==
  \A t \in Tasks :
    settled[t] # "none" /\ (\A b \in Buses : t \notin guarded(b))
    => sent[t] > 0 \/ t \in said \cup behind \cup crashed

\* The state has its types, and an ask that was queued is in its channel's queue
\* or in the pump's hands, once, until it is sent, refused or said; and a stop never takes one from under a
\* try_deliver, because shutdown deregisters the queue first (bus.rs, outbox.rs).
AsksAccounted ==
  /\ TypeOK
  /\ \A a \in Asks :
       /\ asks[a] # "vanished"
       /\ asks[a] = "queued" =>
            LET b == AskBus[a] IN
            Cardinality({i \in 1..Len(queue[b]) : queue[b][i] = a})
              + (IF ditem[b] = a THEN 1 ELSE 0) = 1

\* A finished channel task is settled in the end, by its own bus or, without a
\* route, by any: the start sweep and the periodic sweep of bus_outbound.rs find
\* what the NOTIFY missed, whatever the tasks of other channels in front of it.
EveryReplySettled ==
  \A t \in Tasks :
    Origin[t] \in Buses \cup {"no_route"} => (done[t] ~> settled[t] # "none")
=============================================================================
