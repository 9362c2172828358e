--------------------------- MODULE PolledInbound ---------------------------
(***************************************************************************)
(* The inbound half of a polled channel's driver:                          *)
(* core/src/channel/polled_driver.rs and its ack, undecodable,             *)
(* inbound_drop, inbound_rx and worker_drain modules, over a worker kept   *)
(* by worker_lifecycle/persistent.rs.                                      *)
(*                                                                         *)
(* One thread polls the worker, hands each event to the bus through a      *)
(* bounded buffer and, on a channel with an ack method (e-mail), acks it,  *)
(* which moves the one monotonic cursor the mail store keeps.  A channel   *)
(* without one (Matrix) does not redeliver: its worker gives a message     *)
(* away when it is polled.  The bus may stop at any time, which closes the *)
(* buffer; whatever is on its way then must be redelivered or counted.     *)
(*                                                                         *)
(* Messages are numbered as they arrive.  The replies the same thread      *)
(* sends are ReplyQueues; here a flush only finds the worker up or down.   *)
(***************************************************************************)
EXTENDS Integers, FiniteSets, Sequences

CONSTANTS
  MaxMessages,  \* messages a behaviour may bring
  BufferCap,    \* INBOUND_BUFFER (256 in the code)
  MaxFaults     \* refusals, deaths and unreadable or unfetchable messages

ASSUME PolledAssumption ==
  MaxMessages \in Nat /\ BufferCap \in Nat \ {0} /\ MaxFaults \in Nat

Ids == 1..MaxMessages

(* handed: the buffer accepted it.  read: the bus read it.  told: a drop or *)
(* undecodable report covers it.  died: a worker took it along when it died *)
(* or was replaced.  dismissed: the worker skipped it for good, in a batch  *)
(* that decoded.  recorded: that skip has its row.  omitted: a transient    *)
(* fetch failure left it out of a batch.                                    *)
Fates == {"handed", "read", "told", "died", "dismissed", "recorded", "omitted"}

VARIABLES
  acks,     \* the spec names an ack method; else it names a drain method
  arrived,  \* messages 1..arrived have arrived
  cursor,   \* the mail store's cursor (ack channel)
  held,     \* what the worker received and has not been polled for (no ack)
  worker,   \* the supervisor's worker: "up", or "down" until it is respawned
  pc,       \* where the driver's thread is
  holding,  \* a poll, ack or undecodable run is waiting out its backoff
  down,     \* OutageLog: the last call found the worker down
  batch,    \* the events of the polled batch still to hand over
  skips,    \* its skipped ids still to ack
  acking,   \* no ack of the batch has been refused
  buffer,   \* the inbound buffer
  bus,      \* its receiver: "open", "closed", "drained", "gone"
  fate,     \* what became of messages; a message may have several fates
  unpaced,  \* messages polled since a backoff, a slice or a respawn was last waited for
  uncounted,\* the driver said that the worker may still hold some, uncounted
  faults

source   == <<arrived, cursor, held>>
thread   == <<holding, down, batch, skips, acking>>
ledger   == <<fate, unpaced, uncounted>>
vars == <<acks, source, worker, pc, thread, buffer, bus, ledger, faults>>

Mark(f, S) == fate' = [fate EXCEPT ![f] = @ \cup S]
Fault == faults < MaxFaults /\ faults' = faults + 1
Least(S) == CHOOSE x \in S : \A y \in S : x <= y
Further(c, m) == IF m > c THEN m ELSE c

PCs == {"top", "poll", "slice", "hand", "wait", "slot", "woken", "ack", "skip",
        "exit", "ended"}

-----------------------------------------------------------------------------
(* The upstream and the worker. *)

\* A peer's message arrives: in the mail store, or in the worker's queue.
\* matrix.drain stops the sync before it counts; a dead worker syncs nothing.
arrive ==
  /\ arrived < MaxMessages
  /\ ~acks => worker = "up" /\ pc # "ended"
  /\ arrived' = arrived + 1
  /\ held' = IF acks THEN held ELSE held \cup {arrived + 1}
  /\ UNCHANGED <<acks, cursor, worker, pc, thread, buffer, bus, ledger, faults>>

\* The worker dies, in a call or between two; a dead sidecar retires it too.
worker_dies ==
  /\ worker = "up" /\ Fault
  /\ worker' = "down" /\ held' = {} /\ Mark("died", held)
  /\ UNCHANGED <<acks, arrived, cursor, pc, thread, buffer, bus, unpaced, uncounted>>

\* The supervisor's respawn loop, its backoff slept out.
respawn ==
  /\ worker = "down" /\ pc # "ended"
  /\ worker' = "up" /\ unpaced' = {}
  /\ UNCHANGED <<fate, acks, source, pc, thread, buffer, bus, uncounted, faults>>

-----------------------------------------------------------------------------
(* The bus's end of the buffer. *)

recv ==
  /\ bus = "open" /\ buffer # <<>>
  /\ Mark("read", {Head(buffer)}) /\ buffer' = Tail(buffer)
  /\ UNCHANGED <<acks, source, worker, pc, thread, bus, unpaced, uncounted, faults>>

\* The stopping pump drops its InboundReceiver, which closes the buffer first.
close ==
  /\ bus = "open" /\ bus' = "closed"
  /\ UNCHANGED <<acks, source, worker, pc, thread, buffer, ledger, faults>>

SlotHeld == pc \in {"slot", "woken"}
Unread == {buffer[i] : i \in 1..Len(buffer)}

\* Drained::lost: what was in the buffer, and the message of a slot that was
\* still held when the spins ran out.
lost == Unread \cup (IF SlotHeld THEN {Least(batch)} ELSE {})

\* drain_unread and the report of its count.  With a slot held this is the
\* case where the spins ran out; the other case is this action later.
drain_unread ==
  /\ bus = "closed" /\ bus' = "drained"
  /\ Mark("told", lost) /\ buffer' = <<>>
  /\ UNCHANGED <<acks, source, worker, pc, thread, unpaced, uncounted, faults>>

\* The channel's other field goes: the outbound sender disconnects.
drop_outbound ==
  /\ bus = "drained" /\ bus' = "gone"
  /\ UNCHANGED <<acks, source, worker, pc, thread, buffer, ledger, faults>>

-----------------------------------------------------------------------------
(* The driver's loop. *)

\* Top of the loop: try_recv finds the outbound sender gone; or the flush
\* sends nothing, gets an answer, or finds the worker down.
flush ==
  /\ pc = "top"
  /\ \/ bus = "gone" /\ pc' = "exit" /\ UNCHANGED down
     \/ bus # "gone" /\ pc' = "poll" /\ UNCHANGED down
     \/ bus # "gone" /\ worker = "up" /\ pc' = "poll" /\ down /\ down' = FALSE
     \/ bus # "gone" /\ worker = "down" /\ pc' = "slice" /\ down' = TRUE
  /\ UNCHANGED <<acks, source, worker, holding, batch, skips, acking, buffer, bus, ledger, faults>>

\* The poll is held by a run's backoff, or finds the worker down.
poll_not_made ==
  /\ pc = "poll" /\ pc' = "slice"
  /\ \/ holding /\ UNCHANGED down
     \/ ~holding /\ worker = "down" /\ down' = TRUE
  /\ UNCHANGED <<acks, source, worker, holding, batch, skips, acking, buffer, bus, ledger, faults>>

\* A live worker refuses the poll.  A refused credential replaces the worker
\* when a fresh one starts, and what it held goes with it.
poll_refused ==
  /\ pc = "poll" /\ ~holding /\ worker = "up" /\ Fault
  /\ pc' = "slice" /\ holding' = TRUE /\ down' = FALSE
  /\ \/ UNCHANGED <<held, fate>>
     \/ held # {} /\ held' = {} /\ Mark("died", held)
  /\ UNCHANGED <<acks, arrived, cursor, worker, batch, skips, acking, buffer, bus, unpaced, uncounted>>

\* A backoff passes.
elapse ==
  /\ holding /\ pc # "ended"
  /\ holding' = FALSE /\ unpaced' = {}
  /\ UNCHANGED <<fate, acks, source, worker, pc, down, batch, skips, acking, buffer, bus, uncounted, faults>>

\* A message the upstream still has for this channel.
Redeliverable(m) == acks /\ m > cursor
\* What a poll finds: all that is past the cursor, or all the worker holds.
Found == IF acks THEN (cursor + 1)..arrived ELSE held

\* whole_batch_on_ack_channel: does an undecodable event spoil the batch?
decoded_events_only(bad) == FALSE
whole_batch_on_ack_channel(bad) == acks /\ bad # {}

\* on_bus_closed_during_poll: ev decoded, the rest of the batch did not.
on_bus_closed_during_poll(all) == IF acks THEN {} ELSE all

\* on_undecodable_batch: the batch is redelivered, or recorded as lost.
on_undecodable_batch(all) == IF acks THEN {} ELSE all

\* What a poll's answer does.  sk are the ids the worker gave up for good, tr
\* those whose fetch failed for now (both the e-mail worker's), bad the events
\* that do not decode, whole that the result itself does not.
poll_answered(sk, tr, bad, whole) ==
  LET ev == Found \ (sk \cup tr) IN
  /\ pc = "poll" /\ ~holding /\ worker = "up"
  /\ ~acks => sk = {} /\ tr = {}
  /\ faults' = faults + (IF tr # {} \/ bad # {} \/ whole THEN 1 ELSE 0) /\ faults' <= MaxFaults
  /\ held' = IF acks THEN held ELSE {}
  /\ IF bus # "open"
     THEN /\ Mark("told", on_bus_closed_during_poll(ev)) /\ pc' = "exit"
          /\ UNCHANGED thread
     ELSE /\ down' = FALSE
          /\ IF whole \/ whole_batch_on_ack_channel(bad)
             THEN /\ Mark("told", on_undecodable_batch(ev))
                  /\ holding' = TRUE /\ pc' = "top"
                  /\ UNCHANGED <<batch, skips, acking>>
             ELSE /\ fate' = [fate EXCEPT !.told = @ \cup bad, !.omitted = @ \cup tr,
                                         !.dismissed = @ \cup sk]
                  /\ holding' = (bad # {})
                  /\ batch' = ev \ bad /\ skips' = sk /\ acking' = TRUE
                  /\ pc' = IF ev \ bad # {} THEN "hand" ELSE IF sk # {} THEN "skip" ELSE "top"
  /\ unpaced' = unpaced \cup ev
  /\ UNCHANGED <<acks, arrived, cursor, worker, buffer, bus, uncounted>>

poll ==
  \E sk \in SUBSET Found : \E tr \in SUBSET (Found \ sk) :
    \E bad \in SUBSET (Found \ (sk \cup tr)) : \E whole \in BOOLEAN :
      poll_answered(sk, tr, bad, whole)

\* No poll completed: look whether the bus closed, and sleep a slice.
slice ==
  /\ pc = "slice"
  /\ IF bus # "open" THEN pc' = "exit" /\ UNCHANGED unpaced
     ELSE pc' = "top" /\ unpaced' = {}
  /\ UNCHANGED <<fate, acks, source, worker, thread, buffer, bus, uncounted, faults>>

-----------------------------------------------------------------------------
(* Handing a batch to the bus, and acking it. *)

\* on_bus_closed_mid_batch: the refused message and the rest of the batch.
unsent_rest == batch \ {Least(batch)}
unsent == batch
on_bus_closed_mid_batch == IF acks THEN {} ELSE unsent

\* blocking_send is refused: the buffer is closed.
refused_unless_waiting ==
  /\ pc \in {"hand", "woken"} /\ bus # "open"
  /\ pc' = "exit" /\ Mark("told", on_bus_closed_mid_batch)
  /\ UNCHANGED <<acks, source, worker, thread, buffer, bus, unpaced, uncounted, faults>>
refused ==
  /\ pc \in {"hand", "wait", "woken"} /\ bus # "open"
  /\ pc' = "exit" /\ Mark("told", on_bus_closed_mid_batch)
  /\ UNCHANGED <<acks, source, worker, thread, buffer, bus, unpaced, uncounted, faults>>

\* blocking_send takes a slot, waits for one, or is woken with one.
take_slot ==
  /\ bus = "open"
  /\ \/ pc = "hand" /\ Len(buffer) < BufferCap /\ pc' = "slot"
     \/ pc = "hand" /\ Len(buffer) = BufferCap /\ pc' = "wait"
     \/ pc = "wait" /\ Len(buffer) < BufferCap /\ pc' = "woken"
  /\ UNCHANGED <<acks, source, worker, thread, buffer, bus, ledger, faults>>

\* Where the thread goes after a message of the batch.
Next_event(rest, ack) == IF rest # {} THEN "hand" ELSE IF ack /\ skips # {} THEN "skip" ELSE "top"

\* The message is in the buffer.  One with a slot from before the close lands
\* all the same, in a buffer that may already be drained.
send_lands ==
  LET m == Least(batch) IN
  /\ pc = "slot" \/ (pc = "woken" /\ bus = "open")
  /\ buffer' = IF bus \in {"open", "closed"} THEN Append(buffer, m) ELSE buffer
  /\ Mark("handed", {m})
  /\ IF acks /\ acking
     THEN pc' = "ack" /\ UNCHANGED batch
     ELSE /\ batch' = batch \ {m}
          /\ pc' = Next_event(batch \ {m}, acks /\ acking)
  /\ UNCHANGED <<acks, source, worker, holding, down, skips, acking, bus, unpaced, uncounted, faults>>

\* ack of m: the cursor moves to it if it is ahead (localmail's GREATEST).
\* A refusal ends the batch's acks and holds the next poll; a worker found
\* down does neither, and its ack may or may not have reached the store.
ack_unpaced(m) ==
  \/ worker = "up" /\ cursor' = Further(cursor, m) /\ down' = FALSE /\ UNCHANGED <<acking, holding, faults>>
  \/ worker = "up" /\ Fault /\ acking' = FALSE /\ down' = FALSE /\ UNCHANGED <<cursor, holding>>
  \/ worker = "down" /\ cursor' \in {cursor, Further(cursor, m)} /\ UNCHANGED <<acking, holding, down, faults>>
ack(m) ==
  \/ worker = "up" /\ cursor' = Further(cursor, m) /\ down' = FALSE /\ UNCHANGED <<acking, holding, faults>>
  \/ worker = "up" /\ Fault /\ acking' = FALSE /\ holding' = TRUE /\ down' = FALSE /\ UNCHANGED cursor
  \/ worker = "down" /\ cursor' \in {cursor, Further(cursor, m)} /\ UNCHANGED <<acking, holding, down, faults>>

ack_event ==
  LET m == Least(batch) IN
  /\ pc = "ack" /\ ack(m)
  /\ batch' = batch \ {m} /\ pc' = Next_event(batch \ {m}, acking')
  /\ UNCHANGED <<acks, arrived, held, worker, skips, buffer, bus, ledger>>

\* ack_skipped, one id: its row first, then its ack; a refusal ends the list.
ack_skipped ==
  LET m == Least(skips) IN
  /\ pc = "skip" /\ ack(m)
  /\ Mark("recorded", {m}) /\ skips' = skips \ {m}
  /\ pc' = IF acking' /\ skips # {m} THEN "skip" ELSE "top"
  /\ UNCHANGED <<acks, arrived, held, worker, batch, buffer, bus, unpaced, uncounted>>

\* drain_worker_on_exit: not asked when it was down at the last call, no answer
\* when it is down now, else counted (or its answer does not decode).
drain_worker_on_exit ==
  /\ pc = "exit" /\ pc' = "ended"
  /\ \/ acks /\ UNCHANGED <<fate, uncounted, faults>>
     \/ ~acks /\ (down \/ worker = "down") /\ uncounted' = TRUE /\ UNCHANGED <<fate, faults>>
     \/ ~acks /\ ~down /\ worker = "up" /\ Mark("told", held) /\ UNCHANGED <<uncounted, faults>>
     \/ ~acks /\ ~down /\ worker = "up" /\ Fault /\ uncounted' = TRUE /\ UNCHANGED fate
  /\ UNCHANGED <<acks, source, worker, thread, buffer, bus, unpaced>>

-----------------------------------------------------------------------------
Init ==
  /\ acks \in BOOLEAN
  /\ arrived = 0 /\ cursor = 0 /\ held = {}
  /\ worker = "up" /\ pc = "top" /\ holding = FALSE /\ down = FALSE
  /\ batch = {} /\ skips = {} /\ acking = TRUE
  /\ buffer = <<>> /\ bus = "open"
  /\ fate = [f \in Fates |-> {}]
  /\ unpaced = {} /\ uncounted = FALSE /\ faults = 0

Driver == flush \/ poll_not_made \/ poll_refused \/ poll \/ slice \/ refused \/ take_slot
          \/ send_lands \/ ack_event \/ ack_skipped \/ drain_worker_on_exit
Stop == drain_unread \/ drop_outbound

Next == arrive \/ worker_dies \/ respawn \/ recv \/ close \/ Stop \/ elapse \/ Driver

Spec == Init /\ [][Next]_vars

\* The thread runs, a backoff passes, the supervisor respawns, a stopping pump
\* finishes its drop and a running one reads.  Nothing makes a bus stop.
FairSpec ==
  /\ Spec
  /\ WF_vars(Driver) /\ WF_vars(Stop) /\ WF_vars(elapse) /\ WF_vars(respawn) /\ WF_vars(recv)

-----------------------------------------------------------------------------
(* Properties. *)

\* The types, and the driver's bookkeeping: it is handing over only with a
\* batch in hand, acking skips only while no ack was refused, and the buffer
\* holds no more than its capacity, all of it accepted by blocking_send.
TypeOK ==
  /\ acks \in BOOLEAN /\ arrived \in 0..MaxMessages /\ cursor \in 0..arrived
  /\ held \subseteq 1..arrived /\ worker \in {"up", "down"} /\ pc \in PCs
  /\ holding \in BOOLEAN /\ down \in BOOLEAN /\ acking \in BOOLEAN /\ uncounted \in BOOLEAN
  /\ batch \subseteq 1..arrived /\ skips \subseteq 1..arrived
  /\ pc \in {"hand", "wait", "slot", "woken", "ack"} => batch # {}
  /\ pc = "skip" => skips # {} /\ acking
  /\ Len(buffer) <= BufferCap /\ Unread \subseteq fate.handed
  /\ bus \in {"open", "closed", "drained", "gone"}
  /\ fate \in [Fates -> SUBSET (1..arrived)] /\ unpaced \subseteq 1..arrived
  /\ faults \in 0..MaxFaults

\* The state has its types, and the one monotonic cursor passes only messages the bus accepted, and those
\* the worker itself left out of a batch that decoded: skipped for good, or not
\* fetched this time.  A batch that did not decode, or did not reach the bus,
\* is never acked away.
CursorPassesNothingUnseen ==
  /\ TypeOK
  /\ acks => 1..cursor \subseteq fate.handed \cup fate.dismissed \cup fate.omitted

\* What the e-mail worker says of a message that cannot become an event: it is
\* never silently dropped, core acks and audits it.  So between two batches a
\* skipped id the cursor has passed has its row.
SkippedIsRecorded ==
  acks /\ pc \in {"top", "ended"} =>
    fate.dismissed \cap 1..cursor \subseteq fate.recorded \cup fate.handed

\* Once the channel is stopped, each message that arrived was read, is
\* redelivered, was left out by the worker, or is covered by a report; what a
\* dead worker held, and what a worker nobody could ask still holds, is lost
\* uncounted.
NothingLostSilently ==
  pc = "ended" /\ bus = "gone" =>
    \A m \in 1..arrived :
      \/ m \in fate.read \cup fate.told \cup fate.died \cup fate.dismissed \cup fate.omitted
      \/ Redeliverable(m)
      \/ uncounted /\ m \in held

\* No event is polled twice without the driver having waited in between: a
\* refused ack and an undecodable batch hold the poll that redelivers them.
RedeliveryPaced == [][pc = "poll" /\ pc' = "hand" => batch' \cap unpaced = {}]_vars

\* A message that arrived gets to the bus or to a report, or the driver has
\* exited: no refused ack, dead worker or full buffer of a stopping bus leaves
\* the thread waiting for ever with a message in hand.
EveryMessageArrives ==
  \A m \in Ids : 
    m <= arrived ~> \/ m \in fate.handed \cup fate.recorded \cup fate.told \cup fate.died
                    \/ m \in fate.dismissed \cup fate.omitted /\ m <= cursor
                    \/ pc = "ended"
=============================================================================
