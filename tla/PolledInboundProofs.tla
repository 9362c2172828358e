------------------------- MODULE PolledInboundProofs -------------------------
(* The cursor passes nothing unseen, a stopped channel has lost nothing         *)
(* silently and nothing is redelivered unpaced, for any number of messages and  *)
(* faults and any capacity of the inbound buffer.                               *)
EXTENDS PolledInbound, SequenceTheorems, WellFoundedInduction, TLAPS

(* The inductive invariant. *)

\* The thread has a batch in hand.
Handing == pc \in {"hand", "wait", "slot", "woken", "ack"}

\* A slot is a place in the buffer; a drained buffer stays empty.
Buffered ==
  /\ buffer \in Seq(Ids)
  /\ SlotHeld => Len(buffer) < BufferCap
  /\ bus \in {"drained", "gone"} => buffer = <<>>

\* A batch is handed over and acked in order, so below each of its messages
\* there are only others of it, messages the bus accepted and messages the
\* worker left out; the skipped ids are acked behind all of them.
InOrder ==
  /\ pc = "ack" => acks /\ acking /\ Least(batch) \in fate.handed
  /\ pc = "skip" => acks /\ batch = {}
  /\ skips \subseteq fate.dismissed
  /\ acks =>
       \A m \in batch \cup skips : \A j \in 1..m :
         j \in batch \cup fate.handed \cup fate.dismissed \cup fate.omitted

\* What the bus accepted it reads or reports, a message that lands in a drained
\* buffer included.
Reported ==
  /\ fate.handed \subseteq fate.read \cup fate.told \cup Unread
  /\ pc = "slot" /\ bus \in {"drained", "gone"} => Least(batch) \in fate.told

\* On a channel that does not redeliver every message is somewhere.
Somewhere ==
  ~acks =>
    /\ \A m \in 1..arrived : \/ m \in held \cup fate.handed \cup fate.told \cup fate.died
                             \/ Handing /\ m \in batch
    /\ pc = "ended" => uncounted \/ held \subseteq fate.told

\* What was polled since the last wait is behind the cursor or still to be
\* acked, unless the next poll is held or has to wait for a worker.
Paced ==
  /\ acks /\ ~holding /\ worker = "up" /\ pc \notin {"exit", "ended"} =>
       \A m \in unpaced : m <= cursor \/ (Handing /\ acking /\ m \in batch)
  /\ ~acks => held \cap unpaced = {}

PollInv == CursorPassesNothingUnseen /\ Buffered /\ InOrder /\ Reported /\ Somewhere /\ Paced

-----------------------------------------------------------------------------
(* Lemmas on the operators of the model. *)

\* The least message of a batch is one of it, and behind none of it.
LEMMA LeastIn ==
  ASSUME NEW S \in SUBSET Nat, S # {}
  PROVE  Least(S) \in S /\ \A y \in S : Least(S) <= y
<1> DEFINE R == OpToRel(<, Nat)
<1>1. \A x, y \in Nat : x < y => <<x, y>> \in R
  BY DEF OpToRel
<1>2. IsWellFoundedOn(R, Nat)
  BY NatLessThanWellFounded
<1> HIDE DEF R
<1>3. PICK x \in S : \A y \in S : ~(<<y, x>> \in R)
  BY <1>2, WFMin
<1>4. ASSUME NEW y \in S PROVE x <= y
  <2>1. x \in Nat /\ y \in Nat /\ ~(y < x)
    BY <1>1, <1>3
  <2>2. QED
    BY <2>1
<1>5. QED
  BY <1>3, <1>4 DEF Least

\* Fates accumulate: what Mark and a decoded batch do to each of them.
LEMMA Marked ==
  ASSUME fate \in [Fates -> SUBSET (1..arrived)],
         NEW f \in Fates, NEW S \in SUBSET (1..arrived), Mark(f, S)
  PROVE  /\ fate' \in [Fates -> SUBSET (1..arrived)]
         /\ fate'[f] = fate[f] \cup S
         /\ \A g \in Fates : fate[g] \subseteq fate'[g] /\ (g # f => fate'[g] = fate[g])
  BY DEF Mark

\* The buffer as the set of its messages.
LEMMA UnreadAppends ==
  ASSUME buffer \in Seq(Ids), NEW m \in Ids, buffer' = Append(buffer, m)
  PROVE  Unread' = Unread \cup {m} /\ buffer' \in Seq(Ids) /\ Len(buffer') = Len(buffer) + 1
<1>1. /\ buffer' \in Seq(Ids) /\ Len(buffer') = Len(buffer) + 1 /\ Len(buffer) \in Nat
      /\ buffer'[Len(buffer) + 1] = m /\ \A i \in 1..Len(buffer) : buffer'[i] = buffer[i]
  OBVIOUS
<1>2. \A i : i \in 1..Len(buffer') <=> i \in 1..Len(buffer) \/ i = Len(buffer) + 1
  BY <1>1
<1> QED BY <1>1, <1>2 DEF Unread

LEMMA UnreadTails ==
  ASSUME buffer \in Seq(Ids), buffer # <<>>, buffer' = Tail(buffer)
  PROVE  /\ Unread = Unread' \cup {Head(buffer)} /\ Head(buffer) \in Unread
         /\ buffer' \in Seq(Ids) /\ Len(buffer') = Len(buffer) - 1
<1>1. /\ buffer' \in Seq(Ids) /\ Len(buffer') = Len(buffer) - 1 /\ Len(buffer) \in Nat \ {0}
      /\ Head(buffer) = buffer[1] /\ \A i \in 1..Len(buffer') : buffer'[i] = buffer[i + 1]
  OBVIOUS
<1>2. \A i \in 1..Len(buffer) : i = 1 \/ (i - 1) \in 1..Len(buffer')
  BY <1>1
<1>3. 1 \in 1..Len(buffer) /\ \A i \in 1..Len(buffer') : i + 1 \in 1..Len(buffer)
  BY <1>1
<1>4. \A i \in 1..Len(buffer) : i # 1 => buffer[i] = buffer'[i - 1]
  BY <1>1, <1>2
<1>5. Unread \subseteq Unread' \cup {Head(buffer)}
  BY <1>1, <1>2, <1>4 DEF Unread
<1>6. Unread' \cup {Head(buffer)} \subseteq Unread
  BY <1>1, <1>3 DEF Unread
<1> QED BY <1>1, <1>3, <1>5, <1>6 DEF Unread

\* The types in two parts, the flags and the others.
Flags == {acks, holding, down, acking, uncounted} \subseteq BOOLEAN
Ranges ==
  /\ arrived \in 0..MaxMessages /\ cursor \in 0..arrived
  /\ held \subseteq 1..arrived /\ worker \in {"up", "down"} /\ pc \in PCs
  /\ batch \subseteq 1..arrived /\ skips \subseteq 1..arrived
  /\ pc \in {"hand", "wait", "slot", "woken", "ack"} => batch # {}
  /\ pc = "skip" => skips # {} /\ acking
  /\ Len(buffer) <= BufferCap /\ Unread \subseteq fate.handed
  /\ bus \in {"open", "closed", "drained", "gone"}
  /\ fate \in [Fates -> SUBSET (1..arrived)] /\ unpaced \subseteq 1..arrived
  /\ faults \in 0..MaxFaults
LEMMA TypeParts == TypeOK <=> Flags /\ Ranges
  BY DEF TypeOK, Flags, Ranges

\* What every step may use.
LEMMA Basics ==
  ASSUME PollInv
  PROVE  /\ batch # {} => Least(batch) \in batch /\ \A m \in batch : Least(batch) <= m
         /\ skips # {} => Least(skips) \in skips
         /\ buffer' = buffer => Unread' = Unread
<1>1. batch \in SUBSET Nat /\ skips \in SUBSET Nat
  BY PolledAssumption DEF PollInv, CursorPassesNothingUnseen, TypeOK
<1> QED BY <1>1, LeastIn DEF Unread

\* The flags.
LEMMA FlagTypes == ASSUME PollInv, Next, ~poll PROVE Flags'
<1> USE PolledAssumption DEF Flags, source, thread, ledger
<1>a. /\ batch # {} => Least(batch) \in batch /\ \A m \in batch : Least(batch) <= m
      /\ skips # {} => Least(skips) \in skips
      /\ buffer' = buffer => Unread' = Unread
  BY Basics
<1>b. Flags /\ Ranges
  BY TypeParts DEF PollInv, CursorPassesNothingUnseen
<1>1. CASE arrive
  BY <1>b, <1>1 DEF arrive
<1>2. CASE worker_dies
  BY <1>b, <1>2 DEF worker_dies, Fault, Mark
<1>3. CASE respawn
  BY <1>b, <1>3 DEF respawn
<1>4. CASE recv
  BY <1>b, <1>4 DEF recv, Mark
<1>5. CASE close
  BY <1>b, <1>5 DEF close
<1>6. CASE drain_unread
  BY <1>b, <1>6 DEF drain_unread, Mark, lost, SlotHeld
<1>7. CASE drop_outbound
  BY <1>b, <1>7 DEF drop_outbound
<1>8. CASE elapse
  BY <1>b, <1>8 DEF elapse
<1>9. CASE flush
  BY <1>b, <1>9 DEF flush
<1>10. CASE poll_not_made
  BY <1>b, <1>10 DEF poll_not_made
<1>11. CASE poll_refused
  BY <1>b, <1>11 DEF poll_refused, Fault, Mark
<1>12. CASE slice
  BY <1>b, <1>12 DEF slice
<1>13. CASE refused
  BY <1>b, <1>13 DEF refused, Mark, on_bus_closed_mid_batch, unsent
<1>14. CASE take_slot
  BY <1>b, <1>14 DEF take_slot
<1>15. CASE send_lands
  BY <1>b, <1>15 DEF send_lands, Mark, Next_event
<1>16. CASE ack_event
  BY <1>b, <1>16 DEF ack_event, ack, Fault, Further, Next_event
<1>17. CASE ack_skipped
  BY <1>b, <1>17 DEF ack_skipped, ack, Fault, Further, Mark
<1>18. CASE drain_worker_on_exit
  BY <1>b, <1>18 DEF drain_worker_on_exit, Fault, Mark
<1> QED
  BY <1>1, <1>2, <1>3, <1>4, <1>5, <1>6, <1>7, <1>8, <1>9, <1>10, <1>11, <1>12, <1>13, <1>14, <1>15, <1>16, <1>17, <1>18 DEF Next, Stop, Driver

\* The types.
LEMMA Types == ASSUME PollInv, Next, ~poll PROVE Ranges'
<1> USE PolledAssumption DEF PollInv, CursorPassesNothingUnseen, Ranges, Buffered, SlotHeld, Ids, PCs,
        source, thread, ledger
<1>a. /\ batch # {} => Least(batch) \in batch /\ \A m \in batch : Least(batch) <= m
      /\ skips # {} => Least(skips) \in skips
      /\ buffer' = buffer => Unread' = Unread
  BY Basics
<1>b. Flags /\ Ranges
  BY TypeParts DEF PollInv, CursorPassesNothingUnseen
<1> USE <1>b
<1>1. CASE arrive
  BY <1>a, <1>1 DEF arrive
<1>2. CASE worker_dies
  <2>0. fate \in [Fates -> SUBSET (1..arrived)] OBVIOUS
  <2>1. held \in SUBSET (1..arrived)
    BY <1>a, <1>2 DEF worker_dies, Fault
  <2>2. Mark("died", held) => fate' \in [Fates -> SUBSET (1..arrived)] /\ fate.handed \subseteq fate'.handed
    BY <2>0, <2>1, Marked DEF Fates
  <2>3. fate' \in [Fates -> SUBSET (1..arrived)] /\ fate.handed \subseteq fate'.handed
    <3>1. fate' = fate => fate' \in [Fates -> SUBSET (1..arrived)] /\ fate.handed \subseteq fate'.handed
      BY <2>0
    <3>2. fate' = fate \/ Mark("died", held)
      BY <1>2 DEF worker_dies
    <3> QED BY <2>2, <3>1, <3>2
  <2> QED BY <1>a, <1>2, <2>3 DEF worker_dies, Fault
<1>3. CASE respawn
  BY <1>a, <1>3 DEF respawn
<1>4. CASE recv
  <2>0. fate \in [Fates -> SUBSET (1..arrived)] /\ Len(buffer) \in Nat OBVIOUS
  <2>1. /\ Unread = Unread' \cup {Head(buffer)} /\ Head(buffer) \in Unread
        /\ Len(buffer') = Len(buffer) - 1
    BY <1>4, UnreadTails DEF recv
  <2>2. {Head(buffer)} \in SUBSET (1..arrived)
    BY <2>1 DEF Fates
  <2>3. fate' \in [Fates -> SUBSET (1..arrived)] /\ fate.handed \subseteq fate'.handed
    BY <1>4, <2>0, <2>2, Marked DEF recv, Fates
  <2> QED BY <1>4, <2>0, <2>1, <2>3 DEF recv
<1>5. CASE close
  BY <1>a, <1>5 DEF close
<1>6. CASE drain_unread
  <2>0. fate \in [Fates -> SUBSET (1..arrived)] OBVIOUS
  <2>1. lost \in SUBSET (1..arrived)
    BY <1>a, <1>6 DEF drain_unread, lost, Unread, Fates
  <2>2. Mark("told", lost) => fate' \in [Fates -> SUBSET (1..arrived)] /\ fate.handed \subseteq fate'.handed
    BY <2>0, <2>1, Marked DEF Fates
  <2>3. fate' \in [Fates -> SUBSET (1..arrived)] /\ fate.handed \subseteq fate'.handed
    <3>1. fate' = fate => fate' \in [Fates -> SUBSET (1..arrived)] /\ fate.handed \subseteq fate'.handed
      BY <2>0
    <3>2. fate' = fate \/ Mark("told", lost)
      BY <1>6 DEF drain_unread
    <3> QED BY <2>2, <3>1, <3>2
  <2> QED BY <1>a, <1>6, <2>3 DEF drain_unread, lost, Unread, Fates
<1>7. CASE drop_outbound
  BY <1>a, <1>7 DEF drop_outbound
<1>8. CASE elapse
  BY <1>a, <1>8 DEF elapse
<1>9. CASE flush
  BY <1>a, <1>9 DEF flush
<1>10. CASE poll_not_made
  BY <1>a, <1>10 DEF poll_not_made
<1>11. CASE poll_refused
  <2>0. fate \in [Fates -> SUBSET (1..arrived)] OBVIOUS
  <2>1. held \in SUBSET (1..arrived)
    BY <1>a, <1>11 DEF poll_refused, Fault
  <2>2. Mark("died", held) => fate' \in [Fates -> SUBSET (1..arrived)] /\ fate.handed \subseteq fate'.handed
    BY <2>0, <2>1, Marked DEF Fates
  <2>3. fate' \in [Fates -> SUBSET (1..arrived)] /\ fate.handed \subseteq fate'.handed
    <3>1. fate' = fate => fate' \in [Fates -> SUBSET (1..arrived)] /\ fate.handed \subseteq fate'.handed
      BY <2>0
    <3>2. fate' = fate \/ Mark("died", held)
      BY <1>11 DEF poll_refused
    <3> QED BY <2>2, <3>1, <3>2
  <2>4. held' \subseteq 1..arrived /\ pc' = "slice"
    BY <1>11 DEF poll_refused
  <2>6. faults' \in 0..MaxFaults
    BY <1>11 DEF poll_refused, Fault
  <2>5. UNCHANGED <<arrived, cursor, worker, batch, skips, buffer, bus, unpaced>>
    BY <1>11 DEF poll_refused
  <2> QED BY <1>a, <1>11, <2>3, <2>4, <2>5, <2>6
<1>12. CASE slice
  BY <1>a, <1>12 DEF slice
<1>13. CASE refused
  <2>0. fate \in [Fates -> SUBSET (1..arrived)] OBVIOUS
  <2>1. on_bus_closed_mid_batch \in SUBSET (1..arrived)
    BY <1>a, <1>13 DEF refused, on_bus_closed_mid_batch, unsent
  <2>2. Mark("told", on_bus_closed_mid_batch) => fate' \in [Fates -> SUBSET (1..arrived)] /\ fate.handed \subseteq fate'.handed
    BY <2>0, <2>1, Marked DEF Fates
  <2>3. fate' \in [Fates -> SUBSET (1..arrived)] /\ fate.handed \subseteq fate'.handed
    <3>1. fate' = fate => fate' \in [Fates -> SUBSET (1..arrived)] /\ fate.handed \subseteq fate'.handed
      BY <2>0
    <3>2. fate' = fate \/ Mark("told", on_bus_closed_mid_batch)
      BY <1>13 DEF refused
    <3> QED BY <2>2, <3>1, <3>2
  <2> QED BY <1>a, <1>13, <2>3 DEF refused, on_bus_closed_mid_batch, unsent
<1>14. CASE take_slot
  BY <1>a, <1>14 DEF take_slot
<1>15. CASE send_lands
  <2>1. Len(buffer) \in Nat
    OBVIOUS
  <2>2. pc \in {"slot", "woken"}
    BY <1>15 DEF send_lands
  <2>3. batch # {} /\ batch \subseteq Ids
    BY <2>2
  <2>4. PICK m \in batch : m = Least(batch) /\ m \in Ids
    BY <1>a, <2>3
  <2>5. Mark("handed", {m}) /\ m \in 1..arrived BY <2>4, <1>15 DEF send_lands
  <2>6. /\ fate' \in [Fates -> SUBSET (1..arrived)] /\ fate'.handed = fate.handed \cup {m}
        /\ fate'.read = fate.read /\ fate'.told = fate.told
    <3>1. fate \in [Fates -> SUBSET (1..arrived)] /\ {m} \in SUBSET (1..arrived)
      BY <2>5
    <3> QED BY <2>5, <3>1, Marked DEF Fates
  <2>7. \/ buffer' = buffer /\ Unread' = Unread /\ bus \in {"drained", "gone"}
        \/ /\ buffer' = Append(buffer, m) /\ Unread' = Unread \cup {m}
           /\ buffer' \in Seq(Ids) /\ Len(buffer') = Len(buffer) + 1 /\ bus \in {"open", "closed"}
    <3>1. buffer' = Append(buffer, m) \/ (buffer' = buffer /\ bus \in {"drained", "gone"})
      BY <2>4, <1>15 DEF send_lands
    <3>2. bus' = bus /\ (buffer' # buffer => bus \in {"open", "closed"})
      BY <1>15 DEF send_lands
    <3> QED BY <2>4, <3>1, <3>2, <1>a, UnreadAppends
  <2>8. Len(buffer') <= BufferCap /\ Unread' \subseteq fate'.handed
    BY <1>15, <2>4, <2>6, <2>7, <2>1 DEF send_lands
  <2>9. /\ batch' \subseteq 1..arrived /\ pc' \in {"ack", "hand", "skip", "top"}
        /\ pc' \in {"ack", "hand"} => batch' # {}
        /\ pc' = "skip" => skips # {} /\ acking
    BY <1>a, <1>15, <2>4 DEF send_lands, Next_event
  <2>10. UNCHANGED <<arrived, cursor, held, worker, skips, acking, bus, unpaced, faults>>
    BY <1>15 DEF send_lands
  <2> QED BY <2>6, <2>8, <2>9, <2>10
<1>16. CASE ack_event
  <2>1. PICK m \in batch : /\ m = Least(batch) /\ ack(m) /\ batch' = batch \ {m}
                           /\ pc' = Next_event(batch \ {m}, acking')
    BY <1>a, <1>16 DEF ack_event
  <2>2. cursor' \in 0..arrived /\ faults' \in 0..MaxFaults
    <3>0. m \in 1..arrived /\ cursor \in 0..arrived
      BY <2>1
    <3>1. Further(cursor, m) \in {cursor, m}
      BY DEF Further
    <3>2. cursor' \in 0..arrived BY <2>1, <3>0, <3>1 DEF ack
    <3>3. faults' \in 0..MaxFaults BY <2>1 DEF ack, Fault
    <3> QED BY <3>2, <3>3
  <2> QED BY <1>a, <1>16, <2>1, <2>2 DEF ack_event, Next_event
<1>17. CASE ack_skipped
  <2>1. PICK m \in skips : /\ m = Least(skips) /\ ack(m) /\ Mark("recorded", {m})
                           /\ skips' = skips \ {m}
                           /\ pc' = IF acking' /\ skips # {m} THEN "skip" ELSE "top"
    BY <1>a, <1>17 DEF ack_skipped
  <2>2. cursor' \in 0..arrived /\ faults' \in 0..MaxFaults
    <3>0. m \in 1..arrived /\ cursor \in 0..arrived
      BY <2>1
    <3>1. Further(cursor, m) \in {cursor, m}
      BY DEF Further
    <3>2. cursor' \in 0..arrived BY <2>1, <3>0, <3>1 DEF ack
    <3>3. faults' \in 0..MaxFaults BY <2>1 DEF ack, Fault
    <3> QED BY <3>2, <3>3
  <2>3. fate' \in [Fates -> SUBSET (1..arrived)] /\ fate'.handed = fate.handed
    <3>1. fate \in [Fates -> SUBSET (1..arrived)] /\ {m} \in SUBSET (1..arrived)
      BY <2>1
    <3> QED BY <2>1, <3>1, Marked DEF Fates
  <2> QED BY <1>a, <1>17, <2>1, <2>2, <2>3 DEF ack_skipped
<1>18. CASE drain_worker_on_exit
  <2>0. fate \in [Fates -> SUBSET (1..arrived)] OBVIOUS
  <2>1. held \in SUBSET (1..arrived)
    BY <1>a, <1>18 DEF drain_worker_on_exit, Fault
  <2>2. Mark("told", held) => fate' \in [Fates -> SUBSET (1..arrived)] /\ fate.handed \subseteq fate'.handed
    BY <2>0, <2>1, Marked DEF Fates
  <2>3. fate' \in [Fates -> SUBSET (1..arrived)] /\ fate.handed \subseteq fate'.handed
    <3>1. fate' = fate => fate' \in [Fates -> SUBSET (1..arrived)] /\ fate.handed \subseteq fate'.handed
      BY <2>0
    <3>2. fate' = fate \/ Mark("told", held)
      BY <1>18 DEF drain_worker_on_exit
    <3> QED BY <2>2, <3>1, <3>2
  <2> QED BY <1>a, <1>18, <2>3 DEF drain_worker_on_exit, Fault
<1> QED
  BY <1>1, <1>2, <1>3, <1>4, <1>5, <1>6, <1>7, <1>8, <1>9, <1>10, <1>11, <1>12, <1>13, <1>14, <1>15, <1>16, <1>17, <1>18 DEF Next, Stop, Driver

\* The cursor moves to a message below which everything was accepted or left out.
LEMMA Cursors == ASSUME PollInv, Next, ~poll PROVE (acks => 1..cursor \subseteq fate.handed \cup fate.dismissed \cup fate.omitted)'
<1> USE PolledAssumption DEF PollInv, CursorPassesNothingUnseen, TypeOK, Buffered, InOrder, Reported,
        Somewhere, Paced, Handing, SlotHeld, Ids, PCs, Fates, source, thread, ledger
<1>a. /\ batch # {} => Least(batch) \in batch /\ \A m \in batch : Least(batch) <= m
      /\ skips # {} => Least(skips) \in skips
      /\ buffer' = buffer => Unread' = Unread
  BY Basics
<1>1. CASE arrive
  BY <1>a, <1>1 DEF arrive
<1>2. CASE worker_dies
  BY <1>a, <1>2 DEF worker_dies, Fault, Mark
<1>3. CASE respawn
  BY <1>a, <1>3 DEF respawn
<1>4. CASE recv
  BY <1>a, <1>4 DEF recv, Mark
<1>5. CASE close
  BY <1>a, <1>5 DEF close
<1>6. CASE drain_unread
  BY <1>a, <1>6 DEF drain_unread, Mark, lost, SlotHeld
<1>7. CASE drop_outbound
  BY <1>a, <1>7 DEF drop_outbound
<1>8. CASE elapse
  BY <1>a, <1>8 DEF elapse
<1>9. CASE flush
  BY <1>a, <1>9 DEF flush
<1>10. CASE poll_not_made
  BY <1>a, <1>10 DEF poll_not_made
<1>11. CASE poll_refused
  BY <1>a, <1>11 DEF poll_refused, Fault, Mark
<1>12. CASE slice
  BY <1>a, <1>12 DEF slice
<1>13. CASE refused
  BY <1>a, <1>13 DEF refused, Mark, on_bus_closed_mid_batch, unsent
<1>14. CASE take_slot
  BY <1>a, <1>14 DEF take_slot
<1>15. CASE send_lands
  BY <1>a, <1>15 DEF send_lands, Mark, Next_event
<1>16. CASE ack_event
  <2>1. PICK m \in batch : m = Least(batch) /\ cursor' \in {cursor, m} /\ UNCHANGED <<acks, fate>>
    BY <1>a, <1>16 DEF ack_event, ack, Further
  <2>2. \A j \in 1..m : j \in fate.handed \cup fate.dismissed \cup fate.omitted
    BY <1>a, <1>16, <2>1 DEF ack_event
  <2> QED BY <2>1, <2>2
<1>17. CASE ack_skipped
  BY <1>a, <1>17 DEF ack_skipped, ack, Fault, Further, Mark
<1>18. CASE drain_worker_on_exit
  BY <1>a, <1>18 DEF drain_worker_on_exit, Fault, Mark
<1> QED
  BY <1>1, <1>2, <1>3, <1>4, <1>5, <1>6, <1>7, <1>8, <1>9, <1>10, <1>11, <1>12, <1>13, <1>14, <1>15, <1>16, <1>17, <1>18 DEF Next, Stop, Driver

\* The buffer.
LEMMA Buffers == ASSUME PollInv, Next, ~poll PROVE Buffered'
<1> USE PolledAssumption DEF PollInv, CursorPassesNothingUnseen, TypeOK, Buffered, InOrder, Reported,
        Somewhere, Paced, Handing, SlotHeld, Ids, PCs, Fates, source, thread, ledger
<1>a. /\ batch # {} => Least(batch) \in batch /\ \A m \in batch : Least(batch) <= m
      /\ skips # {} => Least(skips) \in skips
      /\ buffer' = buffer => Unread' = Unread
  BY Basics
<1>1. CASE arrive
  BY <1>a, <1>1 DEF arrive
<1>2. CASE worker_dies
  BY <1>a, <1>2 DEF worker_dies, Fault, Mark
<1>3. CASE respawn
  BY <1>a, <1>3 DEF respawn
<1>4. CASE recv
  BY <1>a, <1>4 DEF recv, Mark
<1>5. CASE close
  BY <1>a, <1>5 DEF close
<1>6. CASE drain_unread
  BY <1>a, <1>6 DEF drain_unread, Mark, lost, SlotHeld
<1>7. CASE drop_outbound
  BY <1>a, <1>7 DEF drop_outbound
<1>8. CASE elapse
  BY <1>a, <1>8 DEF elapse
<1>9. CASE flush
  BY <1>a, <1>9 DEF flush
<1>10. CASE poll_not_made
  BY <1>a, <1>10 DEF poll_not_made
<1>11. CASE poll_refused
  BY <1>a, <1>11 DEF poll_refused, Fault, Mark
<1>12. CASE slice
  BY <1>a, <1>12 DEF slice
<1>13. CASE refused
  BY <1>a, <1>13 DEF refused, Mark, on_bus_closed_mid_batch, unsent
<1>14. CASE take_slot
  BY <1>a, <1>14 DEF take_slot
<1>15. CASE send_lands
  <2>1. Len(buffer) \in Nat
    OBVIOUS
  <2>2. pc \in {"slot", "woken"}
    BY <1>15 DEF send_lands
  <2>3. batch # {} /\ batch \subseteq Ids
    BY <2>2
  <2>4. PICK m \in batch : m = Least(batch) /\ m \in Ids
    BY <1>a, <2>3
  <2>5. Mark("handed", {m}) /\ m \in 1..arrived BY <2>4, <1>15 DEF send_lands
  <2>6. /\ fate' \in [Fates -> SUBSET (1..arrived)] /\ fate'.handed = fate.handed \cup {m}
        /\ fate'.read = fate.read /\ fate'.told = fate.told
    <3>1. fate \in [Fates -> SUBSET (1..arrived)] /\ {m} \in SUBSET (1..arrived)
      BY <2>5
    <3> QED BY <2>5, <3>1, Marked DEF Fates
  <2>7. \/ buffer' = buffer /\ Unread' = Unread /\ bus \in {"drained", "gone"}
        \/ /\ buffer' = Append(buffer, m) /\ Unread' = Unread \cup {m}
           /\ buffer' \in Seq(Ids) /\ Len(buffer') = Len(buffer) + 1 /\ bus \in {"open", "closed"}
    <3>1. buffer' = Append(buffer, m) \/ (buffer' = buffer /\ bus \in {"drained", "gone"})
      BY <2>4, <1>15 DEF send_lands
    <3>2. bus' = bus /\ (buffer' # buffer => bus \in {"open", "closed"})
      BY <1>15 DEF send_lands
    <3> QED BY <2>4, <3>1, <3>2, <1>a, UnreadAppends
  <2> QED BY <1>a, <1>15, <2>4, <2>6, <2>7, <2>1 DEF send_lands, Next_event
<1>16. CASE ack_event
  BY <1>a, <1>16 DEF ack_event, ack, Fault, Further, Next_event
<1>17. CASE ack_skipped
  BY <1>a, <1>17 DEF ack_skipped, ack, Fault, Further, Mark
<1>18. CASE drain_worker_on_exit
  BY <1>a, <1>18 DEF drain_worker_on_exit, Fault, Mark
<1> QED
  BY <1>1, <1>2, <1>3, <1>4, <1>5, <1>6, <1>7, <1>8, <1>9, <1>10, <1>11, <1>12, <1>13, <1>14, <1>15, <1>16, <1>17, <1>18 DEF Next, Stop, Driver

\* A batch is worked off in order.
LEMMA Orders == ASSUME PollInv, Next, ~poll PROVE InOrder'
<1> USE PolledAssumption DEF PollInv, CursorPassesNothingUnseen, TypeOK, Buffered, InOrder, Reported,
        Somewhere, Paced, Handing, SlotHeld, Ids, PCs, Fates, source, thread, ledger
<1>a. /\ batch # {} => Least(batch) \in batch /\ \A m \in batch : Least(batch) <= m
      /\ skips # {} => Least(skips) \in skips
      /\ buffer' = buffer => Unread' = Unread
  BY Basics
<1>1. CASE arrive
  BY <1>a, <1>1 DEF arrive
<1>2. CASE worker_dies
  BY <1>a, <1>2 DEF worker_dies, Fault, Mark
<1>3. CASE respawn
  BY <1>a, <1>3 DEF respawn
<1>4. CASE recv
  BY <1>a, <1>4 DEF recv, Mark
<1>5. CASE close
  BY <1>a, <1>5 DEF close
<1>6. CASE drain_unread
  BY <1>a, <1>6 DEF drain_unread, Mark, lost, SlotHeld
<1>7. CASE drop_outbound
  BY <1>a, <1>7 DEF drop_outbound
<1>8. CASE elapse
  BY <1>a, <1>8 DEF elapse
<1>9. CASE flush
  BY <1>a, <1>9 DEF flush
<1>10. CASE poll_not_made
  BY <1>a, <1>10 DEF poll_not_made
<1>11. CASE poll_refused
  BY <1>a, <1>11 DEF poll_refused, Fault, Mark
<1>12. CASE slice
  BY <1>a, <1>12 DEF slice
<1>13. CASE refused
  BY <1>a, <1>13 DEF refused, Mark, on_bus_closed_mid_batch, unsent
<1>14. CASE take_slot
  BY <1>a, <1>14 DEF take_slot
<1>15. CASE send_lands
  BY <1>a, <1>15 DEF send_lands, Mark, Next_event
<1>16. CASE ack_event
  BY <1>a, <1>16 DEF ack_event, ack, Fault, Further, Next_event
<1>17. CASE ack_skipped
  BY <1>a, <1>17 DEF ack_skipped, ack, Fault, Further, Mark
<1>18. CASE drain_worker_on_exit
  BY <1>a, <1>18 DEF drain_worker_on_exit, Fault, Mark
<1> QED
  BY <1>1, <1>2, <1>3, <1>4, <1>5, <1>6, <1>7, <1>8, <1>9, <1>10, <1>11, <1>12, <1>13, <1>14, <1>15, <1>16, <1>17, <1>18 DEF Next, Stop, Driver

\* What was accepted is read or reported.
LEMMA Reports == ASSUME PollInv, Next, ~poll PROVE Reported'
<1> USE PolledAssumption DEF PollInv, CursorPassesNothingUnseen, TypeOK, Buffered, InOrder, Reported,
        Somewhere, Paced, Handing, SlotHeld, Ids, PCs, Fates, source, thread, ledger
<1>a. /\ batch # {} => Least(batch) \in batch /\ \A m \in batch : Least(batch) <= m
      /\ skips # {} => Least(skips) \in skips
      /\ buffer' = buffer => Unread' = Unread
  BY Basics
<1>1. CASE arrive
  BY <1>a, <1>1 DEF arrive
<1>2. CASE worker_dies
  BY <1>a, <1>2 DEF worker_dies, Fault, Mark
<1>3. CASE respawn
  BY <1>a, <1>3 DEF respawn
<1>4. CASE recv
  <2>1. /\ Unread = Unread' \cup {Head(buffer)} /\ Head(buffer) \in Unread
    BY <1>4, UnreadTails DEF recv
  <2>2. fate'.handed = fate.handed /\ fate'.told = fate.told /\ fate'.read = fate.read \cup {Head(buffer)}
    BY <1>4 DEF recv, Mark
  <2> QED BY <1>4, <2>1, <2>2 DEF recv
<1>5. CASE close
  BY <1>a, <1>5 DEF close
<1>6. CASE drain_unread
  BY <1>a, <1>6 DEF drain_unread, Mark, lost, SlotHeld
<1>7. CASE drop_outbound
  BY <1>a, <1>7 DEF drop_outbound
<1>8. CASE elapse
  BY <1>a, <1>8 DEF elapse
<1>9. CASE flush
  BY <1>a, <1>9 DEF flush
<1>10. CASE poll_not_made
  BY <1>a, <1>10 DEF poll_not_made
<1>11. CASE poll_refused
  BY <1>a, <1>11 DEF poll_refused, Fault, Mark
<1>12. CASE slice
  BY <1>a, <1>12 DEF slice
<1>13. CASE refused
  BY <1>a, <1>13 DEF refused, Mark, on_bus_closed_mid_batch, unsent
<1>14. CASE take_slot
  BY <1>a, <1>14 DEF take_slot
<1>15. CASE send_lands
  <2>1. Len(buffer) \in Nat
    OBVIOUS
  <2>2. pc \in {"slot", "woken"}
    BY <1>15 DEF send_lands
  <2>3. batch # {} /\ batch \subseteq Ids
    BY <2>2
  <2>4. PICK m \in batch : m = Least(batch) /\ m \in Ids
    BY <1>a, <2>3
  <2>5. Mark("handed", {m}) /\ m \in 1..arrived BY <2>4, <1>15 DEF send_lands
  <2>6. /\ fate' \in [Fates -> SUBSET (1..arrived)] /\ fate'.handed = fate.handed \cup {m}
        /\ fate'.read = fate.read /\ fate'.told = fate.told
    <3>1. fate \in [Fates -> SUBSET (1..arrived)] /\ {m} \in SUBSET (1..arrived)
      BY <2>5
    <3> QED BY <2>5, <3>1, Marked DEF Fates
  <2>7. \/ buffer' = buffer /\ Unread' = Unread /\ bus \in {"drained", "gone"}
        \/ /\ buffer' = Append(buffer, m) /\ Unread' = Unread \cup {m}
           /\ buffer' \in Seq(Ids) /\ Len(buffer') = Len(buffer) + 1 /\ bus \in {"open", "closed"}
    <3>1. buffer' = Append(buffer, m) \/ (buffer' = buffer /\ bus \in {"drained", "gone"})
      BY <2>4, <1>15 DEF send_lands
    <3>2. bus' = bus /\ (buffer' # buffer => bus \in {"open", "closed"})
      BY <1>15 DEF send_lands
    <3> QED BY <2>4, <3>1, <3>2, <1>a, UnreadAppends
  <2> QED BY <1>a, <1>15, <2>4, <2>6, <2>7, <2>1 DEF send_lands, Next_event
<1>16. CASE ack_event
  BY <1>a, <1>16 DEF ack_event, ack, Fault, Further, Next_event
<1>17. CASE ack_skipped
  BY <1>a, <1>17 DEF ack_skipped, ack, Fault, Further, Mark
<1>18. CASE drain_worker_on_exit
  BY <1>a, <1>18 DEF drain_worker_on_exit, Fault, Mark
<1> QED
  BY <1>1, <1>2, <1>3, <1>4, <1>5, <1>6, <1>7, <1>8, <1>9, <1>10, <1>11, <1>12, <1>13, <1>14, <1>15, <1>16, <1>17, <1>18 DEF Next, Stop, Driver

\* Every message of a channel that does not redeliver.
LEMMA Places == ASSUME PollInv, Next, ~poll PROVE Somewhere'
<1> USE PolledAssumption DEF PollInv, CursorPassesNothingUnseen, TypeOK, Buffered, InOrder, Reported,
        Somewhere, Paced, Handing, SlotHeld, Ids, PCs, Fates, source, thread, ledger
<1>a. /\ batch # {} => Least(batch) \in batch /\ \A m \in batch : Least(batch) <= m
      /\ skips # {} => Least(skips) \in skips
      /\ buffer' = buffer => Unread' = Unread
  BY Basics
<1>1. CASE arrive
  BY <1>a, <1>1 DEF arrive
<1>2. CASE worker_dies
  BY <1>a, <1>2 DEF worker_dies, Fault, Mark
<1>3. CASE respawn
  BY <1>a, <1>3 DEF respawn
<1>4. CASE recv
  BY <1>a, <1>4 DEF recv, Mark
<1>5. CASE close
  BY <1>a, <1>5 DEF close
<1>6. CASE drain_unread
  BY <1>a, <1>6 DEF drain_unread, Mark, lost, SlotHeld
<1>7. CASE drop_outbound
  BY <1>a, <1>7 DEF drop_outbound
<1>8. CASE elapse
  BY <1>a, <1>8 DEF elapse
<1>9. CASE flush
  BY <1>a, <1>9 DEF flush
<1>10. CASE poll_not_made
  BY <1>a, <1>10 DEF poll_not_made
<1>11. CASE poll_refused
  BY <1>a, <1>11 DEF poll_refused, Fault, Mark
<1>12. CASE slice
  BY <1>a, <1>12 DEF slice
<1>13. CASE refused
  BY <1>a, <1>13 DEF refused, Mark, on_bus_closed_mid_batch, unsent
<1>14. CASE take_slot
  BY <1>a, <1>14 DEF take_slot
<1>15. CASE send_lands
  BY <1>a, <1>15 DEF send_lands, Mark, Next_event
<1>16. CASE ack_event
  BY <1>a, <1>16 DEF ack_event, ack, Fault, Further, Next_event
<1>17. CASE ack_skipped
  BY <1>a, <1>17 DEF ack_skipped, ack, Fault, Further, Mark
<1>18. CASE drain_worker_on_exit
  BY <1>a, <1>18 DEF drain_worker_on_exit, Fault, Mark
<1> QED
  BY <1>1, <1>2, <1>3, <1>4, <1>5, <1>6, <1>7, <1>8, <1>9, <1>10, <1>11, <1>12, <1>13, <1>14, <1>15, <1>16, <1>17, <1>18 DEF Next, Stop, Driver

\* Redelivery waits.
LEMMA Paces == ASSUME PollInv, Next, ~poll PROVE Paced'
<1> USE PolledAssumption DEF PollInv, CursorPassesNothingUnseen, TypeOK, Buffered, InOrder, Reported,
        Somewhere, Paced, Handing, SlotHeld, Ids, PCs, Fates, source, thread, ledger
<1>a. /\ batch # {} => Least(batch) \in batch /\ \A m \in batch : Least(batch) <= m
      /\ skips # {} => Least(skips) \in skips
      /\ buffer' = buffer => Unread' = Unread
  BY Basics
<1>1. CASE arrive
  BY <1>a, <1>1 DEF arrive
<1>2. CASE worker_dies
  BY <1>a, <1>2 DEF worker_dies, Fault, Mark
<1>3. CASE respawn
  BY <1>a, <1>3 DEF respawn
<1>4. CASE recv
  BY <1>a, <1>4 DEF recv, Mark
<1>5. CASE close
  BY <1>a, <1>5 DEF close
<1>6. CASE drain_unread
  BY <1>a, <1>6 DEF drain_unread, Mark, lost, SlotHeld
<1>7. CASE drop_outbound
  BY <1>a, <1>7 DEF drop_outbound
<1>8. CASE elapse
  BY <1>a, <1>8 DEF elapse
<1>9. CASE flush
  BY <1>a, <1>9 DEF flush
<1>10. CASE poll_not_made
  BY <1>a, <1>10 DEF poll_not_made
<1>11. CASE poll_refused
  BY <1>a, <1>11 DEF poll_refused, Fault, Mark
<1>12. CASE slice
  BY <1>a, <1>12 DEF slice
<1>13. CASE refused
  BY <1>a, <1>13 DEF refused, Mark, on_bus_closed_mid_batch, unsent
<1>14. CASE take_slot
  BY <1>a, <1>14 DEF take_slot
<1>15. CASE send_lands
  BY <1>a, <1>15 DEF send_lands, Mark, Next_event
<1>16. CASE ack_event
  <2>1. PICK m \in batch : m = Least(batch) /\ ack(m) /\ m \in Nat /\ batch' = batch \ {m}
    BY <1>a, <1>16 DEF ack_event
  <2>2. CASE worker = "up" /\ cursor' = Further(cursor, m) /\ UNCHANGED <<acking, holding>>
    <3>1. cursor \in Nat /\ cursor' = (IF m > cursor THEN m ELSE cursor) /\ unpaced \subseteq Nat
      BY <2>2 DEF Further
    <3>2. cursor' \in Nat /\ cursor <= cursor' /\ m <= cursor'
      BY <2>1, <3>1
    <3>3. /\ UNCHANGED <<acks, held, unpaced>> /\ pc = "ack"
          /\ batch' # {} => pc' = "hand"
      BY <1>16, <2>1 DEF ack_event, Next_event
    <3>4. ASSUME NEW k \in unpaced, acks, ~holding
          PROVE  k <= cursor' \/ (pc' = "hand" /\ acking' /\ k \in batch')
      <4>1. k \in Nat /\ (k <= cursor \/ (acking /\ k \in batch))
        BY <2>2, <3>1, <3>3, <3>4
      <4> QED BY <2>1, <2>2, <3>1, <3>2, <3>3, <4>1
    <3> QED BY <2>2, <3>3, <3>4
  <2>3. CASE holding' = TRUE \/ worker = "down"
    BY <1>a, <1>16, <2>3 DEF ack_event
  <2> QED BY <2>1, <2>2, <2>3 DEF ack
<1>17. CASE ack_skipped
  <2>1. PICK m \in skips : m = Least(skips) /\ ack(m) /\ m \in Nat
    BY <1>a, <1>17 DEF ack_skipped
  <2>2. CASE worker = "up" /\ cursor' = Further(cursor, m) /\ UNCHANGED <<acking, holding>>
    <3>1. cursor \in Nat /\ cursor' = (IF m > cursor THEN m ELSE cursor) /\ unpaced \subseteq Nat
      BY <2>2 DEF Further
    <3>2. cursor' \in Nat /\ cursor <= cursor'
      BY <2>1, <3>1
    <3> QED BY <1>a, <1>17, <2>1, <2>2, <3>1, <3>2 DEF ack_skipped
  <2>3. CASE holding' = TRUE \/ worker = "down"
    BY <1>a, <1>17, <2>3 DEF ack_skipped
  <2> QED BY <2>1, <2>2, <2>3 DEF ack
<1>18. CASE drain_worker_on_exit
  BY <1>a, <1>18 DEF drain_worker_on_exit, Fault, Mark
<1> QED
  BY <1>1, <1>2, <1>3, <1>4, <1>5, <1>6, <1>7, <1>8, <1>9, <1>10, <1>11, <1>12, <1>13, <1>14, <1>15, <1>16, <1>17, <1>18 DEF Next, Stop, Driver

\* What a poll finds has not been polled since the driver last waited.
LEMMA FoundIsNew ==
  ASSUME Flags, Ranges, Somewhere, Paced, pc = "poll", ~holding, worker = "up"
  PROVE  /\ Found \subseteq 1..arrived /\ arrived \in Nat /\ cursor \in Nat
         /\ \A m \in 1..arrived : acks => m \in 1..cursor \/ m \in Found
         /\ ~acks => Found = held
         /\ Found \cap unpaced = {}
<1>1. arrived \in Nat /\ cursor \in Nat /\ held \subseteq 1..arrived
  BY PolledAssumption DEF Ranges
<1>2. Found \subseteq 1..arrived /\ (~acks => Found = held)
  BY <1>1 DEF Found
<1>3. \A m \in 1..arrived : acks => m \in 1..cursor \/ m \in Found
  BY <1>1 DEF Found
<1>4. CASE acks
  <2>1. \A m \in unpaced : m <= cursor
    BY <1>4 DEF Paced, Handing
  <2>2. \A m \in Found : m \in Int /\ m > cursor
    BY <1>1, <1>4 DEF Found
  <2>3. ASSUME NEW m \in Found PROVE m \notin unpaced
    <3>1. ~(m <= cursor) BY <1>1, <2>2
    <3> QED BY <2>1, <3>1
  <2> QED BY <1>1, <1>2, <1>3, <2>3
<1>5. CASE ~acks
  BY <1>1, <1>2, <1>3, <1>5 DEF Paced
<1> QED BY <1>4, <1>5 DEF Flags

\* The poll: a batch that does not reach the bus, one that does not decode, and
\* one that is handed over.
LEMMA PollKeeps ==
  ASSUME PollInv, NEW sk \in SUBSET Found, NEW tr \in SUBSET (Found \ sk),
         NEW bad \in SUBSET (Found \ (sk \cup tr)), NEW whole \in BOOLEAN,
         poll_answered(sk, tr, bad, whole)
  PROVE  PollInv'
<1> DEFINE ev == Found \ (sk \cup tr)
<1>0. Flags /\ Ranges /\ Buffered /\ InOrder /\ Reported /\ Somewhere /\ Paced
      /\ (acks => 1..cursor \subseteq fate.handed \cup fate.dismissed \cup fate.omitted)
  BY TypeParts DEF PollInv, CursorPassesNothingUnseen
<1>1. /\ Found \subseteq 1..arrived /\ arrived \in Nat /\ cursor \in Nat
      /\ \A m \in 1..arrived : acks => m \in 1..cursor \/ m \in Found
      /\ ~acks => Found = held
      /\ Found \cap unpaced = {}
  <2>1. pc = "poll" /\ ~holding /\ worker = "up"
    BY DEF poll_answered
  <2> QED BY <1>0, <2>1, FoundIsNew
<1>2. /\ pc = "poll" /\ ~holding /\ worker = "up" /\ (~acks => sk = {} /\ tr = {})
      /\ faults' \in 0..MaxFaults
      /\ held' = (IF acks THEN held ELSE {}) /\ unpaced' = unpaced \cup ev
      /\ UNCHANGED <<acks, arrived, cursor, worker, buffer, bus, uncounted>>
  BY <1>0, PolledAssumption DEF poll_answered, Ranges
<1>3. Unread' = Unread /\ Buffered'
  <2>1. buffer' = buffer /\ bus' = bus BY <1>2
  <2>2. pc' \notin {"slot", "woken"} BY DEF poll_answered
  <2> QED BY <1>0, <2>1, <2>2 DEF Unread, Buffered, SlotHeld
<1>4. ev \subseteq 1..arrived /\ ev \cap unpaced = {} /\ bad \subseteq ev /\ sk \subseteq 1..arrived
      /\ tr \subseteq 1..arrived
  BY <1>1
<1> HIDE DEF ev
<1>5. \/ /\ bus # "open" /\ Mark("told", IF acks THEN {} ELSE ev) /\ pc' = "exit"
         /\ UNCHANGED <<holding, down, batch, skips, acking>>
      \/ /\ Mark("told", IF acks THEN {} ELSE ev) /\ holding' = TRUE /\ pc' = "top"
         /\ down' = FALSE /\ UNCHANGED <<batch, skips, acking>>
      \/ /\ (acks => bad = {})
         /\ fate' = [fate EXCEPT !.told = @ \cup bad, !.omitted = @ \cup tr, !.dismissed = @ \cup sk]
         /\ holding' = (bad # {}) /\ down' = FALSE
         /\ batch' = ev \ bad /\ skips' = sk /\ acking' = TRUE
         /\ pc' = IF ev \ bad # {} THEN "hand" ELSE IF sk # {} THEN "skip" ELSE "top"
  BY <1>0 DEF ev, poll_answered, on_bus_closed_during_poll, on_undecodable_batch,
     whole_batch_on_ack_channel, thread
<1>6. ASSUME Mark("told", IF acks THEN {} ELSE ev), pc' \in {"exit", "top"},
             UNCHANGED <<batch, skips, acking>>,
             holding' \in BOOLEAN, down' \in BOOLEAN, pc' = "exit" \/ holding' = TRUE
      PROVE  PollInv'
  <2>0. fate \in [Fates -> SUBSET (1..arrived)] /\ (IF acks THEN {} ELSE ev) \in SUBSET (1..arrived)
    BY <1>0, <1>4 DEF Ranges
  <2>1. /\ fate' \in [Fates -> SUBSET (1..arrived)]
        /\ fate'.told = fate.told \cup (IF acks THEN {} ELSE ev)
        /\ fate'.handed = fate.handed /\ fate'.read = fate.read /\ fate'.died = fate.died
        /\ fate'.dismissed = fate.dismissed /\ fate'.omitted = fate.omitted
    BY <1>6, <2>0, Marked DEF Fates
  <2>2. Flags' BY <1>0, <1>2, <1>6 DEF Flags
  <2>3. Ranges' BY <1>0, <1>2, <1>3, <1>4, <1>6, <2>1 DEF Ranges, PCs
  <2>4. (acks => 1..cursor \subseteq fate.handed \cup fate.dismissed \cup fate.omitted)'
    BY <1>0, <1>2, <2>1
  <2>5. InOrder' BY <1>0, <1>2, <1>6, <2>1 DEF InOrder
  <2>6. Reported' BY <1>0, <1>2, <1>3, <1>6, <2>1 DEF Reported
  <2>7. Somewhere'
    <3>1. ~acks => ev = held BY <1>1, <1>2 DEF ev
    <3> QED BY <1>0, <1>2, <1>6, <2>1, <3>1 DEF Somewhere, Handing
  <2>8. Paced' BY <1>0, <1>2, <1>6 DEF Paced
  <2> QED BY <1>3, <2>2, <2>3, <2>4, <2>5, <2>6, <2>7, <2>8, TypeParts
          DEF PollInv, CursorPassesNothingUnseen, TypeOK, Flags, Ranges
<1>7. ASSUME acks => bad = {},
             fate' = [fate EXCEPT !.told = @ \cup bad, !.omitted = @ \cup tr, !.dismissed = @ \cup sk],
             holding' = (bad # {}), down' = FALSE,
             batch' = ev \ bad, skips' = sk, acking' = TRUE,
             pc' = IF ev \ bad # {} THEN "hand" ELSE IF sk # {} THEN "skip" ELSE "top"
      PROVE  PollInv'
  <2>1. /\ fate' \in [Fates -> SUBSET (1..arrived)]
        /\ fate'.told = fate.told \cup bad
        /\ fate'.handed = fate.handed /\ fate'.read = fate.read /\ fate'.died = fate.died
        /\ fate'.dismissed = fate.dismissed \cup sk /\ fate'.omitted = fate.omitted \cup tr
    BY <1>0, <1>4, <1>7 DEF Fates, Ranges
  <2>2. Flags' BY <1>0, <1>2, <1>7 DEF Flags
  <2>3. Ranges' BY <1>0, <1>2, <1>3, <1>4, <1>7, <2>1 DEF Ranges, PCs
  <2>4. (acks => 1..cursor \subseteq fate.handed \cup fate.dismissed \cup fate.omitted)'
    BY <1>0, <1>2, <2>1
  <2>5. InOrder'
    <3>1. ASSUME acks, NEW m \in batch' \cup skips', NEW j \in 1..m
          PROVE  j \in batch' \cup fate'.handed \cup fate'.dismissed \cup fate'.omitted
      <4>1. j \in 1..arrived BY <1>1, <1>4, <1>7, <3>1
      <4>2. j \in 1..cursor \/ j \in Found BY <1>1, <3>1, <4>1
      <4>3. j \in Found => j \in ev \cup sk \cup tr BY DEF ev
      <4> QED BY <1>0, <1>7, <2>1, <3>1, <4>2, <4>3
    <3>2. pc' # "ack" /\ (pc' = "skip" => acks' /\ batch' = {}) BY <1>0, <1>2, <1>7 DEF Flags
    <3>3. skips' \subseteq fate'.dismissed BY <1>7, <2>1
    <3> QED BY <1>2, <3>1, <3>2, <3>3 DEF InOrder
  <2>6. Reported' BY <1>0, <1>2, <1>3, <1>7, <2>1 DEF Reported
  <2>7. Somewhere'
    <3>1. ~acks => ev = held BY <1>1, <1>2 DEF ev
    <3>2. pc' # "ended" /\ (batch' # {} => Handing') BY <1>7 DEF Handing
    <3> QED BY <1>0, <1>2, <1>7, <2>1, <3>1, <3>2 DEF Somewhere, Handing
  <2>8. Paced'
    <3>1. ASSUME acks, NEW m \in unpaced' PROVE m <= cursor' \/ (pc' = "hand" /\ m \in batch')
      <4>1. m \in unpaced => m <= cursor BY <1>0, <1>2, <3>1 DEF Paced, Handing
      <4>2. m \in ev => m \in batch' /\ pc' = "hand" BY <1>7, <3>1
      <4> QED BY <1>2, <3>1, <4>1, <4>2
    <3> QED BY <1>2, <1>7, <3>1 DEF Paced, Handing
  <2> QED BY <1>3, <2>2, <2>3, <2>4, <2>5, <2>6, <2>7, <2>8, TypeParts
          DEF PollInv, CursorPassesNothingUnseen, TypeOK, Flags, Ranges
<1> QED BY <1>0, <1>5, <1>6, <1>7 DEF Flags

LEMMA PollInvInit == Init => PollInv
<1> SUFFICES ASSUME Init PROVE PollInv
  OBVIOUS
<1>1. Flags BY DEF Init, Flags
<1>2. Unread = {} /\ Len(buffer) = 0 /\ buffer \in Seq(Ids)
  BY DEF Init, Unread
<1>3. Ranges BY <1>2, PolledAssumption DEF Init, Ranges, PCs, Fates
<1>4. Buffered /\ InOrder /\ Reported /\ Somewhere /\ Paced
  BY <1>2 DEF Init, Buffered, InOrder, Reported, Somewhere, Paced, Handing, SlotHeld, Fates
<1>5. acks => 1..cursor \subseteq fate.handed \cup fate.dismissed \cup fate.omitted
  BY DEF Init
<1> QED BY <1>1, <1>3, <1>4, <1>5, TypeParts DEF PollInv, CursorPassesNothingUnseen

LEMMA PollInvNext == PollInv /\ [Next]_vars => PollInv'
<1> SUFFICES ASSUME PollInv, [Next]_vars PROVE PollInv'
  OBVIOUS
<1>1. CASE poll
  BY <1>1, PollKeeps DEF poll
<1>2. CASE Next /\ ~poll
  <2>1. TypeOK' BY <1>2, FlagTypes, Types DEF TypeOK, Flags, Ranges
  <2> QED BY <1>2, <2>1, Cursors, Buffers, Orders, Reports, Places, Paces
          DEF PollInv, CursorPassesNothingUnseen
<1>3. CASE UNCHANGED vars
  <2> USE <1>3 DEF vars, source, thread, ledger
  <2>1. Unread' = Unread BY DEF Unread
  <2>2. TypeOK' BY <2>1 DEF PollInv, CursorPassesNothingUnseen, TypeOK
  <2>3. Buffered' /\ InOrder' BY DEF PollInv, Buffered, InOrder, SlotHeld
  <2>4. Reported' /\ Somewhere' /\ Paced'
    BY <2>1 DEF PollInv, Reported, Somewhere, Paced, Handing
  <2> QED BY <2>2, <2>3, <2>4 DEF PollInv, CursorPassesNothingUnseen
<1> QED BY <1>1, <1>2, <1>3

-----------------------------------------------------------------------------
(* Theorems. *)

\* The state of the polled driver (polled_driver.rs with its ack, undecodable and
\* drop modules) satisfies the inductive invariant in every behaviour.
THEOREM PolledInvariant == Spec => []PollInv
  BY PollInvInit, PollInvNext, PTL DEF Spec

\* The types hold, and the mail store's one cursor, which every ack moves to the
\* acked message if it is ahead, passes only messages the bus accepted or the
\* worker itself left out, whatever ack is refused or lost with its worker.
THEOREM CursorIsHonest == Spec => []CursorPassesNothingUnseen
<1>1. PollInv => CursorPassesNothingUnseen
  BY DEF PollInv
<1> QED BY <1>1, PolledInvariant, PTL

\* When the bus has stopped and the thread has ended, each message was read, will
\* be redelivered, was left out by the worker or is covered by a report, however
\* the close of the buffer fell between a slot, its message and the drain.
THEOREM LossIsReported == Spec => []NothingLostSilently
<1>1. PollInv => NothingLostSilently
  <2> SUFFICES ASSUME PollInv, pc = "ended", bus = "gone", NEW m \in 1..arrived
               PROVE  \/ m \in fate.read \cup fate.told \cup fate.died \cup fate.dismissed
                                \cup fate.omitted
                      \/ Redeliverable(m)
                      \/ uncounted /\ m \in held
    BY DEF NothingLostSilently
  <2>1. /\ arrived \in Nat /\ cursor \in Nat /\ acks \in BOOLEAN
        /\ Buffered /\ Reported /\ Somewhere
        /\ acks => 1..cursor \subseteq fate.handed \cup fate.dismissed \cup fate.omitted
    BY PolledAssumption DEF PollInv, CursorPassesNothingUnseen, TypeOK
  <2>2. Unread = {}
    BY <2>1 DEF Buffered, Unread
  <2>3. fate.handed \subseteq fate.read \cup fate.told
    BY <2>1, <2>2 DEF Reported
  <2>4. CASE acks
    BY <2>1, <2>3, <2>4 DEF Redeliverable
  <2>5. CASE ~acks
    BY <2>1, <2>3, <2>5 DEF Somewhere, Handing
  <2> QED BY <2>1, <2>4, <2>5
<1> QED BY <1>1, PolledInvariant, PTL

\* No event is polled a second time before the driver has waited: the poll that
\* follows a refused ack or an undecodable batch is held, and one that follows a
\* dead worker has its respawn to wait for.
THEOREM RedeliveryWaits == Spec => RedeliveryPaced
<1> DEFINE A == pc = "poll" /\ pc' = "hand" => batch' \cap unpaced = {}
<1>1. PollInv /\ [Next]_vars => [A]_vars
  <2> SUFFICES ASSUME PollInv, Next, pc = "poll", pc' = "hand" PROVE batch' \cap unpaced = {}
    OBVIOUS
  <2>1. poll
    BY DEF Next, Stop, Driver, arrive, worker_dies, respawn, recv, close, drain_unread, drop_outbound,
       elapse, flush, poll_not_made, poll_refused, slice, refused, take_slot, send_lands, ack_event,
       ack_skipped, drain_worker_on_exit
  <2>2. /\ batch' \subseteq Found /\ ~holding /\ worker = "up"
    BY <2>1 DEF poll, poll_answered, thread
  <2>3. Found \cap unpaced = {}
    BY <2>2, TypeParts, FoundIsNew DEF PollInv, CursorPassesNothingUnseen
  <2> QED BY <2>2, <2>3
<1>2. RedeliveryPaced <=> [][A]_vars
  BY PTL DEF RedeliveryPaced
<1> HIDE DEF A
<1> QED BY <1>1, <1>2, PolledInvariant, PTL DEF Spec
=============================================================================
