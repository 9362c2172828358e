---------------------------- MODULE ReplyBusProofs ----------------------------
(* A reply goes out at most once, one that is lost is accounted for, and so is *)
(* every ask, for any number of tasks, buses, asks and faults.                 *)
EXTENDS ReplyBus, FiniteSetTheorems, WellFoundedInduction, TLAPS

(* The inductive invariant. *)

\* The channel pump of b has won t's claim and will hand t to the transport.
Holder(b, t) ==
  /\ ditem[b] = t
  /\ dpc[b] = "send" \/ (dpc[b] = "claim" /\ stmt[<<b, "routed">>] = "won")

\* A pump of b does not know whether its claim d on t ran.
Unsure(b, t, d) ==
  \/ d = "routed" /\ dpc[b] = "reread" /\ ditem[b] = t
  \/ d = "unroutable" /\ rpc[b] = "reread" /\ rtask[b] = t

\* A pump of b will still send t or put its loss on record.
Owes(b, t) ==
  \/ Holder(b, t)
  \/ \E d \in Dispositions : Unsure(b, t, d)
  \/ rpc[b] = "claim" /\ stmt[<<b, "unroutable">>] = "won" /\ rtask[b] = t

OnRecord(t) == t \in said \/ t \in behind \/ t \in crashed

Shape ==
  /\ settled \in [Tasks -> {"none"} \cup Dispositions]
  /\ sent \in [Tasks -> {0, 1}]
  /\ up \in [Buses -> {"up", "stopping", "down"}]
  /\ rpc \in [Buses -> RouterPCs]
  /\ dpc \in [Buses -> DeliverPCs]
  /\ stmt \in [Buses \X Dispositions -> {"none", "sent", "won", "lost"}]
  /\ DOMAIN rtask = Buses /\ DOMAIN ditem = Buses

\* A claim is with the server only while its pump waits for it, and a bus that is
\* down has no pumps.
Waits(b) ==
  /\ stmt[<<b, "routed">>] # "none" => dpc[b] = "claim"
  /\ stmt[<<b, "unroutable">>] # "none" => rpc[b] = "claim"
  /\ up[b] = "down" => rpc[b] = "ended" /\ dpc[b] = "ended"
Waiting == \A b \in Buses : Waits(b)

\* The claim has one winner, which has not sent yet.
OneHolder ==
  /\ \A t \in Tasks : sent[t] = 1 => settled[t] # "none"
  /\ \A b \in Buses, t \in Tasks :
       Holder(b, t) => settled[t] # "none" /\ sent[t] = 0
  /\ \A b, c \in Buses, t \in Tasks : Holder(b, t) /\ Holder(c, t) => b = c

\* A settled reply was sent, is on record, or some pump owes it; so is one with
\* a claim left behind at the server.
Owed ==
  /\ \A t \in Tasks :
       settled[t] # "none" => sent[t] = 1 \/ OnRecord(t) \/ \E b \in Buses : Owes(b, t)
  /\ \A t \in Tasks, d \in Dispositions :
       <<t, d>> \in orphans => OnRecord(t) \/ \E b \in Buses : Unsure(b, t, d)

BusInv == Shape /\ Waiting /\ OneHolder /\ Owed

-----------------------------------------------------------------------------
\* Nothing is claimed, sent or owed when the daemon first starts.
LEMMA BusInit == Init => BusInv
<1> SUFFICES ASSUME Init PROVE BusInv
  OBVIOUS
<1>1. Shape
  BY DEF Init, Shape, RouterPCs, DeliverPCs
<1>2. \A b \in Buses : <<b, "routed">> \in Buses \X Dispositions
                       /\ <<b, "unroutable">> \in Buses \X Dispositions
  BY DEF Dispositions
<1>3. Waiting
  BY <1>2 DEF Init, Waiting, Waits
<1>4. OneHolder
  BY <1>2 DEF Init, OneHolder, Holder
<1>5. Owed
  BY DEF Init, Owed
<1>6. QED
  BY <1>1, <1>3, <1>4, <1>5 DEF BusInv

\* A step of one bus keeps Waiting if that bus does.
LEMMA WaitingMoves ==
  ASSUME Waiting, NEW b \in Buses, Waits(b)',
         \A c \in Buses : c # b =>
           /\ rpc'[c] = rpc[c] /\ dpc'[c] = dpc[c] /\ up'[c] = up[c]
           /\ stmt'[<<c, "routed">>] = stmt[<<c, "routed">>]
           /\ stmt'[<<c, "unroutable">>] = stmt[<<c, "unroutable">>]
  PROVE  Waiting'
  BY DEF Waiting, Waits

-----------------------------------------------------------------------------
(* The completed-task pump. *)

claimVars == <<settled, sent, up, dpc, ditem, stmt, orphans, said, behind, crashed>>

\* A step of the completed-task pump between two claims disturbs nothing.
LEMMA RouterMoves ==
  ASSUME BusInv, NEW b \in Buses, UNCHANGED claimVars,
         rpc[b] \notin {"ended", "claim", "reread"},
         rpc' \in [Buses -> RouterPCs], rpc'[b] \notin {"claim", "reread"},
         DOMAIN rtask' = Buses,
         \A c \in Buses : c # b => rpc'[c] = rpc[c] /\ rtask'[c] = rtask[c]
  PROVE  BusInv'
<1>1. \A c \in Buses : \A t, d : Unsure(c, t, d)' <=> Unsure(c, t, d)
  BY DEF Unsure, claimVars
<1>2. \A c \in Buses : \A t : Holder(c, t)' <=> Holder(c, t)
  BY DEF Holder, claimVars
<1>3. \A c \in Buses : \A t : Owes(c, t)' <=> Owes(c, t)
  BY <1>1, <1>2 DEF Owes, claimVars
<1>4. Shape'
  BY DEF BusInv, Shape, claimVars
<1>5. Waiting'
  <2>1. Waits(b)'
    BY DEF BusInv, Waiting, Waits, claimVars
  <2>2. QED
    BY <2>1, WaitingMoves DEF BusInv, claimVars
<1>6. OneHolder'
  BY <1>2 DEF BusInv, OneHolder, claimVars
<1>7. Owed'
  BY <1>1, <1>3 DEF BusInv, Owed, OnRecord, claimVars
<1>8. QED
  BY <1>4, <1>5, <1>6, <1>7 DEF BusInv

\* What the return of route_one does to the pump.
LEMMA RoutedMoves ==
  ASSUME Shape, NEW b \in Buses, routed(b)
  PROVE  /\ rpc' \in [Buses -> RouterPCs] /\ rpc'[b] \notin {"claim", "reread", "ended"}
         /\ DOMAIN rtask' = Buses
         /\ \A c \in Buses : c # b => rpc'[c] = rpc[c] /\ rtask'[c] = rtask[c]
  BY DEF Shape, routed, RouterPCs

\* next_completed, the select!'s other exits, the sweep and the push.
LEMMA RoutingSteps ==
  ASSUME BusInv, NEW b \in Buses,
         next_completed(b) \/ listener_error(b) \/ sweep_tick(b) \/ unsettled(b)
         \/ unsettled_error(b) \/ load_error(b) \/ push(b)
  PROVE  BusInv'
<1> USE DEF claimVars
<1>0. Shape
  BY DEF BusInv
<1>1. CASE next_completed(b)
  BY <1>0, <1>1, RouterMoves DEF next_completed, Shape, RouterPCs, db, deliverer, claims, history
<1>2. CASE listener_error(b)
  BY <1>0, <1>2, RouterMoves DEF listener_error, Shape, RouterPCs, db, deliverer, claims, history
<1>3. CASE sweep_tick(b)
  BY <1>0, <1>3, RouterMoves DEF sweep_tick, Shape, RouterPCs, db, deliverer, claims, history
<1>4. CASE unsettled(b)
  BY <1>0, <1>4, RouterMoves DEF unsettled, Shape, RouterPCs, db, deliverer, claims, history
<1>5. CASE unsettled_error(b)
  BY <1>0, <1>5, RouterMoves DEF unsettled_error, Shape, RouterPCs, db, deliverer, claims, history
<1>6. CASE load_error(b)
  BY <1>0, <1>6, RoutedMoves, RouterMoves DEF load_error, db, deliverer, claims, history
<1>7. CASE push(b)
  BY <1>0, <1>7, RoutedMoves, RouterMoves DEF push, db, deliverer, claims, history
<1>8. QED
  BY <1>1, <1>2, <1>3, <1>4, <1>5, <1>6, <1>7

\* The claims of the two pumps are different entries of stmt.
LEMMA StmtAt ==
  \A b \in Buses, d \in Dispositions : <<b, d>> \in Buses \X Dispositions
  OBVIOUS

LEMMA RouteOne == ASSUME BusInv, NEW b \in Buses, route_one(b) PROVE BusInv'
<1> USE DEF claimVars
<1>0. Shape /\ "unroutable" \in Dispositions /\ "routed" \in Dispositions
  BY DEF BusInv, Dispositions
<1>1. CASE Origin[rtask[b]] = b /\ rpc' = [rpc EXCEPT ![b] = "push"]
           /\ UNCHANGED <<rtask, page, more, after, stmt>>
  BY <1>0, <1>1, RouterMoves DEF route_one, Shape, RouterPCs, db, deliverer, history
<1>2. CASE routed(b) /\ UNCHANGED stmt
  BY <1>0, <1>2, RoutedMoves, RouterMoves DEF route_one, db, deliverer, history
<1>3. CASE /\ rpc' = [rpc EXCEPT ![b] = "claim"]
           /\ stmt' = [stmt EXCEPT ![<<b, "unroutable">>] = "sent"]
           /\ UNCHANGED <<rtask, page, more, after>>
  <2>1. /\ UNCHANGED <<settled, sent, up, dpc, ditem, rtask, orphans, said, behind, crashed>>
        /\ rpc[b] = "load"
    BY <1>3 DEF route_one, db, deliverer, history
  <2>2. Shape'
    BY <1>0, <1>3, <2>1 DEF Shape, RouterPCs
  <2>3. \A c \in Buses : stmt'[<<c, "routed">>] = stmt[<<c, "routed">>]
                         /\ (c # b => stmt'[<<c, "unroutable">>] = stmt[<<c, "unroutable">>])
    BY <1>0, <1>3, StmtAt DEF Shape
  <2>4. stmt'[<<b, "unroutable">>] = "sent" /\ rpc'[b] = "claim"
        /\ \A c \in Buses : c # b => rpc'[c] = rpc[c]
    BY <1>0, <1>3, StmtAt DEF Shape
  <2>5. \A c \in Buses : \A t : Holder(c, t)' <=> Holder(c, t)
    BY <2>1, <2>3 DEF Holder
  <2>6. \A c \in Buses : \A t, d : Unsure(c, t, d)' <=> Unsure(c, t, d)
    BY <2>1, <2>4 DEF Unsure
  <2>7. \A c \in Buses : \A t : Owes(c, t)' <=> Owes(c, t)
    BY <2>1, <2>3, <2>4, <2>5, <2>6 DEF Owes
  <2>8. Waiting'
    BY <2>1, <2>3, <2>4 DEF BusInv, Waiting, Waits
  <2>9. OneHolder'
    BY <2>1, <2>5 DEF BusInv, OneHolder
  <2>10. Owed'
    BY <2>1, <2>6, <2>7 DEF BusInv, Owed, OnRecord
  <2>11. QED
    BY <2>2, <2>8, <2>9, <2>10 DEF BusInv
<1>4. QED
  BY <1>1, <1>2, <1>3 DEF route_one

\* settle_unroutable: what its claim won it puts on record before it moves on.
LEMMA SettleUnroutable == ASSUME BusInv, NEW b \in Buses, settle_unroutable(b) PROVE BusInv'
<1>0. Shape /\ "unroutable" \in Dispositions /\ "routed" \in Dispositions
  BY DEF BusInv, Dispositions
<1>1. /\ UNCHANGED <<settled, sent, up, dpc, ditem, orphans, behind, crashed>>
      /\ rpc[b] = "claim" /\ routed(b)
      /\ stmt[<<b, "unroutable">>] = "won" => rtask[b] \in said'
      /\ said \subseteq said'
      /\ stmt' = [stmt EXCEPT ![<<b, "unroutable">>] = "none"]
  BY DEF settle_unroutable, db, deliverer
<1>2. /\ rpc' \in [Buses -> RouterPCs] /\ rpc'[b] \notin {"claim", "reread", "ended"}
      /\ DOMAIN rtask' = Buses
      /\ \A c \in Buses : c # b => rpc'[c] = rpc[c] /\ rtask'[c] = rtask[c]
  BY <1>0, <1>1, RoutedMoves
<1>3. /\ \A c \in Buses : stmt'[<<c, "routed">>] = stmt[<<c, "routed">>]
                         /\ (c # b => stmt'[<<c, "unroutable">>] = stmt[<<c, "unroutable">>])
      /\ stmt'[<<b, "unroutable">>] = "none"
  BY <1>0, <1>1, StmtAt DEF Shape
<1>4. Shape'
  BY <1>0, <1>1, <1>2 DEF Shape
<1>5. \A c \in Buses : \A t : Holder(c, t)' <=> Holder(c, t)
  BY <1>1, <1>3 DEF Holder
<1>6. \A c \in Buses : \A t, d : Unsure(c, t, d) => Unsure(c, t, d)'
  BY <1>1, <1>2 DEF Unsure
<1>7. \A c \in Buses : \A t : Owes(c, t) => Owes(c, t)' \/ t \in said'
  BY <1>1, <1>2, <1>3, <1>5, <1>6 DEF Owes
<1>8. Waiting'
  <2>1. Waits(b)'
    BY <1>1, <1>2, <1>3 DEF BusInv, Waiting, Waits
  <2>2. QED
    BY <1>1, <1>2, <1>3, <2>1, WaitingMoves DEF BusInv
<1>9. OneHolder'
  BY <1>1, <1>5 DEF BusInv, OneHolder
<1>10. Owed'
  BY <1>1, <1>6, <1>7 DEF BusInv, Owed, OnRecord
<1>11. QED
  BY <1>4, <1>8, <1>9, <1>10 DEF BusInv

\* A failed claim of the completed-task pump leaves it unsure.
LEMMA SettleUnroutableError ==
  ASSUME BusInv, NEW b \in Buses, settle_unroutable_error(b) PROVE BusInv'
<1>0. Shape /\ "unroutable" \in Dispositions /\ "routed" \in Dispositions
  BY DEF BusInv, Dispositions
<1>1. /\ UNCHANGED <<settled, sent, up, dpc, ditem, rtask, said, behind, crashed>>
      /\ rpc[b] = "claim" /\ rpc' = [rpc EXCEPT ![b] = "reread"]
      /\ stmt' = [stmt EXCEPT ![<<b, "unroutable">>] = "none"]
      /\ orphans' = orphans \cup Abandoned({<<b, "unroutable">>})
  BY DEF settle_unroutable_error, db, deliverer, history
<1>2. \A t, d : <<t, d>> \in Abandoned({<<b, "unroutable">>}) => t = rtask[b] /\ d = "unroutable"
  BY DEF Abandoned, Claiming
<1>3. /\ \A c \in Buses : stmt'[<<c, "routed">>] = stmt[<<c, "routed">>]
                         /\ (c # b => stmt'[<<c, "unroutable">>] = stmt[<<c, "unroutable">>])
      /\ stmt'[<<b, "unroutable">>] = "none"
      /\ \A c \in Buses : c # b => rpc'[c] = rpc[c]
      /\ rpc'[b] = "reread"
  BY <1>0, <1>1, StmtAt DEF Shape
<1>4. Shape'
  BY <1>0, <1>1 DEF Shape, RouterPCs
<1>5. \A c \in Buses : \A t : Holder(c, t)' <=> Holder(c, t)
  BY <1>1, <1>3 DEF Holder
<1>6. \A c \in Buses : \A t, d : Unsure(c, t, d) => Unsure(c, t, d)'
  BY <1>1, <1>3 DEF Unsure
<1>7. \A t : t = rtask[b] => Unsure(b, t, "unroutable")'
  BY <1>1, <1>3 DEF Unsure
<1>8. \A c \in Buses : \A t : Owes(c, t) => Owes(c, t)'
  BY <1>0, <1>1, <1>3, <1>5, <1>6, <1>7 DEF Owes
<1>9. Waiting'
  <2>1. Waits(b)'
    BY <1>1, <1>3 DEF BusInv, Waiting, Waits
  <2>2. QED
    BY <1>1, <1>3, <2>1, WaitingMoves DEF BusInv
<1>10. OneHolder'
  BY <1>1, <1>5 DEF BusInv, OneHolder
<1>11. Owed'
  <2>1. \A t \in Tasks : (settled[t] # "none")' =>
          (sent[t] = 1 \/ OnRecord(t) \/ \E c \in Buses : Owes(c, t))'
    BY <1>1, <1>8 DEF BusInv, Owed, OnRecord
  <2>2. \A t \in Tasks, d \in Dispositions : (<<t, d>> \in orphans)' =>
          (OnRecord(t) \/ \E c \in Buses : Unsure(c, t, d))'
    <3> TAKE t \in Tasks, d \in Dispositions
    <3> HAVE (<<t, d>> \in orphans)'
    <3>1. CASE <<t, d>> \in orphans
      BY <3>1, <1>1, <1>6 DEF BusInv, Owed, OnRecord
    <3>2. CASE <<t, d>> \in Abandoned({<<b, "unroutable">>})
      BY <3>2, <1>2, <1>7
    <3>3. QED
      BY <3>1, <3>2, <1>1
  <2>3. QED
    BY <2>1, <2>2 DEF Owed
<1>12. QED
  BY <1>4, <1>9, <1>10, <1>11 DEF BusInv

\* The re-read: a settled task is on record, and so is a claim still to run.
LEMMA SettleUnroutableReread ==
  ASSUME BusInv, NEW b \in Buses, settle_unroutable_reread(b) PROVE BusInv'
<1>0. Shape
  BY DEF BusInv
<1>1. /\ UNCHANGED <<settled, sent, up, dpc, ditem, stmt, orphans, crashed>>
      /\ rpc[b] = "reread" /\ routed(b)
      /\ said \subseteq said' /\ behind \subseteq behind'
      /\ \/ rtask[b] \in said' \/ rtask[b] \in behind'
         \/ settled[rtask[b]] = "none" /\ <<rtask[b], "unroutable">> \notin orphans
  BY DEF settle_unroutable_reread, db, deliverer, claims
<1>2. /\ rpc' \in [Buses -> RouterPCs] /\ rpc'[b] \notin {"claim", "reread", "ended"}
      /\ DOMAIN rtask' = Buses
      /\ \A c \in Buses : c # b => rpc'[c] = rpc[c] /\ rtask'[c] = rtask[c]
  BY <1>0, <1>1, RoutedMoves
<1>3. Shape'
  BY <1>0, <1>1, <1>2 DEF Shape
<1>4. \A c \in Buses : \A t : Holder(c, t)' <=> Holder(c, t)
  BY <1>1 DEF Holder
<1>5. \A c \in Buses : \A t, d : Unsure(c, t, d) =>
        Unsure(c, t, d)' \/ (t = rtask[b] /\ d = "unroutable")
  BY <1>1, <1>2 DEF Unsure
<1>6. \A c \in Buses : \A t : Owes(c, t) => Owes(c, t)' \/ t = rtask[b]
  BY <1>1, <1>2, <1>4, <1>5 DEF Owes
<1>7. Waiting'
  <2>1. Waits(b)'
    BY <1>1, <1>2 DEF BusInv, Waiting, Waits
  <2>2. QED
    BY <1>1, <1>2, <2>1, WaitingMoves DEF BusInv
<1>8. OneHolder'
  BY <1>1, <1>4 DEF BusInv, OneHolder
<1>9. Owed'
  <2>1. \A t \in Tasks : (settled[t] # "none")' =>
          (sent[t] = 1 \/ OnRecord(t) \/ \E c \in Buses : Owes(c, t))'
    BY <1>1, <1>6 DEF BusInv, Owed, OnRecord
  <2>2. \A t \in Tasks, d \in Dispositions : (<<t, d>> \in orphans)' =>
          (OnRecord(t) \/ \E c \in Buses : Unsure(c, t, d))'
    BY <1>1, <1>5 DEF BusInv, Owed, OnRecord
  <2>3. QED
    BY <2>1, <2>2 DEF Owed
<1>10. QED
  BY <1>3, <1>7, <1>8, <1>9 DEF BusInv

-----------------------------------------------------------------------------
(* The claim. *)

\* The server settles a reply that nobody has settled: its winner owes it now.
LEMMA ClaimReply ==
  ASSUME BusInv, NEW b \in Buses, NEW d \in Dispositions, claim_reply(b, d)
  PROVE  BusInv'
<1> DEFINE T == Claiming(b, d)
<1>0. Shape /\ Waiting /\ "unroutable" \in Dispositions /\ "routed" \in Dispositions
  BY DEF BusInv, Dispositions
<1>1. /\ UNCHANGED <<sent, up, rpc, rtask, dpc, ditem, orphans, said, behind, crashed>>
      /\ stmt[<<b, d>>] = "sent"
      /\ \/ /\ settled[T] = "none" /\ settled' = [settled EXCEPT ![T] = d]
            /\ stmt' = [stmt EXCEPT ![<<b, d>>] = "won"]
         \/ settled' = settled /\ stmt' = [stmt EXCEPT ![<<b, d>>] = "lost"]
  BY DEF claim_reply, settleable, router, deliverer, history
<1>2. Shape'
  <2>1. settled' \in [Tasks -> {"none"} \cup Dispositions]
    BY <1>0, <1>1 DEF Shape
  <2>2. stmt' \in [Buses \X Dispositions -> {"none", "sent", "won", "lost"}]
    BY <1>0, <1>1 DEF Shape
  <2>3. QED
    BY <1>0, <1>1, <2>1, <2>2 DEF Shape
<1>3. /\ \A c \in Buses, e \in Dispositions :
           c # b \/ e # d => stmt'[<<c, e>>] = stmt[<<c, e>>]
      /\ stmt'[<<b, d>>] \in {"won", "lost"}
      /\ stmt'[<<b, d>>] = "won" => settled[T] = "none" /\ settled' = [settled EXCEPT ![T] = d]
      /\ stmt'[<<b, d>>] = "lost" => settled' = settled
  BY <1>0, <1>1, StmtAt DEF Shape
<1>4. \/ d = "routed" /\ T = ditem[b] /\ dpc[b] = "claim"
      \/ d = "unroutable" /\ T = rtask[b] /\ rpc[b] = "claim"
  <2>1. CASE d = "routed"
    BY <1>0, <1>1, <2>1 DEF Waiting, Waits, Claiming
  <2>2. CASE d = "unroutable"
    BY <1>0, <1>1, <2>2 DEF Waiting, Waits, Claiming
  <2>3. QED
    BY <2>1, <2>2 DEF Dispositions
<1>5. \A t \in Tasks : settled'[t] = settled[t]
                       \/ (t = T /\ settled[t] = "none" /\ settled'[t] = d /\ stmt'[<<b, d>>] = "won")
  BY <1>0, <1>3 DEF Shape
<1>6. \A c \in Buses, t \in Tasks :
        Holder(c, t)' => Holder(c, t) \/ (c = b /\ t = T /\ d = "routed" /\ stmt'[<<b, d>>] = "won")
  BY <1>0, <1>1, <1>3, <1>4 DEF Holder
<1>7. \A c \in Buses : \A t : Holder(c, t) => Holder(c, t)'
  BY <1>0, <1>1, <1>3 DEF Holder
<1>8. \A c \in Buses : \A t, e : Unsure(c, t, e)' <=> Unsure(c, t, e)
  BY <1>1 DEF Unsure
<1>9. \A c \in Buses : \A t : Owes(c, t) => Owes(c, t)'
  BY <1>0, <1>1, <1>3, <1>7, <1>8 DEF Owes
<1>10. \A t : t = T /\ stmt'[<<b, d>>] = "won" => Owes(b, t)'
  BY <1>1, <1>4 DEF Owes, Holder
<1>11. d # "none" /\ \A t \in Tasks : sent[t] \in {0, 1}
  BY <1>0 DEF Dispositions, Shape
<1>12. Waiting'
  BY <1>0, <1>1, <1>3, <1>4 DEF Waiting, Waits
<1>13. OneHolder'
  <2>1. \A t \in Tasks : (sent[t] = 1 => settled[t] # "none")'
    BY <1>1, <1>5, <1>11 DEF BusInv, OneHolder
  <2>2. \A c \in Buses, t \in Tasks : (Holder(c, t) => settled[t] # "none" /\ sent[t] = 0)'
    <3> TAKE c \in Buses, t \in Tasks
    <3> HAVE Holder(c, t)'
    <3>1. CASE Holder(c, t)
      BY <3>1, <1>1, <1>5, <1>11 DEF BusInv, OneHolder
    <3>2. CASE t = T /\ stmt'[<<b, d>>] = "won"
      <4>1. settled[t] = "none" /\ settled'[t] = d
        BY <3>2, <1>0, <1>3 DEF Shape
      <4>2. sent[t] = 0
        BY <4>1, <1>11 DEF BusInv, OneHolder
      <4>3. QED
        BY <4>1, <4>2, <1>1, <1>11
    <3>3. QED
      BY <3>1, <3>2, <1>6
  <2>3. \A c, e \in Buses, t \in Tasks : (Holder(c, t) /\ Holder(e, t) => c = e)'
    BY <1>3, <1>6 DEF BusInv, OneHolder
  <2>4. QED
    BY <2>1, <2>2, <2>3 DEF OneHolder
<1>14. Owed'
  <2>1. \A t \in Tasks : (settled[t] # "none")' =>
          (sent[t] = 1 \/ OnRecord(t) \/ \E c \in Buses : Owes(c, t))'
    <3> TAKE t \in Tasks
    <3> HAVE (settled[t] # "none")'
    <3>1. CASE settled'[t] = settled[t]
      BY <3>1, <1>1, <1>9 DEF BusInv, Owed, OnRecord
    <3>2. CASE t = T /\ stmt'[<<b, d>>] = "won"
      BY <3>2, <1>10
    <3>3. QED
      BY <3>1, <3>2, <1>5
  <2>2. \A t \in Tasks, e \in Dispositions : (<<t, e>> \in orphans)' =>
          (OnRecord(t) \/ \E c \in Buses : Unsure(c, t, e))'
    BY <1>1, <1>8 DEF BusInv, Owed, OnRecord
  <2>3. QED
    BY <2>1, <2>2 DEF Owed
<1>15. QED
  BY <1>2, <1>12, <1>13, <1>14 DEF BusInv

\* A claim left behind: whoever left it is unsure of it or has recorded it.
LEMMA ClaimReplyOrphaned ==
  ASSUME BusInv, NEW t \in Tasks, NEW d \in Dispositions, claim_reply_orphaned(t, d)
  PROVE  BusInv'
<1>0. Shape /\ d # "none"
  BY DEF BusInv, Dispositions
<1>1. /\ UNCHANGED <<sent, up, rpc, rtask, dpc, ditem, stmt, said, behind, crashed>>
      /\ <<t, d>> \in orphans /\ orphans' \subseteq orphans
      /\ settled' = settled \/ settled' = [settled EXCEPT ![t] = d]
  BY DEF claim_reply_orphaned, router, deliverer, history
<1>2. Shape'
  BY <1>0, <1>1 DEF Shape
<1>3. \A u \in Tasks : settled'[u] = settled[u] \/ (u = t /\ settled'[u] = d)
  BY <1>0, <1>1 DEF Shape
<1>4. /\ \A c \in Buses : \A u : (Holder(c, u)' <=> Holder(c, u)) /\ (Owes(c, u)' <=> Owes(c, u))
      /\ \A c \in Buses : \A u, e : Unsure(c, u, e)' <=> Unsure(c, u, e)
  BY <1>1 DEF Holder, Owes, Unsure
<1>5. Waiting'
  BY <1>1 DEF BusInv, Waiting, Waits
<1>6. OneHolder'
  BY <1>0, <1>1, <1>3, <1>4 DEF BusInv, OneHolder
<1>7. OnRecord(t) \/ \E c \in Buses : Owes(c, t)
  BY <1>1 DEF BusInv, Owed, Owes
<1>8. Owed'
  BY <1>1, <1>3, <1>4, <1>7 DEF BusInv, Owed, OnRecord
<1>9. QED
  BY <1>2, <1>5, <1>6, <1>8 DEF BusInv

-----------------------------------------------------------------------------
(* The channel pump. *)

\* A step that settles nothing keeps the invariant if it makes no new holder, a
\* debt it ends is paid or recorded, and a claim it leaves behind is known of.
LEMMA Debts ==
  ASSUME BusInv, Shape', Waiting', UNCHANGED settled,
         said \subseteq said', behind \subseteq behind', crashed \subseteq crashed',
         \A t \in Tasks : sent'[t] = sent[t] \/ (sent'[t] = 1 /\ settled[t] # "none"),
         \A c \in Buses, t \in Tasks : Holder(c, t)' => Holder(c, t) /\ sent'[t] = sent[t],
         \A c \in Buses, t \in Tasks :
           Owes(c, t) => settled[t] = "none" \/ sent'[t] = 1 \/ OnRecord(t)' \/ Owes(c, t)',
         \A t \in Tasks, d \in Dispositions : (<<t, d>> \in orphans)' =>
           (OnRecord(t) \/ \E c \in Buses : Unsure(c, t, d))'
  PROVE  BusInv'
<1>1. OneHolder'
  BY DEF BusInv, OneHolder
<1>2. \A t \in Tasks : OnRecord(t) => OnRecord(t)'
  BY DEF OnRecord
<1>3. \A t \in Tasks : (settled[t] # "none")' =>
        (sent[t] = 1 \/ OnRecord(t) \/ \E c \in Buses : Owes(c, t))'
  BY <1>2 DEF BusInv, Owed
<1>4. Owed'
  BY <1>3 DEF Owed
<1>5. QED
  BY <1>1, <1>4 DEF BusInv

\* An item taken off the queue is not claimed yet, or is an ask.
LEMMA Deliver == ASSUME BusInv, NEW b \in Buses, deliver(b) PROVE BusInv'
<1> DEFINE m == Head(queue[b])
<1>0. Shape /\ Waiting /\ "unroutable" \in Dispositions /\ "routed" \in Dispositions
  BY DEF BusInv, Dispositions
<1>1. /\ UNCHANGED <<settled, sent, up, rpc, rtask, orphans, said, behind, crashed>>
      /\ dpc[b] = "idle" /\ ditem' = [ditem EXCEPT ![b] = m]
      /\ \/ /\ m \in Tasks /\ dpc' = [dpc EXCEPT ![b] = "claim"]
            /\ stmt' = [stmt EXCEPT ![<<b, "routed">>] = "sent"]
         \/ /\ m \notin Tasks /\ dpc' = [dpc EXCEPT ![b] = "send"]
            /\ stmt' = stmt
  BY DEF deliver, db, router, history
<1>2. Shape'
  <2>1. dpc' \in [Buses -> DeliverPCs]
    BY <1>0, <1>1 DEF Shape, DeliverPCs
  <2>2. stmt' \in [Buses \X Dispositions -> {"none", "sent", "won", "lost"}]
    BY <1>0, <1>1 DEF Shape
  <2>3. QED
    BY <1>0, <1>1, <2>1, <2>2 DEF Shape
<1>3. /\ \A c \in Buses : stmt'[<<c, "unroutable">>] = stmt[<<c, "unroutable">>]
      /\ \A c \in Buses : c # b => /\ stmt'[<<c, "routed">>] = stmt[<<c, "routed">>]
                                   /\ dpc'[c] = dpc[c] /\ ditem'[c] = ditem[c]
      /\ ditem'[b] = m
      /\ \/ dpc'[b] = "claim" /\ stmt'[<<b, "routed">>] = "sent"
         \/ m \notin Tasks /\ dpc'[b] = "send" /\ stmt'[<<b, "routed">>] = stmt[<<b, "routed">>]
  BY <1>0, <1>1, StmtAt DEF Shape
<1>4. Waiting'
  <2>1. Waits(b)'
    BY <1>0, <1>1, <1>3 DEF Waiting, Waits
  <2>2. QED
    BY <1>0, <1>1, <1>3, <2>1, WaitingMoves
<1>5. \A c \in Buses, t \in Tasks : Holder(c, t)' <=> Holder(c, t)
  BY <1>1, <1>3 DEF Holder
<1>6. \A c \in Buses, t \in Tasks : \A d : Unsure(c, t, d)' <=> Unsure(c, t, d)
  BY <1>1, <1>3 DEF Unsure
<1>7. \A c \in Buses, t \in Tasks : Owes(c, t)' <=> Owes(c, t)
  BY <1>1, <1>3, <1>5, <1>6 DEF Owes
<1>8. OneHolder'
  BY <1>1, <1>5 DEF BusInv, OneHolder
<1>9. Owed'
  BY <1>1, <1>6, <1>7 DEF BusInv, Owed, OnRecord
<1>10. QED
  BY <1>2, <1>4, <1>8, <1>9 DEF BusInv

\* A pump of b that has taken its answer or dealt with its item: the others, and
\* the completed-task pumps, are where they were.
LEMMA PumpFrame ==
  ASSUME Shape, NEW b \in Buses, NEW p \in DeliverPCs, UNCHANGED <<rpc, rtask>>,
         dpc' = [dpc EXCEPT ![b] = p],
         ditem' = ditem \/ ditem' = [ditem EXCEPT ![b] = Nothing],
         stmt' = stmt \/ stmt' = [stmt EXCEPT ![<<b, "routed">>] = "none"]
  PROVE  /\ dpc' \in [Buses -> DeliverPCs] /\ dpc'[b] = p /\ DOMAIN ditem' = Buses
         /\ stmt' \in [Buses \X Dispositions -> {"none", "sent", "won", "lost"}]
         /\ \A c \in Buses : stmt'[<<c, "unroutable">>] = stmt[<<c, "unroutable">>]
         /\ \A c \in Buses : c # b => /\ stmt'[<<c, "routed">>] = stmt[<<c, "routed">>]
                                      /\ dpc'[c] = dpc[c] /\ ditem'[c] = ditem[c]
         /\ \A c \in Buses : \A t, d : c # b =>
              /\ Holder(c, t)' <=> Holder(c, t)
              /\ Unsure(c, t, d)' <=> Unsure(c, t, d)
              /\ Owes(c, t)' <=> Owes(c, t)
<1>0. "unroutable" \in Dispositions /\ "routed" \in Dispositions
  BY DEF Dispositions
<1>1. /\ dpc' \in [Buses -> DeliverPCs] /\ dpc'[b] = p /\ DOMAIN ditem' = Buses
      /\ \A c \in Buses : c # b => dpc'[c] = dpc[c] /\ ditem'[c] = ditem[c]
  BY DEF Shape
<1>2. stmt' \in [Buses \X Dispositions -> {"none", "sent", "won", "lost"}]
  BY <1>0 DEF Shape
<1>3. /\ \A c \in Buses : stmt'[<<c, "unroutable">>] = stmt[<<c, "unroutable">>]
      /\ \A c \in Buses : c # b => stmt'[<<c, "routed">>] = stmt[<<c, "routed">>]
  BY <1>0, StmtAt DEF Shape
<1>4. \A c \in Buses : \A t, d : c # b =>
        /\ Holder(c, t)' <=> Holder(c, t)
        /\ Unsure(c, t, d)' <=> Unsure(c, t, d)
  BY <1>1, <1>3 DEF Holder, Unsure
<1>5. \A c \in Buses : \A t : c # b => (Owes(c, t)' <=> Owes(c, t))
  BY <1>3, <1>4 DEF Owes
<1>6. QED
  BY <1>1, <1>2, <1>3, <1>4, <1>5

LEMMA DeliverReply == ASSUME BusInv, NEW b \in Buses, deliver_reply(b) PROVE BusInv'
<1>0. Shape /\ Waiting
  BY DEF BusInv
<1>1. /\ UNCHANGED <<settled, sent, up, rpc, rtask, orphans, said, behind, crashed>>
      /\ dpc[b] = "claim" /\ stmt' = [stmt EXCEPT ![<<b, "routed">>] = "none"]
  BY DEF deliver_reply, db, router, history
<1>2. PICK p \in DeliverPCs :
        /\ dpc' = [dpc EXCEPT ![b] = p]
        /\ ditem' = ditem \/ ditem' = [ditem EXCEPT ![b] = Nothing]
        /\ \/ p = "send" /\ ditem' = ditem /\ stmt[<<b, "routed">>] = "won"
           \/ p = "idle" /\ stmt[<<b, "routed">>] = "lost"
  BY DEF deliver_reply, delivered, DeliverPCs
<1>3. /\ dpc' \in [Buses -> DeliverPCs] /\ dpc'[b] = p /\ DOMAIN ditem' = Buses
      /\ stmt' \in [Buses \X Dispositions -> {"none", "sent", "won", "lost"}]
      /\ \A c \in Buses : stmt'[<<c, "unroutable">>] = stmt[<<c, "unroutable">>]
      /\ \A c \in Buses : c # b => /\ stmt'[<<c, "routed">>] = stmt[<<c, "routed">>]
                                   /\ dpc'[c] = dpc[c] /\ ditem'[c] = ditem[c]
      /\ \A c \in Buses : \A t, d : c # b =>
           /\ Holder(c, t)' <=> Holder(c, t)
           /\ Unsure(c, t, d)' <=> Unsure(c, t, d)
           /\ Owes(c, t)' <=> Owes(c, t)
  BY <1>0, <1>1, <1>2, PumpFrame
<1>4. stmt'[<<b, "routed">>] = "none"
  BY <1>0, <1>1 DEF Shape, Dispositions
<1>5. Shape'
  BY <1>0, <1>1, <1>3 DEF Shape
<1>6. Waiting'
  <2>1. /\ \A c \in Buses : stmt'[<<c, "unroutable">>] = stmt[<<c, "unroutable">>]
        /\ \A c \in Buses : c # b =>
             stmt'[<<c, "routed">>] = stmt[<<c, "routed">>] /\ dpc'[c] = dpc[c]
    BY <1>3
  <2>2. Waits(b)'
    BY <1>0, <1>1, <1>4, <2>1 DEF Waiting, Waits
  <2>3. QED
    BY <1>0, <1>1, <2>1, <2>2, WaitingMoves
<1>7. \A t : Holder(b, t)' <=> Holder(b, t)
  BY <1>1, <1>2, <1>3, <1>4 DEF Holder
<1>8. \A t, d : Unsure(b, t, d)' <=> Unsure(b, t, d)
  BY <1>1, <1>2, <1>3 DEF Unsure
<1>9. \A t : Owes(b, t)' <=> Owes(b, t)
  BY <1>1, <1>3, <1>7, <1>8 DEF Owes
<1>10. \A t \in Tasks, d \in Dispositions : (<<t, d>> \in orphans)' =>
         (OnRecord(t) \/ \E c \in Buses : Unsure(c, t, d))'
  BY <1>1, <1>3, <1>8 DEF BusInv, Owed, OnRecord
<1>11. \A c \in Buses, t \in Tasks : Holder(c, t)' => Holder(c, t)
  BY <1>3, <1>7
<1>12. \A c \in Buses, t \in Tasks : Owes(c, t) => Owes(c, t)'
  BY <1>3, <1>9
<1>13. UNCHANGED <<settled, sent, said, behind, crashed>>
  BY <1>1
<1>14. QED
  BY <1>5, <1>6, <1>10, <1>11, <1>12, <1>13, Debts

LEMMA DeliverReplyError == ASSUME BusInv, NEW b \in Buses, deliver_reply_error(b) PROVE BusInv'
<1>0. Shape /\ Waiting
  BY DEF BusInv
<1>1. /\ UNCHANGED <<settled, sent, up, rpc, rtask, ditem, said, behind, crashed>>
      /\ dpc[b] = "claim" /\ dpc' = [dpc EXCEPT ![b] = "reread"]
      /\ stmt' = [stmt EXCEPT ![<<b, "routed">>] = "none"]
      /\ orphans' = orphans \cup Abandoned({<<b, "routed">>})
  BY DEF deliver_reply_error, db, router, history
<1>2. /\ dpc' \in [Buses -> DeliverPCs] /\ dpc'[b] = "reread" /\ DOMAIN ditem' = Buses
      /\ stmt' \in [Buses \X Dispositions -> {"none", "sent", "won", "lost"}]
      /\ \A c \in Buses : stmt'[<<c, "unroutable">>] = stmt[<<c, "unroutable">>]
      /\ \A c \in Buses : c # b => /\ stmt'[<<c, "routed">>] = stmt[<<c, "routed">>]
                                   /\ dpc'[c] = dpc[c] /\ ditem'[c] = ditem[c]
      /\ \A c \in Buses : \A t, d : c # b =>
           /\ Holder(c, t)' <=> Holder(c, t)
           /\ Unsure(c, t, d)' <=> Unsure(c, t, d)
           /\ Owes(c, t)' <=> Owes(c, t)
  <2>1. "reread" \in DeliverPCs
    BY DEF DeliverPCs
  <2>2. QED
    BY <1>0, <1>1, <2>1, PumpFrame
<1>3. stmt'[<<b, "routed">>] = "none"
  BY <1>0, <1>1 DEF Shape, Dispositions
<1>4. Shape'
  BY <1>0, <1>1, <1>2 DEF Shape
<1>5. Waiting'
  <2>1. /\ \A c \in Buses : stmt'[<<c, "unroutable">>] = stmt[<<c, "unroutable">>]
        /\ \A c \in Buses : c # b =>
             stmt'[<<c, "routed">>] = stmt[<<c, "routed">>] /\ dpc'[c] = dpc[c]
    BY <1>2
  <2>2. Waits(b)'
    BY <1>0, <1>1, <1>3, <2>1 DEF Waiting, Waits
  <2>3. QED
    BY <1>0, <1>1, <2>1, <2>2, WaitingMoves
<1>6. \A t : ~Holder(b, t)'
  BY <1>2 DEF Holder
<1>7. \A t : t = ditem[b] => Unsure(b, t, "routed")'
  BY <1>1, <1>2 DEF Unsure
<1>8. \A t, d : Unsure(b, t, d) => Unsure(b, t, d)'
  BY <1>1, <1>2 DEF Unsure
<1>9. \A t : Owes(b, t) => Owes(b, t)'
  <2>1. \A t : Holder(b, t) => t = ditem[b]
    BY DEF Holder
  <2>2. QED
    BY <1>1, <1>2, <1>7, <1>8, <2>1 DEF Owes, Dispositions
<1>10. \A t, d : <<t, d>> \in Abandoned({<<b, "routed">>}) => t = ditem[b] /\ d = "routed"
  BY DEF Abandoned, Claiming
<1>11. \A t \in Tasks, d \in Dispositions : (<<t, d>> \in orphans)' =>
         (OnRecord(t) \/ \E c \in Buses : Unsure(c, t, d))'
  <2> TAKE t \in Tasks, d \in Dispositions
  <2> HAVE (<<t, d>> \in orphans)'
  <2>1. CASE <<t, d>> \in orphans
    BY <2>1, <1>1, <1>2, <1>8 DEF BusInv, Owed, OnRecord
  <2>2. CASE <<t, d>> \in Abandoned({<<b, "routed">>})
    BY <2>2, <1>7, <1>10
  <2>3. QED
    BY <2>1, <2>2, <1>1
<1>12. \A c \in Buses, t \in Tasks : Holder(c, t)' => Holder(c, t)
  BY <1>2, <1>6
<1>13. \A c \in Buses, t \in Tasks : Owes(c, t) => Owes(c, t)'
  BY <1>2, <1>9
<1>14. UNCHANGED <<settled, sent, said, behind, crashed>>
  BY <1>1
<1>15. QED
  BY <1>4, <1>5, <1>11, <1>12, <1>13, <1>14, Debts

\* The pump of b is done with its item.
LEMMA Delivered ==
  ASSUME BusInv, NEW b \in Buses, delivered(b), UNCHANGED <<up, rpc, rtask, stmt>>,
         dpc[b] \notin {"ended", "claim"}
  PROVE  /\ dpc' \in [Buses -> DeliverPCs] /\ DOMAIN ditem' = Buses /\ Waiting'
         /\ \A c \in Buses : \A t, d :
              /\ Holder(c, t)' => Holder(c, t) /\ c # b
              /\ Unsure(c, t, d) => Unsure(c, t, d)' \/ (c = b /\ d = "routed" /\ t = ditem[b])
              /\ Owes(c, t) => Owes(c, t)' \/ (c = b /\ t = ditem[b])
<1>0. Shape /\ Waiting
  BY DEF BusInv
<1>1. /\ dpc' \in [Buses -> DeliverPCs] /\ dpc'[b] = "idle" /\ DOMAIN ditem' = Buses
      /\ \A c \in Buses : c # b => dpc'[c] = dpc[c] /\ ditem'[c] = ditem[c]
  BY <1>0 DEF Shape, delivered, DeliverPCs
<1>2. Waiting'
  <2>1. Waits(b)'
    BY <1>0, <1>1 DEF Waiting, Waits
  <2>2. QED
    BY <1>0, <1>1, <2>1, WaitingMoves DEF BusInv
<1>3. \A c \in Buses : \A t : Holder(c, t)' => Holder(c, t) /\ c # b
  BY <1>1 DEF Holder
<1>4. \A c \in Buses : \A t : Holder(c, t) /\ c # b => Holder(c, t)'
  BY <1>1 DEF Holder
<1>5. \A c \in Buses : \A t, d : Unsure(c, t, d) =>
        Unsure(c, t, d)' \/ (c = b /\ d = "routed" /\ t = ditem[b])
  BY <1>1 DEF Unsure
<1>6. \A t : Holder(b, t) => t = ditem[b]
  BY DEF Holder
<1>7. \A c \in Buses : \A t : Owes(c, t) => Owes(c, t)' \/ (c = b /\ t = ditem[b])
  BY <1>4, <1>5, <1>6 DEF Owes
<1>8. QED
  BY <1>1, <1>2, <1>3, <1>5, <1>7

LEMMA ClaimOutcome == ASSUME BusInv, NEW b \in Buses, claim_outcome(b) PROVE BusInv'
<1>0. Shape
  BY DEF BusInv
<1>1. /\ UNCHANGED <<settled, sent, up, rpc, rtask, stmt, orphans, crashed>>
      /\ dpc[b] = "reread" /\ delivered(b)
      /\ said \subseteq said' /\ behind \subseteq behind'
      /\ \/ ditem[b] \in said' \/ ditem[b] \in behind'
         \/ settled[ditem[b]] = "none" /\ <<ditem[b], "routed">> \notin orphans
  BY DEF claim_outcome, db, router, claims
<1>2. /\ dpc' \in [Buses -> DeliverPCs] /\ DOMAIN ditem' = Buses /\ Waiting'
      /\ \A c \in Buses : \A t, d :
           /\ Holder(c, t)' => Holder(c, t) /\ c # b
           /\ Unsure(c, t, d) => Unsure(c, t, d)' \/ (c = b /\ d = "routed" /\ t = ditem[b])
           /\ Owes(c, t) => Owes(c, t)' \/ (c = b /\ t = ditem[b])
  BY <1>1, Delivered
<1>3. Shape'
  BY <1>0, <1>1, <1>2 DEF Shape
<1>4. \A t \in Tasks : OnRecord(t) => OnRecord(t)'
  BY <1>1 DEF OnRecord
<1>5. \A t : t = ditem[b] => \/ OnRecord(t)'
                             \/ settled[t] = "none" /\ <<t, "routed">> \notin orphans
  BY <1>1 DEF OnRecord
<1>6. \A c \in Buses, t \in Tasks :
        Owes(c, t) => settled[t] = "none" \/ OnRecord(t)' \/ Owes(c, t)'
  BY <1>2, <1>5
<1>7. \A t \in Tasks, d \in Dispositions : (<<t, d>> \in orphans)' =>
        (OnRecord(t) \/ \E c \in Buses : Unsure(c, t, d))'
  <2> TAKE t \in Tasks, d \in Dispositions
  <2> HAVE (<<t, d>> \in orphans)'
  <2>1. <<t, d>> \in orphans
    BY <1>1
  <2>2. CASE OnRecord(t)
    BY <2>2, <1>4
  <2>3. ASSUME NEW c \in Buses, Unsure(c, t, d)
        PROVE  OnRecord(t)' \/ Unsure(c, t, d)'
    BY <2>1, <2>3, <1>2, <1>5
  <2>4. QED
    BY <2>1, <2>2, <2>3 DEF BusInv, Owed
<1>8. \A c \in Buses, t \in Tasks : Holder(c, t)' => Holder(c, t)
  BY <1>2
<1>9. UNCHANGED <<settled, sent, crashed>> /\ said \subseteq said' /\ behind \subseteq behind' /\ Waiting'
  BY <1>1, <1>2
<1>10. QED
  BY <1>3, <1>6, <1>7, <1>8, <1>9, Debts

\* Sends counts one send of each reply of S that had none.
LEMMA SendsOnce ==
  ASSUME Shape, NEW S, sent' = Sends(S), \A t \in Tasks : t \in S => sent[t] = 0
  PROVE  /\ sent' \in [Tasks -> {0, 1}]
         /\ \A t \in Tasks : sent'[t] = IF t \in S THEN 1 ELSE sent[t]
  BY DEF Shape, Sends, SentCap

\* The one holder sends, or the refusal is recorded.
LEMMA SendOrRecord == ASSUME BusInv, NEW b \in Buses, send_or_record(b) PROVE BusInv'
<1> DEFINE m == ditem[b]
<1>0. Shape
  BY DEF BusInv
<1>1. /\ UNCHANGED <<settled, up, rpc, rtask, stmt, orphans, behind, crashed>>
      /\ dpc[b] = "send" /\ delivered(b)
      /\ said \subseteq said'
      /\ \/ sent' = Sends({m})
         \/ sent' = sent /\ (m \in Tasks => m \in said')
  BY DEF send_or_record, db, router, claims
<1>2. /\ dpc' \in [Buses -> DeliverPCs] /\ DOMAIN ditem' = Buses /\ Waiting'
      /\ \A c \in Buses : \A t, d :
           /\ Holder(c, t)' => Holder(c, t) /\ c # b
           /\ Unsure(c, t, d) => Unsure(c, t, d)' \/ (c = b /\ d = "routed" /\ t = ditem[b])
           /\ Owes(c, t) => Owes(c, t)' \/ (c = b /\ t = ditem[b])
  BY <1>1, Delivered
<1>3. \A t \in Tasks : t = m => settled[t] # "none" /\ sent[t] = 0
                                /\ \A c \in Buses : Holder(c, t) => c = b
  <2>1. \A t : t = m => Holder(b, t)
    BY <1>1 DEF Holder
  <2>2. QED
    BY <2>1 DEF BusInv, OneHolder
<1>4. /\ sent' \in [Tasks -> {0, 1}]
      /\ \A t \in Tasks : t # m => sent'[t] = sent[t]
      /\ \A t \in Tasks : t = m => sent'[t] = 1 \/ (sent'[t] = sent[t] /\ t \in said')
  <2>1. CASE sent' = Sends({m})
    BY <1>0, <1>3, <2>1, SendsOnce
  <2>2. CASE sent' = sent /\ (m \in Tasks => m \in said')
    BY <1>0, <2>2 DEF Shape
  <2>3. QED
    BY <1>1, <2>1, <2>2
<1>5. Shape'
  BY <1>0, <1>1, <1>2, <1>4 DEF Shape
<1>6. \A c \in Buses, t \in Tasks : Holder(c, t)' => Holder(c, t) /\ sent'[t] = sent[t]
  BY <1>2, <1>3, <1>4
<1>7. \A t \in Tasks : OnRecord(t) \/ t \in said' => OnRecord(t)'
  BY <1>1 DEF OnRecord
<1>8. \A c \in Buses, t \in Tasks : Owes(c, t) => sent'[t] = 1 \/ OnRecord(t)' \/ Owes(c, t)'
  BY <1>2, <1>4, <1>7
<1>9. \A c \in Buses : \A t, d : Unsure(c, t, d) => Unsure(c, t, d)'
  <2>1. \A t, d : Unsure(b, t, d) => d = "unroutable"
    BY <1>1 DEF Unsure
  <2>2. QED
    BY <1>2, <2>1
<1>10. \A t \in Tasks, d \in Dispositions : (<<t, d>> \in orphans)' =>
         (OnRecord(t) \/ \E c \in Buses : Unsure(c, t, d))'
  BY <1>1, <1>7, <1>9 DEF BusInv, Owed
<1>11. \A t \in Tasks : sent'[t] = sent[t] \/ (sent'[t] = 1 /\ settled[t] # "none")
  BY <1>3, <1>4
<1>12. UNCHANGED <<settled, behind, crashed>> /\ said \subseteq said' /\ Waiting'
  BY <1>1, <1>2
<1>13. QED
  BY <1>5, <1>6, <1>8, <1>10, <1>11, <1>12, Debts

-----------------------------------------------------------------------------
(* Starts, stops and the rest. *)

\* An idle pump that ends, and a bus that comes up, owed nothing.
LEMMA IdleMoves ==
  ASSUME BusInv, Shape', Waiting', NEW b \in Buses,
         UNCHANGED <<settled, sent, rtask, ditem, stmt, orphans, said, behind, crashed>>,
         \A c \in Buses : \/ rpc'[c] = rpc[c]
                          \/ rpc[c] \notin {"claim", "reread"} /\ rpc'[c] \notin {"claim", "reread"},
         \A c \in Buses : \/ dpc'[c] = dpc[c]
                          \/ /\ dpc[c] \notin {"claim", "reread", "send"}
                             /\ dpc'[c] \notin {"claim", "reread", "send"}
  PROVE  BusInv'
<1>1. \A c \in Buses : \A t : Holder(c, t)' <=> Holder(c, t)
  BY DEF Holder
<1>2. \A c \in Buses : \A t, d : Unsure(c, t, d)' <=> Unsure(c, t, d)
  BY DEF Unsure
<1>3. \A c \in Buses : \A t : Owes(c, t)' <=> Owes(c, t)
  BY <1>1, <1>2 DEF Owes
<1>4. \A t \in Tasks, d \in Dispositions : (<<t, d>> \in orphans)' =>
        (OnRecord(t) \/ \E c \in Buses : Unsure(c, t, d))'
  BY <1>2 DEF BusInv, Owed, OnRecord
<1>5. QED
  BY <1>1, <1>3, <1>4, Debts

LEMMA RecvClosed == ASSUME BusInv, NEW b \in Buses, recv_closed(b) PROVE BusInv'
<1>0. Shape /\ Waiting
  BY DEF BusInv
<1>1. /\ UNCHANGED <<settled, sent, up, rpc, rtask, ditem, stmt, orphans, said, behind, crashed>>
      /\ dpc[b] = "idle" /\ dpc' = [dpc EXCEPT ![b] = "ended"]
  BY DEF recv_closed, db, router, claims, history
<1>2. Shape'
  BY <1>0, <1>1 DEF Shape, DeliverPCs
<1>3. Waiting'
  BY <1>0, <1>1 DEF Shape, Waiting, Waits
<1>4. QED
  BY <1>0, <1>1, <1>2, <1>3, IdleMoves DEF Shape

LEMMA Spawn == ASSUME BusInv, NEW b \in Buses, spawn(b) PROVE BusInv'
<1>0. Shape /\ Waiting
  BY DEF BusInv
<1>1. /\ UNCHANGED <<settled, sent, rtask, ditem, stmt, orphans, said, behind, crashed>>
      /\ up[b] = "down" /\ up' = [up EXCEPT ![b] = "up"]
      /\ rpc' = [rpc EXCEPT ![b] = "read"] /\ dpc' = [dpc EXCEPT ![b] = "idle"]
  BY DEF spawn, db, claims, history
<1>2. rpc[b] = "ended" /\ dpc[b] = "ended"
  BY <1>0, <1>1 DEF Waiting, Waits
<1>3. Shape'
  BY <1>0, <1>1 DEF Shape, DeliverPCs, RouterPCs
<1>4. Waiting'
  BY <1>0, <1>1, <1>2 DEF Shape, Waiting, Waits
<1>5. QED
  BY <1>0, <1>1, <1>2, <1>3, <1>4, IdleMoves DEF Shape

LEMMA Shutdown == ASSUME BusInv, NEW b \in Buses, shutdown(b) PROVE BusInv'
<1>0. Shape /\ Waiting
  BY DEF BusInv
<1>1. /\ UNCHANGED <<settled, sent, rpc, rtask, dpc, ditem, stmt, orphans, said, behind, crashed>>
      /\ up' = [up EXCEPT ![b] = "stopping"]
  BY DEF shutdown, db, router, deliverer, claims, history
<1>2. Shape'
  BY <1>0, <1>1 DEF Shape
<1>3. Waiting'
  BY <1>0, <1>1 DEF Shape, Waiting, Waits
<1>4. QED
  BY <1>1, <1>2, <1>3, IdleMoves

\* What a guard of b covers: all that b owes, and both its claims.
LEMMA Guarded ==
  ASSUME BusInv, NEW b \in Buses, NEW t \in Tasks
  PROVE  /\ Owes(b, t) => t \in guarded(b)
         /\ \A d \in Dispositions :
              stmt[<<b, d>>] = "sent" /\ Claiming(b, d) = t => t \in guarded(b)
<1>1. Owes(b, t) => t \in guarded(b)
  BY DEF Owes, Holder, Unsure, guarded
<1>2. ASSUME stmt[<<b, "routed">>] = "sent", Claiming(b, "routed") = t
      PROVE  t \in guarded(b)
  BY <1>2 DEF Claiming, guarded
<1>3. ASSUME stmt[<<b, "unroutable">>] = "sent", Claiming(b, "unroutable") = t
      PROVE  t \in guarded(b)
  <2>1. rpc[b] = "claim"
    BY <1>3 DEF BusInv, Waiting, Waits
  <2>2. QED
    BY <1>3, <2>1 DEF Claiming, guarded
<1>4. QED
  BY <1>1, <1>2, <1>3 DEF Dispositions

\* The pumps of B go, and what their guards cover is recorded.
LEMMA Stop ==
  ASSUME BusInv, NEW B \in SUBSET Buses, PumpsGo(B), UNCHANGED settled,
         said \subseteq said', behind \subseteq behind', crashed \subseteq crashed',
         \A b \in B, t \in Tasks : t \in guarded(b) => OnRecord(t)'
  PROVE  BusInv'
<1>0. Shape /\ Waiting /\ "unroutable" \in Dispositions /\ "routed" \in Dispositions
  BY DEF BusInv, Dispositions
<1>1. PICK W \in SUBSET {b \in B : dpc[b] = "send"} : sent' = Sends({ditem[b] : b \in W})
  BY DEF PumpsGo
<1> DEFINE S == {ditem[b] : b \in W}
<1>2. \A t \in Tasks : t \in S => settled[t] # "none" /\ sent[t] = 0
                                  /\ \A c \in Buses : Holder(c, t) => c \in B
  <2> SUFFICES ASSUME NEW t \in Tasks, NEW b \in W, t = ditem[b]
               PROVE  settled[t] # "none" /\ sent[t] = 0
                      /\ \A c \in Buses : Holder(c, t) => c \in B
    OBVIOUS
  <2>1. b \in Buses /\ b \in B /\ Holder(b, t)
    BY <1>1 DEF Holder
  <2>2. QED
    BY <2>1 DEF BusInv, OneHolder
<1>3. /\ sent' \in [Tasks -> {0, 1}]
      /\ \A t \in Tasks : sent'[t] = IF t \in S THEN 1 ELSE sent[t]
  BY <1>0, <1>1, <1>2, SendsOnce
<1>4. /\ \A c \in Buses : c \notin B => /\ rpc'[c] = rpc[c] /\ rtask'[c] = rtask[c]
                                        /\ dpc'[c] = dpc[c] /\ ditem'[c] = ditem[c]
                                        /\ up'[c] = up[c]
      /\ \A b \in B : rpc'[b] = "ended" /\ dpc'[b] = "ended"
  BY DEF PumpsGo
<1>5. /\ \A c \in Buses, d \in Dispositions : c \notin B => stmt'[<<c, d>>] = stmt[<<c, d>>]
      /\ \A b \in B, d \in Dispositions : stmt'[<<b, d>>] = "none"
  BY DEF PumpsGo
<1>6. Shape'
  <2>1. /\ up' \in [Buses -> {"up", "stopping", "down"}]
        /\ rpc' \in [Buses -> RouterPCs] /\ dpc' \in [Buses -> DeliverPCs]
        /\ DOMAIN rtask' = Buses /\ DOMAIN ditem' = Buses
    BY <1>0 DEF PumpsGo, Shape, RouterPCs, DeliverPCs
  <2>2. stmt' \in [Buses \X Dispositions -> {"none", "sent", "won", "lost"}]
    BY <1>0 DEF PumpsGo, Shape
  <2>3. QED
    BY <1>0, <1>3, <2>1, <2>2 DEF Shape
<1>7. Waiting'
  <2> SUFFICES ASSUME NEW c \in Buses
               PROVE  /\ stmt'[<<c, "routed">>] # "none" => dpc'[c] = "claim"
                      /\ stmt'[<<c, "unroutable">>] # "none" => rpc'[c] = "claim"
                      /\ up'[c] = "down" => rpc'[c] = "ended" /\ dpc'[c] = "ended"
    BY DEF Waiting, Waits
  <2>1. CASE c \in B
    BY <2>1, <1>0, <1>4, <1>5
  <2>2. CASE c \notin B
    BY <2>2, <1>0, <1>4, <1>5 DEF Waiting, Waits
  <2>3. QED
    BY <2>1, <2>2
<1>8. \A c \in Buses : \A t : Holder(c, t)' => Holder(c, t) /\ c \notin B
  BY <1>0, <1>4, <1>5 DEF Holder
<1>9. \A c \in Buses : \A t : Holder(c, t) /\ c \notin B => Holder(c, t)'
  BY <1>0, <1>4, <1>5 DEF Holder
<1>10. \A c \in Buses : \A t, d : Unsure(c, t, d) /\ c \notin B => Unsure(c, t, d)'
  BY <1>4 DEF Unsure
<1>11. \A c \in Buses : \A t : Owes(c, t) /\ c \notin B => Owes(c, t)'
  BY <1>0, <1>4, <1>5, <1>9, <1>10 DEF Owes
<1>12. \A c \in Buses, t \in Tasks : Owes(c, t) => OnRecord(t)' \/ Owes(c, t)'
  BY <1>11, Guarded
<1>13. \A c \in Buses, t \in Tasks : Holder(c, t)' => Holder(c, t) /\ sent'[t] = sent[t]
  BY <1>2, <1>3, <1>8
<1>14. \A t \in Tasks : sent'[t] = sent[t] \/ (sent'[t] = 1 /\ settled[t] # "none")
  BY <1>2, <1>3
<1>15. \A t \in Tasks, d \in Dispositions : (<<t, d>> \in orphans)' =>
         (OnRecord(t) \/ \E c \in Buses : Unsure(c, t, d))'
  <2> TAKE t \in Tasks, d \in Dispositions
  <2> HAVE (<<t, d>> \in orphans)'
  <2>1. CASE <<t, d>> \in orphans
    <3>1. CASE OnRecord(t)
      BY <3>1 DEF OnRecord
    <3>2. ASSUME NEW c \in Buses, Unsure(c, t, d)
          PROVE  OnRecord(t)' \/ Unsure(c, t, d)'
      <4>1. Owes(c, t)
        BY <3>2 DEF Owes
      <4>2. QED
        BY <3>2, <4>1, <1>10, Guarded
    <3>3. QED
      BY <2>1, <3>1, <3>2 DEF BusInv, Owed
  <2>2. CASE <<t, d>> \in Abandoned(B \X Dispositions)
    <3>1. PICK q \in B \X Dispositions : stmt[q] = "sent" /\ <<t, d>> = <<Claiming(q[1], q[2]), q[2]>>
      BY <2>2 DEF Abandoned
    <3>2. q[1] \in B /\ q[1] \in Buses /\ q = <<q[1], d>> /\ Claiming(q[1], d) = t
      BY <3>1
    <3>3. stmt[<<q[1], d>>] = "sent"
      BY <3>1, <3>2
    <3>4. t \in guarded(q[1])
      BY <3>2, <3>3, Guarded
    <3>5. QED
      BY <3>2, <3>4
  <2>3. QED
    BY <2>1, <2>2 DEF PumpsGo
<1>16. QED
  BY <1>6, <1>7, <1>12, <1>13, <1>14, <1>15, Debts

LEMMA AbortPumps == ASSUME BusInv, NEW b \in Buses, abort_pumps(b) PROVE BusInv'
<1>1. /\ PumpsGo({b}) /\ UNCHANGED <<settled, behind, crashed>>
      /\ said' = said \cup guarded(b)
  BY DEF abort_pumps, db
<1>2. \A c \in {b}, t \in Tasks : t \in guarded(c) => OnRecord(t)'
  BY <1>1 DEF OnRecord
<1>3. QED
  BY <1>1, <1>2, Stop

LEMMA DaemonCrash == ASSUME BusInv, daemon_crash PROVE BusInv'
<1>1. /\ PumpsGo(Buses) /\ UNCHANGED <<settled, said, behind>>
      /\ crashed' = crashed \cup UNION {guarded(b) : b \in Buses}
  BY DEF daemon_crash, db
<1>2. \A c \in Buses, t \in Tasks : t \in guarded(c) => OnRecord(t)'
  BY <1>1 DEF OnRecord
<1>3. QED
  BY <1>1, <1>2, Stop

\* A task that finishes, a lost NOTIFY, an ask on its way and a stuttering step
\* touch no claim.
LEMMA Elsewhere ==
  ASSUME BusInv,
         UNCHANGED <<settled, sent, up, rpc, rtask, dpc, ditem, stmt, orphans, said, behind, crashed>>
  PROVE  BusInv'
<1>1. \A c \in Buses : \A t : (Holder(c, t)' <=> Holder(c, t)) /\ (Owes(c, t)' <=> Owes(c, t))
  BY DEF Holder, Owes, Unsure
<1>2. \A c \in Buses : \A t, d : Unsure(c, t, d)' <=> Unsure(c, t, d)
  BY DEF Unsure
<1>3. Shape' /\ Waiting'
  BY DEF BusInv, Shape, Waiting, Waits
<1>4. OneHolder'
  BY <1>1 DEF BusInv, OneHolder
<1>5. Owed'
  BY <1>1, <1>2 DEF BusInv, Owed, OnRecord
<1>6. QED
  BY <1>3, <1>4, <1>5 DEF BusInv

\* Every step of the bus keeps the invariant.
LEMMA BusStep == ASSUME BusInv, [Next]_vars PROVE BusInv'
<1>1. CASE UNCHANGED vars
  BY <1>1, Elsewhere DEF vars, db, router, deliverer, claims, history
<1>2. ASSUME NEW t \in Tasks, finish(t) PROVE BusInv'
  BY <1>2, Elsewhere DEF finish, router, deliverer, claims, history
<1>3. ASSUME NEW b \in Buses, RouterStep(b) \/ sweep_tick(b) \/ RouterFails(b)
      PROVE  BusInv'
  <2>1. CASE reconnect(b)
    BY <2>1, Elsewhere DEF reconnect, db, router, deliverer, claims, history
  <2>2. QED
    BY <1>3, <2>1, RoutingSteps, RouteOne, SettleUnroutable, SettleUnroutableError,
       SettleUnroutableReread DEF RouterStep, RouterFails
<1>4. ASSUME NEW b \in Buses, PumpStep(b) \/ PumpFails(b) PROVE BusInv'
  BY <1>4, Deliver, DeliverReply, DeliverReplyError, ClaimOutcome, SendOrRecord, RecvClosed
     DEF PumpStep, PumpFails
<1>5. ASSUME NEW b \in Buses, NEW d \in Dispositions, claim_reply(b, d) PROVE BusInv'
  BY <1>5, ClaimReply
<1>6. ASSUME NEW b \in Buses, spawn(b) \/ shutdown(b) \/ abort_pumps(b) PROVE BusInv'
  BY <1>6, Spawn, Shutdown, AbortPumps
<1>7. ASSUME NEW t \in Tasks, NEW d \in Dispositions, claim_reply_orphaned(t, d) PROVE BusInv'
  BY <1>7, ClaimReplyOrphaned
<1>8. ASSUME NEW a \in Asks, try_deliver(a) \/ try_send_lands(a) PROVE BusInv'
  BY <1>8, Elsewhere DEF try_deliver, try_send_lands, db, router, deliverer, claims, history
<1>9. CASE daemon_crash
  BY <1>9, DaemonCrash
<1>10. QED
  BY <1>1, <1>2, <1>3, <1>4, <1>5, <1>6, <1>7, <1>8, <1>9 DEF Next

\* The invariant of the claim holds in every reachable state of the bus.
THEOREM BusInvariant == Spec => []BusInv
  BY BusInit, BusStep, PTL DEF Spec

\* bus_deliver.rs sends a reply at most once, for any number of buses, tasks and
\* faults: of all the copies of it that are ever queued one wins the claim, and
\* whoever is not sure that it won does not send.
THEOREM RepliesAtMostOnce == Spec => []AtMostOnce
<1>1. BusInv => AtMostOnce
  BY DEF BusInv, Shape, AtMostOnce
<1>2. QED
  BY <1>1, BusInvariant, PTL

\* A settled reply that no pump has in hand was sent or its loss is on record:
\* the guards of bus_guards.rs and the re-read of claim_outcome leave one way to
\* lose it unsaid besides a crash, a claim that commits behind its re-read.
THEOREM LossesAreSaid == Spec => []LossIsSaid
<1>1. BusInv => LossIsSaid
  <2> SUFFICES ASSUME BusInv, NEW t \in Tasks, settled[t] # "none",
                      \A b \in Buses : t \notin guarded(b)
               PROVE  sent[t] > 0 \/ t \in said \cup behind \cup crashed
    BY DEF LossIsSaid
  <2>1. \A b \in Buses : ~Owes(b, t)
    BY Guarded
  <2>2. sent[t] = 1 \/ OnRecord(t)
    BY <2>1 DEF BusInv, Owed
  <2>3. QED
    BY <2>2 DEF OnRecord
<1>2. QED
  BY <1>1, BusInvariant, PTL

-----------------------------------------------------------------------------
(* Asks: the second inductive invariant, with the types of the state. *)

\* The variables that hold plain values.
Values ==
  /\ done \in [Tasks -> BOOLEAN]
  /\ settled \in [Tasks -> {"none"} \cup Dispositions]
  /\ up \in [Buses -> {"up", "stopping", "down"}]
  /\ rpc \in [Buses -> RouterPCs] /\ dpc \in [Buses -> DeliverPCs]
  /\ more \in [Buses -> BOOLEAN]
  /\ stmt \in [Buses \X Dispositions -> {"none", "sent", "won", "lost"}]
  /\ asks \in [Asks -> AskStates]
  /\ sent \in [Tasks -> 0..SentCap]
  /\ faults \in 0..MaxFaults

\* A pump with a claim or a row to write has a task in hand, and so has one that
\* is routing.
InHand ==
  /\ rtask \in [Buses -> Tasks \cup {Nothing}]
  /\ page \in [Buses -> SUBSET Tasks]
  /\ after \in [Buses -> Nat]
  /\ ditem \in [Buses -> Tasks \cup Asks \cup {Nothing}]
  /\ \A b \in Buses :
       /\ rpc[b] \in {"load", "push", "claim", "reread"} => rtask[b] \in Tasks
       /\ dpc[b] \in {"claim", "reread"} => ditem[b] \in Tasks
  /\ orphans \subseteq Tasks \X Dispositions
  /\ said \subseteq Tasks /\ behind \subseteq Tasks /\ crashed \subseteq Tasks

\* A task is announced once, when it is done.
Announced ==
  /\ notes \in [Buses -> Seq(Tasks)]
  /\ \A b \in Buses :
       /\ \A i \in 1..Len(notes[b]) : done[notes[b][i]]
       /\ \A i, j \in 1..Len(notes[b]) : notes[b][i] = notes[b][j] => i = j

\* A slot is handed out only while the bus is registered, and never one too many.
Slots ==
  /\ queue \in [Buses -> Seq(Tasks \cup Asks)]
  /\ \A b \in Buses : Len(queue[b]) + Cardinality(Reserved(b)) <= QueueCap
  /\ \A a \in Asks : asks[a] = "reserved" => up[AskBus[a]] = "up"
  /\ \A a \in Asks : asks[a] # "vanished"

\* The asks in a queue or in a pump's hands are the queued ones, each in one place.
Placed ==
  /\ \A b \in Buses : \A i \in 1..Len(queue[b]) :
       queue[b][i] \in Asks =>
         /\ asks[queue[b][i]] = "queued" /\ AskBus[queue[b][i]] = b
         /\ ditem[b] # queue[b][i]
         /\ \A j \in 1..Len(queue[b]) : queue[b][j] = queue[b][i] => j = i
  /\ \A b \in Buses :
       ditem[b] \in Asks =>
         dpc[b] = "send" /\ asks[ditem[b]] = "queued" /\ AskBus[ditem[b]] = b
  /\ \A a \in Asks :
       asks[a] = "queued" =>
         \/ ditem[AskBus[a]] = a
         \/ \E i \in 1..Len(queue[AskBus[a]]) : queue[AskBus[a]][i] = a

AskInv == Values /\ InHand /\ Announced /\ Slots /\ Placed

-----------------------------------------------------------------------------
(* Sequences and finite sets of numbers. *)

LEMMA AppendAt ==
  ASSUME NEW S, NEW s \in Seq(S), NEW e \in S
  PROVE  /\ Append(s, e) \in Seq(S) /\ Len(Append(s, e)) = Len(s) + 1
         /\ \A i \in 1..Len(s) : Append(s, e)[i] = s[i]
         /\ Append(s, e)[Len(s) + 1] = e
  OBVIOUS

LEMMA TailAt ==
  ASSUME NEW S, NEW s \in Seq(S), s # <<>>
  PROVE  /\ Tail(s) \in Seq(S) /\ Len(Tail(s)) = Len(s) - 1
         /\ Head(s) \in S /\ Head(s) = s[1] /\ 1 \in 1..Len(s)
         /\ \A i \in 1..Len(Tail(s)) : i + 1 \in 1..Len(s) /\ Tail(s)[i] = s[i + 1]
  OBVIOUS

\* The first id of a page is one of it.
LEMMA LeastIn == ASSUME NEW S \in SUBSET Nat, S # {} PROVE Least(S) \in S
<1> DEFINE R == OpToRel(<, Nat)
<1>1. \A x, y \in Nat : x < y => <<x, y>> \in R
  BY DEF OpToRel
<1>2. IsWellFoundedOn(R, Nat)
  BY NatLessThanWellFounded
<1> HIDE DEF R
<1>3. PICK x \in S : \A y \in S : ~(<<y, x>> \in R)
  BY <1>2, WFMin
<1>4. ASSUME NEW y \in S PROVE x <= y
  <2>1. x \in Nat /\ y \in Nat /\ ~(y < x)
    BY <1>1, <1>3
  <2>2. QED
    BY <2>1
<1>5. QED
  BY <1>3, <1>4 DEF Least

\* The last id of a page is one of it: a finite set of numbers has a greatest.
LEMMA GreatestIn ==
  ASSUME NEW S \in SUBSET Nat, IsFiniteSet(S), S # {} PROVE Greatest(S) \in S
<1> DEFINE Has(T) == \E x \in T : \A y \in T : y <= x
           C == {T \in FiniteSubsetsOf(Nat) : T # {} /\ ~Has(T)}
           R == StrictSubsetOrdering(Nat)
<1>1. C = {}
  <2> SUFFICES ASSUME C # {} PROVE FALSE
    OBVIOUS
  <2>1. IsWellFoundedOn(R, FiniteSubsetsOf(Nat))
    BY FS_StrictSubsetOrderingWellFounded
  <2>2. \A T, U \in SUBSET Nat : T \subseteq U /\ T # U => <<T, U>> \in R
    BY DEF StrictSubsetOrdering
  <2>3. C \subseteq FiniteSubsetsOf(Nat)
    OBVIOUS
  <2> HIDE DEF R, C
  <2>4. PICK T \in C : \A U \in C : ~(<<U, T>> \in R)
    BY <2>1, <2>3, WFMin
  <2>5. T \in SUBSET Nat /\ IsFiniteSet(T) /\ T # {} /\ ~Has(T)
    BY DEF C, FiniteSubsetsOf
  <2>6. PICK x \in T : TRUE
    BY <2>5
  <2>7. IsFiniteSet(T \ {x}) /\ T \ {x} \in SUBSET Nat /\ T \ {x} # T
    BY <2>5, <2>6, FS_RemoveElement
  <2>8. T \ {x} \notin C
    BY <2>2, <2>4, <2>5, <2>7
  <2>9. T \ {x} = {} \/ Has(T \ {x})
    BY <2>7, <2>8 DEF C, FiniteSubsetsOf
  <2>10. CASE T \ {x} = {}
    <3>1. \A y \in T : y <= x
      BY <2>5, <2>6, <2>10
    <3>2. QED
      BY <2>5, <2>6, <3>1
  <2>11. CASE Has(T \ {x})
    <3>1. PICK m \in T \ {x} : \A y \in T \ {x} : y <= m
      BY <2>11
    <3>2. m \in T /\ m \in Nat /\ x \in Nat
      BY <2>5, <2>6, <3>1
    <3>3. CASE x <= m
      <4>1. \A y \in T : y <= m
        BY <3>1, <3>3
      <4>2. QED
        BY <2>5, <3>2, <4>1
    <3>4. CASE m <= x
      <4>1. \A y \in T : y <= x
        BY <2>5, <3>1, <3>2, <3>4
      <4>2. QED
        BY <2>5, <2>6, <4>1
    <3>5. QED
      BY <3>2, <3>3, <3>4
  <2>12. QED
    BY <2>9, <2>10, <2>11
<1>2. Has(S)
  BY <1>1 DEF FiniteSubsetsOf
<1>3. QED
  BY <1>2 DEF Greatest

\* A page of the backlog is a finite set of tasks.
LEMMA PageOfTasks ==
  ASSUME NEW n PROVE Page(n) \in SUBSET Tasks /\ Page(n) \in SUBSET Nat /\ IsFiniteSet(Page(n))
<1>1. Page(n) \in SUBSET Tasks /\ Tasks \in SUBSET Nat /\ IsFiniteSet(Tasks)
  BY ReplyAssumption DEF Page, Backlog
<1>2. QED
  BY <1>1, FS_Subset

-----------------------------------------------------------------------------
(* Each part of the invariant is kept. *)

LEMMA AskInit == Init => AskInv
<1> SUFFICES ASSUME Init PROVE AskInv
  OBVIOUS
<1> USE ReplyAssumption DEF Init
<1>1. Values
  BY DEF Values, RouterPCs, DeliverPCs, AskStates, SentCap
<1>2. InHand
  BY DEF InHand
<1>3. Announced
  BY DEF Announced
<1>4. Slots
  <2>1. \A b \in Buses : Reserved(b) = {}
    BY DEF Reserved
  <2>2. \A b \in Buses : queue[b] = <<>> /\ Len(queue[b]) = 0
    BY DEF Init
  <2>3. QED
    <3>1. \A b \in Buses : Cardinality(Reserved(b)) = 0
      BY <2>1, FS_EmptySet
    <3>2. QED
      BY <2>2, <3>1 DEF Slots
<1>5. Placed
  BY DEF Placed
<1>6. QED
  BY <1>1, <1>2, <1>3, <1>4, <1>5 DEF AskInv

\* Where route_one's return leaves the plain values.
LEMMA RoutedValues ==
  ASSUME Values, NEW b \in Buses, routed(b)
  PROVE  rpc' \in [Buses -> RouterPCs] /\ more' \in [Buses -> BOOLEAN]
<1>1. CASE page[b] # {}
  BY <1>1 DEF routed, Values, RouterPCs
<1>2. CASE page[b] = {}
  <2>1. more' = [more EXCEPT ![b] = FALSE]
        /\ \E l \in {"read", "select"} : rpc' = [rpc EXCEPT ![b] = l]
    BY <1>2 DEF routed
  <2>2. QED
    BY <2>1 DEF Values, RouterPCs
<1>3. QED
  BY <1>1, <1>2

\* The plain values stay in their domains.
LEMMA ValuesKept == ASSUME Values, [Next]_vars PROVE Values'
<1> USE ReplyAssumption DEF Values, Fault, NoFault, Dispositions, RouterPCs, DeliverPCs,
        AskStates, SentCap, db, router, deliverer, claims, history
<1>1. CASE UNCHANGED vars
  BY <1>1 DEF vars
<1>2. ASSUME NEW t \in Tasks, finish(t) PROVE Values'
  BY <1>2 DEF finish
<1>3. ASSUME NEW b \in Buses, next_completed(b) PROVE Values'
  BY <1>3 DEF next_completed
<1>4. ASSUME NEW b \in Buses, unsettled(b) PROVE Values'
  <2> DEFINE P == Page(after[b])
  <2>1. PICK l \in {"load", "select"} : rpc' = [rpc EXCEPT ![b] = l]
    BY <1>4 DEF unsettled
  <2>2. PICK m \in BOOLEAN : more' = [more EXCEPT ![b] = m]
    BY <1>4 DEF unsettled
  <2>3. QED
    BY <1>4, <2>1, <2>2 DEF unsettled
<1>5. ASSUME NEW b \in Buses, route_one(b) PROVE Values'
  <2>1. rpc' \in [Buses -> RouterPCs] /\ more' \in [Buses -> BOOLEAN]
    BY <1>5, RoutedValues DEF route_one
  <2>2. stmt' = stmt \/ stmt' = [stmt EXCEPT ![<<b, "unroutable">>] = "sent"]
    BY <1>5 DEF route_one
  <2>3. QED
    BY <1>5, <2>1, <2>2 DEF route_one
<1>6. ASSUME NEW b \in Buses, push(b) PROVE Values'
  BY <1>6, RoutedValues DEF push
<1>7. ASSUME NEW b \in Buses, settle_unroutable(b) PROVE Values'
  BY <1>7, RoutedValues DEF settle_unroutable
<1>8. ASSUME NEW b \in Buses, settle_unroutable_reread(b) PROVE Values'
  BY <1>8, RoutedValues DEF settle_unroutable_reread
<1>9. ASSUME NEW b \in Buses, reconnect(b) PROVE Values'
  BY <1>9 DEF reconnect
<1>10. ASSUME NEW b \in Buses, listener_error(b) PROVE Values'
  BY <1>10 DEF listener_error
<1>11. ASSUME NEW b \in Buses, unsettled_error(b) PROVE Values'
  BY <1>11 DEF unsettled_error
<1>12. ASSUME NEW b \in Buses, load_error(b) PROVE Values'
  BY <1>12, RoutedValues DEF load_error
<1>13. ASSUME NEW b \in Buses, settle_unroutable_error(b) PROVE Values'
  BY <1>13 DEF settle_unroutable_error
<1>14. ASSUME NEW b \in Buses, sweep_tick(b) PROVE Values'
  BY <1>14 DEF sweep_tick
<1>15. ASSUME NEW b \in Buses, deliver(b) PROVE Values'
  <2>1. PICK l \in {"claim", "send"} : dpc' = [dpc EXCEPT ![b] = l]
    BY <1>15 DEF deliver
  <2>2. stmt' = stmt \/ stmt' = [stmt EXCEPT ![<<b, "routed">>] = "sent"]
    BY <1>15 DEF deliver
  <2>3. QED
    BY <1>15, <2>1, <2>2 DEF deliver
<1>16. ASSUME NEW b \in Buses, deliver_reply(b) PROVE Values'
  BY <1>16 DEF deliver_reply, delivered
<1>17. ASSUME NEW b \in Buses, claim_outcome(b) PROVE Values'
  BY <1>17 DEF claim_outcome, delivered
<1>18. ASSUME NEW b \in Buses, send_or_record(b) PROVE Values'
  BY <1>18 DEF send_or_record, delivered, Sends
<1>19. ASSUME NEW b \in Buses, deliver_reply_error(b) PROVE Values'
  BY <1>19 DEF deliver_reply_error
<1>20. ASSUME NEW b \in Buses, recv_closed(b) PROVE Values'
  BY <1>20 DEF recv_closed
<1>21. ASSUME NEW b \in Buses, spawn(b) PROVE Values'
  BY <1>21 DEF spawn
<1>22. ASSUME NEW b \in Buses, shutdown(b) PROVE Values'
  BY <1>22 DEF shutdown
<1>23. ASSUME NEW b \in Buses, abort_pumps(b) PROVE Values'
  <2>1. /\ up' \in [Buses -> {"up", "stopping", "down"}] /\ more' \in [Buses -> BOOLEAN]
        /\ rpc' \in [Buses -> RouterPCs] /\ dpc' \in [Buses -> DeliverPCs]
    BY <1>23 DEF abort_pumps, PumpsGo
  <2>2. stmt' \in [Buses \X Dispositions -> {"none", "sent", "won", "lost"}]
    BY <1>23 DEF abort_pumps, PumpsGo
  <2>3. sent' \in [Tasks -> 0..SentCap]
    BY <1>23 DEF abort_pumps, PumpsGo, Sends
  <2>4. asks' \in [Asks -> AskStates]
    BY <1>23 DEF abort_pumps
  <2>5. QED
    BY <1>23, <2>1, <2>2, <2>3, <2>4 DEF abort_pumps
<1>24. ASSUME NEW b \in Buses, NEW d \in Dispositions, claim_reply(b, d) PROVE Values'
  BY <1>24 DEF claim_reply
<1>25. ASSUME NEW t \in Tasks, NEW d \in Dispositions, claim_reply_orphaned(t, d) PROVE Values'
  BY <1>25 DEF claim_reply_orphaned
<1>26. ASSUME NEW a \in Asks, try_deliver(a) PROVE Values'
  BY <1>26 DEF try_deliver
<1>27. ASSUME NEW a \in Asks, try_send_lands(a) PROVE Values'
  BY <1>27 DEF try_send_lands
<1>28. CASE daemon_crash
  BY <1>28 DEF daemon_crash, PumpsGo, Sends
<1>29. QED
  BY <1>1, <1>2, <1>3, <1>4, <1>5, <1>6, <1>7, <1>8, <1>9, <1>10, <1>11,
     <1>12, <1>13, <1>14, <1>15, <1>16, <1>17, <1>18, <1>19, <1>20, <1>21,
     <1>22, <1>23, <1>24, <1>25, <1>26, <1>27, <1>28 DEF Next, RouterStep,
     RouterFails, PumpStep, PumpFails

\* A claim left at the server is for a task.
LEMMA AbandonedTasks ==
  ASSUME Values, InHand, Waiting, NEW P \in SUBSET (Buses \X Dispositions)
  PROVE  Abandoned(P) \subseteq Tasks \X Dispositions
<1> SUFFICES ASSUME NEW q \in P, stmt[q] = "sent"
             PROVE  <<Claiming(q[1], q[2]), q[2]>> \in Tasks \X Dispositions
  BY DEF Abandoned
<1>1. q = <<q[1], q[2]>> /\ q[1] \in Buses /\ q[2] \in Dispositions
  OBVIOUS
<1>2. CASE q[2] = "routed"
  BY <1>1, <1>2 DEF Waiting, Waits, InHand, Claiming
<1>3. CASE q[2] = "unroutable"
  BY <1>1, <1>3 DEF Waiting, Waits, InHand, Claiming
<1>4. QED
  BY <1>1, <1>2, <1>3 DEF Dispositions

\* Where route_one's return leaves the completed-task pump's hands.
LEMMA RoutedInHand ==
  ASSUME Values, InHand, NEW b \in Buses, routed(b)
  PROVE  /\ rtask' \in [Buses -> Tasks \cup {Nothing}] /\ page' \in [Buses -> SUBSET Tasks]
         /\ after' \in [Buses -> Nat]
         /\ \A c \in Buses :
              rpc'[c] \in {"load", "push", "claim", "reread"} => rtask'[c] \in Tasks
<1> USE DEF Values, InHand
<1>1. CASE page[b] # {}
  <2>1. Least(page[b]) \in page[b] /\ page[b] \subseteq Tasks
    BY <1>1, LeastIn, ReplyAssumption
  <2>2. QED
    BY <1>1, <2>1 DEF routed
<1>2. CASE page[b] = {}
  <2>1. /\ rtask' = [rtask EXCEPT ![b] = Nothing] /\ UNCHANGED <<page, after>>
        /\ \E l \in {"read", "select"} : rpc' = [rpc EXCEPT ![b] = l]
    BY <1>2 DEF routed
  <2>2. QED
    BY <2>1
<1>3. QED
  BY <1>1, <1>2

\* The pumps keep tasks in hand where they will need one.
LEMMA InHandKept == ASSUME Values, InHand, Announced, Slots, Waiting, [Next]_vars PROVE InHand'
<1> USE ReplyAssumption DEF Values, InHand, NoFault, Fault, db, router, deliverer,
        claims, history
<1>1. CASE UNCHANGED vars
  BY <1>1 DEF vars
<1>2. ASSUME NEW t \in Tasks, finish(t) PROVE InHand'
  BY <1>2 DEF finish
<1>3. ASSUME NEW b \in Buses, next_completed(b) PROVE InHand'
  <2>1. Head(notes[b]) \in Tasks
    BY <1>3, TailAt DEF next_completed, Announced
  <2>2. QED
    BY <1>3, <2>1 DEF next_completed
<1>4. ASSUME NEW b \in Buses, unsettled(b) PROVE InHand'
  <2> DEFINE P == Page(after[b])
  <2>1. CASE P = {}
    BY <1>4, <2>1 DEF unsettled
  <2>2. CASE P # {}
    <3>1. /\ Least(P) \in Tasks /\ Greatest(P) \in Nat /\ P \in SUBSET Tasks
      BY <2>2, PageOfTasks, LeastIn, GreatestIn
    <3>2. /\ rpc' = [rpc EXCEPT ![b] = "load"] /\ rtask' = [rtask EXCEPT ![b] = Least(P)]
          /\ page' = [page EXCEPT ![b] = P \ {Least(P)}]
          /\ after' = [after EXCEPT ![b] = Greatest(P)]
          /\ UNCHANGED <<deliverer, claims, history>>
      BY <1>4, <2>2 DEF unsettled
    <3> HIDE DEF P
    <3>3. QED
      BY <3>1, <3>2
  <2>3. QED
    BY <2>1, <2>2
<1>5. ASSUME NEW b \in Buses, route_one(b) PROVE InHand'
  <2>1. CASE routed(b)
    BY <1>5, <2>1, RoutedInHand DEF route_one
  <2>2. CASE \E l \in {"push", "claim"} : rpc' = [rpc EXCEPT ![b] = l] /\ UNCHANGED <<rtask, page, after>>
    BY <1>5, <2>2 DEF route_one
  <2>3. QED
    BY <1>5, <2>1, <2>2 DEF route_one
<1>6. ASSUME NEW b \in Buses, push(b) PROVE InHand'
  BY <1>6, RoutedInHand DEF push
<1>7. ASSUME NEW b \in Buses, settle_unroutable(b) PROVE InHand'
  <2>1. rtask[b] \in Tasks
    BY <1>7 DEF settle_unroutable
  <2>2. QED
    BY <1>7, <2>1, RoutedInHand DEF settle_unroutable
<1>8. ASSUME NEW b \in Buses, settle_unroutable_reread(b) PROVE InHand'
  <2>1. rtask[b] \in Tasks
    BY <1>8 DEF settle_unroutable_reread
  <2>2. QED
    BY <1>8, <2>1, RoutedInHand DEF settle_unroutable_reread
<1>9. ASSUME NEW b \in Buses, reconnect(b) PROVE InHand'
  BY <1>9 DEF reconnect
<1>10. ASSUME NEW b \in Buses, listener_error(b) PROVE InHand'
  BY <1>10 DEF listener_error
<1>11. ASSUME NEW b \in Buses, unsettled_error(b) PROVE InHand'
  BY <1>11 DEF unsettled_error
<1>12. ASSUME NEW b \in Buses, load_error(b) PROVE InHand'
  BY <1>12, RoutedInHand DEF load_error
<1>13. ASSUME NEW b \in Buses, settle_unroutable_error(b) PROVE InHand'
  <2>1. Abandoned({<<b, "unroutable">>}) \subseteq Tasks \X Dispositions
    BY <1>13, AbandonedTasks DEF Dispositions
  <2>2. QED
    BY <1>13, <2>1 DEF settle_unroutable_error
<1>14. ASSUME NEW b \in Buses, sweep_tick(b) PROVE InHand'
  BY <1>14 DEF sweep_tick
<1>15. ASSUME NEW b \in Buses, deliver(b) PROVE InHand'
  <2>1. Head(queue[b]) \in Tasks \cup Asks
    BY <1>15, TailAt DEF deliver, Slots
  <2>2. QED
    BY <1>15, <2>1 DEF deliver
<1>16. ASSUME NEW b \in Buses, deliver_reply(b) PROVE InHand'
  BY <1>16 DEF deliver_reply, delivered
<1>17. ASSUME NEW b \in Buses, claim_outcome(b) PROVE InHand'
  <2>1. /\ ditem[b] \in Tasks /\ said' \subseteq said \cup {ditem[b]}
        /\ behind' \subseteq behind \cup {ditem[b]}
    BY <1>17 DEF claim_outcome
  <2>2. QED
    BY <1>17, <2>1 DEF claim_outcome, delivered
<1>18. ASSUME NEW b \in Buses, send_or_record(b) PROVE InHand'
  BY <1>18 DEF send_or_record, delivered
<1>19. ASSUME NEW b \in Buses, deliver_reply_error(b) PROVE InHand'
  <2>1. Abandoned({<<b, "routed">>}) \subseteq Tasks \X Dispositions
    BY <1>19, AbandonedTasks DEF Dispositions
  <2>2. QED
    BY <1>19, <2>1 DEF deliver_reply_error
<1>20. ASSUME NEW b \in Buses, recv_closed(b) PROVE InHand'
  BY <1>20 DEF recv_closed
<1>21. ASSUME NEW b \in Buses, spawn(b) PROVE InHand'
  BY <1>21 DEF spawn
<1>22. ASSUME NEW b \in Buses, shutdown(b) PROVE InHand'
  BY <1>22 DEF shutdown
<1>23. ASSUME NEW b \in Buses, abort_pumps(b) PROVE InHand'
  <2>1. Abandoned({b} \X Dispositions) \subseteq Tasks \X Dispositions
    BY <1>23, AbandonedTasks
  <2>2. QED
    BY <1>23, <2>1 DEF abort_pumps, PumpsGo, guarded
<1>24. ASSUME NEW b \in Buses, NEW d \in Dispositions, claim_reply(b, d) PROVE InHand'
  BY <1>24 DEF claim_reply
<1>25. ASSUME NEW t \in Tasks, NEW d \in Dispositions, claim_reply_orphaned(t, d) PROVE InHand'
  BY <1>25 DEF claim_reply_orphaned
<1>26. ASSUME NEW a \in Asks, try_deliver(a) PROVE InHand'
  BY <1>26 DEF try_deliver
<1>27. ASSUME NEW a \in Asks, try_send_lands(a) PROVE InHand'
  BY <1>27 DEF try_send_lands
<1>28. CASE daemon_crash
  <2>1. Abandoned(Buses \X Dispositions) \subseteq Tasks \X Dispositions
    BY <1>28, AbandonedTasks
  <2>2. crashed' \subseteq Tasks
    <3>1. \A c \in Buses : guarded(c) \subseteq Tasks
      BY DEF guarded
    <3>2. UNION {guarded(c) : c \in Buses} \subseteq Tasks
      BY <3>1
    <3>3. QED
      BY <1>28, <3>2 DEF daemon_crash
  <2>3. QED
    BY <1>28, <2>1, <2>2 DEF daemon_crash, PumpsGo
<1>29. QED
  BY <1>1, <1>2, <1>3, <1>4, <1>5, <1>6, <1>7, <1>8, <1>9, <1>10, <1>11,
     <1>12, <1>13, <1>14, <1>15, <1>16, <1>17, <1>18, <1>19, <1>20, <1>21,
     <1>22, <1>23, <1>24, <1>25, <1>26, <1>27, <1>28 DEF Next, RouterStep,
     RouterFails, PumpStep, PumpFails

\* A listener that loses or takes its first NOTIFY.
LEMMA AnnouncedTail ==
  ASSUME Announced, NEW b \in Buses, notes[b] # <<>>, UNCHANGED done,
         notes' = [notes EXCEPT ![b] = Tail(notes[b])]
  PROVE  Announced'
<1> USE DEF Announced
<1>1. /\ Tail(notes[b]) \in Seq(Tasks) /\ Len(Tail(notes[b])) \in Nat
      /\ \A i \in 1..Len(Tail(notes[b])) :
           i + 1 \in 1..Len(notes[b]) /\ Tail(notes[b])[i] = notes[b][i + 1]
  BY TailAt
<1>2. notes' \in [Buses -> Seq(Tasks)]
  BY <1>1
<1>3. ASSUME NEW c \in Buses, NEW i \in 1..Len(notes'[c]) PROVE done[notes'[c][i]]
  BY <1>1
<1>4. ASSUME NEW c \in Buses, NEW i \in 1..Len(notes'[c]), NEW j \in 1..Len(notes'[c]),
             notes'[c][i] = notes'[c][j]
      PROVE  i = j
  <2>1. CASE c = b
    <3>1. notes[b][i + 1] = notes[b][j + 1] /\ i + 1 \in 1..Len(notes[b]) /\ j + 1 \in 1..Len(notes[b])
      BY <1>1, <1>4, <2>1
    <3>2. i + 1 = j + 1 /\ i \in Nat /\ j \in Nat
      BY <1>1, <1>4, <2>1, <3>1
    <3>3. QED
      BY <3>2
  <2>2. CASE c # b
    BY <1>4, <2>2
  <2>3. QED
    BY <2>1, <2>2
<1>5. QED
  BY <1>2, <1>3, <1>4

\* A listener holds a task's NOTIFY at most once.
LEMMA AnnouncedKept == ASSUME Values, Announced, [Next]_vars PROVE Announced'
<1> USE ReplyAssumption DEF Values, Announced, NoFault, Fault, db, router, deliverer,
        claims, history
<1>1. CASE UNCHANGED vars
  BY <1>1 DEF vars
<1>2. ASSUME NEW t \in Tasks, finish(t) PROVE Announced'
  <2>1. done' = [done EXCEPT ![t] = TRUE] /\ ~done[t]
        /\ \A u \in Tasks : done[u] => done'[u] /\ u # t
    BY <1>2 DEF finish
  <2>2. ASSUME NEW c \in Buses
        PROVE  /\ notes'[c] \in Seq(Tasks)
               /\ \A i \in 1..Len(notes'[c]) : done'[notes'[c][i]]
               /\ \A i, j \in 1..Len(notes'[c]) : notes'[c][i] = notes'[c][j] => i = j
    <3>1. CASE notes'[c] = notes[c]
      <4>1. \A i \in 1..Len(notes[c]) : notes[c][i] \in Tasks
        OBVIOUS
      <4>2. QED
        BY <2>1, <3>1, <4>1
    <3>2. CASE notes'[c] = Append(notes[c], t)
      <4> DEFINE n == Len(notes[c])
      <4>1. /\ notes'[c] \in Seq(Tasks) /\ Len(notes'[c]) = n + 1 /\ n \in Nat
            /\ \A i \in 1..n : notes'[c][i] = notes[c][i] /\ notes[c][i] \in Tasks
            /\ notes'[c][n + 1] = t
        BY <3>2, AppendAt
      <4>2. \A i \in 1..n : done[notes[c][i]] /\ notes[c][i] # t
        BY <2>1, <4>1
      <4>3. \A i \in 1..(n + 1) : i \in 1..n \/ i = n + 1
        BY <4>1
      <4>4. done'[t]
        BY <2>1
      <4> HIDE DEF n
      <4>5. ASSUME NEW i \in 1..(n + 1) PROVE done'[notes'[c][i]]
        <5>1. CASE i \in 1..n
          BY <2>1, <4>1, <4>2, <5>1
        <5>2. CASE i = n + 1
          BY <4>1, <4>4, <5>2
        <5>3. QED
          BY <4>3, <5>1, <5>2
      <4>6. \A i, j \in 1..n : notes[c][i] = notes[c][j] => i = j
        BY DEF n
      <4>7. \A i, j \in 1..(n + 1) : notes'[c][i] = notes'[c][j] => i = j
        BY <4>1, <4>2, <4>3, <4>6
      <4>8. QED
        BY <4>1, <4>5, <4>7
    <3>3. QED
      BY <1>2, <3>1, <3>2 DEF finish
  <2>3. notes' \in [Buses -> Seq(Tasks)]
    BY <1>2, <2>2 DEF finish
  <2>4. QED
    BY <2>2, <2>3
<1>3. ASSUME NEW b \in Buses, next_completed(b) PROVE Announced'
  BY <1>3, AnnouncedTail DEF next_completed
<1>4. ASSUME NEW b \in Buses, unsettled(b) PROVE Announced'
  BY <1>4 DEF unsettled
<1>5. ASSUME NEW b \in Buses, route_one(b) PROVE Announced'
  BY <1>5 DEF route_one
<1>6. ASSUME NEW b \in Buses, push(b) PROVE Announced'
  BY <1>6 DEF push
<1>7. ASSUME NEW b \in Buses, settle_unroutable(b) PROVE Announced'
  BY <1>7 DEF settle_unroutable
<1>8. ASSUME NEW b \in Buses, settle_unroutable_reread(b) PROVE Announced'
  BY <1>8 DEF settle_unroutable_reread
<1>9. ASSUME NEW b \in Buses, reconnect(b) PROVE Announced'
  BY <1>9, AnnouncedTail DEF reconnect
<1>10. ASSUME NEW b \in Buses, listener_error(b) PROVE Announced'
  BY <1>10 DEF listener_error
<1>11. ASSUME NEW b \in Buses, unsettled_error(b) PROVE Announced'
  BY <1>11 DEF unsettled_error
<1>12. ASSUME NEW b \in Buses, load_error(b) PROVE Announced'
  BY <1>12 DEF load_error
<1>13. ASSUME NEW b \in Buses, settle_unroutable_error(b) PROVE Announced'
  BY <1>13 DEF settle_unroutable_error
<1>14. ASSUME NEW b \in Buses, sweep_tick(b) PROVE Announced'
  BY <1>14, AnnouncedTail DEF sweep_tick
<1>15. ASSUME NEW b \in Buses, deliver(b) PROVE Announced'
  BY <1>15 DEF deliver
<1>16. ASSUME NEW b \in Buses, deliver_reply(b) PROVE Announced'
  BY <1>16 DEF deliver_reply
<1>17. ASSUME NEW b \in Buses, claim_outcome(b) PROVE Announced'
  BY <1>17 DEF claim_outcome
<1>18. ASSUME NEW b \in Buses, send_or_record(b) PROVE Announced'
  BY <1>18 DEF send_or_record
<1>19. ASSUME NEW b \in Buses, deliver_reply_error(b) PROVE Announced'
  BY <1>19 DEF deliver_reply_error
<1>20. ASSUME NEW b \in Buses, recv_closed(b) PROVE Announced'
  BY <1>20 DEF recv_closed
<1>21. ASSUME NEW b \in Buses, spawn(b) PROVE Announced'
  BY <1>21 DEF spawn
<1>22. ASSUME NEW b \in Buses, shutdown(b) PROVE Announced'
  BY <1>22 DEF shutdown
<1>23. ASSUME NEW b \in Buses, abort_pumps(b) PROVE Announced'
  BY <1>23 DEF abort_pumps, PumpsGo
<1>24. ASSUME NEW b \in Buses, NEW d \in Dispositions, claim_reply(b, d) PROVE Announced'
  BY <1>24 DEF claim_reply
<1>25. ASSUME NEW t \in Tasks, NEW d \in Dispositions, claim_reply_orphaned(t, d) PROVE Announced'
  BY <1>25 DEF claim_reply_orphaned
<1>26. ASSUME NEW a \in Asks, try_deliver(a) PROVE Announced'
  BY <1>26 DEF try_deliver
<1>27. ASSUME NEW a \in Asks, try_send_lands(a) PROVE Announced'
  BY <1>27 DEF try_send_lands
<1>28. CASE daemon_crash
  BY <1>28 DEF daemon_crash, PumpsGo
<1>29. QED
  BY <1>1, <1>2, <1>3, <1>4, <1>5, <1>6, <1>7, <1>8, <1>9, <1>10, <1>11,
     <1>12, <1>13, <1>14, <1>15, <1>16, <1>17, <1>18, <1>19, <1>20, <1>21,
     <1>22, <1>23, <1>24, <1>25, <1>26, <1>27, <1>28 DEF Next, RouterStep,
     RouterFails, PumpStep, PumpFails

\* One element more is one more to count.
LEMMA OneMore ==
  ASSUME NEW S, NEW T, NEW x, IsFiniteSet(S), x \notin S, T = S \cup {x}
  PROVE  Cardinality(T) = Cardinality(S) + 1
BY FS_AddElement

\* One element fewer is one fewer to count.
LEMMA OneFewer ==
  ASSUME NEW S, NEW T, NEW x, IsFiniteSet(S), x \in S, T = S \ {x}
  PROVE  Cardinality(T) = Cardinality(S) - 1
BY FS_RemoveElement

\* The slots handed out are a finite set of asks, before and after a step.
LEMMA ReservedFinite ==
  \A b \in Buses :
    /\ IsFiniteSet(Reserved(b)) /\ Cardinality(Reserved(b)) \in Nat
    /\ IsFiniteSet(Reserved(b)') /\ Cardinality(Reserved(b)') \in Nat
<1> TAKE b \in Buses
<1>1. Reserved(b) \in SUBSET Asks /\ Reserved(b)' \in SUBSET Asks /\ IsFiniteSet(Asks)
  BY ReplyAssumption DEF Reserved
<1>2. QED
  BY <1>1, FS_Subset, FS_CardinalityType

\* A step that fills no queue and hands out no slot keeps within the capacity.
LEMMA SlotsShrink ==
  ASSUME Slots, queue' \in [Buses -> Seq(Tasks \cup Asks)],
         \A b \in Buses : Len(queue'[b]) <= Len(queue[b]),
         \A a \in Asks : asks'[a] = "reserved" => asks[a] = "reserved"
  PROVE  \A b \in Buses : Len(queue'[b]) + Cardinality(Reserved(b)') <= QueueCap
<1> TAKE b \in Buses
<1>1. Reserved(b)' \in SUBSET Reserved(b) /\ IsFiniteSet(Reserved(b))
  BY ReservedFinite DEF Reserved
<1>2. Cardinality(Reserved(b)') <= Cardinality(Reserved(b))
  BY <1>1, FS_Subset
<1>3. Cardinality(Reserved(b)') \in Nat /\ Cardinality(Reserved(b)) \in Nat
      /\ Len(queue[b]) \in Nat /\ Len(queue'[b]) \in Nat
  BY ReservedFinite DEF Slots
<1>4. Len(queue[b]) + Cardinality(Reserved(b)) <= QueueCap /\ QueueCap \in Nat
      /\ Len(queue'[b]) <= Len(queue[b])
  BY ReplyAssumption DEF Slots
<1>5. QED
  BY <1>2, <1>3, <1>4

\* A step that leaves the queues and the asks alone.
LEMMA SlotsSame ==
  ASSUME Slots, UNCHANGED <<queue, asks, up>> PROVE Slots'
  BY DEF Slots, Reserved

\* The queue and the slots handed out stay within its capacity together, and a
\* slot outlives no registration.
LEMMA SlotsKept == ASSUME Values, InHand, Slots, [Next]_vars PROVE Slots'
<1> USE ReplyAssumption DEF Values, NoFault, Fault, db, router, deliverer, claims, history
<1>1. CASE UNCHANGED vars
  BY <1>1, SlotsSame DEF vars
<1>2. ASSUME NEW t \in Tasks, finish(t) PROVE Slots'
  BY <1>2, SlotsSame DEF finish
<1>3. ASSUME NEW b \in Buses, next_completed(b) PROVE Slots'
  BY <1>3, SlotsSame DEF next_completed
<1>4. ASSUME NEW b \in Buses, unsettled(b) PROVE Slots'
  BY <1>4, SlotsSame DEF unsettled
<1>5. ASSUME NEW b \in Buses, route_one(b) PROVE Slots'
  BY <1>5, SlotsSame DEF route_one
<1>6. ASSUME NEW b \in Buses, push(b) PROVE Slots'
  <2>1. \A c \in Buses : Reserved(c)' = Reserved(c)
    BY <1>6 DEF push, Reserved
  <2>2. CASE UNCHANGED queue
    BY <1>6, <2>2, SlotsSame DEF push
  <2>3. CASE Room(b) /\ queue' = [queue EXCEPT ![b] = Append(queue[b], rtask[b])]
    <3>1. rtask[b] \in Tasks \cup Asks
      BY <1>6 DEF push, InHand
    <3>2. Append(queue[b], rtask[b]) \in Seq(Tasks \cup Asks)
          /\ Len(Append(queue[b], rtask[b])) = Len(queue[b]) + 1
      BY <3>1, AppendAt DEF Slots
    <3>3. Len(queue[b]) + 1 + Cardinality(Reserved(b)) <= QueueCap
      BY <2>3, ReservedFinite DEF Room, Slots
    <3>4. QED
      BY <1>6, <2>1, <2>3, <3>2, <3>3 DEF push, Slots
  <2>4. QED
    BY <1>6, <2>2, <2>3 DEF push
<1>7. ASSUME NEW b \in Buses, settle_unroutable(b) PROVE Slots'
  BY <1>7, SlotsSame DEF settle_unroutable
<1>8. ASSUME NEW b \in Buses, settle_unroutable_reread(b) PROVE Slots'
  BY <1>8, SlotsSame DEF settle_unroutable_reread
<1>9. ASSUME NEW b \in Buses, reconnect(b) PROVE Slots'
  BY <1>9, SlotsSame DEF reconnect
<1>10. ASSUME NEW b \in Buses, listener_error(b) PROVE Slots'
  BY <1>10, SlotsSame DEF listener_error
<1>11. ASSUME NEW b \in Buses, unsettled_error(b) PROVE Slots'
  BY <1>11, SlotsSame DEF unsettled_error
<1>12. ASSUME NEW b \in Buses, load_error(b) PROVE Slots'
  BY <1>12, SlotsSame DEF load_error
<1>13. ASSUME NEW b \in Buses, settle_unroutable_error(b) PROVE Slots'
  BY <1>13, SlotsSame DEF settle_unroutable_error
<1>14. ASSUME NEW b \in Buses, sweep_tick(b) PROVE Slots'
  BY <1>14, SlotsSame DEF sweep_tick
<1>15. ASSUME NEW b \in Buses, deliver(b) PROVE Slots'
  <2>1. Tail(queue[b]) \in Seq(Tasks \cup Asks) /\ Len(Tail(queue[b])) <= Len(queue[b])
    BY <1>15, TailAt DEF deliver, Slots
  <2>2. queue' = [queue EXCEPT ![b] = Tail(queue[b])] /\ UNCHANGED <<asks, up>>
    BY <1>15 DEF deliver
  <2>3. queue' \in [Buses -> Seq(Tasks \cup Asks)] /\ \A c \in Buses : Len(queue'[c]) <= Len(queue[c])
    BY <2>1, <2>2 DEF Slots
  <2>4. QED
    BY <2>2, <2>3, SlotsShrink DEF Slots
<1>16. ASSUME NEW b \in Buses, deliver_reply(b) PROVE Slots'
  BY <1>16, SlotsSame DEF deliver_reply
<1>17. ASSUME NEW b \in Buses, claim_outcome(b) PROVE Slots'
  BY <1>17, SlotsSame DEF claim_outcome
<1>18. ASSUME NEW b \in Buses, send_or_record(b) PROVE Slots'
  <2>1. UNCHANGED <<queue, up>> /\ \A a \in Asks : asks'[a] = asks[a] \/ asks'[a] \in {"sent", "refused"}
    BY <1>18 DEF send_or_record
  <2>2. /\ queue' \in [Buses -> Seq(Tasks \cup Asks)]
        /\ \A c \in Buses : Len(queue'[c]) <= Len(queue[c])
    BY <2>1 DEF Slots
  <2>3. \A a \in Asks : asks'[a] \in {"reserved", "vanished"} => asks'[a] = asks[a]
    BY <2>1
  <2>4. QED
    BY <2>1, <2>2, <2>3, SlotsShrink DEF Slots
<1>19. ASSUME NEW b \in Buses, deliver_reply_error(b) PROVE Slots'
  BY <1>19, SlotsSame DEF deliver_reply_error
<1>20. ASSUME NEW b \in Buses, recv_closed(b) PROVE Slots'
  <2>1. /\ queue' = [queue EXCEPT ![b] = <<>>] /\ UNCHANGED up
        /\ \A a \in Asks : asks'[a] = asks[a] \/ asks'[a] = "said"
    BY <1>20 DEF recv_closed
  <2>2. queue' \in [Buses -> Seq(Tasks \cup Asks)] /\ \A c \in Buses : Len(queue'[c]) <= Len(queue[c])
    BY <2>1 DEF Slots
  <2>3. QED
    BY <2>1, <2>2, SlotsShrink DEF Slots
<1>21. ASSUME NEW b \in Buses, spawn(b) PROVE Slots'
  <2>1. \A c \in Buses : Reserved(c)' = Reserved(c)
    BY <1>21 DEF spawn, Reserved
  <2>2. QED
    BY <1>21, <2>1 DEF spawn, Slots
<1>22. ASSUME NEW b \in Buses, shutdown(b) PROVE Slots'
  <2>1. \A c \in Buses : Reserved(c)' = Reserved(c)
    BY <1>22 DEF shutdown, Reserved
  <2>2. \A a \in Asks : asks[a] = "reserved" => AskBus[a] # b
    BY <1>22 DEF shutdown, deregister_free, Reserved
  <2>3. QED
    BY <1>22, <2>1, <2>2 DEF shutdown, Slots
<1>23. ASSUME NEW b \in Buses, abort_pumps(b) PROVE Slots'
  <2>1. /\ \A c \in Buses : c # b => queue'[c] = queue[c] /\ up'[c] = up[c]
        /\ queue'[b] = <<>> /\ up[b] = "stopping"
        /\ \A a \in Asks : asks'[a] = asks[a] \/ asks'[a] = "said"
    BY <1>23 DEF abort_pumps, PumpsGo
  <2>2. queue' \in [Buses -> Seq(Tasks \cup Asks)]
    BY <1>23 DEF abort_pumps, PumpsGo, Slots
  <2>3. \A c \in Buses : Len(queue'[c]) <= Len(queue[c])
    <3>1. Len(queue'[b]) = 0 /\ Len(queue[b]) \in Nat
      BY <2>1 DEF Slots
    <3>2. \A c \in Buses : c # b => Len(queue'[c]) = Len(queue[c]) /\ Len(queue[c]) \in Nat
      BY <2>1 DEF Slots
    <3>3. QED
      BY <3>1, <3>2
  <2>4. QED
    BY <2>1, <2>2, <2>3, SlotsShrink DEF Slots
<1>24. ASSUME NEW b \in Buses, NEW d \in Dispositions, claim_reply(b, d) PROVE Slots'
  BY <1>24, SlotsSame DEF claim_reply
<1>25. ASSUME NEW t \in Tasks, NEW d \in Dispositions, claim_reply_orphaned(t, d) PROVE Slots'
  BY <1>25, SlotsSame DEF claim_reply_orphaned
<1>26. ASSUME NEW a \in Asks, try_deliver(a) PROVE Slots'
  <2> DEFINE b == AskBus[a]
  <2>1. b \in Buses /\ asks[a] = "none" /\ UNCHANGED <<queue, up>>
    BY <1>26 DEF try_deliver
  <2>2. CASE asks' = [asks EXCEPT ![a] = "failed"]
    BY <2>1, <2>2, SlotsShrink DEF Slots
  <2>3. CASE asks' = [asks EXCEPT ![a] = "reserved"] /\ up[b] = "up" /\ Room(b)
    <3>1. /\ Reserved(b)' = Reserved(b) \cup {a} /\ a \notin Reserved(b)
          /\ \A c \in Buses : c # b => Reserved(c)' = Reserved(c)
      BY <2>1, <2>3 DEF Reserved
    <3>2. Cardinality(Reserved(b)') = Cardinality(Reserved(b)) + 1
      <4>1. IsFiniteSet(Reserved(b))
        BY <2>1, ReservedFinite
      <4>2. QED
        BY <3>1, <4>1, OneMore
    <3>3. Len(queue[b]) + Cardinality(Reserved(b)') <= QueueCap
      BY <2>1, <2>3, <3>2, ReservedFinite DEF Room, Slots
    <3> HIDE DEF b
    <3>4. \A c \in Buses : Len(queue'[c]) + Cardinality(Reserved(c)') <= QueueCap
      BY <2>1, <3>1, <3>3 DEF Slots
    <3>5. QED
      BY <2>1, <2>3, <3>4 DEF Slots, b
  <2>4. QED
    BY <1>26, <2>2, <2>3 DEF try_deliver
<1>27. ASSUME NEW a \in Asks, try_send_lands(a) PROVE Slots'
  <2> DEFINE b == AskBus[a]
  <2>1. b \in Buses /\ asks[a] = "reserved" /\ UNCHANGED up /\ up[b] = "up"
    BY <1>27 DEF try_send_lands, Slots
  <2>2. CASE queue' = queue /\ asks' = [asks EXCEPT ![a] = "strayed"]
    BY <2>1, <2>2, SlotsShrink DEF Slots
  <2>3. CASE queue' = [queue EXCEPT ![b] = Append(queue[b], a)] /\ asks' = [asks EXCEPT ![a] = "queued"]
    <3>1. /\ Reserved(b)' = Reserved(b) \ {a} /\ a \in Reserved(b)
          /\ \A c \in Buses : c # b => Reserved(c)' = Reserved(c)
      BY <2>1, <2>3 DEF Reserved
    <3>2. Cardinality(Reserved(b)') = Cardinality(Reserved(b)) - 1
      <4>1. IsFiniteSet(Reserved(b))
        BY <2>1, ReservedFinite
      <4>2. QED
        BY <3>1, <4>1, OneFewer
    <3>3. Append(queue[b], a) \in Seq(Tasks \cup Asks) /\ Len(Append(queue[b], a)) = Len(queue[b]) + 1
      BY <2>1, AppendAt DEF Slots
    <3>4. Len(queue[b]) + 1 + Cardinality(Reserved(b)') <= QueueCap
      BY <2>1, <3>2, ReservedFinite DEF Slots
    <3> HIDE DEF b
    <3>5. \A c \in Buses : Len(queue'[c]) + Cardinality(Reserved(c)') <= QueueCap
      BY <2>1, <2>3, <3>1, <3>3, <3>4 DEF Slots
    <3>6. queue' \in [Buses -> Seq(Tasks \cup Asks)]
      BY <2>1, <2>3, <3>3 DEF Slots
    <3>7. QED
      BY <2>1, <2>3, <3>5, <3>6 DEF Slots
  <2>4. QED
    BY <1>27, <2>1, <2>2, <2>3 DEF try_send_lands
<1>28. CASE daemon_crash
  <2>1. /\ \A c \in Buses : queue'[c] = <<>>
        /\ \A a \in Asks : asks'[a] = "crashed" \/ (asks'[a] = asks[a] /\ asks[a] # "reserved")
    BY <1>28 DEF daemon_crash, PumpsGo
  <2>2. queue' \in [Buses -> Seq(Tasks \cup Asks)]
    BY <1>28 DEF daemon_crash, PumpsGo
  <2>3. \A c \in Buses : Len(queue'[c]) <= Len(queue[c])
    BY <2>1 DEF Slots
  <2>4. QED
    BY <2>1, <2>2, <2>3, SlotsShrink DEF Slots
<1>29. QED
  BY <1>1, <1>2, <1>3, <1>4, <1>5, <1>6, <1>7, <1>8, <1>9, <1>10, <1>11,
     <1>12, <1>13, <1>14, <1>15, <1>16, <1>17, <1>18, <1>19, <1>20, <1>21,
     <1>22, <1>23, <1>24, <1>25, <1>26, <1>27, <1>28 DEF Next, RouterStep,
     RouterFails, PumpStep, PumpFails

\* A step that puts no ask anywhere new: what is left of the queues and hands is
\* where it was and still queued, and what is still queued is left.
LEMMA PlacedStays ==
  ASSUME Placed,
         \A c \in Buses : ditem'[c] \in Asks =>
           ditem'[c] = ditem[c] /\ dpc'[c] = dpc[c] /\ asks'[ditem[c]] = "queued",
         \A c \in Buses : \A i \in 1..Len(queue'[c]) : queue'[c][i] \in Asks =>
           i \in 1..Len(queue[c]) /\ queue'[c][i] = queue[c][i] /\ asks'[queue[c][i]] = "queued",
         \A a \in Asks : asks'[a] = "queued" =>
           /\ asks[a] = "queued"
           /\ ditem[AskBus[a]] = a => ditem'[AskBus[a]] = a
           /\ \A i \in 1..Len(queue[AskBus[a]]) : queue[AskBus[a]][i] = a =>
                i \in 1..Len(queue'[AskBus[a]]) /\ queue'[AskBus[a]][i] = a
  PROVE  Placed'
<1>1. ASSUME NEW c \in Buses, NEW i \in 1..Len(queue'[c]), queue'[c][i] \in Asks
      PROVE  /\ asks'[queue'[c][i]] = "queued" /\ AskBus[queue'[c][i]] = c
             /\ ditem'[c] # queue'[c][i]
             /\ \A j \in 1..Len(queue'[c]) : queue'[c][j] = queue'[c][i] => j = i
  BY <1>1 DEF Placed
<1>2. ASSUME NEW c \in Buses, ditem'[c] \in Asks
      PROVE  dpc'[c] = "send" /\ asks'[ditem'[c]] = "queued" /\ AskBus[ditem'[c]] = c
  BY <1>2 DEF Placed
<1>3. ASSUME NEW a \in Asks, asks'[a] = "queued"
      PROVE  \/ ditem'[AskBus[a]] = a
             \/ \E i \in 1..Len(queue'[AskBus[a]]) : queue'[AskBus[a]][i] = a
  BY <1>3 DEF Placed
<1>4. QED
  BY <1>1, <1>2, <1>3 DEF Placed

\* A step that moves no ask, and no pump that has one in hand.
LEMMA PlacedSame ==
  ASSUME Placed, UNCHANGED <<queue, asks>>,
         \A b \in Buses :
           \/ ditem'[b] = ditem[b] /\ (ditem[b] \in Asks => dpc'[b] = dpc[b])
           \/ ditem[b] \notin Asks /\ ditem'[b] \notin Asks
  PROVE  Placed'
<1>1. \A b \in Buses : \A i \in 1..Len(queue[b]) :
        queue[b][i] \in Asks => ditem'[b] # queue[b][i]
  BY DEF Placed
<1>2. \A b \in Buses : ditem'[b] \in Asks => ditem'[b] = ditem[b] /\ dpc'[b] = dpc[b]
  OBVIOUS
<1>3. \A a \in Asks : ditem[AskBus[a]] = a => ditem'[AskBus[a]] = a
  BY ReplyAssumption
<1>4. QED
  BY <1>1, <1>2, <1>3 DEF Placed

\* The queued asks of a bus are those in its queue and the one in its delivery pump's
\* hand: no other ask is announced to it.
LEMMA QueuedAsks ==
  ASSUME Placed, NEW b \in Buses, NEW a \in Asks
  PROVE  AskBus[a] = b /\ asks[a] = "queued" <=> a \in AsksIn(queue[b]) \cup {ditem[b]}
<1>1. a \in AsksIn(queue[b]) <=> \E i \in 1..Len(queue[b]) : queue[b][i] = a
  BY DEF AsksIn
<1>2. ASSUME AskBus[a] = b, asks[a] = "queued"
      PROVE  a \in AsksIn(queue[b]) \cup {ditem[b]}
  BY <1>1, <1>2 DEF Placed
<1>3. ASSUME a \in AsksIn(queue[b])
      PROVE  AskBus[a] = b /\ asks[a] = "queued"
  <2>1. PICK i \in 1..Len(queue[b]) : queue[b][i] = a
    BY <1>1, <1>3
  <2>2. QED
    BY <2>1 DEF Placed
<1>4. ASSUME a = ditem[b]
      PROVE  AskBus[a] = b /\ asks[a] = "queued"
  BY <1>4 DEF Placed
<1>5. QED
  BY <1>2, <1>3, <1>4

\* The queues and hands of some buses go empty, the asks they held are marked so,
\* and no other ask is touched that is queued.
LEMMA PlacedGone ==
  ASSUME Placed, Slots, NEW G \in SUBSET Buses,
         \A b \in Buses : b \notin G => queue'[b] = queue[b] /\ ditem'[b] = ditem[b] /\ dpc'[b] = dpc[b],
         \A b \in G : queue'[b] = <<>> /\ ditem'[b] \notin Asks,
         \A a \in Asks : AskBus[a] \in G /\ asks[a] = "queued" => asks'[a] # "queued",
         \A a \in Asks : AskBus[a] \notin G => asks'[a] = asks[a],
         \A a \in Asks : asks'[a] = "queued" => asks[a] = "queued"
  PROVE  Placed'
<1>1. \A b \in Buses : \A i \in 1..Len(queue'[b]) : b \notin G
  OBVIOUS
<1>2. \A b \in Buses : ditem'[b] \in Asks => b \notin G
  OBVIOUS
<1>3. \A a \in Asks : asks'[a] = "queued" => AskBus[a] \notin G /\ AskBus[a] \in Buses
  BY ReplyAssumption
<1>4. QED
  BY <1>1, <1>2, <1>3 DEF Placed

\* Every queued ask stays in one place.
LEMMA PlacedKept == ASSUME Values, InHand, Slots, Placed, Waiting, [Next]_vars PROVE Placed'
<1> USE ReplyAssumption DEF Values, NoFault, Fault, db, router, deliverer, claims, history
<1>1. CASE UNCHANGED vars
  BY <1>1, PlacedSame DEF vars
<1>2. ASSUME NEW t \in Tasks, finish(t) PROVE Placed'
  BY <1>2, PlacedSame DEF finish
<1>3. ASSUME NEW b \in Buses, next_completed(b) PROVE Placed'
  BY <1>3, PlacedSame DEF next_completed
<1>4. ASSUME NEW b \in Buses, unsettled(b) PROVE Placed'
  BY <1>4, PlacedSame DEF unsettled
<1>5. ASSUME NEW b \in Buses, route_one(b) PROVE Placed'
  BY <1>5, PlacedSame DEF route_one
<1>6. ASSUME NEW b \in Buses, push(b) PROVE Placed'
  <2>1. CASE UNCHANGED queue
    BY <1>6, <2>1, PlacedSame DEF push
  <2>2. CASE queue' = [queue EXCEPT ![b] = Append(queue[b], rtask[b])]
    <3>1. rtask[b] \in Tasks /\ rtask[b] \notin Asks
      BY <1>6 DEF push, InHand
    <3>2. /\ Len(queue'[b]) = Len(queue[b]) + 1 /\ Len(queue[b]) \in Nat
          /\ \A i \in 1..Len(queue[b]) : queue'[b][i] = queue[b][i]
          /\ queue'[b][Len(queue[b]) + 1] = rtask[b]
          /\ \A c \in Buses : c # b => queue'[c] = queue[c]
      BY <2>2, <3>1, AppendAt DEF Slots
    <3>3. \A i \in 1..Len(queue'[b]) : i \in 1..Len(queue[b]) \/ (i = Len(queue[b]) + 1 /\ queue'[b][i] \notin Asks)
      BY <3>1, <3>2
    <3>4. \A c \in Buses : \A i \in 1..Len(queue'[c]) :
            queue'[c][i] \in Asks => i \in 1..Len(queue[c]) /\ queue'[c][i] = queue[c][i]
      BY <3>2, <3>3
    <3>5. \A c \in Buses : \A i \in 1..Len(queue[c]) : i \in 1..Len(queue'[c]) /\ queue'[c][i] = queue[c][i]
      BY <3>2
    <3>6. UNCHANGED <<asks, ditem, dpc>>
      BY <1>6 DEF push
    <3>7. \A a \in Asks : AskBus[a] \in Buses
      OBVIOUS
    <3>8. /\ \A c \in Buses : ditem'[c] \in Asks => asks'[ditem[c]] = "queued"
          /\ \A c \in Buses : \A i \in 1..Len(queue[c]) :
               queue[c][i] \in Asks => asks'[queue[c][i]] = "queued"
      BY <3>6 DEF Placed
    <3>9. QED
      BY <3>4, <3>5, <3>6, <3>7, <3>8, PlacedStays
  <2>3. QED
    BY <1>6, <2>1, <2>2 DEF push
<1>7. ASSUME NEW b \in Buses, settle_unroutable(b) PROVE Placed'
  BY <1>7, PlacedSame DEF settle_unroutable
<1>8. ASSUME NEW b \in Buses, settle_unroutable_reread(b) PROVE Placed'
  BY <1>8, PlacedSame DEF settle_unroutable_reread
<1>9. ASSUME NEW b \in Buses, reconnect(b) PROVE Placed'
  BY <1>9, PlacedSame DEF reconnect
<1>10. ASSUME NEW b \in Buses, listener_error(b) PROVE Placed'
  BY <1>10, PlacedSame DEF listener_error
<1>11. ASSUME NEW b \in Buses, unsettled_error(b) PROVE Placed'
  BY <1>11, PlacedSame DEF unsettled_error
<1>12. ASSUME NEW b \in Buses, load_error(b) PROVE Placed'
  BY <1>12, PlacedSame DEF load_error
<1>13. ASSUME NEW b \in Buses, settle_unroutable_error(b) PROVE Placed'
  BY <1>13, PlacedSame DEF settle_unroutable_error
<1>14. ASSUME NEW b \in Buses, sweep_tick(b) PROVE Placed'
  BY <1>14, PlacedSame DEF sweep_tick
<1>15. ASSUME NEW b \in Buses, deliver(b) PROVE Placed'
  <2>1. /\ Len(queue'[b]) = Len(queue[b]) - 1 /\ Len(queue[b]) \in Nat /\ 1 \in 1..Len(queue[b])
        /\ \A i \in 1..Len(queue'[b]) : i + 1 \in 1..Len(queue[b]) /\ queue'[b][i] = queue[b][i + 1]
        /\ \A c \in Buses : c # b => queue'[c] = queue[c] /\ ditem'[c] = ditem[c] /\ dpc'[c] = dpc[c]
        /\ ditem'[b] = queue[b][1] /\ (queue[b][1] \in Asks => dpc'[b] = "send")
        /\ dpc[b] = "idle" /\ UNCHANGED asks
    BY <1>15, TailAt DEF deliver, Slots, InHand
  <2>2. ditem[b] \notin Asks
    BY <2>1 DEF Placed
  <2>3. ASSUME NEW i \in 1..Len(queue'[b]), queue'[b][i] \in Asks
        PROVE  /\ asks[queue'[b][i]] = "queued" /\ AskBus[queue'[b][i]] = b
               /\ ditem'[b] # queue'[b][i]
               /\ \A j \in 1..Len(queue'[b]) : queue'[b][j] = queue'[b][i] => j = i
    <3>1. i + 1 \in 1..Len(queue[b]) /\ queue'[b][i] = queue[b][i + 1] /\ i \in Nat /\ i + 1 # 1
      BY <2>1
    <3>2. /\ asks[queue[b][i + 1]] = "queued" /\ AskBus[queue[b][i + 1]] = b
          /\ \A j \in 1..Len(queue[b]) : queue[b][j] = queue[b][i + 1] => j = i + 1
      BY <2>3, <3>1 DEF Placed
    <3>3. ditem'[b] # queue'[b][i]
      BY <2>1, <3>1, <3>2
    <3>4. ASSUME NEW j \in 1..Len(queue'[b]), queue'[b][j] = queue'[b][i] PROVE j = i
      <4>1. j + 1 \in 1..Len(queue[b]) /\ queue'[b][j] = queue[b][j + 1] /\ j \in Nat
        BY <2>1
      <4>2. j + 1 = i + 1
        BY <3>1, <3>2, <3>4, <4>1
      <4>3. QED
        BY <3>1, <4>1, <4>2
    <3>5. QED
      BY <3>1, <3>2, <3>3, <3>4
  <2>4. ASSUME NEW a \in Asks, asks[a] = "queued", AskBus[a] = b
        PROVE  ditem'[b] = a \/ \E i \in 1..Len(queue'[b]) : queue'[b][i] = a
    <3>1. PICK k \in 1..Len(queue[b]) : queue[b][k] = a
      BY <2>2, <2>4 DEF Placed
    <3>2. CASE k = 1
      BY <2>1, <3>1, <3>2
    <3>3. CASE k # 1
      <4>1. k - 1 \in 1..Len(queue'[b]) /\ (k - 1) + 1 = k
        BY <2>1, <3>1, <3>3
      <4>2. queue'[b][k - 1] = a
        BY <2>1, <3>1, <4>1
      <4>3. QED
        BY <4>1, <4>2
    <3>4. QED
      BY <3>2, <3>3
  <2>5. ASSUME NEW c \in Buses, NEW i \in 1..Len(queue'[c]), queue'[c][i] \in Asks
        PROVE  /\ asks'[queue'[c][i]] = "queued" /\ AskBus[queue'[c][i]] = c
               /\ ditem'[c] # queue'[c][i]
               /\ \A j \in 1..Len(queue'[c]) : queue'[c][j] = queue'[c][i] => j = i
    BY <2>1, <2>3, <2>5 DEF Placed
  <2>6. ASSUME NEW c \in Buses, ditem'[c] \in Asks
        PROVE  dpc'[c] = "send" /\ asks'[ditem'[c]] = "queued" /\ AskBus[ditem'[c]] = c
    BY <2>1, <2>6 DEF Placed
  <2>7. ASSUME NEW a \in Asks, asks'[a] = "queued"
        PROVE  \/ ditem'[AskBus[a]] = a
               \/ \E i \in 1..Len(queue'[AskBus[a]]) : queue'[AskBus[a]][i] = a
    BY <2>1, <2>4, <2>7 DEF Placed
  <2>8. QED
    BY <2>5, <2>6, <2>7 DEF Placed
<1>16. ASSUME NEW b \in Buses, deliver_reply(b) PROVE Placed'
  BY <1>16, PlacedSame DEF deliver_reply, delivered, InHand
<1>17. ASSUME NEW b \in Buses, claim_outcome(b) PROVE Placed'
  BY <1>17, PlacedSame DEF claim_outcome, delivered, InHand
<1>18. ASSUME NEW b \in Buses, send_or_record(b) PROVE Placed'
  <2>1. /\ dpc[b] = "send" /\ UNCHANGED queue
        /\ \A c \in Buses : c # b => ditem'[c] = ditem[c] /\ dpc'[c] = dpc[c]
        /\ ditem'[b] = Nothing /\ Nothing \notin Asks
        /\ \A a \in Asks : a # ditem[b] => asks'[a] = asks[a]
        /\ \A a \in Asks : a = ditem[b] => asks'[a] # "queued"
    BY <1>18 DEF send_or_record, delivered, InHand
  <2>2. \A c \in Buses : \A i \in 1..Len(queue[c]) : queue[c][i] \in Asks => queue[c][i] # ditem[b]
    BY DEF Placed
  <2>3. \A c \in Buses : c # b /\ ditem[c] \in Asks => ditem[c] # ditem[b]
    BY DEF Placed
  <2>4. \A c \in Buses : ditem'[c] \in Asks =>
          ditem'[c] = ditem[c] /\ dpc'[c] = dpc[c] /\ asks'[ditem[c]] = "queued"
    BY <2>1, <2>3 DEF Placed
  <2>5. \A c \in Buses : \A i \in 1..Len(queue[c]) :
          queue[c][i] \in Asks => asks'[queue[c][i]] = "queued"
    BY <2>1, <2>2 DEF Placed
  <2>6. \A a \in Asks : asks'[a] = "queued" =>
          asks[a] = "queued" /\ (ditem[AskBus[a]] = a => ditem'[AskBus[a]] = a)
    BY <2>1
  <2>7. QED
    BY <2>1, <2>4, <2>5, <2>6, PlacedStays
<1>19. ASSUME NEW b \in Buses, deliver_reply_error(b) PROVE Placed'
  BY <1>19, PlacedSame DEF deliver_reply_error, InHand
<1>20. ASSUME NEW b \in Buses, recv_closed(b) PROVE Placed'
  <2>1. /\ dpc[b] = "idle" /\ UNCHANGED ditem /\ queue'[b] = <<>>
        /\ \A c \in Buses : c # b => queue'[c] = queue[c] /\ dpc'[c] = dpc[c]
        /\ \A a \in Asks : asks'[a] = IF a \in AsksIn(queue[b]) THEN "said" ELSE asks[a]
    BY <1>20 DEF recv_closed, Slots
  <2>2. ditem[b] \notin Asks
    BY <2>1 DEF Placed
  <2>3. \A a \in Asks : AskBus[a] = b /\ asks[a] = "queued" <=> a \in AsksIn(queue[b])
    BY <2>2, QueuedAsks
  <2>4. PICK G \in SUBSET Buses : \A c \in Buses : c \in G <=> c = b
    BY {b} \in SUBSET Buses
  <2>5. /\ \A c \in Buses : c \notin G =>
             queue'[c] = queue[c] /\ ditem'[c] = ditem[c] /\ dpc'[c] = dpc[c]
        /\ \A c \in G : queue'[c] = <<>> /\ ditem'[c] \notin Asks
    BY <2>1, <2>2, <2>3, <2>4
  <2>6. /\ \A a \in Asks : AskBus[a] \in G /\ asks[a] = "queued" => asks'[a] # "queued"
        /\ \A a \in Asks : AskBus[a] \notin G => asks'[a] = asks[a]
        /\ \A a \in Asks : asks'[a] = "queued" => asks[a] = "queued"
    BY <2>1, <2>2, <2>3, <2>4
  <2>7. QED
    BY <2>4, <2>5, <2>6, PlacedGone
<1>21. ASSUME NEW b \in Buses, spawn(b) PROVE Placed'
  <2>1. dpc[b] = "ended"
    BY <1>21 DEF spawn, Waiting, Waits
  <2>2. ditem[b] \notin Asks
    BY <2>1 DEF Placed
  <2>3. QED
    BY <1>21, <2>2, PlacedSame DEF spawn
<1>22. ASSUME NEW b \in Buses, shutdown(b) PROVE Placed'
  BY <1>22, PlacedSame DEF shutdown
<1>23. ASSUME NEW b \in Buses, abort_pumps(b) PROVE Placed'
  <2>1. /\ \A c \in Buses : c # b =>
             queue'[c] = queue[c] /\ dpc'[c] = dpc[c] /\ ditem'[c] = ditem[c]
        /\ queue'[b] = <<>> /\ ditem'[b] \notin Asks
        /\ \A a \in Asks : asks'[a] = IF a \in AsksIn(queue[b]) \cup {ditem[b]} THEN "said" ELSE asks[a]
    BY <1>23 DEF abort_pumps, PumpsGo
  <2>2. \A a \in Asks : AskBus[a] = b /\ asks[a] = "queued" <=> a \in AsksIn(queue[b]) \cup {ditem[b]}
    BY QueuedAsks
  <2>3. PICK G \in SUBSET Buses : \A c \in Buses : c \in G <=> c = b
    BY {b} \in SUBSET Buses
  <2>4. /\ \A c \in Buses : c \notin G =>
             queue'[c] = queue[c] /\ ditem'[c] = ditem[c] /\ dpc'[c] = dpc[c]
        /\ \A c \in G : queue'[c] = <<>> /\ ditem'[c] \notin Asks
    BY <2>1, <2>2, <2>3
  <2>5. /\ \A a \in Asks : AskBus[a] \in G /\ asks[a] = "queued" => asks'[a] # "queued"
        /\ \A a \in Asks : AskBus[a] \notin G => asks'[a] = asks[a]
        /\ \A a \in Asks : asks'[a] = "queued" => asks[a] = "queued"
    BY <2>1, <2>2, <2>3
  <2>6. QED
    BY <2>3, <2>4, <2>5, PlacedGone
<1>24. ASSUME NEW b \in Buses, NEW d \in Dispositions, claim_reply(b, d) PROVE Placed'
  BY <1>24, PlacedSame DEF claim_reply
<1>25. ASSUME NEW t \in Tasks, NEW d \in Dispositions, claim_reply_orphaned(t, d) PROVE Placed'
  BY <1>25, PlacedSame DEF claim_reply_orphaned
<1>26. ASSUME NEW a \in Asks, try_deliver(a) PROVE Placed'
  <2>1. /\ UNCHANGED <<queue, ditem, dpc>> /\ asks[a] = "none"
        /\ \A e \in Asks : asks'[e] = asks[e] \/ (e = a /\ asks'[e] # "queued")
    BY <1>26 DEF try_deliver
  <2>2. \A c \in Buses : ditem[c] \in Asks => asks'[ditem[c]] = "queued"
    BY <2>1 DEF Placed
  <2>3. \A c \in Buses : \A i \in 1..Len(queue[c]) :
          queue[c][i] \in Asks => asks'[queue[c][i]] = "queued"
    BY <2>1 DEF Placed
  <2>4. QED
    BY <2>1, <2>2, <2>3, PlacedStays
<1>27. ASSUME NEW a \in Asks, try_send_lands(a) PROVE Placed'
  <2> DEFINE b == AskBus[a]
  <2>1. b \in Buses /\ asks[a] = "reserved" /\ UNCHANGED <<ditem, dpc>>
    BY <1>27 DEF try_send_lands
  <2>2. /\ \A c \in Buses : \A i \in 1..Len(queue[c]) : queue[c][i] # a
        /\ \A c \in Buses : ditem[c] # a
    BY <2>1 DEF Placed
  <2>3. CASE queue' = queue /\ asks'[a] # "queued" /\ \A e \in Asks : e # a => asks'[e] = asks[e]
    <3>1. \A c \in Buses : ditem[c] \in Asks => asks'[ditem[c]] = "queued"
      BY <2>2, <2>3 DEF Placed
    <3>2. \A c \in Buses : \A i \in 1..Len(queue[c]) :
            queue[c][i] \in Asks => asks'[queue[c][i]] = "queued"
      BY <2>2, <2>3 DEF Placed
    <3>3. QED
      BY <2>1, <2>3, <3>1, <3>2, PlacedStays
  <2>4. CASE queue' = [queue EXCEPT ![b] = Append(queue[b], a)] /\ asks' = [asks EXCEPT ![a] = "queued"]
    <3> DEFINE n == Len(queue[b])
    <3> HIDE DEF b
    <3>1. /\ Len(queue'[b]) = n + 1 /\ n \in Nat
          /\ \A i \in 1..n : queue'[b][i] = queue[b][i]
          /\ queue'[b][n + 1] = a
          /\ \A c \in Buses : c # b => queue'[c] = queue[c]
      BY <2>1, <2>4, AppendAt DEF Slots
    <3>2. \A i \in 1..(n + 1) : i \in 1..n \/ i = n + 1
      BY <3>1
    <3>3. /\ \A e \in Asks : e # a => asks'[e] = asks[e]
          /\ asks'[a] = "queued"
      BY <2>4
    <3> HIDE DEF n
    <3>4. \A i \in 1..(n + 1), j \in 1..(n + 1) :
            queue'[b][i] \in Asks /\ queue'[b][i] = queue'[b][j] => i = j
      <4>1. \A i \in 1..n : queue[b][i] # a
        BY <2>1, <2>2 DEF n
      <4>2. \A i, j \in 1..n : queue[b][i] \in Asks /\ queue[b][i] = queue[b][j] => i = j
        BY <2>1 DEF Placed, n
      <4>3. QED
        BY <3>1, <3>2, <4>1, <4>2
    <3>5. ASSUME NEW c \in Buses, NEW i \in 1..Len(queue'[c]), queue'[c][i] \in Asks
          PROVE  /\ asks'[queue'[c][i]] = "queued" /\ AskBus[queue'[c][i]] = c
                 /\ ditem'[c] # queue'[c][i]
                 /\ \A j \in 1..Len(queue'[c]) : queue'[c][j] = queue'[c][i] => j = i
      <4>1. CASE c # b
        BY <2>1, <2>2, <3>1, <3>3, <3>5, <4>1 DEF Placed
      <4>2. CASE c = b /\ i \in 1..n
        <5>1. /\ queue'[b][i] = queue[b][i] /\ queue[b][i] \in Asks /\ i \in 1..Len(queue[b])
              /\ i \in 1..(n + 1) /\ Len(queue'[b]) = n + 1
          BY <2>1, <3>1, <3>5, <4>2 DEF n
        <5>2. /\ asks[queue[b][i]] = "queued" /\ AskBus[queue[b][i]] = b /\ ditem[b] # queue[b][i]
              /\ queue[b][i] # a
          BY <2>1, <2>2, <5>1 DEF Placed
        <5>3. QED
          BY <2>1, <3>3, <3>4, <4>2, <5>1, <5>2
      <4>3. CASE c = b /\ i = n + 1
        <5>1. queue'[b][i] = a /\ i \in 1..(n + 1) /\ Len(queue'[b]) = n + 1
          BY <3>1, <3>5, <4>3
        <5>2. QED
          BY <2>1, <2>2, <3>3, <3>4, <4>3, <5>1 DEF b
      <4>4. QED
        BY <3>1, <3>2, <3>5, <4>1, <4>2, <4>3
    <3>6. ASSUME NEW c \in Buses, ditem'[c] \in Asks
          PROVE  dpc'[c] = "send" /\ asks'[ditem'[c]] = "queued" /\ AskBus[ditem'[c]] = c
      BY <2>1, <2>2, <3>3, <3>6 DEF Placed
    <3>7. ASSUME NEW e \in Asks, asks'[e] = "queued"
          PROVE  \/ ditem'[AskBus[e]] = e
                 \/ \E i \in 1..Len(queue'[AskBus[e]]) : queue'[AskBus[e]][i] = e
      <4>1. CASE e = a
        <5>1. n + 1 \in 1..Len(queue'[b])
          BY <3>1
        <5>2. QED
          BY <3>1, <4>1, <5>1 DEF b
      <4>2. CASE e # a /\ ditem[AskBus[e]] # e
        <5>1. PICK i \in 1..Len(queue[AskBus[e]]) : queue[AskBus[e]][i] = e
          BY <3>3, <3>7, <4>2 DEF Placed
        <5>2. AskBus[e] \in Buses
          OBVIOUS
        <5>3. i \in 1..Len(queue'[AskBus[e]]) /\ queue'[AskBus[e]][i] = e
          BY <3>1, <5>1, <5>2 DEF n
        <5>4. QED
          BY <5>3
      <4>3. CASE ditem[AskBus[e]] = e
        BY <2>1, <4>3
      <4>4. QED
        BY <4>1, <4>2, <4>3
    <3>8. QED
      BY <3>5, <3>6, <3>7 DEF Placed
  <2>5. QED
    BY <1>27, <2>1, <2>3, <2>4 DEF try_send_lands
<1>28. CASE daemon_crash
  <2>1. /\ \A c \in Buses : queue'[c] = <<>> /\ ditem'[c] \notin Asks
        /\ \A a \in Asks : asks'[a] # "queued"
    BY <1>28 DEF daemon_crash, PumpsGo
  <2>2. QED
    BY <2>1 DEF Placed
<1>29. QED
  BY <1>1, <1>2, <1>3, <1>4, <1>5, <1>6, <1>7, <1>8, <1>9, <1>10, <1>11,
     <1>12, <1>13, <1>14, <1>15, <1>16, <1>17, <1>18, <1>19, <1>20, <1>21,
     <1>22, <1>23, <1>24, <1>25, <1>26, <1>27, <1>28 DEF Next, RouterStep,
     RouterFails, PumpStep, PumpFails

LEMMA AskStep == ASSUME AskInv, BusInv, [Next]_vars PROVE AskInv'
  BY ValuesKept, InHandKept, AnnouncedKept, SlotsKept, PlacedKept DEF AskInv, BusInv

\* The invariant of the asks holds in every reachable state of the bus.
THEOREM AskInvariant == Spec => []AskInv
  BY AskInit, AskStep, BusInvariant, PTL DEF Spec

\* A listener holds no more NOTIFYs than there are tasks.
LEMMA NotesBounded ==
  ASSUME Announced PROVE \A b \in Buses : Len(notes[b]) <= Cardinality(Tasks)
<1> TAKE b \in Buses
<1> DEFINE n == Len(notes[b])
<1>1. notes[b] \in [1..n -> Tasks] /\ n \in Nat /\ IsFiniteSet(Tasks)
  BY ReplyAssumption DEF Announced
<1>2. notes[b] \in Injection(1..n, Tasks)
  BY <1>1 DEF Announced, Injection, IsInjective
<1>3. Cardinality(1..n) <= Cardinality(Tasks)
  BY <1>1, <1>2, FS_Injection
<1>4. Cardinality(1..n) = n
  BY <1>1, FS_Interval
<1>5. QED
  BY <1>3, <1>4

\* bus.rs and outbox.rs keep the state's types, and an ask that was queued is in
\* one place until it is sent, refused or said, for any number of asks, buses and
\* faults; no stop takes it from under a try_deliver.
THEOREM NoAskIsLost == Spec => []AsksAccounted
<1>1. ASSUME AskInv PROVE AsksAccounted
  <2>1. TypeOK
    <3>1. \A b \in Buses : Len(queue[b]) <= QueueCap
      <4>1. \A b \in Buses : /\ Len(queue[b]) \in Nat /\ Cardinality(Reserved(b)) \in Nat
                              /\ Len(queue[b]) + Cardinality(Reserved(b)) <= QueueCap
        BY <1>1, ReservedFinite DEF AskInv, Slots
      <4>2. QED
        BY <4>1, ReplyAssumption
    <3>2. \A b \in Buses : Len(notes[b]) <= Cardinality(Tasks)
      BY <1>1, NotesBounded DEF AskInv
    <3>3. QED
      BY <1>1, <3>1, <3>2 DEF AskInv, Values, InHand, Announced, Slots, TypeOK
  <2>2. ASSUME NEW a \in Asks, asks[a] = "queued"
        PROVE  LET b == AskBus[a] IN
               Cardinality({i \in 1..Len(queue[b]) : queue[b][i] = a})
                 + (IF ditem[b] = a THEN 1 ELSE 0) = 1
    <3> DEFINE b == AskBus[a]
               I == {i \in 1..Len(queue[b]) : queue[b][i] = a}
    <3>1. b \in Buses
      BY ReplyAssumption
    <3>2. CASE ditem[b] = a
      <4>1. I = {}
        BY <1>1, <3>1, <3>2 DEF AskInv, Placed
      <4>2. Cardinality(I) = 0
        BY <4>1, FS_EmptySet
      <4>3. QED
        BY <3>2, <4>2
    <3>3. CASE ditem[b] # a
      <4>1. PICK k \in 1..Len(queue[b]) : queue[b][k] = a
        BY <1>1, <2>2, <3>3 DEF AskInv, Placed
      <4>2. I = {k}
        BY <1>1, <3>1, <4>1 DEF AskInv, Placed
      <4>3. Cardinality(I) = 1
        BY <4>2, FS_Singleton
      <4>4. QED
        BY <3>3, <4>3
    <3>4. QED
      BY <3>2, <3>3
  <2>3. QED
    BY <1>1, <2>1, <2>2 DEF AsksAccounted, AskInv, Slots
<1>2. QED
  BY <1>1, AskInvariant, PTL
=============================================================================
