--------------------------- MODULE InboundBusProofs ---------------------------
(* What the inbound handler lets in, contains, binds and records, for any      *)
(* number of channels, peers, messages, codes, asks and faults.                *)
EXTENDS InboundBus, FiniteSetTheorems, TLAPS

(* The inductive invariant. *)

\* No token of m is one its sender can still answer with, nor will be.
Dead(m) == \A a \in m.tokens : Owner[a] = m.peer => asks[a].state \in {"resolved", "retired"}

\* The rows a message may leave and be a task.
Admitting == {"received", "enqueue_failed"}

\* What the row the handler owes says is so.
Truthful(m, row, ack) ==
  /\ row \in Rows
  /\ row = "received" => m \in tasks
  /\ row = "paired" => m.code \in Codes /\ m.peer \in codes[m.code].bound
  /\ row = "ask_resolved" =>
       \E a \in m.tokens : asks[a].by = m /\ asks[a].state = "resolved" /\ Owner[a] = m.peer
  /\ row \notin Admitting => m \notin tasks
  /\ ack => row \notin Admitting

\* What the handler of channel c knows of its message at each await.
Knows(c) ==
  LET p == pump[c]
      m == pump[c].msg IN
  p.at # "idle" =>
    /\ m \in Messages /\ m.channel = c /\ m \notin unread
    /\ \A a \in m.tokens : asks[a].state # "none"
    /\ Credentialed(m, pairings) => m \in vouched
    /\ p.at \in {"resolve", "scan", "enqueue"} => m \in vouched
    /\ p.at = "scan" => looks_like_ask_command(m)
    /\ p.at = "enqueue" /\ looks_like_ask_command(m) => Dead(m)
    /\ p.at # "ack" => said[m] = {}
    /\ p.at = "ack" => said[m] # {}
    /\ p.at = "audit" => Truthful(m, p.row, p.ack)
    /\ p.at # "audit" => m \notin tasks

\* What is so of a message no pump has seen yet, and of one that left a trace.
Traced(m) ==
  /\ m \in unread => said[m] = {} /\ m \notin tasks
  /\ "received" \in said[m] => m \in tasks
  /\ "paired" \in said[m] => m.code \in Codes /\ m.peer \in codes[m.code].bound
  /\ "ask_resolved" \in said[m] =>
       \E a \in m.tokens : asks[a].by = m /\ asks[a].state = "resolved" /\ Owner[a] = m.peer
  /\ said[m] \cap (Rows \ Admitting) # {} => m \notin tasks
  /\ m \in tasks => (\A a \in m.tokens : asks[a].state # "none")
                    /\ (looks_like_ask_command(m) => Dead(m))
  /\ m \in unread \/ m \in InHand(pump) \/ said[m] # {}

\* A code is spent exactly when it has bound its one peer.
Spent(k) ==
  /\ codes[k].state = "consumed" <=> codes[k].bound # {}
  /\ codes[k].bound = {} \/ \E p \in Peers : codes[k].bound = {p}

InboundInv ==
  /\ TypeOK
  /\ \A c \in Channels : Knows(c)
  /\ \A m \in Messages : Traced(m)
  /\ \A k \in Codes : Spent(k)
  /\ tasks \subseteq vouched
  /\ \A a \in Asks : asks[a].by \in vouched \cup {Nothing}

-----------------------------------------------------------------------------
\* Every message is with its transport when the daemon starts.
LEMMA InboundInit == Init => InboundInv
<1> SUFFICES ASSUME Init PROVE InboundInv
  OBVIOUS
<1>1. TypeOK
  BY ConstantsAssumption DEF Init, TypeOK, Idle, Unpaired, Unissued, Places
<1>2. \A c \in Channels : Knows(c)
  BY DEF Init, Knows, Idle
<1>3. \A m \in Messages : Traced(m)
  BY DEF Init, Traced
<1>4. \A k \in Codes : Spent(k)
  BY DEF Init, Spent, Unissued
<1>5. QED
  BY <1>1, <1>2, <1>3, <1>4 DEF InboundInv, Init

\* What a step on account of message m may change: asks move on from pending
\* and stay resolved, codes keep what they bound, and of the messages only m
\* may become a task or leave a trace.
Grows(m) ==
  /\ \A a \in Asks :
       /\ asks[a].state # "none" => asks'[a].state # "none"
       /\ asks'[a].state = "pending" => asks[a].state \in {"none", "pending"}
       /\ asks[a].state \in {"resolved", "retired"} => asks'[a] = asks[a]
  /\ \A k \in Codes : codes[k].bound \subseteq codes'[k].bound
  /\ vouched \subseteq vouched'
  /\ tasks \subseteq tasks' /\ tasks' \subseteq tasks \cup {m}
  /\ \A n \in Messages : n # m => said'[n] = said[n]

\* The history has every message in hand whose sender is paired.
Witnessed ==
  \A c \in Channels :
    pump[c].at # "idle" /\ Credentialed(pump[c].msg, pairings) => pump[c].msg \in vouched

\* A dead token stays dead.
LEMMA StaysDead ==
  ASSUME TypeOK, NEW m \in Messages, NEW n, Grows(n), Dead(m)
  PROVE  Dead(m)'
  BY ConstantsAssumption DEF Dead, Grows

\* What the row of another message says stays so.
LEMMA StaysTrue ==
  ASSUME NEW m \in Messages, NEW n, n # m, Grows(n), NEW row, NEW ack, Truthful(m, row, ack)
  PROVE  Truthful(m, row, ack)'
<1>1. m \in tasks' <=> m \in tasks
  BY DEF Grows
<1>2. m.tokens \subseteq Asks
  BY ConstantsAssumption
<1>3. \A a \in m.tokens : asks[a].state = "resolved" => asks'[a] = asks[a]
  BY <1>2 DEF Grows
<1>4. m.code \in Codes /\ m.peer \in codes[m.code].bound => m.peer \in codes'[m.code].bound
  BY DEF Grows
<1>5. QED
  BY <1>1, <1>3, <1>4 DEF Truthful

\* A step of one pump leaves the other pumps' knowledge as it is.
LEMMA OthersKnow ==
  ASSUME InboundInv, NEW m, Grows(m), NEW d \in Channels,
         pump'[d] = pump[d], unread' \subseteq unread,
         pump[d].at # "idle" => pump[d].msg # m, Witnessed'
  PROVE  Knows(d)'
<1> SUFFICES ASSUME pump[d].at # "idle" PROVE Knows(d)'
  BY DEF Knows
<1> DEFINE n == pump[d].msg
<1>1. Knows(d) /\ n \in Messages /\ n # m
  BY DEF InboundInv, Knows
<1>2. n.tokens \subseteq Asks
  BY <1>1, ConstantsAssumption
<1>3. \A a \in n.tokens : asks'[a].state # "none"
  BY <1>1, <1>2 DEF Knows, Grows
<1>4. Dead(n) => Dead(n)'
  BY <1>1, StaysDead DEF InboundInv
<1>5. said'[n] = said[n] /\ (n \in tasks' <=> n \in tasks) /\ vouched \subseteq vouched'
  BY <1>1 DEF Grows
<1>6. Truthful(n, pump[d].row, pump[d].ack) => Truthful(n, pump[d].row, pump[d].ack)'
  BY <1>1, StaysTrue
<1>7. Credentialed(n, pairings') => n \in vouched'
  BY DEF Witnessed
<1>8. looks_like_ask_command(n)' = looks_like_ask_command(n)
  BY DEF looks_like_ask_command
<1>9. QED
  BY <1>1, <1>3, <1>4, <1>5, <1>6, <1>7, <1>8 DEF Knows, Credentialed

\* It leaves the traces of the other messages as they are.
LEMMA OthersTraced ==
  ASSUME InboundInv, NEW m, Grows(m), NEW n \in Messages, n # m,
         n \in unread' <=> n \in unread,
         n \in InHand(pump) => n \in InHand(pump')
  PROVE  Traced(n)'
<1>1. Traced(n)
  BY DEF InboundInv
<1>2. n.tokens \subseteq Asks
  BY ConstantsAssumption
<1>3. \A a \in n.tokens : /\ asks[a].state # "none" => asks'[a].state # "none"
                          /\ asks[a].state = "resolved" => asks'[a] = asks[a]
  BY <1>2 DEF Grows
<1>4. Dead(n) => Dead(n)'
  BY StaysDead DEF InboundInv
<1>5. said'[n] = said[n] /\ (n \in tasks' <=> n \in tasks)
  BY DEF Grows
<1>6. n.code \in Codes /\ n.peer \in codes[n.code].bound => n.peer \in codes'[n.code].bound
  BY DEF Grows
<1>7. looks_like_ask_command(n)' = looks_like_ask_command(n)
  BY DEF looks_like_ask_command
<1>8. QED
  BY <1>1, <1>3, <1>4, <1>5, <1>6, <1>7 DEF Traced

\* The handler of c takes a step: what is left to show is about its own message,
\* the codes and the history.
LEMMA HandlerMoves ==
  ASSUME InboundInv, NEW c \in Channels, pump[c].at # "idle",
         NEW m \in Messages, m = pump[c].msg, NEW p,
         pump' = [pump EXCEPT ![c] = p], unread' = unread,
         p.at = "idle" \/ p.msg = m,
         Grows(m), TypeOK', Knows(c)', Traced(m)', Witnessed',
         \A k \in Codes : Spent(k)', tasks' \subseteq vouched',
         \A a \in Asks : asks'[a].by \in vouched' \cup {Nothing}
  PROVE  InboundInv'
<1>1. DOMAIN pump = Channels
  BY DEF InboundInv, TypeOK
<1>2. m.channel = c
  BY DEF InboundInv, Knows
<1>3. ASSUME NEW d \in Channels \ {c} PROVE Knows(d)'
  <2>1. pump'[d] = pump[d]
    BY <1>1
  <2>2. pump[d].at # "idle" => pump[d].msg # m
    BY <1>2 DEF InboundInv, Knows
  <2>3. QED
    BY <2>1, <2>2, OthersKnow
<1>4. ASSUME NEW n \in Messages, n # m PROVE Traced(n)'
  <2>1. n \in InHand(pump) => n \in InHand(pump')
    BY <1>1, <1>4 DEF InHand
  <2>2. QED
    BY <1>4, <2>1, OthersTraced
<1>5. QED
  BY <1>3, <1>4 DEF InboundInv

-----------------------------------------------------------------------------
(* The handler's steps. *)

PumpState == [at : Places \cup {"idle"}, msg : Messages \cup {Nothing},
              row : Rows \cup {Nothing}, ack : BOOLEAN]

\* The states the handler goes to are states of a pump.
LEMMA PumpStates ==
  /\ Idle \in PumpState /\ Idle.at = "idle"
  /\ \A place \in Places, m \in Messages :
       /\ At(place, m) \in PumpState
       /\ At(place, m).at = place /\ At(place, m).msg = m
  /\ \A row \in Rows, m \in Messages, ack \in BOOLEAN :
       /\ Owes(row, m, ack) \in PumpState
       /\ Owes(row, m, ack).at = "audit" /\ Owes(row, m, ack).msg = m
       /\ Owes(row, m, ack).row = row /\ Owes(row, m, ack).ack = ack
<1>1. "audit" \in Places /\ "idle" \notin Places
  BY DEF Places
<1>2. QED
  BY <1>1 DEF PumpState, Idle, At, Owes

\* A bounded number of calls fails.
LEMMA FaultsBounded == ASSUME TypeOK, Works \/ Fails PROVE faults' \in 0 .. MaxFaults
  BY ConstantsAssumption DEF TypeOK, Works, Fails

\* A step that only moves the pump of c on.
LEMMA PumpMoves ==
  ASSUME InboundInv, NEW c \in Channels, pump[c].at # "idle",
         NEW m \in Messages, m = pump[c].msg, NEW p \in PumpState, p.msg = m, p.at # "idle",
         Goes(c, p), Works \/ Fails,
         UNCHANGED <<unread, tables, tasks, said, vouched, revokes>>, Knows(c)'
  PROVE  InboundInv'
<1>1. TypeOK'
  <2>1. pump' \in [Channels -> PumpState]
    BY DEF InboundInv, TypeOK, PumpState, Goes
  <2>2. QED
    BY <2>1, FaultsBounded DEF InboundInv, TypeOK, tables, PumpState
<1>2. Grows(m)
  BY DEF Grows, tables
<1>3. Witnessed'
  BY DEF InboundInv, Knows, Witnessed, tables, Goes, TypeOK, Credentialed
<1>4. Traced(m)'
  <2>1. m \in InHand(pump')
    BY DEF InHand, Goes, InboundInv, TypeOK
  <2>2. Traced(m)
    BY DEF InboundInv
  <2>3. QED
    BY <2>1, <2>2 DEF Traced, tables, Dead, looks_like_ask_command
<1>5. \A k \in Codes : Spent(k)'
  BY DEF InboundInv, Spent, tables
<1>6. QED
  BY <1>1, <1>2, <1>3, <1>4, <1>5, HandlerMoves DEF InboundInv, tables, Goes

\* Only a paired sender is recognised.
LEMMA RecognisedIsPaired ==
  ASSUME TypeOK, NEW m \in Messages, authorize(m) = "Recognised"
  PROVE  Credentialed(m, pairings)
  BY DEF authorize, token_hash_for, Credentialed

\* What holds at an await before the enqueue.
Early == {"authorize", "any_code", "claim", "resolve", "scan"}

\* The handler turns the message away and owes the row that says so.
LEMMA TurnedAway ==
  ASSUME InboundInv, NEW c \in Channels, NEW m \in Messages, m = pump[c].msg,
         pump[c].at \in Early, NEW ack \in BOOLEAN,
         NEW row \in Rows \ {"received", "paired", "ask_resolved", "enqueue_failed"},
         Goes(c, Owes(row, m, ack)), Works \/ Fails,
         UNCHANGED <<unread, tables, tasks, said, vouched, revokes>>
  PROVE  InboundInv'
<1>1. Knows(c) /\ pump[c].at \notin {"idle", "audit", "ack"}
  BY DEF InboundInv, Early
<1>2. m.channel = c /\ m \notin unread /\ said[m] = {} /\ m \notin tasks
  BY <1>1 DEF Knows
<1>3. pump'[c] = Owes(row, m, ack)
  BY DEF Goes, InboundInv, TypeOK
<1>4. Truthful(m, row, ack)'
  BY <1>2 DEF Truthful, Admitting
<1>5. Knows(c)'
  BY <1>1, <1>2, <1>3, <1>4, PumpStates DEF Knows, tables, Credentialed
<1>6. QED
  BY <1>1, <1>5, PumpStates, PumpMoves

\* The handler goes on to its next await.
LEMMA GoesOn ==
  ASSUME InboundInv, NEW c \in Channels, NEW m \in Messages, m = pump[c].msg,
         pump[c].at \in Early, NEW place \in Early \cup {"enqueue"},
         Goes(c, At(place, m)), Works \/ Fails,
         UNCHANGED <<unread, tables, tasks, said, vouched, revokes>>,
         place \in {"resolve", "scan", "enqueue"} => m \in vouched,
         place = "scan" => looks_like_ask_command(m),
         place = "enqueue" /\ looks_like_ask_command(m) => Dead(m)
  PROVE  InboundInv'
<1>1. Knows(c) /\ pump[c].at \notin {"idle", "audit", "ack"}
  BY DEF InboundInv, Early
<1>2. place \in Places /\ place \notin {"idle", "audit", "ack"}
  BY DEF Early, Places
<1>3. pump'[c] = At(place, m)
  BY DEF Goes, InboundInv, TypeOK
<1>4. looks_like_ask_command(m)' = looks_like_ask_command(m) /\ Dead(m)' = Dead(m)
  BY DEF looks_like_ask_command, Dead, tables
<1>5. Knows(c)'
  BY <1>1, <1>2, <1>3, <1>4, PumpStates DEF Knows, tables, Credentialed
<1>6. QED
  BY <1>1, <1>2, <1>5, PumpStates, PumpMoves

\* The authorisation lookup.
LEMMA Authorized == ASSUME InboundInv, NEW c \in Channels, authorized(c) PROVE InboundInv'
<1>1. PICK m \in Messages : m = pump[c].msg
  BY DEF authorized, Handling, InboundInv, Knows
<1>2. pump[c].at \in Early /\ UNCHANGED <<unread, tables, tasks, said, vouched, revokes>>
  BY DEF authorized, Handling, Early
<1>3. {"rejected_unverifiable", "rejected_unauthentic", "rejected_unpaired", "ask_answer_rejected"}
        \subseteq Rows \ {"received", "paired", "ask_resolved", "enqueue_failed"}
  BY DEF Rows
<1>4. CASE Works /\ Goes(c, decided(authorize(m), m))
  <2>1. CASE authorize(m) = "Recognised"
    <3>1. m \in vouched
      BY <1>1, <1>2, <2>1, RecognisedIsPaired DEF InboundInv, Knows, Early
    <3>2. Goes(c, recognised(m))
      BY <1>4, <2>1 DEF decided
    <3>3. CASE parse_ask_command(m)
      BY <1>1, <1>2, <1>4, <3>1, <3>2, <3>3, GoesOn DEF recognised, Early
    <3>4. CASE ~parse_ask_command(m) /\ ~looks_like_ask_command(m)
      BY <1>1, <1>2, <1>4, <3>1, <3>2, <3>4, GoesOn DEF recognised
    <3>5. CASE ~parse_ask_command(m) /\ looks_like_ask_command(m) /\ scannable(m)
      BY <1>1, <1>2, <1>4, <3>1, <3>2, <3>5, GoesOn DEF recognised, Early
    <3>6. CASE ~parse_ask_command(m) /\ looks_like_ask_command(m) /\ ~scannable(m)
      BY <1>1, <1>2, <1>3, <1>4, <3>2, <3>6, TurnedAway DEF recognised
    <3>7. QED
      BY <3>3, <3>4, <3>5, <3>6
  <2>2. CASE authorize(m) = "RejectedUnauthentic"
    BY <1>1, <1>2, <1>3, <1>4, <2>2, TurnedAway DEF decided
  <2>3. CASE authorize(m) = "Rejected"
    <3>1. CASE m.evidence = Nothing
      BY <1>1, <1>2, <1>4, <2>3, <3>1, GoesOn DEF decided, Early
    <3>2. CASE m.evidence # Nothing
      BY <1>1, <1>2, <1>3, <1>4, <2>3, <3>2, TurnedAway DEF decided
    <3>3. QED
      BY <3>1, <3>2
  <2>4. QED
    BY <2>1, <2>2, <2>3 DEF authorize
<1>5. CASE Fails /\ Goes(c, Owes("rejected_unverifiable", m, FALSE))
  BY <1>1, <1>2, <1>3, <1>5, TurnedAway
<1>6. QED
  BY <1>1, <1>4, <1>5 DEF authorized

\* The gate of try_pair.
LEMMA TryPairGate == ASSUME InboundInv, NEW c \in Channels, try_pair_gate(c) PROVE InboundInv'
<1>1. PICK m \in Messages : m = pump[c].msg
  BY DEF try_pair_gate, Handling, InboundInv, Knows
<1>2. pump[c].at \in Early /\ UNCHANGED <<unread, tables, tasks, said, vouched, revokes>>
  BY DEF try_pair_gate, Handling, Early
<1>3. CASE Works /\ Goes(c, At("claim", m))
  BY <1>1, <1>2, <1>3, GoesOn DEF Early
<1>4. CASE (Works \/ Fails) /\ Goes(c, Owes("rejected_unpaired", m, FALSE))
  BY <1>1, <1>2, <1>4, TurnedAway DEF Rows
<1>5. QED
  BY <1>1, <1>3, <1>4 DEF try_pair_gate

\* The containment scan lets a body pass only with its tokens dead.
LEMMA ContainmentRefusal ==
  ASSUME InboundInv, NEW c \in Channels, containment_refusal(c) PROVE InboundInv'
<1>1. PICK m \in Messages : m = pump[c].msg
  BY DEF containment_refusal, Handling, InboundInv, Knows
<1>2. pump[c].at \in Early /\ UNCHANGED <<unread, tables, tasks, said, vouched, revokes>>
  BY DEF containment_refusal, Handling, Early
<1>3. CASE (Works \/ Fails) /\ Goes(c, Owes("ask_answer_rejected", m, TRUE))
  BY <1>1, <1>2, <1>3, TurnedAway DEF Rows
<1>4. CASE Works /\ (\A a \in m.tokens : ~live_for(a, m.peer)) /\ Goes(c, uncontained(m))
  <2>1. CASE is_command_shaped(m)
    BY <1>3, <1>4, <2>1 DEF uncontained
  <2>2. CASE ~is_command_shaped(m)
    <3>1. m \in vouched /\ \A a \in m.tokens : asks[a].state # "none"
      BY <1>1 DEF InboundInv, Knows, containment_refusal, Handling
    <3>2. Dead(m)
      BY <1>4, <3>1, ConstantsAssumption DEF Dead, live_for, InboundInv, TypeOK
    <3>3. QED
      BY <1>1, <1>2, <1>4, <2>2, <3>1, <3>2, GoesOn DEF uncontained
  <2>3. QED
    BY <2>1, <2>2
<1>5. QED
  BY <1>1, <1>3, <1>4 DEF containment_refusal, error_refuses

\* The history is brought up to date with the messages in hand.
LEMMA Witnesses ==
  ASSUME NEW q, vouched' = witness(q, pairings'), InHand(pump') \subseteq InHand(q)
  PROVE  Witnessed' /\ vouched \subseteq vouched'
<1>1. \A c \in Channels : pump'[c].at # "idle" => pump'[c].msg \in InHand(pump')
  BY DEF InHand
<1>2. QED
  BY <1>1 DEF Witnessed, witness, Credentialed

\* Messages in hand are messages.
LEMMA InHandTyped == ASSUME InboundInv PROVE InHand(pump) \subseteq Messages
  BY DEF InboundInv, Knows, InHand

\* The transaction of try_pair: the code is spent on this peer.
LEMMA Bound ==
  ASSUME InboundInv, NEW m \in Messages, claimable(m.code), bind(m)
  PROVE  /\ m.code \in Codes /\ m.peer \in codes'[m.code].bound
         /\ codes' \in [Codes -> [state : {"none", "live", "expired", "consumed"},
                                  bound : SUBSET Peers]]
         /\ pairings' \in [Peers -> [active : BOOLEAN, token : Secrets \cup {Nothing}]]
         /\ UNCHANGED <<issued, asks>>
         /\ \A k \in Codes : Spent(k)' /\ codes[k].bound \subseteq codes'[k].bound
<1>1. m.code \in Codes /\ m.peer \in Peers
  BY ConstantsAssumption DEF claimable
<1>2. codes[m.code].state = "live" /\ codes[m.code].bound = {}
  BY <1>1 DEF claimable, InboundInv, Spent
<1>3. codes \in [Codes -> [state : {"none", "live", "expired", "consumed"}, bound : SUBSET Peers]]
  BY DEF InboundInv, TypeOK
<1>4. codes' = [codes EXCEPT ![m.code] = [state |-> "consumed", bound |-> {m.peer}]]
  BY <1>1, <1>2, <1>3 DEF bind
<1>5. pairings' \in [Peers -> [active : BOOLEAN, token : Secrets \cup {Nothing}]]
  BY <1>1 DEF InboundInv, TypeOK, bind, Paired
<1>6. codes' \in [Codes -> [state : {"none", "live", "expired", "consumed"}, bound : SUBSET Peers]]
  BY <1>1, <1>3, <1>4
<1>7. \A k \in Codes : Spent(k)' /\ codes[k].bound \subseteq codes'[k].bound
  BY <1>1, <1>2, <1>3, <1>4 DEF InboundInv, Spent
<1>8. QED
  BY <1>1, <1>3, <1>4, <1>5, <1>6, <1>7 DEF bind

\* The handler has done its work and owes a row that tells what it did.
LEMMA RowOwed ==
  ASSUME InboundInv, NEW c \in Channels, NEW m \in Messages, m = pump[c].msg,
         pump[c].at \in Early \cup {"enqueue"}, NEW row \in Rows, NEW ack \in BOOLEAN,
         Goes(c, Owes(row, m, ack)), UNCHANGED <<unread, said>>,
         TypeOK', Grows(m), Truthful(m, row, ack)', Witnessed',
         m \in tasks' /\ looks_like_ask_command(m) => Dead(m)',
         \A k \in Codes : Spent(k)', tasks' \subseteq vouched',
         \A a \in Asks : asks'[a].by \in vouched' \cup {Nothing}
  PROVE  InboundInv'
<1> DEFINE p == Owes(row, m, ack)
<1>1. p.at = "audit" /\ p.msg = m /\ p.row = row /\ p.ack = ack
  BY PumpStates
<1>2. pump'[c] = p
  BY DEF Goes, InboundInv, TypeOK
<1>3. pump[c].at \notin {"idle", "audit", "ack"}
  BY DEF Early
<1>4. /\ m.channel = c /\ m \notin unread /\ said[m] = {}
      /\ \A a \in m.tokens : asks[a].state # "none"
  BY <1>3 DEF InboundInv, Knows
<1>5. \A a \in m.tokens : asks'[a].state # "none"
  BY <1>4, ConstantsAssumption DEF Grows
<1>6. looks_like_ask_command(m)' = looks_like_ask_command(m)
  BY DEF looks_like_ask_command
<1>7. Knows(c)'
  BY <1>1, <1>2, <1>4, <1>5 DEF Knows, Witnessed
<1>8. Traced(m)'
  <2>1. m \in InHand(pump')
    BY <1>1, <1>2 DEF InHand
  <2>2. QED
    BY <1>4, <1>5, <1>6, <2>1 DEF Traced
<1> HIDE DEF p
<1>9. pump' = [pump EXCEPT ![c] = p]
  BY DEF Goes, p
<1>10. QED
  BY <1>1, <1>3, <1>7, <1>8, <1>9, HandlerMoves

\* Where the handler goes with a row it owes.
LEMMA RowTyped ==
  ASSUME InboundInv, NEW c \in Channels, NEW m \in Messages, NEW row \in Rows,
         NEW ack \in BOOLEAN, Goes(c, Owes(row, m, ack))
  PROVE  /\ pump' \in [Channels -> PumpState]
         /\ pump'[c].at = "audit" /\ pump'[c].msg = m
         /\ \A d \in Channels \ {c} : pump'[d] = pump[d]
<1>1. Owes(row, m, ack) \in PumpState
  BY PumpStates
<1>2. pump \in [Channels -> PumpState]
  BY DEF InboundInv, TypeOK, PumpState
<1>3. pump'[c] = Owes(row, m, ack)
  BY <1>2 DEF Goes
<1>4. QED
  BY <1>1, <1>2, <1>3, PumpStates DEF Goes

\* try_pair's claim.
LEMMA TryPair == ASSUME InboundInv, NEW c \in Channels, try_pair(c) PROVE InboundInv'
<1>1. PICK m \in Messages : m = pump[c].msg
  BY DEF try_pair, Handling, InboundInv, Knows
<1>2. /\ pump[c].at = "claim" /\ UNCHANGED <<unread, tasks, said, revokes>>
      /\ vouched' = witness(pump, pairings')
  BY DEF try_pair, Handling
<1>3. m \notin tasks
  BY <1>1, <1>2 DEF InboundInv, Knows
<1>4. CASE claimable(m.code) /\ bind(m)
  <2>1. PICK row \in {"paired", "rejected_unpaired"}, ack \in BOOLEAN :
               Goes(c, Owes(row, m, ack)) /\ (Works \/ Fails)
    <3>1. CASE Works /\ Goes(c, Owes("paired", m, TRUE))
      BY <3>1
    <3>2. CASE Fails /\ Goes(c, Owes("rejected_unpaired", m, FALSE))
      BY <3>2
    <3>3. CASE ((Works /\ ~claimable(m.code)) \/ Fails) /\ Goes(c, unclaimed(m))
      BY <1>4, <3>3 DEF unclaimed
    <3>4. QED
      BY <1>1, <3>1, <3>2, <3>3 DEF try_pair
  <2>2. row \in Rows
    BY DEF Rows
  <2>3. InHand(pump') \subseteq InHand(pump)
    BY <1>1, <1>2, <2>1, <2>2, RowTyped DEF InHand
  <2>4. Witnessed' /\ vouched \subseteq vouched'
    BY <1>2, <2>3, Witnesses
  <2>5. TypeOK'
    <3>1. vouched' \subseteq Messages
      BY <1>2, InHandTyped DEF witness, InboundInv, TypeOK
    <3>2. QED
      BY <1>1, <1>2, <1>4, <2>1, <2>2, <3>1, Bound, RowTyped, FaultsBounded
         DEF InboundInv, TypeOK, PumpState
  <2>6. Grows(m)
    BY <1>2, <1>4, <2>4, Bound DEF Grows
  <2>7. Truthful(m, row, ack)'
    BY <1>2, <1>3, <1>4, <2>2, Bound DEF Truthful, Admitting
  <2>8. (tasks' \subseteq vouched') /\ \A a \in Asks : asks'[a].by \in vouched' \cup {Nothing}
    BY <1>2, <1>4, <2>4, Bound DEF InboundInv
  <2>9. \A k \in Codes : Spent(k)'
    BY <1>4, Bound
  <2>10. QED
    BY <1>1, <1>2, <1>3, <2>1, <2>2, <2>4, <2>5, <2>6, <2>7, <2>8, <2>9, RowOwed DEF Early
<1>5. CASE (Works \/ Fails) /\ Goes(c, unclaimed(m)) /\ UNCHANGED tables
  <2>1. vouched' = vouched
    BY <1>2, <1>5 DEF witness, tables, InHand, InboundInv, Knows
  <2>2. QED
    BY <1>1, <1>2, <1>5, <2>1, TurnedAway DEF unclaimed, Rows, Early
<1>6. QED
  BY <1>1, <1>4, <1>5 DEF try_pair

\* An answer settles the sender's own pending ask.
LEMMA SettledBy ==
  ASSUME InboundInv, NEW m \in Messages, NEW a \in m.tokens, live_for(a, m.peer), settled_by(a, m)
  PROVE  /\ asks'[a] = [state |-> "resolved", by |-> m] /\ Owner[a] = m.peer
         /\ asks' \in [Asks -> [state : {"none", "pending", "resolved", "retired"},
                                by : Messages \cup {Nothing}]]
         /\ UNCHANGED <<pairings, issued, codes>>
         /\ \A e \in Asks : e # a => asks'[e] = asks[e]
         /\ a \in Asks /\ asks[a].state = "pending"
<1>1. a \in Asks
  BY ConstantsAssumption
<1>2. QED
  BY <1>1 DEF InboundInv, TypeOK, settled_by, live_for

\* resolve_with_nonce.
LEMMA ResolveWithNonce ==
  ASSUME InboundInv, NEW c \in Channels, resolve_with_nonce(c) PROVE InboundInv'
<1>1. PICK m \in Messages : m = pump[c].msg
  BY DEF resolve_with_nonce, Handling, InboundInv, Knows
<1>2. pump[c].at = "resolve" /\ UNCHANGED <<unread, tasks, said, vouched, revokes>>
  BY DEF resolve_with_nonce, Handling
<1>3. m \notin tasks /\ m \in vouched
  BY <1>1, <1>2 DEF InboundInv, Knows
<1>4. ASSUME NEW a \in m.tokens, live_for(a, m.peer), settled_by(a, m),
             NEW row \in {"ask_resolved", "ask_answer_rejected"}, NEW ack \in BOOLEAN,
             Goes(c, Owes(row, m, ack)), Works \/ Fails
      PROVE  InboundInv'
  <2>1. /\ asks'[a] = [state |-> "resolved", by |-> m] /\ Owner[a] = m.peer
        /\ asks' \in [Asks -> [state : {"none", "pending", "resolved", "retired"},
                               by : Messages \cup {Nothing}]]
        /\ pairings' = pairings /\ issued' = issued /\ codes' = codes
        /\ \A e \in Asks : e # a => asks'[e] = asks[e]
        /\ a \in Asks /\ asks[a].state = "pending"
    BY <1>4, SettledBy
  <2>2. row \in Rows
    BY DEF Rows
  <2>3. TypeOK'
    BY <1>2, <1>4, <2>2, RowTyped, <2>1, FaultsBounded DEF InboundInv, TypeOK, PumpState
  <2>4. Grows(m)
    BY <1>2, <1>4, <2>1 DEF Grows
  <2>5. Witnessed'
    <3>1. pump'[c].msg = m /\ \A d \in Channels \ {c} : pump'[d] = pump[d]
      BY <1>4, <2>2, RowTyped
    <3>2. QED
      BY <1>2, <1>3, <2>1, <3>1 DEF Witnessed, InboundInv, Knows, Credentialed
  <2>6. Truthful(m, row, ack)'
    BY <1>2, <1>3, <1>4, <2>2, <2>1 DEF Truthful, Admitting
  <2>7. (tasks' \subseteq vouched') /\ \A e \in Asks : asks'[e].by \in vouched' \cup {Nothing}
    BY <1>2, <1>3, <1>4, <2>1 DEF InboundInv
  <2>8. \A k \in Codes : Spent(k)'
    BY <1>4, <2>1 DEF Spent, InboundInv
  <2>9. QED
    BY <1>1, <1>2, <1>3, <1>4, <2>2, <2>3, <2>4, <2>5, <2>6, <2>7, <2>8, RowOwed DEF Early
<1>5. CASE (Works \/ Fails) /\ Goes(c, Owes("ask_answer_rejected", m, TRUE)) /\ UNCHANGED tables
  BY <1>1, <1>2, <1>5, TurnedAway DEF Rows, Early
<1>6. CASE \E a \in m.tokens :
             /\ live_for(a, m.peer) /\ settled_by(a, m)
             /\ \/ Works /\ Goes(c, Owes("ask_resolved", m, TRUE))
                \/ Fails /\ Goes(c, Owes("ask_answer_rejected", m, TRUE))
  BY <1>4, <1>6
<1>7. QED
  BY <1>1, <1>5, <1>6 DEF resolve_with_nonce

\* The message becomes a task, or is blocked, or the insert fails or seems to.
LEMMA Enqueue == ASSUME InboundInv, NEW c \in Channels, enqueue(c) PROVE InboundInv'
<1>1. PICK m \in Messages : m = pump[c].msg
  BY DEF enqueue, Handling, InboundInv, Knows
<1>2. pump[c].at = "enqueue" /\ UNCHANGED <<unread, tables, said, vouched, revokes>>
  BY DEF enqueue, Handling
<1>3. m \notin tasks /\ m \in vouched /\ (looks_like_ask_command(m) => Dead(m))
  BY <1>1, <1>2 DEF InboundInv, Knows
<1>4. ASSUME NEW row \in {"injection_blocked", "received", "enqueue_failed"}, NEW ack \in BOOLEAN,
             ~ack, Goes(c, Owes(row, m, ack)), Works \/ Fails,
             tasks' \in {tasks, tasks \cup {m}},
             row = "received" => m \in tasks', row = "injection_blocked" => m \notin tasks'
      PROVE  InboundInv'
  <2>1. row \in Rows
    BY DEF Rows
  <2>2. TypeOK'
    <3>1. pump' \in [Channels -> PumpState]
      BY <1>4, <2>1, RowTyped
    <3>2. faults' \in 0 .. MaxFaults
      BY <1>4, FaultsBounded DEF InboundInv
    <3>3. QED
      BY <1>2, <1>4, <3>1, <3>2 DEF InboundInv, TypeOK, PumpState, tables
  <2>3. Grows(m)
    BY <1>2, <1>4 DEF Grows, tables
  <2>4. Witnessed'
    <3>1. pump'[c].msg = m /\ \A d \in Channels \ {c} : pump'[d] = pump[d]
      BY <1>4, <2>1, RowTyped
    <3>2. QED
      BY <1>2, <1>3, <3>1 DEF Witnessed, InboundInv, Knows, Credentialed, tables
  <2>5. Truthful(m, row, ack)'
    BY <1>4, <2>1 DEF Truthful, Admitting
  <2>6. (tasks' \subseteq vouched') /\ \A e \in Asks : asks'[e].by \in vouched' \cup {Nothing}
    BY <1>2, <1>3, <1>4 DEF InboundInv, tables
  <2>7. \A k \in Codes : Spent(k)'
    BY <1>2 DEF Spent, InboundInv, tables
  <2>8. looks_like_ask_command(m) => Dead(m)'
    BY <1>2, <1>3 DEF Dead, tables
  <2>9. QED
    BY <1>1, <1>2, <1>4, <2>1, <2>2, <2>3, <2>4, <2>5, <2>6, <2>7, <2>8, RowOwed DEF Early
<1>5. CASE Works /\ UNCHANGED tasks /\ Goes(c, Owes("injection_blocked", m, FALSE))
  BY <1>3, <1>4, <1>5
<1>6. CASE Works /\ tasks' = tasks \cup {m} /\ Goes(c, Owes("received", m, FALSE))
  BY <1>4, <1>6
<1>7. CASE Fails /\ tasks' \in {tasks, tasks \cup {m}} /\ Goes(c, Owes("enqueue_failed", m, FALSE))
  BY <1>4, <1>7
<1>8. QED
  BY <1>1, <1>5, <1>6, <1>7 DEF enqueue

\* The handler lets go of its message, which has left a trace.
LEMMA LetGo ==
  ASSUME InboundInv, NEW c \in Channels, NEW m \in Messages, m = pump[c].msg,
         pump[c].at # "idle", Goes(c, Idle), unread' = unread,
         TypeOK', Grows(m), said[m] \subseteq said'[m], said'[m] # {},
         "received" \in said'[m] => m \in tasks',
         "paired" \in said'[m] => m.code \in Codes /\ m.peer \in codes'[m.code].bound,
         "ask_resolved" \in said'[m] =>
           \E a \in m.tokens : asks'[a].by = m /\ asks'[a].state = "resolved" /\ Owner[a] = m.peer,
         said'[m] \cap (Rows \ Admitting) # {} => m \notin tasks',
         m \in tasks' /\ looks_like_ask_command(m) => Dead(m)', Witnessed',
         \A k \in Codes : Spent(k)', tasks' \subseteq vouched',
         \A a \in Asks : asks'[a].by \in vouched' \cup {Nothing}
  PROVE  InboundInv'
<1>1. pump'[c].at = "idle"
  BY PumpStates DEF Goes, InboundInv, TypeOK
<1>2. Knows(c)'
  BY <1>1 DEF Knows
<1>3. \A a \in m.tokens : asks'[a].state # "none"
  BY ConstantsAssumption DEF Grows, InboundInv, Knows
<1>4. m \notin unread
  BY DEF InboundInv, Knows
<1>5. looks_like_ask_command(m)' = looks_like_ask_command(m)
  BY DEF looks_like_ask_command
<1>6. Traced(m)'
  BY <1>3, <1>4, <1>5 DEF Traced
<1>7. pump' = [pump EXCEPT ![c] = Idle] /\ Idle.at = "idle"
  BY PumpStates DEF Goes
<1>8. QED
  BY <1>2, <1>6, <1>7, HandlerMoves

\* The row is written, or reported lost, and the pump goes on to the
\* acknowledgement or is free.
LEMMA Audit == ASSUME InboundInv, NEW c \in Channels, audit(c) PROVE InboundInv'
<1>1. PICK m \in Messages : m = pump[c].msg
  BY DEF audit, Handling, InboundInv, Knows
<1>2. /\ pump[c].at = "audit" /\ UNCHANGED <<unread, tables, tasks, vouched, revokes>>
      /\ Works \/ Fails
      /\ Goes(c, IF pump[c].ack THEN At("ack", m) ELSE Idle)
  BY <1>1 DEF audit, Handling
<1> DEFINE row == pump[c].row
           ack == pump[c].ack
<1>3. /\ Truthful(m, row, ack) /\ said[m] = {} /\ m.channel = c /\ m \notin unread
      /\ \A a \in m.tokens : asks[a].state # "none"
      /\ Credentialed(m, pairings) => m \in vouched
  BY <1>1, <1>2 DEF InboundInv, Knows
<1>4. PICK mark \in {row, "line"} : said' = [said EXCEPT ![m] = @ \cup {mark}]
  BY <1>1 DEF audit, Leaves
<1>5. said'[m] = {mark} /\ \A n \in Messages : n # m => said'[n] = said[n]
  BY <1>3, <1>4 DEF InboundInv, TypeOK
<1>6. row \in Rows
  BY <1>3 DEF Truthful
<1>7. "line" \notin Rows /\ {"received", "paired", "ask_resolved"} \subseteq Rows
  BY DEF Rows
<1>8. Grows(m)
  BY <1>2, <1>5 DEF Grows, tables
<1>9. pump' \in [Channels -> PumpState] /\ \A d \in Channels \ {c} : pump'[d] = pump[d]
  BY <1>2, PumpStates DEF Goes, InboundInv, TypeOK, PumpState, Places
<1>10. TypeOK'
  <2>1. said' \in [Messages -> SUBSET (Rows \cup {"line"})]
    BY <1>4, <1>6 DEF InboundInv, TypeOK
  <2>2. QED
    BY <1>2, <1>9, <2>1, FaultsBounded DEF InboundInv, TypeOK, PumpState, tables
<1>11. Witnessed'
  <2>1. pump'[c].at # "idle" => pump'[c].msg = m
    BY <1>2, PumpStates DEF Goes, InboundInv, TypeOK, Places
  <2>2. QED
    BY <1>2, <1>3, <1>9, <2>1 DEF Witnessed, InboundInv, Knows, Credentialed, tables
<1>12. /\ "received" \in said'[m] => m \in tasks'
       /\ "paired" \in said'[m] => m.code \in Codes /\ m.peer \in codes'[m.code].bound
       /\ "ask_resolved" \in said'[m] =>
            \E a \in m.tokens : asks'[a].by = m /\ asks'[a].state = "resolved" /\ Owner[a] = m.peer
       /\ said'[m] \cap (Rows \ Admitting) # {} => m \notin tasks'
  BY <1>2, <1>3, <1>5, <1>7 DEF Truthful, tables
<1>13. /\ \A a \in m.tokens : asks'[a].state # "none"
       /\ m \in tasks' /\ looks_like_ask_command(m) => Dead(m)'
  BY <1>2, <1>3 DEF InboundInv, Traced, Dead, tables
<1>14. /\ tasks' \subseteq vouched' /\ \A k \in Codes : Spent(k)'
       /\ \A a \in Asks : asks'[a].by \in vouched' \cup {Nothing}
  BY <1>2 DEF InboundInv, Spent, tables
<1>15. CASE ~ack
  BY <1>1, <1>2, <1>3, <1>5, <1>8, <1>10, <1>11, <1>12, <1>13, <1>14, <1>15, LetGo
<1>16. CASE ack
  <2>1. Goes(c, At("ack", m)) /\ At("ack", m).at = "ack" /\ At("ack", m).msg = m
    BY <1>2, <1>16, PumpStates DEF Places
  <2>2. pump'[c].at = "ack" /\ pump'[c].msg = m
    BY <2>1 DEF Goes, InboundInv, TypeOK
  <2>3. m \notin tasks'
    BY <1>2, <1>3, <1>16 DEF Truthful
  <2>4. Knows(c)'
    BY <1>2, <1>3, <1>5, <1>13, <2>2, <2>3 DEF Knows, tables, Credentialed
  <2>5. Traced(m)'
    BY <1>2, <1>3, <1>5, <1>12, <2>3 DEF Traced
  <2>6. QED
    BY <1>1, <1>2, <1>8, <1>10, <1>11, <1>14, <2>1, <2>4, <2>5, HandlerMoves DEF Goes
<1>17. QED
  BY <1>15, <1>16 DEF InboundInv, TypeOK

\* A refused acknowledgement leaves a row or a line of its own.
LEMMA SendOrRecord == ASSUME InboundInv, NEW c \in Channels, send_or_record(c) PROVE InboundInv'
<1>1. PICK m \in Messages : m = pump[c].msg
  BY DEF send_or_record, Handling, InboundInv, Knows
<1>2. /\ pump[c].at = "ack" /\ UNCHANGED <<unread, tables, tasks, vouched, revokes>>
      /\ Works \/ Fails
      /\ Goes(c, Idle)
  BY DEF send_or_record, Handling
<1>3. said[m] # {} /\ m \notin tasks /\ Traced(m)
  BY <1>1, <1>2 DEF InboundInv, Knows
<1>4. PICK marks \in SUBSET {"undelivered", "line"} : said' = [said EXCEPT ![m] = @ \cup marks]
  <2>1. CASE said' = said
    <3>1. said = [said EXCEPT ![m] = @ \cup {}]
      BY DEF InboundInv, TypeOK
    <3>2. QED
      BY <2>1, <3>1
  <2>2. CASE \E mark \in {"undelivered", "line"} : Leaves(m, {mark})
    BY <2>2 DEF Leaves
  <2>3. QED
    BY <1>1, <2>1, <2>2 DEF send_or_record
<1>5. said'[m] = said[m] \cup marks /\ \A n \in Messages : n # m => said'[n] = said[n]
  BY <1>4 DEF InboundInv, TypeOK
<1>6. Grows(m)
  BY <1>2, <1>5 DEF Grows, tables
<1>7. TypeOK'
  <2>1. said' \in [Messages -> SUBSET (Rows \cup {"line"})]
    BY <1>4 DEF InboundInv, TypeOK, Rows
  <2>2. pump' \in [Channels -> PumpState]
    BY <1>2, PumpStates DEF Goes, InboundInv, TypeOK, PumpState
  <2>3. QED
    BY <1>2, <2>1, <2>2, FaultsBounded DEF InboundInv, TypeOK, PumpState, tables
<1>8. Witnessed'
  BY <1>2, PumpStates DEF Goes, TypeOK, Witnessed, InboundInv, Knows, Credentialed, tables
<1>9. /\ "received" \in said'[m] => m \in tasks'
      /\ "paired" \in said'[m] => m.code \in Codes /\ m.peer \in codes'[m.code].bound
      /\ "ask_resolved" \in said'[m] =>
           \E a \in m.tokens : asks'[a].by = m /\ asks'[a].state = "resolved" /\ Owner[a] = m.peer
  BY <1>2, <1>3, <1>5 DEF Traced, tables
<1>10. /\ tasks' \subseteq vouched' /\ \A k \in Codes : Spent(k)'
       /\ \A a \in Asks : asks'[a].by \in vouched' \cup {Nothing}
  BY <1>2 DEF InboundInv, Spent, tables
<1>11. m \notin tasks' /\ said'[m] # {} /\ said[m] \subseteq said'[m]
  BY <1>2, <1>3, <1>5
<1>12. QED
  BY <1>1, <1>2, <1>6, <1>7, <1>8, <1>9, <1>10, <1>11, LetGo

\* A stop abandons the handler, whose statement may still commit.
LEMMA Stop == ASSUME InboundInv, NEW c \in Channels, stop(c) PROVE InboundInv'
<1>1. PICK m \in Messages : m = pump[c].msg
  BY DEF stop, Handling, InboundInv, Knows
<1>2. /\ pump[c].at # "idle" /\ UNCHANGED <<unread, revokes>>
      /\ Works \/ Fails
      /\ Goes(c, Idle) /\ Leaves(m, {"line"})
      /\ vouched' = witness(pump', pairings')
  BY <1>1 DEF stop, Handling, abandoned
<1>3. Traced(m) /\ Knows(c) /\ m \notin unread
  BY <1>1, <1>2 DEF InboundInv, Knows
<1>4. said'[m] = said[m] \cup {"line"} /\ \A n \in Messages : n # m => said'[n] = said[n]
  BY <1>2 DEF InboundInv, TypeOK, Leaves
<1>5. "line" \notin Rows
  BY DEF Rows
<1>6. pump' \in [Channels -> PumpState] /\ InHand(pump') \subseteq InHand(pump)
  BY <1>2, PumpStates DEF Goes, InboundInv, TypeOK, PumpState, InHand
<1>7. Witnessed' /\ vouched \subseteq vouched'
  BY <1>2, Witnesses
<1>8. vouched' \subseteq Messages
  BY <1>2, <1>6, InHandTyped DEF witness, InboundInv, TypeOK
<1>9. said' \in [Messages -> SUBSET (Rows \cup {"line"})]
  BY <1>2 DEF InboundInv, TypeOK, Leaves
<1>10. faults' \in 0 .. MaxFaults
  BY <1>2, FaultsBounded DEF InboundInv
<1>11. m.tokens \subseteq Asks
  BY ConstantsAssumption
<1>12. CASE claimable(m.code) /\ bind(m) /\ UNCHANGED tasks
  <2>1. /\ m.code \in Codes /\ m.peer \in codes'[m.code].bound
        /\ codes' \in [Codes -> [state : {"none", "live", "expired", "consumed"},
                                  bound : SUBSET Peers]]
        /\ pairings' \in [Peers -> [active : BOOLEAN, token : Secrets \cup {Nothing}]]
        /\ issued' = issued /\ asks' = asks
        /\ \A k \in Codes : Spent(k)' /\ codes[k].bound \subseteq codes'[k].bound
    BY <1>12, Bound
  <2>2. TypeOK'
    BY <1>2, <1>6, <1>8, <1>9, <1>10, <1>12, <2>1 DEF InboundInv, TypeOK, PumpState
  <2>3. Grows(m)
    BY <1>4, <1>7, <1>12, <2>1 DEF Grows
  <2>4. /\ "received" \in said'[m] => m \in tasks'
        /\ "paired" \in said'[m] => m.code \in Codes /\ m.peer \in codes'[m.code].bound
        /\ "ask_resolved" \in said'[m] =>
             \E a \in m.tokens : asks'[a].by = m /\ asks'[a].state = "resolved" /\ Owner[a] = m.peer
        /\ said'[m] \cap (Rows \ Admitting) # {} => m \notin tasks'
    BY <1>3, <1>4, <1>5, <1>12, <2>1 DEF Traced
  <2>5. m \in tasks' /\ looks_like_ask_command(m) => Dead(m)'
    BY <1>3, <1>12, <2>1 DEF Traced, Dead
  <2>6. tasks' \subseteq vouched' /\ \A e \in Asks : asks'[e].by \in vouched' \cup {Nothing}
    BY <1>7, <1>12, <2>1 DEF InboundInv
  <2>7. QED
    BY <1>1, <1>2, <1>4, <1>7, <2>1, <2>2, <2>3, <2>4, <2>5, <2>6, LetGo
<1>13. ASSUME pump[c].at = "resolve", NEW a \in m.tokens, live_for(a, m.peer), settled_by(a, m),
              UNCHANGED tasks
       PROVE  InboundInv'
  <2>1. /\ asks'[a] = [state |-> "resolved", by |-> m] /\ Owner[a] = m.peer
        /\ asks' \in [Asks -> [state : {"none", "pending", "resolved", "retired"},
                               by : Messages \cup {Nothing}]]
        /\ pairings' = pairings /\ issued' = issued /\ codes' = codes
        /\ \A e \in Asks : e # a => asks'[e] = asks[e]
        /\ a \in Asks /\ asks[a].state = "pending"
    BY <1>13, SettledBy
  <2>2. TypeOK'
    BY <1>2, <1>6, <1>8, <1>9, <1>10, <1>13, <2>1 DEF InboundInv, TypeOK, PumpState
  <2>3. Grows(m)
    BY <1>4, <1>7, <1>13, <2>1 DEF Grows
  <2>4. said[m] = {} /\ m \notin tasks' /\ m \in vouched
    BY <1>1, <1>3, <1>13 DEF Knows
  <2>5. said'[m] = {"line"}
    BY <1>4, <2>4
  <2>6. tasks' \subseteq vouched' /\ \A e \in Asks : asks'[e].by \in vouched' \cup {Nothing}
    BY <1>7, <1>13, <2>1, <2>4 DEF InboundInv
  <2>7. \A k \in Codes : Spent(k)'
    BY <2>1 DEF Spent, InboundInv
  <2>8. QED
    BY <1>1, <1>2, <1>5, <1>7, <2>2, <2>3, <2>4, <2>5, <2>6, <2>7, LetGo DEF Rows
<1>14. CASE pump[c].at = "enqueue" /\ tasks' = tasks \cup {m} /\ UNCHANGED tables
  <2>1. said[m] = {} /\ m \in vouched /\ (looks_like_ask_command(m) => Dead(m))
    BY <1>1, <1>3, <1>14 DEF Knows
  <2>2. TypeOK'
    BY <1>2, <1>6, <1>8, <1>9, <1>10, <1>14 DEF InboundInv, TypeOK, PumpState, tables
  <2>3. Grows(m)
    BY <1>4, <1>7, <1>14 DEF Grows, tables
  <2>4. said'[m] = {"line"}
    BY <1>4, <2>1
  <2>5. tasks' \subseteq vouched' /\ \A e \in Asks : asks'[e].by \in vouched' \cup {Nothing}
    BY <1>7, <1>14, <2>1 DEF InboundInv, tables
  <2>6. \A k \in Codes : Spent(k)'
    BY <1>14 DEF Spent, InboundInv, tables
  <2>7. looks_like_ask_command(m) => Dead(m)'
    BY <1>14, <2>1 DEF Dead, tables
  <2>8. QED
    BY <1>1, <1>2, <1>5, <1>7, <2>1, <2>2, <2>3, <2>4, <2>5, <2>6, <2>7, LetGo DEF Rows
<1>15. CASE UNCHANGED <<tables, tasks>>
  <2>1. TypeOK'
    BY <1>2, <1>6, <1>8, <1>9, <1>10, <1>15 DEF InboundInv, TypeOK, PumpState, tables
  <2>2. Grows(m)
    BY <1>4, <1>7, <1>15 DEF Grows, tables
  <2>3. /\ "received" \in said'[m] => m \in tasks'
        /\ "paired" \in said'[m] => m.code \in Codes /\ m.peer \in codes'[m.code].bound
        /\ "ask_resolved" \in said'[m] =>
             \E a \in m.tokens : asks'[a].by = m /\ asks'[a].state = "resolved" /\ Owner[a] = m.peer
        /\ said'[m] \cap (Rows \ Admitting) # {} => m \notin tasks'
    BY <1>3, <1>4, <1>5, <1>15 DEF Traced, tables
  <2>4. m \in tasks' /\ looks_like_ask_command(m) => Dead(m)'
    BY <1>3, <1>15 DEF Traced, Dead, tables
  <2>5. tasks' \subseteq vouched' /\ \A e \in Asks : asks'[e].by \in vouched' \cup {Nothing}
    BY <1>7, <1>15 DEF InboundInv, tables
  <2>6. \A k \in Codes : Spent(k)'
    BY <1>15 DEF Spent, InboundInv, tables
  <2>7. QED
    BY <1>1, <1>2, <1>4, <1>7, <2>1, <2>2, <2>3, <2>4, <2>5, <2>6, LetGo
<1>16. QED
  BY <1>1, <1>12, <1>13, <1>14, <1>15 DEF stop, Handling

-----------------------------------------------------------------------------
(* The steps that are not the handler's. *)

\* The pump takes a message its transport holds.
LEMMA Recv == ASSUME InboundInv, NEW c \in Channels, recv(c) PROVE InboundInv'
<1>1. PICK m \in unread :
        /\ m.channel = c
        /\ \A a \in m.tokens : asks[a].state # "none"
        /\ unread' = unread \ {m}
        /\ Goes(c, IF m.nul THEN Owes("rejected_malformed", m, FALSE) ELSE At("authorize", m))
  BY DEF recv
<1>2. /\ pump[c].at = "idle" /\ UNCHANGED <<tables, tasks, said, faults, revokes>>
      /\ vouched' = witness(pump', pairings')
  BY DEF recv, Handling, tables
<1>3. m \in Messages /\ said[m] = {} /\ m \notin tasks /\ Traced(m)
  BY <1>1 DEF InboundInv, TypeOK, Traced
<1>4. PICK p \in PumpState :
        /\ pump' = [pump EXCEPT ![c] = p] /\ p.msg = m
        /\ (p.at = "audit" /\ p.row = "rejected_malformed") \/ p.at = "authorize"
  <2> DEFINE o == Owes("rejected_malformed", m, FALSE)
             r == At("authorize", m)
  <2>1. o \in PumpState /\ o.msg = m /\ o.at = "audit" /\ o.row = "rejected_malformed"
    BY <1>3 DEF Owes, PumpState, Rows, Places
  <2>2. r \in PumpState /\ r.msg = m /\ r.at = "authorize"
    BY <1>3 DEF At, PumpState, Places
  <2>3. pump' = [pump EXCEPT ![c] = o] \/ pump' = [pump EXCEPT ![c] = r]
    BY <1>1 DEF Goes
  <2> HIDE DEF o, r
  <2>4. QED
    BY <2>1, <2>2, <2>3
<1>5. /\ pump' \in [Channels -> PumpState] /\ pump'[c] = p
      /\ \A d \in Channels \ {c} : pump'[d] = pump[d]
  BY <1>4 DEF InboundInv, TypeOK, PumpState
<1>6. Witnessed' /\ vouched \subseteq vouched'
  BY <1>2, Witnesses
<1>7. InHand(pump') \subseteq InHand(pump) \cup {m} /\ m \in InHand(pump')
  BY <1>4, <1>5 DEF InHand
<1>8. TypeOK'
  <2>1. vouched' \subseteq Messages
    BY <1>2, <1>3, <1>7, InHandTyped DEF witness, InboundInv, TypeOK
  <2>2. QED
    BY <1>1, <1>2, <1>5, <2>1 DEF InboundInv, TypeOK, PumpState, tables
<1>9. Grows(m)
  BY <1>2, <1>6 DEF Grows, tables
<1>10. ASSUME NEW d \in Channels \ {c} PROVE Knows(d)'
  <2>1. pump[d].at # "idle" => pump[d].msg # m
    BY <1>1 DEF InboundInv, Knows
  <2>2. QED
    BY <1>1, <1>5, <1>6, <1>9, <2>1, OthersKnow
<1>11. Knows(c)'
  <2>1. m \notin unread' /\ said'[m] = {} /\ m \notin tasks'
    BY <1>1, <1>2, <1>3
  <2>2. Truthful(m, "rejected_malformed", p.ack)'
    BY <2>1 DEF Truthful, Rows, Admitting
  <2>3. \A a \in m.tokens : asks'[a].state # "none"
    BY <1>1, <1>2 DEF tables
  <2>4. Credentialed(m, pairings') => m \in vouched'
    BY <1>4, <1>5, <1>6 DEF Witnessed
  <2>5. QED
    BY <1>1, <1>3, <1>4, <1>5, <2>1, <2>2, <2>3, <2>4 DEF Knows
<1>12. ASSUME NEW n \in Messages, n # m PROVE Traced(n)'
  <2>1. n \in InHand(pump) => n \in InHand(pump')
    BY <1>2, <1>5 DEF InHand
  <2>2. QED
    BY <1>1, <1>9, <1>12, <2>1, OthersTraced
<1>13. Traced(m)'
  BY <1>1, <1>2, <1>3, <1>7 DEF Traced
<1>14. /\ tasks' \subseteq vouched' /\ \A k \in Codes : Spent(k)'
       /\ \A a \in Asks : asks'[a].by \in vouched' \cup {Nothing}
  BY <1>2, <1>6 DEF InboundInv, Spent, tables
<1>15. QED
  BY <1>8, <1>10, <1>11, <1>12, <1>13, <1>14 DEF InboundInv

\* A step outside the pumps concerns no message.
LEMMA Outside ==
  ASSUME InboundInv, UNCHANGED <<unread, pump, tasks, said>>, vouched \subseteq vouched',
         \A a \in Asks :
           /\ asks[a].state # "none" => asks'[a].state # "none"
           /\ asks'[a].state = "pending" => asks[a].state \in {"none", "pending"}
           /\ asks[a].state \in {"resolved", "retired"} => asks'[a] = asks[a]
           /\ asks'[a].by = asks[a].by,
         \A k \in Codes : codes[k].bound \subseteq codes'[k].bound,
         TypeOK', Witnessed', \A k \in Codes : Spent(k)'
  PROVE  InboundInv'
<1>1. PICK m : m \notin Messages
  BY NoSetContainsEverything
<1>2. Grows(m)
  BY DEF Grows
<1>3. ASSUME NEW d \in Channels PROVE Knows(d)'
  <2>1. pump[d].at # "idle" => pump[d].msg # m
    BY <1>1 DEF InboundInv, Knows
  <2>2. QED
    BY <1>2, <2>1, OthersKnow
<1>4. ASSUME NEW n \in Messages PROVE Traced(n)'
  BY <1>1, <1>2, OthersTraced
<1>5. QED
  BY <1>3, <1>4 DEF InboundInv

\* The history misses nothing while the pairings stay as they are or shrink.
LEMMA WitnessesStay ==
  ASSUME InboundInv, UNCHANGED <<pump, vouched>>,
         \A p \in Peers : pairings'[p].active => pairings'[p] = pairings[p]
  PROVE  Witnessed'
<1>1. ASSUME NEW c \in Channels, pump[c].at # "idle", Credentialed(pump[c].msg, pairings')
      PROVE  pump[c].msg \in vouched
  <2>1. pump[c].msg \in Messages /\ Knows(c)
    BY <1>1 DEF InboundInv, Knows
  <2>2. pump[c].msg.peer \in Peers
    BY <2>1, ConstantsAssumption
  <2>3. Credentialed(pump[c].msg, pairings)
    BY <1>1, <2>2 DEF Credentialed
  <2>4. QED
    BY <1>1, <2>1, <2>3 DEF Knows
<1>2. QED
  BY <1>1 DEF Witnessed, Credentialed

\* The operator issues a pairing code, or one expires.
LEMMA CodeSteps ==
  ASSUME InboundInv, NEW k \in Codes, pair_issue(k) \/ code_expires(k) PROVE InboundInv'
<1>1. PICK s \in {"live", "expired"} :
        codes[k].state \in {"none", "live"} /\ codes' = [codes EXCEPT ![k].state = s]
  BY DEF pair_issue, code_expires
<1>2. UNCHANGED <<unread, pump, tasks, said, faults, pairings, issued, asks, vouched, revokes>>
  BY DEF pair_issue, code_expires, Elsewhere
<1>3. /\ codes' \in [Codes -> [state : {"none", "live", "expired", "consumed"}, bound : SUBSET Peers]]
      /\ codes'[k].state = s /\ codes'[k].bound = codes[k].bound
      /\ \A j \in Codes : j # k => codes'[j] = codes[j]
  BY <1>1 DEF InboundInv, TypeOK
<1>4. TypeOK'
  BY <1>2, <1>3 DEF InboundInv, TypeOK
<1>5. Witnessed'
  BY <1>2, WitnessesStay
<1>6. \A j \in Codes : Spent(j)'
  BY <1>1, <1>3 DEF InboundInv, Spent
<1>7. QED
  BY <1>2, <1>3, <1>4, <1>5, <1>6, Outside

\* The operator pairs a peer with a token.
LEMMA PairIssueToken ==
  ASSUME InboundInv, NEW p \in Peers, NEW t \in Secrets, pair_issue_token(p, t) PROVE InboundInv'
<1>1. UNCHANGED <<unread, pump, tasks, said, faults, codes, asks, revokes>>
  BY DEF pair_issue_token, Elsewhere
<1>2. vouched' = witness(pump, pairings')
  BY DEF pair_issue_token
<1>3. Witnessed' /\ vouched \subseteq vouched'
  BY <1>1, <1>2, Witnesses
<1>4. TypeOK'
  <2>1. vouched' \subseteq Messages
    BY <1>2, InHandTyped DEF witness, InboundInv, TypeOK
  <2>2. QED
    BY <1>1, <2>1 DEF InboundInv, TypeOK, pair_issue_token, Paired
<1>5. \A k \in Codes : Spent(k)'
  BY <1>1 DEF InboundInv, Spent
<1>6. QED
  BY <1>1, <1>3, <1>4, <1>5, Outside

\* The operator revokes a pairing.
LEMMA RevokePairing ==
  ASSUME InboundInv, NEW p \in Peers, revoke_pairing(p) PROVE InboundInv'
<1>1. UNCHANGED <<unread, pump, tasks, said, faults, issued, codes, asks, vouched>>
  BY DEF revoke_pairing, Elsewhere
<1>2. TypeOK'
  <2>1. revokes' \in 0 .. MaxRevokes
    BY ConstantsAssumption DEF InboundInv, TypeOK, revoke_pairing
  <2>2. pairings' \in [Peers -> [active : BOOLEAN, token : Secrets \cup {Nothing}]]
    <3> DEFINE Row == [active : BOOLEAN, token : Secrets \cup {Nothing}]
    <3>1. pairings \in [Peers -> Row]
      BY DEF InboundInv, TypeOK
    <3>2. [pairings[p] EXCEPT !.active = FALSE] \in Row
      BY <3>1, Zenon
    <3>3. pairings' = [pairings EXCEPT ![p] = [pairings[p] EXCEPT !.active = FALSE]]
      BY DEF revoke_pairing
    <3> HIDE DEF Row
    <3>4. pairings' \in [Peers -> Row]
      BY <3>1, <3>2, <3>3
    <3>5. QED
      BY <3>4 DEF Row
  <2>3. QED
    BY <1>1, <2>1, <2>2 DEF InboundInv, TypeOK
<1>3. \A q \in Peers : pairings'[q].active => pairings'[q] = pairings[q]
  BY DEF revoke_pairing, InboundInv, TypeOK
<1>4. Witnessed'
  BY <1>1, <1>3, WitnessesStay
<1>5. \A k \in Codes : Spent(k)'
  BY <1>1 DEF InboundInv, Spent
<1>6. QED
  BY <1>1, <1>2, <1>4, <1>5, Outside

\* The scheduler raises an ask, or retires one.
LEMMA AskSteps ==
  ASSUME InboundInv, NEW a \in Asks, ask_raised(a) \/ ask_retired(a) PROVE InboundInv'
<1>1. PICK s \in {"pending", "retired"} :
        /\ asks[a].state \in {"none", "pending"} /\ asks' = [asks EXCEPT ![a].state = s]
        /\ s = "pending" => asks[a].state = "none"
  BY DEF ask_raised, ask_retired
<1>2. UNCHANGED <<unread, pump, tasks, said, faults, pairings, issued, codes, vouched, revokes>>
  BY DEF ask_raised, ask_retired, Elsewhere
<1>3. /\ asks' \in [Asks -> [state : {"none", "pending", "resolved", "retired"},
                             by : Messages \cup {Nothing}]]
      /\ asks'[a].state = s /\ asks'[a].by = asks[a].by
      /\ \A b \in Asks : b # a => asks'[b] = asks[b]
  BY <1>1 DEF InboundInv, TypeOK
<1>4. TypeOK'
  BY <1>2, <1>3 DEF InboundInv, TypeOK
<1>5. Witnessed'
  BY <1>2, WitnessesStay
<1>6. \A k \in Codes : Spent(k)'
  BY <1>2 DEF InboundInv, Spent
<1>7. QED
  BY <1>1, <1>2, <1>3, <1>4, <1>5, <1>6, Outside

\* Nothing happens.
LEMMA InboundStutters == ASSUME InboundInv, UNCHANGED vars PROVE InboundInv'
<1>1. UNCHANGED <<unread, pump, pairings, issued, codes, asks, tasks, said, vouched, faults, revokes>>
  BY DEF vars
<1>2. TypeOK' /\ \A k \in Codes : Spent(k)'
  BY <1>1 DEF InboundInv, TypeOK, Spent
<1>3. Witnessed'
  BY <1>1, WitnessesStay
<1>4. QED
  BY <1>1, <1>2, <1>3, Outside

-----------------------------------------------------------------------------
(* The results. *)

\* Every step keeps the invariant.
LEMMA InboundStep == InboundInv /\ [Next]_vars => InboundInv'
<1> SUFFICES ASSUME InboundInv, [Next]_vars PROVE InboundInv'
  OBVIOUS
<1>1. ASSUME NEW c \in Channels, handler(c) PROVE InboundInv'
  BY <1>1, Authorized, TryPairGate, TryPair, ResolveWithNonce, ContainmentRefusal, Enqueue,
     Audit, SendOrRecord DEF handler
<1>2. ASSUME NEW c \in Channels, recv(c) \/ stop(c) PROVE InboundInv'
  BY <1>2, Recv, Stop
<1>3. ASSUME NEW k \in Codes, pair_issue(k) \/ code_expires(k) PROVE InboundInv'
  BY <1>3, CodeSteps
<1>4. ASSUME NEW p \in Peers, revoke_pairing(p) PROVE InboundInv'
  BY <1>4, RevokePairing
<1>5. ASSUME NEW p \in Tokened, NEW t \in Secrets, pair_issue_token(p, t) PROVE InboundInv'
  BY <1>5, PairIssueToken, ConstantsAssumption
<1>6. ASSUME NEW a \in Asks, ask_raised(a) \/ ask_retired(a) PROVE InboundInv'
  BY <1>6, AskSteps
<1>7. QED
  BY <1>1, <1>2, <1>3, <1>4, <1>5, <1>6, InboundStutters DEF Next

\* What the handler knows at each of its awaits stays so whatever the other
\* pumps, the operator's CLI, the ask sweep and a stop do between them
\* (bus_inbound.rs `handle_inbound').
THEOREM InboundInvariant == Spec => []InboundInv
<1>1. QED
  BY InboundInit, InboundStep, PTL DEF Spec

\* A message becomes a task or answers an ask only if its sender was paired,
\* with the right token where the transport cannot vouch, at some moment while
\* the message was in hand (auth.rs `authorize', bus_inbound.rs).
THEOREM OnlyThePairedGetIn == Spec => []AdmittedWhilePaired
<1>1. InboundInv => AdmittedWhilePaired
  BY DEF InboundInv, AdmittedWhilePaired
<1>2. QED
  BY <1>1, InboundInvariant, PTL

\* No task's body holds a token its own sender could still answer with, once
\* it mentions an ask verb (bus_inbound.rs containment, asks.rs).
THEOREM ContainmentHolds == Spec => []TokensContained
<1>1. ASSUME InboundInv, NEW m \in tasks, looks_like_ask_command(m), NEW a \in m.tokens
      PROVE  ~(asks[a].state = "pending" /\ Owner[a] = m.peer)
  <2>1. m \in Messages
    BY <1>1 DEF InboundInv, TypeOK
  <2>2. Dead(m)
    BY <1>1, <2>1 DEF InboundInv, Traced
  <2>3. QED
    BY <2>2 DEF Dead
<1>2. InboundInv => TokensContained
  BY <1>1 DEF TokensContained
<1>3. QED
  BY <1>2, InboundInvariant, PTL

\* A pairing code binds at most one peer, and is spent exactly when it has
\* (pairing.rs `try_pair', db pairings.rs).
THEOREM OneCodeOnePeer == Spec => []CodesBindOnce
<1>1. ASSUME InboundInv, NEW k \in Codes
      PROVE  Cardinality(codes[k].bound) <= 1 /\ (codes[k].state = "consumed" <=> codes[k].bound # {})
  <2>1. Spent(k)
    BY <1>1 DEF InboundInv
  <2>2. CASE codes[k].bound = {}
    BY <2>1, <2>2, FS_EmptySet DEF Spent
  <2>3. ASSUME NEW p \in Peers, codes[k].bound = {p}
        PROVE  Cardinality(codes[k].bound) <= 1
    BY <2>3, FS_Singleton
  <2>4. QED
    BY <2>1, <2>2, <2>3 DEF Spent
<1>2. InboundInv => TypeOK
  BY DEF InboundInv
<1>3. InboundInv => CodesBindOnce
  BY <1>1, <1>2 DEF CodesBindOnce
<1>4. QED
  BY <1>3, InboundInvariant, PTL

\* Every message a pump has let go of left a row or a line, and its rows tell
\* what happened to it (bus_guards.rs, bus_inbound.rs).
THEOREM RowsAreTrue == Spec => []RowsTellTheTruth
<1>1. ASSUME InboundInv, NEW m \in Messages
      PROVE  /\ m \in unread \/ m \in InHand(pump) \/ said[m] # {}
             /\ "received" \in said[m] => m \in tasks
             /\ "paired" \in said[m] => m.peer \in codes[m.code].bound
             /\ "ask_resolved" \in said[m] => \E a \in m.tokens : asks[a].by = m /\ Owner[a] = m.peer
             /\ said[m] \cap (Rows \ {"received", "enqueue_failed"}) # {} => m \notin tasks
  BY <1>1 DEF InboundInv, Traced, Admitting
<1>2. InboundInv => RowsTellTheTruth
  BY <1>1 DEF RowsTellTheTruth
<1>3. QED
  BY <1>2, InboundInvariant, PTL
=============================================================================
