---------------------------- MODULE ReplyQueues ----------------------------
(***************************************************************************)
(* The outbound half of a polled channel's driver: the drain, flush and    *)
(* exit steps of core/src/channel/polled_driver.rs, with replies.rs,       *)
(* refusal.rs and outage.rs under it.                                      *)
(*                                                                         *)
(* Replies wait in one queue per conversation.  A send a live worker       *)
(* refuses is retried after a backoff, while the other conversations go    *)
(* on; the reply is given up once it was refused often enough and its      *)
(* conversation has refused for long enough.  A failure of the whole       *)
(* channel (the worker down, a refused credential, an unavailable          *)
(* upstream) holds every conversation and restarts those clocks.           *)
(*                                                                         *)
(* Replies are numbered in the order the bus sends them.  A clock is       *)
(* unset, running ("young") or past ReplyGiveUp.after ("old").  The flush  *)
(* may visit the conversations in any order; the code's is by age.         *)
(***************************************************************************)
EXTENDS Integers, Sequences, FiniteSets

CONSTANTS
  Conversations,
  Conv,         \* the conversation of each reply, a sequence
  Welcome,      \* conversations the upstream never refuses by themselves
  QueueCap,     \* MAX_QUEUED_PER_CONVERSATION (256 in the code)
  MinRefusals,  \* ReplyGiveUp.min_refusals (3 in the code)
  MaxFaults,    \* failures of the whole channel a behaviour may have
  None

ASSUME QueuesAssumption ==
  /\ Conv \in Seq(Conversations) /\ Welcome \subseteq Conversations
  /\ QueueCap \in Nat \ {0} /\ MinRefusals \in Nat /\ MinRefusals >= 2
  /\ MaxFaults \in Nat /\ None \notin Conversations

Replies == 1..Len(Conv)
Settled == {"sent", "gave_up", "overflow", "exit"}

VARIABLES
  out,       \* outbound_rx: replies the driver has not pulled
  queue,     \* the queue of each conversation
  waiting,   \* the conversation's run is waiting out its backoff
  hold,      \* the channel-wide run is
  since,     \* the conversation's give-up clock
  refusals,  \* front_refusals, counted up to MinRefusals
  pc,        \* "top", "flush", "poll", "slice" or "ended"
  todo,      \* conversations this flush has yet to visit
  cur,       \* the one it is at
  worker,    \* "up" or "down"
  bus,       \* "open", "closed" (inbound receiver dropped), "gone" (sender too)
  outcome,   \* what became of each reply; "none" before the bus sent it
  streak,    \* refusals of a conversation since the channel last failed, up to 2
  tries,     \* refusals of each reply, up to MinRefusals
  faults

queues == <<queue, waiting, since, refusals>>
driver == <<pc, todo, cur>>
counts == <<streak, tries>>
vars == <<out, queues, hold, driver, worker, bus, outcome, counts, faults>>

Fault == faults < MaxFaults /\ faults' = faults + 1
UpTo(n, cap) == IF n < cap THEN n ELSE cap
Queued(c) == {queue[c][i] : i \in 1..Len(queue[c])}
Pulled == {out[i] : i \in 1..Len(out)}

-----------------------------------------------------------------------------
(* The bus, the worker and the clocks. *)

\* The bus's pump sends the next reply to the driver.
reply ==
  /\ bus = "open" /\ pc # "ended"
  /\ \E r \in Replies :
       /\ outcome[r] = "none" /\ \A q \in 1..(r - 1) : outcome[q] # "none"
       /\ outcome' = [outcome EXCEPT ![r] = "queued"] /\ out' = Append(out, r)
  /\ UNCHANGED <<queues, hold, driver, worker, bus, counts, faults>>

\* A stopping pump drops the channel: its receiver first, then its sender.
stop ==
  /\ \/ bus = "open" /\ bus' = "closed"
     \/ bus = "closed" /\ bus' = "gone"
  /\ UNCHANGED <<out, queues, hold, driver, worker, outcome, counts, faults>>

worker_dies ==
  /\ worker = "up" /\ Fault /\ worker' = "down"
  /\ UNCHANGED <<out, queues, hold, driver, bus, outcome, counts>>

respawn ==
  /\ worker = "down" /\ worker' = "up"
  /\ UNCHANGED <<out, queues, hold, driver, bus, outcome, counts, faults>>

elapse(c) ==
  /\ waiting[c] /\ waiting' = [waiting EXCEPT ![c] = FALSE]
  /\ UNCHANGED <<out, queue, since, refusals, hold, driver, worker, bus, outcome, counts, faults>>

elapse_hold ==
  /\ hold /\ hold' = FALSE
  /\ UNCHANGED <<out, queues, driver, worker, bus, outcome, counts, faults>>

\* ReplyGiveUp.after passes on a running clock.
age(c) ==
  /\ since[c] = "young" /\ since' = [since EXCEPT ![c] = "old"]
  /\ UNCHANGED <<out, queue, waiting, refusals, hold, driver, worker, bus, outcome, counts, faults>>

-----------------------------------------------------------------------------
(* Pulling replies in, and the exits. *)

\* push's refusal of a full conversation.
full(c) == Len(queue[c]) >= QueueCap

\* enqueue: a full conversation drops the new reply.
enqueue ==
  /\ pc = "top" /\ out # <<>>
  /\ LET r == Head(out)  c == Conv[r] IN
     IF full(c)
     THEN outcome' = [outcome EXCEPT ![r] = "overflow"] /\ UNCHANGED queue
     ELSE queue' = [queue EXCEPT ![c] = Append(@, r)] /\ UNCHANGED outcome
  /\ out' = Tail(out)
  /\ UNCHANGED <<waiting, since, refusals, hold, driver, worker, bus, counts, faults>>

\* discard_on_exit: what is queued, and what was sent to the driver since.
late_forgotten == UNION {Queued(c) : c \in Conversations}
discarded == (UNION {Queued(c) : c \in Conversations}) \cup Pulled

discard_on_exit ==
  /\ pc' = "ended" /\ todo' = {} /\ cur' = None
  /\ outcome' = [r \in Replies |-> IF r \in discarded THEN "exit" ELSE outcome[r]]
  /\ queue' = [c \in Conversations |-> <<>>] /\ out' = <<>>
  /\ UNCHANGED <<waiting, since, refusals, hold, worker, bus, counts, faults>>

\* try_recv finds the sender gone.
outbound_gone == pc = "top" /\ out = <<>> /\ bus = "gone" /\ discard_on_exit

\* try_recv finds nothing: the flush begins, unless the channel is held.
flush ==
  /\ pc = "top" /\ out = <<>> /\ bus # "gone"
  /\ pc' = "flush" /\ cur' = None
  /\ todo' = IF hold THEN {} ELSE {c \in Conversations : queue[c] # <<>>}
  /\ UNCHANGED <<out, queues, hold, worker, bus, outcome, counts, faults>>

-----------------------------------------------------------------------------
(* The flush. *)

\* The next conversation, unless it is waiting out its backoff.
visit(c) ==
  /\ pc = "flush" /\ cur = None /\ c \in todo
  /\ todo' = todo \ {c} /\ cur' = IF waiting[c] THEN None ELSE c
  /\ UNCHANGED <<out, queues, hold, pc, worker, bus, outcome, counts, faults>>

Sending == pc = "flush" /\ cur # None /\ queue[cur] # <<>>

\* Ok: both runs end, and the next reply of the conversation follows.
send_accepted ==
  /\ Sending /\ worker = "up"
  /\ outcome' = [outcome EXCEPT ![Head(queue[cur])] = "sent"]
  /\ queue' = [queue EXCEPT ![cur] = Tail(@)]
  /\ hold' = FALSE /\ waiting' = [waiting EXCEPT ![cur] = FALSE]
  /\ since' = [since EXCEPT ![cur] = "unset"] /\ refusals' = [refusals EXCEPT ![cur] = 0]
  /\ UNCHANGED <<out, driver, worker, bus, counts, faults>>

\* give_up_due: refused n times itself, by a conversation refusing for `after`.
give_up_by_clock(n, clock) == clock = "old"
give_up_due(n, clock) == n >= MinRefusals /\ clock = "old"

\* The queue after a refusal that is to be retried.
requeued(q) == Append(Tail(q), Head(q))
retried(q) == q

\* RefusalRun::on_refusal's get_or_insert of its clock.
clock_started(clock) == IF clock = "unset" THEN "young" ELSE clock

\* Refused, for this conversation only: charged to its run and its front.
\* The flush goes on with the next conversation.
break_conversations == {}
break_conversation == todo

send_refused ==
  LET r == Head(queue[cur])
      clock == clock_started(since[cur])
      n == UpTo(refusals[cur] + 1, MinRefusals)
      due == give_up_due(n, clock)
  IN
  /\ Sending /\ worker = "up" /\ cur \notin Welcome
  /\ waiting' = [waiting EXCEPT ![cur] = TRUE] /\ since' = [since EXCEPT ![cur] = clock]
  /\ refusals' = [refusals EXCEPT ![cur] = IF due THEN 0 ELSE n]
  /\ queue' = [queue EXCEPT ![cur] = IF due THEN Tail(@) ELSE retried(@)]
  /\ outcome' = IF due THEN [outcome EXCEPT ![r] = "gave_up"] ELSE outcome
  /\ streak' = [streak EXCEPT ![cur] = UpTo(@ + 1, 2)]
  /\ tries' = [tries EXCEPT ![r] = UpTo(@ + 1, MinRefusals)]
  /\ todo' = break_conversation /\ cur' = None
  /\ UNCHANGED <<out, hold, pc, worker, bus, faults>>

\* restart_give_up_clocks, after a failure of the whole channel.
restart_give_up_clocks == [c \in Conversations |-> "unset"]

\* prune: an emptied conversation is forgotten, its run with it.
prune(clocks) ==
  LET Kept(c) == queue[c] # <<>> IN
  /\ waiting' = [c \in Conversations |-> waiting[c] /\ Kept(c)]
  /\ since' = [c \in Conversations |-> IF Kept(c) THEN clocks[c] ELSE "unset"]
  /\ refusals' = [c \in Conversations |-> IF Kept(c) THEN refusals[c] ELSE 0]
  /\ todo' = {} /\ cur' = None

NoStreak == streak' = [c \in Conversations |-> 0]

\* CredentialRefused or Unavailable: the channel is held, the flush is over.
send_channel_wide ==
  /\ Sending /\ worker = "up" /\ Fault
  /\ hold' = TRUE /\ pc' = "poll" /\ prune(restart_give_up_clocks) /\ NoStreak
  /\ UNCHANGED <<out, queue, worker, bus, outcome, tries>>

\* Gone: the flush is over and the poll is skipped.  A worker that dies in the
\* call may have passed the reply on first; the reply stays queued.
send_gone ==
  /\ Sending
  /\ \/ worker = "down" /\ UNCHANGED <<worker, faults>>
     \/ worker = "up" /\ worker' = "down" /\ Fault
  /\ pc' = "slice" /\ prune(restart_give_up_clocks) /\ NoStreak
  /\ UNCHANGED <<out, queue, hold, bus, outcome, tries>>

\* The conversation's queue is empty.
conversation_done ==
  /\ pc = "flush" /\ cur # None /\ queue[cur] = <<>> /\ cur' = None
  /\ UNCHANGED <<out, queues, hold, pc, todo, worker, bus, outcome, counts, faults>>

flush_done ==
  /\ pc = "flush" /\ cur = None /\ todo = {} /\ pc' = "poll" /\ prune(since)
  /\ UNCHANGED <<out, queue, hold, worker, bus, outcome, counts, faults>>

-----------------------------------------------------------------------------
(* The poll (PolledInbound has its inside) and the slice. *)

\* The poll completes, and finds the bus closed or not; or it is held.
poll ==
  /\ pc = "poll"
  /\ \/ worker = "up" /\ bus # "open" /\ discard_on_exit
     \/ /\ \/ worker = "up" /\ bus = "open" /\ pc' = "top"
           \/ pc' = "slice"
        /\ UNCHANGED <<out, queues, hold, todo, cur, worker, bus, outcome, counts, faults>>

\* The poll is refused or finds the worker down: no give-up clock runs on.
poll_failed ==
  /\ pc = "poll" /\ pc' = "slice"
  /\ IF worker = "up" THEN Fault ELSE UNCHANGED faults
  /\ since' = restart_give_up_clocks /\ NoStreak
  /\ UNCHANGED <<out, queue, waiting, refusals, hold, todo, cur, worker, bus, outcome, tries>>

slice ==
  /\ pc = "slice"
  /\ IF bus # "open" THEN discard_on_exit
     ELSE /\ pc' = "top"
          /\ UNCHANGED <<out, queues, hold, todo, cur, worker, bus, outcome, counts, faults>>

-----------------------------------------------------------------------------
Init ==
  /\ out = <<>> /\ queue = [c \in Conversations |-> <<>>]
  /\ waiting = [c \in Conversations |-> FALSE] /\ hold = FALSE
  /\ since = [c \in Conversations |-> "unset"]
  /\ refusals = [c \in Conversations |-> 0]
  /\ pc = "top" /\ todo = {} /\ cur = None
  /\ worker = "up" /\ bus = "open"
  /\ outcome = [r \in Replies |-> "none"]
  /\ streak = [c \in Conversations |-> 0] /\ tries = [r \in Replies |-> 0] /\ faults = 0

Driver ==
  \/ enqueue \/ outbound_gone \/ flush \/ (\E c \in Conversations : visit(c))
  \/ send_accepted \/ send_refused \/ send_channel_wide \/ send_gone \/ conversation_done
  \/ flush_done \/ poll \/ poll_failed \/ slice

Next ==
  \/ reply \/ stop \/ worker_dies \/ respawn \/ elapse_hold
  \/ \E c \in Conversations : elapse(c) \/ age(c)
  \/ Driver

Spec == Init /\ [][Next]_vars

\* The thread runs, backoffs pass, the worker is respawned.  How long `after`
\* is, and whether a reply is accepted, is nobody's promise.
FairSpec ==
  /\ Spec /\ WF_vars(Driver) /\ WF_vars(respawn) /\ WF_vars(elapse_hold)
  /\ \A c \in Conversations : WF_vars(elapse(c))

-----------------------------------------------------------------------------
(* Properties. *)

\* The types; a queue holds at most its cap, replies of its own conversation
\* that are still to be settled (replies.rs push).
TypeOK ==
  /\ Pulled \subseteq Replies /\ \A c \in Conversations : Len(queue[c]) <= QueueCap
  /\ \A c \in Conversations, r \in Replies : r \in Queued(c) => Conv[r] = c /\ outcome[r] = "queued"
  /\ waiting \in [Conversations -> BOOLEAN] /\ hold \in BOOLEAN
  /\ since \in [Conversations -> {"unset", "young", "old"}]
  /\ refusals \in [Conversations -> 0..MinRefusals]
  /\ pc \in {"top", "flush", "poll", "slice", "ended"}
  /\ todo \subseteq Conversations /\ cur \in Conversations \cup {None}
  /\ worker \in {"up", "down"} /\ bus \in {"open", "closed", "gone"}
  /\ outcome \in [Replies -> {"none", "queued"} \cup Settled]
  /\ streak \in [Conversations -> 0..2] /\ tries \in [Replies -> 0..MinRefusals]
  /\ faults \in 0..MaxFaults

\* A reply is sent only when every earlier reply to its conversation is sent
\* or dropped, whatever was refused, retried or given up in between.
RepliesInOrder ==
  [][\A r \in Replies : outcome'[r] = "sent" /\ outcome[r] # "sent" =>
       \A q \in 1..(r - 1) : Conv[q] = Conv[r] => outcome[q] \in Settled]_vars

\* A reply is given up only after MinRefusals refusals of its own, and after two
\* of its conversation with no failure of the whole channel between them: an
\* outage or a refused credential costs no reply.
GivenUpOnItsOwnAccount ==
  [][\A r \in Replies : outcome'[r] = "gave_up" /\ outcome[r] # "gave_up" =>
       tries'[r] >= MinRefusals /\ streak'[Conv[r]] >= 2]_vars

\* The state has its types, and a reply the driver was sent is always somewhere:
\* pulled, queued, or settled with its record; an exit leaves none behind.
RepliesAccounted ==
  /\ TypeOK
  /\ \A r \in Replies : outcome[r] = "queued" <=> r \in Pulled \cup Queued(Conv[r])

\* Every reply is sent, given up, or dropped with a record: in a conversation
\* that is refused as its give-up clock gets old, in the others without waiting
\* for that, however long a neighbour is refused.
EveryReplySettles ==
  /\ \A r \in Replies :
       Conv[r] \in Welcome => (outcome[r] = "queued" ~> outcome[r] \in Settled)
  /\ (\A c \in Conversations : WF_vars(age(c)))
       => \A r \in Replies : outcome[r] = "queued" ~> outcome[r] \in Settled
=============================================================================
