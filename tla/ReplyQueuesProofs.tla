-------------------------- MODULE ReplyQueuesProofs --------------------------
(* Every reply is accounted for, the replies of a conversation go out in order  *)
(* and none is given up for another's or the channel's failures, for any number *)
(* of conversations, replies and faults and any capacity of the queues.         *)
EXTENDS ReplyQueues, TLAPS

(* The inductive invariant. *)

\* The elements of a sequence, and a sequence of rising numbers.
Elems(s) == {s[i] : i \in 1..Len(s)}
Rising(s) == \A i, j \in 1..Len(s) : i < j => s[i] < s[j]

\* The bus numbers the replies as it sends them, and they stay in that order:
\* in the channel, in each queue, and from the queues to the channel.
Ordered ==
  /\ Rising(out) /\ \A c \in Conversations : Rising(queue[c])
  /\ \A c \in Conversations : \A x \in Elems(queue[c]), y \in Elems(out) : x < y
  /\ \A q, r \in Replies : q < r /\ outcome[r] # "none" => outcome[q] # "none"

\* What is charged to the front of a queue it was refused itself.
Fronts ==
  pc # "ended" => \A c \in Conversations :
    refusals[c] > 0 => queue[c] # <<>> /\ refusals[c] <= tries[Head(queue[c])]

\* A give-up clock runs only behind a refusal of the conversation that no
\* failure of the whole channel has followed.
Clocks == \A c \in Conversations : since[c] # "unset" => streak[c] >= 1

\* What the outcomes say of the channel and the queues, and the types of the rest.
Rows ==
  /\ out \in Seq(Replies) /\ queue \in [Conversations -> Seq(Replies)]
  /\ outcome \in [Replies -> {"none", "queued"} \cup Settled]
  /\ Ordered
  /\ \A c \in Conversations : Len(queue[c]) <= QueueCap
  /\ \A c \in Conversations : \A r \in Elems(queue[c]) : Conv[r] = c
  /\ \A r \in Replies : outcome[r] = "queued" <=> r \in Elems(out) \cup Elems(queue[Conv[r]])

Flags ==
  /\ waiting \in [Conversations -> BOOLEAN] /\ hold \in BOOLEAN
  /\ since \in [Conversations -> {"unset", "young", "old"}]
  /\ pc \in {"top", "flush", "poll", "slice", "ended"}
  /\ todo \subseteq Conversations /\ cur \in Conversations \cup {None}
  /\ worker \in {"up", "down"} /\ bus \in {"open", "closed", "gone"}

Counts ==
  /\ refusals \in [Conversations -> 0..MinRefusals]
  /\ streak \in [Conversations -> 0..2] /\ tries \in [Replies -> 0..MinRefusals]
  /\ faults \in 0..MaxFaults

QueueInv == Rows /\ Flags /\ Counts /\ Fronts /\ Clocks

-----------------------------------------------------------------------------
(* Sequences as the model uses them: an end is appended, the head goes. *)

LEMMA AppendAt ==
  ASSUME NEW S, NEW s \in Seq(S), NEW e \in S
  PROVE  /\ Append(s, e) \in Seq(S) /\ Len(Append(s, e)) = Len(s) + 1
         /\ \A i \in 1..Len(s) : Append(s, e)[i] = s[i]
         /\ Append(s, e)[Len(s) + 1] = e
         /\ Append(s, e) # <<>>
  OBVIOUS

LEMMA TailAt ==
  ASSUME NEW S, NEW s \in Seq(S), s # <<>>
  PROVE  /\ Tail(s) \in Seq(S) /\ Len(Tail(s)) = Len(s) - 1 /\ Len(s) \in Nat \ {0}
         /\ Head(s) \in S /\ Head(s) = s[1] /\ 1 \in 1..Len(s)
         /\ \A i \in 1..Len(Tail(s)) : i + 1 \in 1..Len(s) /\ Tail(s)[i] = s[i + 1]
  OBVIOUS

LEMMA RisingAppend ==
  ASSUME NEW S \in SUBSET Nat, NEW s \in Seq(S), NEW e \in S, Rising(s), \A x \in Elems(s) : x < e
  PROVE  /\ Append(s, e) \in Seq(S) /\ Len(Append(s, e)) = Len(s) + 1 /\ Append(s, e) # <<>>
         /\ Rising(Append(s, e)) /\ Elems(Append(s, e)) = Elems(s) \cup {e}
         /\ s # <<>> => Head(Append(s, e)) = Head(s)
<1> DEFINE t == Append(s, e)
<1>1. /\ t \in Seq(S) /\ Len(t) = Len(s) + 1 /\ t # <<>> /\ Len(s) \in Nat
      /\ \A i \in 1..Len(s) : t[i] = s[i]
      /\ t[Len(s) + 1] = e
  BY AppendAt
<1> HIDE DEF t
<1>2. \A i : i \in 1..Len(t) <=> i \in 1..Len(s) \/ i = Len(s) + 1
  BY <1>1
<1>3. Elems(t) = Elems(s) \cup {e}
  BY <1>1, <1>2 DEF Elems
<1>4. ASSUME NEW i \in 1..Len(t), NEW j \in 1..Len(t), i < j PROVE t[i] < t[j]
  <2>1. i \in 1..Len(s) BY <1>1, <1>2, <1>4
  <2>2. CASE j \in 1..Len(s)
    BY <1>1, <1>4, <2>1, <2>2 DEF Rising
  <2>3. CASE j = Len(s) + 1
    BY <1>1, <2>1, <2>3 DEF Elems
  <2> QED BY <1>2, <2>2, <2>3
<1>5. s # <<>> => Head(t) = Head(s)
  <2> SUFFICES ASSUME s # <<>> PROVE Head(t) = Head(s)
    OBVIOUS
  <2>1. Head(s) = s[1] /\ 1 \in 1..Len(s) BY TailAt
  <2>2. Head(t) = t[1] BY <1>1, TailAt
  <2> QED BY <1>1, <2>1, <2>2
<1> QED BY <1>1, <1>3, <1>4, <1>5 DEF Rising, t

LEMMA RisingTail ==
  ASSUME NEW S \in SUBSET Nat, NEW s \in Seq(S), s # <<>>, Rising(s)
  PROVE  /\ Tail(s) \in Seq(S) /\ Len(Tail(s)) = Len(s) - 1 /\ Len(s) \in Nat
         /\ Rising(Tail(s)) /\ Elems(Tail(s)) = Elems(s) \ {Head(s)}
         /\ Head(s) \in S /\ Head(s) \in Elems(s) /\ \A x \in Elems(s) : Head(s) <= x
<1> DEFINE t == Tail(s)
           h == Head(s)
<1>1. /\ t \in Seq(S) /\ Len(t) = Len(s) - 1 /\ Len(s) \in Nat \ {0}
      /\ h \in S /\ h = s[1] /\ 1 \in 1..Len(s)
      /\ \A i \in 1..Len(t) : i + 1 \in 1..Len(s) /\ t[i] = s[i + 1]
  BY TailAt
<1> HIDE DEF t, h
<1>2. \A i \in 1..Len(s) : s[i] \in S
  OBVIOUS
<1>3. \A i \in 1..Len(s) : i # 1 => h < s[i]
  BY <1>1 DEF Rising
<1>4. \A x \in Elems(s) : h <= x
  <2> SUFFICES ASSUME NEW i \in 1..Len(s) PROVE h <= s[i]
    BY DEF Elems
  <2>1. h \in Nat /\ s[i] \in Nat BY <1>1, <1>2
  <2>2. CASE i = 1 BY <1>1, <2>1, <2>2
  <2>3. CASE i # 1 BY <1>3, <2>1, <2>3
  <2> QED BY <2>2, <2>3
<1>5. Elems(t) \subseteq Elems(s) \ {h}
  <2> SUFFICES ASSUME NEW i \in 1..Len(t) PROVE t[i] \in Elems(s) \ {h}
    BY DEF Elems
  <2>1. i + 1 \in 1..Len(s) /\ t[i] = s[i + 1] /\ i + 1 # 1 BY <1>1
  <2>2. h < s[i + 1] /\ s[i + 1] \in Nat /\ h \in Nat BY <1>1, <1>2, <1>3, <2>1
  <2> QED BY <2>1, <2>2 DEF Elems
<1>6. Elems(s) \ {h} \subseteq Elems(t)
  <2> SUFFICES ASSUME NEW i \in 1..Len(s), s[i] # h PROVE s[i] \in Elems(t)
    BY DEF Elems
  <2>1. i - 1 \in 1..Len(t) /\ (i - 1) + 1 = i BY <1>1
  <2>2. t[i - 1] = s[i] BY <1>1, <2>1
  <2> QED BY <2>1, <2>2 DEF Elems
<1>7. Rising(t)
  <2> SUFFICES ASSUME NEW i \in 1..Len(t), NEW j \in 1..Len(t), i < j PROVE t[i] < t[j]
    BY DEF Rising
  <2>1. i + 1 < j + 1 OBVIOUS
  <2> QED BY <1>1, <2>1 DEF Rising
<1>8. h \in Elems(s) BY <1>1 DEF Elems
<1> QED BY <1>1, <1>4, <1>5, <1>6, <1>7, <1>8 DEF t, h

LEMMA AppendHead ==
  ASSUME NEW S, NEW s \in Seq(S), NEW e \in S, s # <<>>
  PROVE  Append(s, e) # <<>> /\ Head(Append(s, e)) = Head(s)
<1> DEFINE t == Append(s, e)
<1>1. t \in Seq(S) /\ t # <<>> /\ \A i \in 1..Len(s) : t[i] = s[i] BY AppendAt
<1>2. Head(s) = s[1] /\ 1 \in 1..Len(s) BY TailAt
<1> HIDE DEF t
<1>3. Head(t) = t[1] BY <1>1, TailAt
<1> QED BY <1>1, <1>2, <1>3 DEF t

LEMMA UpToRises ==
  ASSUME NEW m \in Nat, NEW n \in 0..m, NEW k \in 0..n
  PROVE  UpTo(n + 1, m) \in 0..m /\ n <= UpTo(n + 1, m) /\ UpTo(k + 1, m) <= UpTo(n + 1, m)
  BY DEF UpTo

LEMMA ElemsIn ==
  ASSUME NEW s \in Seq(Replies)
  PROVE  Elems(s) \in SUBSET Replies
  BY DEF Elems

LEMMA NoElems ==
  ASSUME NEW s, s = <<>>
  PROVE  Elems(s) = {} /\ Rising(s) /\ s \in Seq(Replies) /\ Len(s) = 0
  BY DEF Elems, Rising

-----------------------------------------------------------------------------
(* The rows: what each change of the channel, the queues and the outcomes does. *)

LEMMA Numbers ==
  /\ Replies \in SUBSET Nat /\ None \notin Conversations
  /\ \A r \in Replies : Conv[r] \in Conversations
  /\ QueueCap \in Nat /\ MinRefusals \in Nat /\ MinRefusals >= 2 /\ MaxFaults \in Nat
  BY QueuesAssumption DEF Replies

LEMMA RowsAccount == Rows /\ Flags /\ Counts => RepliesAccounted
<1> SUFFICES ASSUME Rows, Flags, Counts PROVE RepliesAccounted
  OBVIOUS
<1>1. Pulled = Elems(out) /\ \A c \in Conversations : Queued(c) = Elems(queue[c])
  BY DEF Pulled, Queued, Elems
<1>2. Pulled \subseteq Replies
  <2>1. out \in Seq(Replies) BY DEF Rows
  <2> QED BY <1>1, <2>1, ElemsIn
<1>3. ASSUME NEW c \in Conversations, NEW r \in Replies, r \in Queued(c)
      PROVE  Conv[r] = c /\ outcome[r] = "queued"
  BY <1>1, <1>3 DEF Rows
<1>4. \A r \in Replies : outcome[r] = "queued" <=> r \in Pulled \cup Queued(Conv[r])
  BY <1>1, Numbers DEF Rows
<1>5. \A c \in Conversations : Len(queue[c]) <= QueueCap
  BY DEF Rows
<1>6. outcome \in [Replies -> {"none", "queued"} \cup Settled]
  BY DEF Rows
<1> QED BY <1>2, <1>3, <1>4, <1>5, <1>6 DEF RepliesAccounted, TypeOK, Flags, Counts

LEMMA RowsInit == Init => Rows
<1> SUFFICES ASSUME Init PROVE Rows
  OBVIOUS
<1>1. /\ out \in Seq(Replies) /\ queue \in [Conversations -> Seq(Replies)]
      /\ out = <<>> /\ \A c \in Conversations : queue[c] = <<>> /\ Len(queue[c]) = 0
  BY DEF Init
<1>2. Elems(out) = {} /\ Rising(out)
  BY <1>1, NoElems
<1>3. \A c \in Conversations : Elems(queue[c]) = {} /\ Rising(queue[c])
  BY <1>1, NoElems
<1>4. outcome \in [Replies -> {"none", "queued"} \cup Settled] /\ \A r \in Replies : outcome[r] = "none"
  BY DEF Init
<1>5. Ordered BY <1>2, <1>3, <1>4 DEF Ordered
<1> QED BY <1>1, <1>2, <1>3, <1>4, <1>5, Numbers DEF Rows

LEMMA RowsFrame == Rows /\ UNCHANGED <<out, queue, outcome>> => Rows'
<1> SUFFICES ASSUME Rows, UNCHANGED <<out, queue, outcome>> PROVE Rows'
  OBVIOUS
<1>1. out' = out /\ queue' = queue /\ outcome' = outcome
  OBVIOUS
<1>2. Ordered' BY <1>1 DEF Rows, Ordered
<1> QED BY <1>1, <1>2 DEF Rows

\* The head of a queue is settled: nothing else moves.
LEMMA RowsPop ==
  ASSUME Rows, NEW c \in Conversations, queue[c] # <<>>, NEW v \in Settled,
         out' = out, queue' = [queue EXCEPT ![c] = Tail(@)],
         outcome' = [outcome EXCEPT ![Head(queue[c])] = v]
  PROVE  Rows'
<1> DEFINE h == Head(queue[c])
           s == queue[c]
           t == Tail(queue[c])
<1>1. s \in Seq(Replies) /\ Rising(s) /\ Replies \in SUBSET Nat /\ s # <<>>
  BY Numbers DEF Rows, Ordered
<1>2. /\ t \in Seq(Replies) /\ Len(t) = Len(s) - 1 /\ Len(s) \in Nat
      /\ Rising(t) /\ Elems(t) = Elems(s) \ {h}
      /\ h \in Replies /\ h \in Elems(s) /\ \A x \in Elems(s) : h <= x
  BY <1>1, RisingTail
<1>3. /\ queue' \in [Conversations -> Seq(Replies)] /\ queue'[c] = t
      /\ \A d \in Conversations : d # c => queue'[d] = queue[d]
  BY <1>2 DEF Rows
<1>4. /\ outcome' \in [Replies -> {"none", "queued"} \cup Settled] /\ outcome'[h] = v
      /\ \A r \in Replies : r # h => outcome'[r] = outcome[r]
  BY <1>2 DEF Rows
<1>5. v # "queued" /\ v # "none" BY DEF Settled
<1> HIDE DEF h, t, s
<1>7. queue[c] = s BY DEF s
<1>6. /\ Conv[h] = c /\ h \notin Elems(out) /\ outcome[h] = "queued"
  <2>1. Conv[h] = c BY <1>2, <1>7 DEF Rows
  <2>2. outcome[h] = "queued" BY <1>2, <1>7, <2>1 DEF Rows
  <2>3. h \in Elems(out) => h < h BY <1>2, <1>7 DEF Rows, Ordered
  <2>4. h \in Nat BY <1>1, <1>2
  <2> QED BY <2>1, <2>2, <2>3, <2>4
<1>8. \A d \in Conversations : Rising(queue'[d]) /\ Elems(queue'[d]) \subseteq Elems(queue[d])
  BY <1>2, <1>3, <1>7 DEF Rows, Ordered
<1>9. \A d \in Conversations : Len(queue'[d]) <= QueueCap
  <2> SUFFICES ASSUME NEW d \in Conversations PROVE Len(queue'[d]) <= QueueCap
    OBVIOUS
  <2>1. CASE d = c BY <1>2, <1>3, <1>7, <2>1, Numbers DEF Rows
  <2>2. CASE d # c BY <1>3, <2>2 DEF Rows
  <2> QED BY <2>1, <2>2
<1>10. \A r \in Replies : outcome'[r] = "queued" <=> r \in Elems(out') \cup Elems(queue'[Conv[r]])
  <2> SUFFICES ASSUME NEW r \in Replies
               PROVE  outcome'[r] = "queued" <=> r \in Elems(out) \cup Elems(queue'[Conv[r]])
    OBVIOUS
  <2>1. CASE r = h BY <1>2, <1>3, <1>4, <1>5, <1>6, <2>1
  <2>2. CASE r # h
    <3>1. outcome[r] = "queued" <=> r \in Elems(out) \cup Elems(queue[Conv[r]]) BY DEF Rows
    <3>2. CASE Conv[r] = c BY <1>2, <1>3, <1>4, <1>7, <2>2, <3>1, <3>2
    <3>3. CASE Conv[r] # c BY <1>3, <1>4, <2>2, <3>1, <3>3, Numbers
    <3> QED BY <3>2, <3>3
  <2> QED BY <2>1, <2>2
<1>11. Ordered'
  <2>1. \A q, r \in Replies : q < r /\ outcome'[r] # "none" => outcome'[q] # "none"
    <3>1. \A r \in Replies : outcome'[r] # "none" <=> outcome[r] # "none"
      BY <1>4, <1>5, <1>6
    <3> QED BY <3>1 DEF Rows, Ordered
  <2>2. \A d \in Conversations : \A x \in Elems(queue'[d]), y \in Elems(out) : x < y
    BY <1>8 DEF Rows, Ordered
  <2> QED BY <1>8, <2>1, <2>2 DEF Rows, Ordered
<1>12. \A d \in Conversations : \A r \in Elems(queue'[d]) : Conv[r] = d
  BY <1>8 DEF Rows
<1> QED BY <1>3, <1>4, <1>9, <1>10, <1>11, <1>12 DEF Rows

\* The next reply joins the channel: every reply there or queued is older.
LEMMA RowsReply == Rows /\ reply => Rows'
<1> SUFFICES ASSUME Rows, reply PROVE Rows'
  OBVIOUS
<1>1. PICK r \in Replies :
        /\ outcome[r] = "none" /\ \A q \in 1..(r - 1) : outcome[q] # "none"
        /\ outcome' = [outcome EXCEPT ![r] = "queued"] /\ out' = Append(out, r)
  BY DEF reply
<1>2. queue' = queue BY DEF reply, queues
<1>3. /\ outcome' \in [Replies -> {"none", "queued"} \cup Settled] /\ outcome'[r] = "queued"
      /\ \A q \in Replies : q # r => outcome'[q] = outcome[q]
  BY <1>1 DEF Rows
<1>4. \A x \in Replies : outcome[x] # "none" => x < r
  BY <1>1, Numbers DEF Rows, Ordered
<1>5. Elems(out) \subseteq Replies /\ \A c \in Conversations : Elems(queue[c]) \subseteq Replies
  <2>1. out \in Seq(Replies) /\ \A c \in Conversations : queue[c] \in Seq(Replies) BY DEF Rows
  <2> QED BY <2>1, ElemsIn
<1>6. \A x \in Elems(out) : x < r
  BY <1>4, <1>5 DEF Rows
<1>7. \A c \in Conversations : \A x \in Elems(queue[c]) : x < r
  <2> SUFFICES ASSUME NEW c \in Conversations, NEW x \in Elems(queue[c]) PROVE x < r
    OBVIOUS
  <2>1. x \in Replies /\ Conv[x] = c BY <1>5 DEF Rows
  <2>2. outcome[x] = "queued" BY <2>1 DEF Rows
  <2> QED BY <1>4, <2>1, <2>2
<1>8. out \in Seq(Replies) /\ Rising(out) BY DEF Rows, Ordered
<1>9. /\ out' \in Seq(Replies) /\ Rising(out') /\ Elems(out') = Elems(out) \cup {r}
  BY <1>1, <1>6, <1>8, Numbers, RisingAppend
<1>10. Ordered'
  <2>1. \A q, s \in Replies : q < s /\ outcome'[s] # "none" => outcome'[q] # "none"
    <3> SUFFICES ASSUME NEW q \in Replies, NEW s \in Replies, q < s, outcome'[s] # "none"
                 PROVE  outcome'[q] # "none"
      OBVIOUS
    <3>1. CASE q = r BY <1>3, <3>1
    <3>2. CASE q # r /\ s = r
      <4>1. q \in 1..(r - 1) BY <3>2, Numbers DEF Replies
      <4> QED BY <1>1, <1>3, <3>2, <4>1
    <3>3. CASE q # r /\ s # r
      BY <1>3, <3>3 DEF Rows, Ordered
    <3> QED BY <3>1, <3>2, <3>3
  <2>2. \A d \in Conversations : \A x \in Elems(queue[d]), y \in Elems(out') : x < y
    BY <1>7, <1>9 DEF Rows, Ordered
  <2> QED BY <1>2, <1>9, <2>1, <2>2 DEF Rows, Ordered
<1>11. \A q \in Replies : outcome'[q] = "queued" <=> q \in Elems(out') \cup Elems(queue[Conv[q]])
  BY <1>3, <1>9 DEF Rows
<1> QED BY <1>2, <1>3, <1>9, <1>10, <1>11 DEF Rows

\* enqueue: the oldest reply of the channel joins its queue, or overflows it.
LEMMA RowsEnqueue == Rows /\ enqueue => Rows'
<1> SUFFICES ASSUME Rows, enqueue PROVE Rows'
  OBVIOUS
<1> DEFINE h == Head(out)
           t == Tail(out)
           c == Conv[h]
           s == queue[c]
<1>1. out \in Seq(Replies) /\ Rising(out) /\ Replies \in SUBSET Nat /\ out # <<>>
  BY Numbers DEF Rows, Ordered, enqueue
<1>2. /\ t \in Seq(Replies) /\ Rising(t) /\ Elems(t) = Elems(out) \ {h}
      /\ h \in Replies /\ h \in Elems(out) /\ \A x \in Elems(out) : h <= x
  BY <1>1, RisingTail
<1>3. out' = t BY DEF enqueue
<1>4. c \in Conversations BY <1>2, Numbers
<1>5. s \in Seq(Replies) /\ Rising(s) /\ Len(s) <= QueueCap
  BY <1>4 DEF Rows, Ordered
<1>6. \/ full(c) /\ outcome' = [outcome EXCEPT ![h] = "overflow"] /\ queue' = queue
      \/ ~full(c) /\ queue' = [queue EXCEPT ![c] = Append(s, h)] /\ outcome' = outcome
  BY DEF enqueue
<1> HIDE DEF h, t, c, s
<1>7. c = Conv[h] /\ s = queue[c] BY DEF c, s
<1>8. outcome[h] = "queued" /\ h \in Nat
  BY <1>1, <1>2 DEF Rows
<1>9. \A d \in Conversations : \A x \in Elems(queue[d]) : x < h
  BY <1>2 DEF Rows, Ordered
<1>10. \A d \in Conversations : h \notin Elems(queue[d])
  BY <1>8, <1>9
<1>11. \A y \in Elems(t) : h < y
  <2> SUFFICES ASSUME NEW y \in Elems(t) PROVE h < y
    OBVIOUS
  <2>1. y \in Replies BY <1>2, ElemsIn
  <2>2. h <= y /\ y # h /\ y \in Nat BY <1>1, <1>2, <2>1
  <2> QED BY <1>8, <2>2
<1>12. CASE full(c) /\ outcome' = [outcome EXCEPT ![h] = "overflow"] /\ queue' = queue
  <2>1. /\ outcome' \in [Replies -> {"none", "queued"} \cup Settled] /\ outcome'[h] = "overflow"
        /\ \A r \in Replies : r # h => outcome'[r] = outcome[r]
    BY <1>2, <1>12 DEF Rows, Settled
  <2>2. \A r \in Replies : outcome'[r] = "queued" <=> r \in Elems(t) \cup Elems(queue[Conv[r]])
    <3> SUFFICES ASSUME NEW r \in Replies
                 PROVE  outcome'[r] = "queued" <=> r \in Elems(t) \cup Elems(queue[Conv[r]])
      OBVIOUS
    <3>1. CASE r = h BY <1>2, <1>4, <1>7, <1>10, <2>1, <3>1
    <3>2. CASE r # h BY <1>2, <2>1, <3>2 DEF Rows
    <3> QED BY <3>1, <3>2
  <2>3. \A d \in Conversations : \A x \in Elems(queue[d]), y \in Elems(t) : x < y
    BY <1>2 DEF Rows, Ordered
  <2>4. \A q, r \in Replies : q < r /\ outcome'[r] # "none" => outcome'[q] # "none"
    <3>1. \A r \in Replies : outcome'[r] # "none" <=> outcome[r] # "none"
      BY <1>8, <2>1
    <3> QED BY <3>1 DEF Rows, Ordered
  <2>5. Ordered' BY <1>2, <1>3, <1>12, <2>3, <2>4 DEF Rows, Ordered
  <2> QED BY <1>2, <1>3, <1>12, <2>1, <2>2, <2>5 DEF Rows
<1>13. CASE ~full(c) /\ queue' = [queue EXCEPT ![c] = Append(s, h)] /\ outcome' = outcome
  <2> DEFINE u == Append(s, h)
  <2>1. \A x \in Elems(s) : x < h BY <1>4, <1>7, <1>9
  <2>2. /\ u \in Seq(Replies) /\ Len(u) = Len(s) + 1
        /\ Rising(u) /\ Elems(u) = Elems(s) \cup {h}
    BY <1>1, <1>2, <1>5, <2>1, RisingAppend
  <2>3. Len(u) <= QueueCap
    <3>1. Len(s) < QueueCap BY <1>5, <1>7, <1>13, Numbers DEF full
    <3> QED BY <1>5, <2>2, <3>1, Numbers
  <2>4. /\ queue' \in [Conversations -> Seq(Replies)] /\ queue'[c] = u
        /\ \A d \in Conversations : d # c => queue'[d] = queue[d]
    BY <1>4, <1>13, <2>2 DEF Rows
  <2> HIDE DEF u
  <2>5. \A d \in Conversations :
          /\ Rising(queue'[d]) /\ Len(queue'[d]) <= QueueCap
          /\ Elems(queue'[d]) \subseteq Elems(queue[d]) \cup {h}
          /\ d # c => Elems(queue'[d]) = Elems(queue[d])
    <3> SUFFICES ASSUME NEW d \in Conversations
                 PROVE  /\ Rising(queue'[d]) /\ Len(queue'[d]) <= QueueCap
                        /\ Elems(queue'[d]) \subseteq Elems(queue[d]) \cup {h}
                        /\ d # c => Elems(queue'[d]) = Elems(queue[d])
      OBVIOUS
    <3>1. CASE d = c BY <1>7, <2>2, <2>3, <2>4, <3>1
    <3>2. CASE d # c BY <2>4, <3>2 DEF Rows, Ordered
    <3> QED BY <3>1, <3>2
  <2>6. \A d \in Conversations : \A r \in Elems(queue'[d]) : Conv[r] = d
    <3> SUFFICES ASSUME NEW d \in Conversations, NEW r \in Elems(queue'[d]) PROVE Conv[r] = d
      OBVIOUS
    <3>1. CASE r \in Elems(queue[d]) BY <3>1 DEF Rows
    <3>2. CASE r \notin Elems(queue[d]) BY <1>7, <2>5, <3>2
    <3> QED BY <3>1, <3>2
  <2>7. \A r \in Replies : outcome[r] = "queued" <=> r \in Elems(t) \cup Elems(queue'[Conv[r]])
    <3> SUFFICES ASSUME NEW r \in Replies
                 PROVE  outcome[r] = "queued" <=> r \in Elems(t) \cup Elems(queue'[Conv[r]])
      OBVIOUS
    <3>1. CASE r = h BY <1>7, <1>8, <2>2, <2>4, <3>1
    <3>2. CASE r # h
      <4>1. r \in Elems(queue'[Conv[r]]) <=> r \in Elems(queue[Conv[r]])
        <5>1. CASE Conv[r] = c BY <1>7, <2>2, <2>4, <3>2, <5>1
        <5>2. CASE Conv[r] # c BY <2>5, <5>2, Numbers
        <5> QED BY <5>1, <5>2
      <4>2. r \in Elems(t) <=> r \in Elems(out) BY <1>2, <3>2
      <4> QED BY <4>1, <4>2 DEF Rows
    <3> QED BY <3>1, <3>2
  <2>8. \A d \in Conversations : \A x \in Elems(queue'[d]), y \in Elems(t) : x < y
    <3> SUFFICES ASSUME NEW d \in Conversations, NEW x \in Elems(queue'[d]), NEW y \in Elems(t)
                 PROVE  x < y
      OBVIOUS
    <3>1. CASE x = h BY <1>11, <3>1
    <3>2. CASE x # h BY <1>2, <2>5, <3>2 DEF Rows, Ordered
    <3> QED BY <3>1, <3>2
  <2>9. Ordered' BY <1>2, <1>3, <1>13, <2>5, <2>8 DEF Rows, Ordered
  <2> QED BY <1>2, <1>3, <1>13, <2>4, <2>5, <2>6, <2>7, <2>9 DEF Rows
<1> QED BY <1>6, <1>12, <1>13

\* discard_on_exit: every reply still with the driver is settled.
LEMMA RowsDiscard == Rows /\ discard_on_exit => Rows'
<1> SUFFICES ASSUME Rows, discard_on_exit PROVE Rows'
  OBVIOUS
<1>1. /\ out' = <<>> /\ queue' = [c \in Conversations |-> <<>>]
      /\ outcome' = [r \in Replies |-> IF r \in discarded THEN "exit" ELSE outcome[r]]
  BY DEF discard_on_exit
<1>2. out' \in Seq(Replies) /\ Elems(out') = {} /\ Rising(out')
  BY <1>1, NoElems
<1>3. \A c \in Conversations : /\ queue'[c] = <<>> /\ queue'[c] \in Seq(Replies)
                              /\ Elems(queue'[c]) = {} /\ Rising(queue'[c]) /\ Len(queue'[c]) = 0
  BY <1>1, NoElems
<1>4. queue' \in [Conversations -> Seq(Replies)]
  BY <1>1
<1>5. Pulled = Elems(out) /\ \A c \in Conversations : Queued(c) = Elems(queue[c])
  BY DEF Pulled, Queued, Elems
<1>10. \A r : r \in discarded <=> r \in Pulled \/ \E c \in Conversations : r \in Queued(c)
  <2> DEFINE U == UNION {Queued(c) : c \in Conversations}
  <2>1. \A r : r \in U <=> \E c \in Conversations : r \in Queued(c)
    OBVIOUS
  <2>2. discarded = U \cup Pulled BY DEF discarded
  <2> HIDE DEF U
  <2> QED BY <2>1, <2>2
<1>6. \A r \in Replies : outcome[r] = "queued" => r \in discarded
  BY <1>5, <1>10, Numbers DEF Rows
<1>7. \A r \in discarded : r \in Replies => outcome[r] = "queued"
  <2> SUFFICES ASSUME NEW r \in discarded, r \in Replies PROVE outcome[r] = "queued"
    OBVIOUS
  <2>1. CASE r \in Pulled BY <1>5, <2>1 DEF Rows
  <2>2. CASE \E c \in Conversations : r \in Queued(c)
    <3>1. PICK c \in Conversations : r \in Elems(queue[c]) BY <1>5, <2>2
    <3>2. Conv[r] = c BY <3>1 DEF Rows
    <3> QED BY <3>1, <3>2 DEF Rows
  <2> QED BY <1>10, <2>1, <2>2
<1>8. /\ outcome' \in [Replies -> {"none", "queued"} \cup Settled]
      /\ \A r \in Replies : outcome'[r] # "queued" /\ (outcome'[r] # "none" <=> outcome[r] # "none")
  <2>1. ASSUME NEW r \in Replies
        PROVE  /\ outcome'[r] \in {"none", "queued"} \cup Settled
               /\ outcome'[r] # "queued" /\ (outcome'[r] # "none" <=> outcome[r] # "none")
    <3>1. outcome[r] \in {"none", "queued"} \cup Settled /\ "exit" \in Settled BY DEF Rows, Settled
    <3>2. CASE r \in discarded BY <1>1, <1>7, <3>1, <3>2
    <3>3. CASE r \notin discarded BY <1>1, <1>6, <3>1, <3>3
    <3> QED BY <3>2, <3>3
  <2>2. outcome' = [r \in Replies |-> outcome'[r]] BY <1>1
  <2> QED BY <2>1, <2>2
<1>9. Ordered' BY <1>2, <1>3, <1>8 DEF Rows, Ordered
<1>11. \A c \in Conversations : Len(queue'[c]) <= QueueCap
  BY <1>3, Numbers
<1> QED BY <1>2, <1>3, <1>4, <1>8, <1>9, <1>11, Numbers DEF Rows

-----------------------------------------------------------------------------
(* The steps. *)

LEMMA InitInv == Init => QueueInv
<1> SUFFICES ASSUME Init PROVE QueueInv
  OBVIOUS
<1>1. Rows BY RowsInit
<1>2. Flags BY DEF Init, Flags
<1>3. Counts BY Numbers DEF Init, Counts
<1>4. Fronts BY DEF Init, Fronts
<1>5. Clocks BY DEF Init, Clocks
<1> QED BY <1>1, <1>2, <1>3, <1>4, <1>5 DEF QueueInv

\* The conversation a send is at.
LEMMA AtSend ==
  ASSUME Flags, Sending
  PROVE  cur \in Conversations /\ queue[cur] # <<>> /\ pc = "flush"
  BY DEF Flags, Sending

LEMMA RowsStep == QueueInv /\ [Next]_vars => Rows'
<1> SUFFICES ASSUME QueueInv, [Next]_vars PROVE Rows'
  OBVIOUS
<1> USE DEF queues, driver, counts
<1> Rows /\ Flags BY DEF QueueInv
<1>1. CASE UNCHANGED vars BY <1>1, RowsFrame DEF vars
<1>2. CASE reply BY <1>2, RowsReply
<1>3. CASE stop BY <1>3, RowsFrame DEF stop
<1>4. CASE worker_dies BY <1>4, RowsFrame DEF worker_dies
<1>5. CASE respawn BY <1>5, RowsFrame DEF respawn
<1>6. CASE elapse_hold BY <1>6, RowsFrame DEF elapse_hold
<1>7. CASE \E c \in Conversations : elapse(c) \/ age(c) BY <1>7, RowsFrame DEF elapse, age
<1>8. CASE enqueue BY <1>8, RowsEnqueue
<1>9. CASE outbound_gone BY <1>9, RowsDiscard DEF outbound_gone
<1>10. CASE flush BY <1>10, RowsFrame DEF flush
<1>11. CASE \E c \in Conversations : visit(c) BY <1>11, RowsFrame DEF visit
<1>12. CASE send_accepted
  <2>1. cur \in Conversations /\ queue[cur] # <<>> BY <1>12, AtSend DEF send_accepted
  <2>2. /\ out' = out /\ queue' = [queue EXCEPT ![cur] = Tail(@)]
        /\ outcome' = [outcome EXCEPT ![Head(queue[cur])] = "sent"]
    BY <1>12 DEF send_accepted
  <2>3. "sent" \in Settled BY DEF Settled
  <2> QED BY <2>1, <2>2, <2>3, RowsPop
<1>13. CASE send_refused
  <2>1. cur \in Conversations /\ queue[cur] # <<>> BY <1>13, AtSend DEF send_refused
  <2> DEFINE due == give_up_due(UpTo(refusals[cur] + 1, MinRefusals), clock_started(since[cur]))
  <2>2. /\ out' = out
        /\ queue' = [queue EXCEPT ![cur] = IF due THEN Tail(queue[cur]) ELSE queue[cur]]
        /\ outcome' = IF due THEN [outcome EXCEPT ![Head(queue[cur])] = "gave_up"] ELSE outcome
    BY <1>13 DEF send_refused, retried
  <2> HIDE DEF due
  <2>3. CASE due
    <3>1. "gave_up" \in Settled BY DEF Settled
    <3> QED BY <2>1, <2>2, <2>3, <3>1, RowsPop
  <2>4. CASE ~due
    <3>1. queue' = queue BY <2>1, <2>2, <2>4 DEF Rows
    <3> QED BY <2>2, <2>4, <3>1, RowsFrame
  <2> QED BY <2>3, <2>4
<1>14. CASE send_channel_wide BY <1>14, RowsFrame DEF send_channel_wide
<1>15. CASE send_gone BY <1>15, RowsFrame DEF send_gone
<1>16. CASE conversation_done BY <1>16, RowsFrame DEF conversation_done
<1>17. CASE flush_done BY <1>17, RowsFrame DEF flush_done
<1>18. CASE poll BY <1>18, RowsFrame, RowsDiscard DEF poll
<1>19. CASE poll_failed BY <1>19, RowsFrame DEF poll_failed
<1>20. CASE slice BY <1>20, RowsFrame, RowsDiscard DEF slice
<1> QED BY <1>1, <1>2, <1>3, <1>4, <1>5, <1>6, <1>7, <1>8, <1>9, <1>10, <1>11, <1>12, <1>13, <1>14,
           <1>15, <1>16, <1>17, <1>18, <1>19, <1>20 DEF Next, Driver

LEMMA FlagsStep == QueueInv /\ [Next]_vars => Flags'
<1> SUFFICES ASSUME QueueInv, [Next]_vars PROVE Flags'
  OBVIOUS
<1> USE Numbers DEF QueueInv, queues, driver, counts, Flags
<1>1. CASE UNCHANGED vars BY <1>1 DEF vars
<1>2. CASE reply BY <1>2 DEF reply
<1>3. CASE stop BY <1>3 DEF stop
<1>4. CASE worker_dies BY <1>4 DEF worker_dies, Fault
<1>5. CASE respawn BY <1>5 DEF respawn
<1>6. CASE elapse_hold BY <1>6 DEF elapse_hold
<1>7. CASE \E c \in Conversations : elapse(c) \/ age(c) BY <1>7 DEF elapse, age
<1>8. CASE enqueue BY <1>8 DEF enqueue
<1>9. CASE outbound_gone BY <1>9 DEF outbound_gone, discard_on_exit
<1>10. CASE flush BY <1>10 DEF flush
<1>11. CASE \E c \in Conversations : visit(c) BY <1>11 DEF visit
<1>12. CASE send_accepted BY <1>12 DEF send_accepted
<1>13. CASE send_refused BY <1>13 DEF send_refused, clock_started, break_conversation, UpTo
<1>14. CASE send_channel_wide BY <1>14 DEF send_channel_wide, prune, restart_give_up_clocks, NoStreak, Fault
<1>15. CASE send_gone BY <1>15 DEF send_gone, prune, restart_give_up_clocks, NoStreak, Fault
<1>16. CASE conversation_done BY <1>16 DEF conversation_done
<1>17. CASE flush_done BY <1>17 DEF flush_done, prune
<1>18. CASE poll BY <1>18 DEF poll, discard_on_exit
<1>19. CASE poll_failed BY <1>19 DEF poll_failed, restart_give_up_clocks, NoStreak, Fault
<1>20. CASE slice BY <1>20 DEF slice, discard_on_exit
<1> QED BY <1>1, <1>2, <1>3, <1>4, <1>5, <1>6, <1>7, <1>8, <1>9, <1>10, <1>11, <1>12, <1>13, <1>14,
           <1>15, <1>16, <1>17, <1>18, <1>19, <1>20 DEF Next, Driver

LEMMA CountsStep == QueueInv /\ [Next]_vars => Counts'
<1> SUFFICES ASSUME QueueInv, [Next]_vars PROVE Counts'
  OBVIOUS
<1> USE Numbers DEF QueueInv, queues, driver, counts, Counts, Flags
<1>1. CASE UNCHANGED vars BY <1>1 DEF vars
<1>2. CASE reply BY <1>2 DEF reply
<1>3. CASE stop BY <1>3 DEF stop
<1>4. CASE worker_dies BY <1>4 DEF worker_dies, Fault
<1>5. CASE respawn BY <1>5 DEF respawn
<1>6. CASE elapse_hold BY <1>6 DEF elapse_hold
<1>7. CASE \E c \in Conversations : elapse(c) \/ age(c) BY <1>7 DEF elapse, age
<1>8. CASE enqueue BY <1>8 DEF enqueue
<1>9. CASE outbound_gone BY <1>9 DEF outbound_gone, discard_on_exit
<1>10. CASE flush BY <1>10 DEF flush
<1>11. CASE \E c \in Conversations : visit(c) BY <1>11 DEF visit
<1>12. CASE send_accepted
  <2>1. cur \in Conversations BY <1>12, AtSend DEF send_accepted
  <2> QED BY <1>12, <2>1 DEF send_accepted
<1>13. CASE send_refused
  <2> DEFINE r == Head(queue[cur])
             n == UpTo(refusals[cur] + 1, MinRefusals)
             due == give_up_due(n, clock_started(since[cur]))
  <2>1. cur \in Conversations /\ queue[cur] # <<>> /\ pc = "flush" BY <1>13, AtSend DEF send_refused
  <2>2. r \in Replies BY <2>1, TailAt DEF Rows
  <2>3. /\ refusals' = [refusals EXCEPT ![cur] = IF due THEN 0 ELSE n]
        /\ streak' = [streak EXCEPT ![cur] = UpTo(streak[cur] + 1, 2)]
        /\ tries' = [tries EXCEPT ![r] = UpTo(tries[r] + 1, MinRefusals)]
        /\ faults' = faults
    BY <1>13 DEF send_refused
  <2> HIDE DEF r, due
  <2>4. n \in 0..MinRefusals
    <3>1. refusals[cur] \in 0..MinRefusals /\ 0 \in 0..refusals[cur] BY <2>1
    <3> QED BY <3>1, UpToRises
  <2>5. UpTo(streak[cur] + 1, 2) \in 0..2
    <3>1. streak[cur] \in 0..2 /\ 0 \in 0..streak[cur] BY <2>1
    <3> QED BY <3>1, UpToRises
  <2>6. UpTo(tries[r] + 1, MinRefusals) \in 0..MinRefusals
    <3>1. tries[r] \in 0..MinRefusals /\ 0 \in 0..tries[r] BY <2>2
    <3> QED BY <3>1, UpToRises
  <2> HIDE DEF n
  <2>10. PICK v \in 0..MinRefusals : v = IF due THEN 0 ELSE n BY <2>4
  <2>7. refusals' \in [Conversations -> 0..MinRefusals] BY <2>3, <2>10
  <2>8. streak' \in [Conversations -> 0..2] BY <2>3, <2>5
  <2>9. tries' \in [Replies -> 0..MinRefusals] BY <2>3, <2>6
  <2> QED BY <2>3, <2>7, <2>8, <2>9
<1>14. CASE send_channel_wide BY <1>14 DEF send_channel_wide, prune, restart_give_up_clocks, NoStreak, Fault
<1>15. CASE send_gone BY <1>15 DEF send_gone, prune, restart_give_up_clocks, NoStreak, Fault
<1>16. CASE conversation_done BY <1>16 DEF conversation_done
<1>17. CASE flush_done BY <1>17 DEF flush_done, prune
<1>18. CASE poll BY <1>18 DEF poll, discard_on_exit
<1>19. CASE poll_failed BY <1>19 DEF poll_failed, restart_give_up_clocks, NoStreak, Fault
<1>20. CASE slice BY <1>20 DEF slice, discard_on_exit
<1> QED BY <1>1, <1>2, <1>3, <1>4, <1>5, <1>6, <1>7, <1>8, <1>9, <1>10, <1>11, <1>12, <1>13, <1>14,
           <1>15, <1>16, <1>17, <1>18, <1>19, <1>20 DEF Next, Driver

LEMMA ClocksStep == QueueInv /\ [Next]_vars => Clocks'
<1> SUFFICES ASSUME QueueInv, [Next]_vars PROVE Clocks'
  OBVIOUS
<1> USE Numbers DEF QueueInv, queues, driver, counts, Clocks, Counts, Flags
<1>1. CASE UNCHANGED vars BY <1>1 DEF vars
<1>2. CASE reply BY <1>2 DEF reply
<1>3. CASE stop BY <1>3 DEF stop
<1>4. CASE worker_dies BY <1>4 DEF worker_dies, Fault
<1>5. CASE respawn BY <1>5 DEF respawn
<1>6. CASE elapse_hold BY <1>6 DEF elapse_hold
<1>7. CASE \E c \in Conversations : elapse(c) \/ age(c) BY <1>7 DEF elapse, age
<1>8. CASE enqueue BY <1>8 DEF enqueue
<1>9. CASE outbound_gone BY <1>9 DEF outbound_gone, discard_on_exit
<1>10. CASE flush BY <1>10 DEF flush
<1>11. CASE \E c \in Conversations : visit(c) BY <1>11 DEF visit
<1>12. CASE send_accepted BY <1>12 DEF send_accepted
<1>13. CASE send_refused
  <2>1. cur \in Conversations BY <1>13, AtSend DEF send_refused
  <2>2. /\ streak' = [streak EXCEPT ![cur] = UpTo(streak[cur] + 1, 2)]
        /\ since' = [since EXCEPT ![cur] = clock_started(since[cur])]
    BY <1>13 DEF send_refused
  <2>3. UpTo(streak[cur] + 1, 2) >= 1 BY <2>1 DEF UpTo
  <2> SUFFICES ASSUME NEW c \in Conversations, since'[c] # "unset" PROVE streak'[c] >= 1
    OBVIOUS
  <2>4. CASE c = cur BY <2>1, <2>2, <2>3, <2>4
  <2>5. CASE c # cur BY <2>1, <2>2, <2>5
  <2> QED BY <2>4, <2>5
<1>14. CASE send_channel_wide BY <1>14 DEF send_channel_wide, prune, restart_give_up_clocks, NoStreak, Fault
<1>15. CASE send_gone BY <1>15 DEF send_gone, prune, restart_give_up_clocks, NoStreak, Fault
<1>16. CASE conversation_done BY <1>16 DEF conversation_done
<1>17. CASE flush_done BY <1>17 DEF flush_done, prune
<1>18. CASE poll BY <1>18 DEF poll, discard_on_exit
<1>19. CASE poll_failed BY <1>19 DEF poll_failed, restart_give_up_clocks, NoStreak, Fault
<1>20. CASE slice BY <1>20 DEF slice, discard_on_exit
<1> QED BY <1>1, <1>2, <1>3, <1>4, <1>5, <1>6, <1>7, <1>8, <1>9, <1>10, <1>11, <1>12, <1>13, <1>14,
           <1>15, <1>16, <1>17, <1>18, <1>19, <1>20 DEF Next, Driver

LEMMA FrontsStep == QueueInv /\ [Next]_vars => Fronts'
<1> SUFFICES ASSUME QueueInv, [Next]_vars PROVE Fronts'
  OBVIOUS
<1> USE Numbers DEF QueueInv, queues, driver, counts, Fronts, Counts, Flags
<1>1. CASE UNCHANGED vars BY <1>1 DEF vars
<1>2. CASE reply BY <1>2 DEF reply
<1>3. CASE stop BY <1>3 DEF stop
<1>4. CASE worker_dies BY <1>4 DEF worker_dies, Fault
<1>5. CASE respawn BY <1>5 DEF respawn
<1>6. CASE elapse_hold BY <1>6 DEF elapse_hold
<1>7. CASE \E c \in Conversations : elapse(c) \/ age(c) BY <1>7 DEF elapse, age
<1>8. CASE enqueue
  <2>1. pc # "ended" /\ refusals' = refusals /\ tries' = tries BY <1>8 DEF enqueue
  <2> SUFFICES ASSUME NEW c \in Conversations, refusals[c] > 0
               PROVE  queue'[c] # <<>> /\ refusals[c] <= tries[Head(queue'[c])]
    BY <2>1
  <2>2. queue[c] # <<>> /\ refusals[c] <= tries[Head(queue[c])] BY <2>1
  <2>3. Head(out) \in Replies BY <1>8, TailAt DEF enqueue, Rows
  <2>4. queue[c] \in Seq(Replies) BY DEF Rows
  <2>5. \/ queue'[c] = queue[c]
        \/ queue'[c] = Append(queue[c], Head(out))
    BY <1>8, <2>3 DEF enqueue, Rows
  <2>6. CASE queue'[c] = Append(queue[c], Head(out))
    <3>1. Append(queue[c], Head(out)) # <<>> /\ Head(Append(queue[c], Head(out))) = Head(queue[c])
      BY <2>2, <2>3, <2>4, AppendHead
    <3> QED BY <2>2, <2>6, <3>1
  <2> QED BY <2>2, <2>5, <2>6
<1>9. CASE outbound_gone BY <1>9 DEF outbound_gone, discard_on_exit
<1>10. CASE flush BY <1>10 DEF flush
<1>11. CASE \E c \in Conversations : visit(c) BY <1>11 DEF visit
<1>12. CASE send_accepted
  <2>1. cur \in Conversations BY <1>12, AtSend DEF send_accepted
  <2> SUFFICES ASSUME NEW c \in Conversations, refusals'[c] > 0
               PROVE  queue'[c] # <<>> /\ refusals'[c] <= tries'[Head(queue'[c])]
    OBVIOUS
  <2>2. c # cur /\ refusals'[c] = refusals[c] /\ queue'[c] = queue[c] /\ tries' = tries
    BY <1>12, <2>1 DEF send_accepted
  <2> QED BY <1>12, <2>2 DEF send_accepted, Sending
<1>13. CASE send_refused
  <2> DEFINE r == Head(queue[cur])
             n == UpTo(refusals[cur] + 1, MinRefusals)
             due == give_up_due(n, clock_started(since[cur]))
  <2>1. cur \in Conversations /\ queue[cur] # <<>> /\ pc = "flush" BY <1>13, AtSend DEF send_refused
  <2>2. r \in Replies BY <2>1, TailAt DEF Rows
  <2>3. /\ refusals' = [refusals EXCEPT ![cur] = IF due THEN 0 ELSE n]
        /\ streak' = [streak EXCEPT ![cur] = UpTo(streak[cur] + 1, 2)]
        /\ tries' = [tries EXCEPT ![r] = UpTo(tries[r] + 1, MinRefusals)]
        /\ faults' = faults
    BY <1>13 DEF send_refused
  <2>4. queue' = [queue EXCEPT ![cur] = IF due THEN Tail(queue[cur]) ELSE queue[cur]]
    BY <1>13 DEF send_refused, retried
  <2>8. r = Head(queue[cur]) OBVIOUS
  <2> HIDE DEF r, due
  <2>5. PICK m \in 0..MinRefusals : m = tries[r] BY <2>2
  <2>11. PICK k \in 0..MinRefusals : k = refusals[cur] BY <2>1
  <2>6. k <= m
    <3>1. CASE k > 0 BY <2>1, <2>5, <2>8, <2>11, <3>1
    <3>2. CASE ~(k > 0) BY <3>2
    <3> QED BY <3>1, <3>2
  <2>12. /\ n = UpTo(k + 1, MinRefusals) /\ tries'[r] = UpTo(m + 1, MinRefusals)
         /\ n <= tries'[r] /\ m <= tries'[r]
    <3>1. n = UpTo(k + 1, MinRefusals) BY <2>11
    <3>2. tries'[r] = UpTo(m + 1, MinRefusals) BY <2>2, <2>3, <2>5
    <3>3. k \in 0..m BY <2>6
    <3> HIDE DEF n
    <3> QED BY <3>1, <3>2, <3>3, UpToRises
  <2>7. \A q \in Replies : tries[q] \in 0..MinRefusals /\ tries[q] <= tries'[q]
    <3> SUFFICES ASSUME NEW q \in Replies PROVE tries[q] \in 0..MinRefusals /\ tries[q] <= tries'[q]
      OBVIOUS
    <3>1. tries[q] \in 0..MinRefusals OBVIOUS
    <3>2. CASE q = r BY <2>5, <2>12, <3>1, <3>2
    <3>3. CASE q # r
      <4>1. tries'[q] = tries[q] BY <2>2, <2>3, <3>3
      <4> QED BY <3>1, <4>1
    <3> QED BY <3>2, <3>3
  <2>13. \A q \in Replies : tries'[q] \in 0..MinRefusals BY CountsStep
  <2> SUFFICES ASSUME NEW c \in Conversations, refusals'[c] > 0
               PROVE  queue'[c] # <<>> /\ refusals'[c] <= tries'[Head(queue'[c])]
    OBVIOUS
  <2> HIDE DEF n
  <2>9. CASE c = cur
    <3>1. ~due /\ refusals'[c] = n BY <2>1, <2>3, <2>9
    <3>2. queue'[c] = queue[c] BY <2>1, <2>4, <2>9, <3>1 DEF Rows
    <3> QED BY <2>1, <2>8, <2>9, <2>12, <3>1, <3>2
  <2>10. CASE c # cur
    <3>1. queue'[c] = queue[c] /\ refusals'[c] = refusals[c] BY <2>1, <2>3, <2>4, <2>10 DEF Rows
    <3>2. queue[c] # <<>> /\ refusals[c] <= tries[Head(queue[c])] /\ refusals[c] \in Nat
      BY <2>1, <3>1
    <3>3. PICK q \in Replies : q = Head(queue[c]) BY <3>2, TailAt DEF Rows
    <3>5. PICK i \in Nat : i = refusals[c] /\ i <= tries[q] BY <3>2, <3>3
    <3>6. tries[q] \in Nat /\ tries'[q] \in Nat /\ tries[q] <= tries'[q] BY <2>7, <2>13
    <3>4. refusals[c] <= tries'[Head(queue[c])] BY <3>3, <3>5, <3>6
    <3> QED BY <3>1, <3>2, <3>4
  <2> QED BY <2>9, <2>10
<1>14. CASE send_channel_wide
  <2>1. pc # "ended" /\ queue' = queue /\ tries' = tries BY <1>14 DEF send_channel_wide, Sending
  <2>2. refusals' = [c \in Conversations |-> IF queue[c] # <<>> THEN refusals[c] ELSE 0]
    BY <1>14 DEF send_channel_wide, prune
  <2> QED BY <2>1, <2>2
<1>15. CASE send_gone
  <2>1. pc # "ended" /\ queue' = queue /\ tries' = tries BY <1>15 DEF send_gone, Sending
  <2>2. refusals' = [c \in Conversations |-> IF queue[c] # <<>> THEN refusals[c] ELSE 0]
    BY <1>15 DEF send_gone, prune
  <2> QED BY <2>1, <2>2
<1>16. CASE conversation_done BY <1>16 DEF conversation_done
<1>17. CASE flush_done BY <1>17 DEF flush_done, prune
<1>18. CASE poll BY <1>18 DEF poll, discard_on_exit
<1>19. CASE poll_failed BY <1>19 DEF poll_failed, restart_give_up_clocks, NoStreak, Fault
<1>20. CASE slice BY <1>20 DEF slice, discard_on_exit
<1> QED BY <1>1, <1>2, <1>3, <1>4, <1>5, <1>6, <1>7, <1>8, <1>9, <1>10, <1>11, <1>12, <1>13, <1>14,
           <1>15, <1>16, <1>17, <1>18, <1>19, <1>20 DEF Next, Driver

-----------------------------------------------------------------------------
(* The theorems. *)

LEMMA StepInv == QueueInv /\ [Next]_vars => QueueInv'
  BY RowsStep, FlagsStep, CountsStep, FrontsStep, ClocksStep DEF QueueInv

\* The replies stay in the order the bus sent them, what is charged to the
\* front of a queue it was refused itself, and a give-up clock runs only behind
\* a refusal no failure of the whole channel has followed: the inductive
\* invariant of the drain, the flush and the exits.
THEOREM QueuesInvariant == Spec => []QueueInv
<1>1. QueueInv /\ [Next]_vars => QueueInv' BY StepInv
<1>2. QED BY <1>1, InitInv, PTL DEF Spec

\* A reply the driver was sent is pulled, queued or settled with its record,
\* whatever was refused, retried, dropped or discarded at an exit.
THEOREM NoReplyIsLost == Spec => []RepliesAccounted
<1>1. QueueInv => RepliesAccounted BY RowsAccount DEF QueueInv
<1>2. QED BY <1>1, QueuesInvariant, PTL

\* Which steps settle a reply as sent or given up.
LEMMA WhoSettles ==
  ASSUME QueueInv, [Next]_vars, NEW r \in Replies, outcome'[r] # outcome[r],
         outcome'[r] \in {"sent", "gave_up"}
  PROVE  /\ outcome'[r] = "sent" => send_accepted /\ r = Head(queue[cur])
         /\ outcome'[r] = "gave_up" => /\ send_refused /\ r = Head(queue[cur])
                                       /\ give_up_due(UpTo(refusals[cur] + 1, MinRefusals),
                                                      clock_started(since[cur]))
<1> USE DEF QueueInv, Rows, queues, driver, counts
<1>1. CASE UNCHANGED vars BY <1>1 DEF vars
<1>2. CASE reply BY <1>2 DEF reply
<1>3. CASE stop BY <1>3 DEF stop
<1>4. CASE worker_dies BY <1>4 DEF worker_dies
<1>5. CASE respawn BY <1>5 DEF respawn
<1>6. CASE elapse_hold BY <1>6 DEF elapse_hold
<1>7. CASE \E c \in Conversations : elapse(c) \/ age(c) BY <1>7 DEF elapse, age
<1>8. CASE enqueue
  <2>1. \/ outcome' = outcome \/ outcome' = [outcome EXCEPT ![Head(out)] = "overflow"]
    BY <1>8 DEF enqueue
  <2> QED BY <2>1
<1>9. CASE outbound_gone BY <1>9 DEF outbound_gone, discard_on_exit
<1>10. CASE flush BY <1>10 DEF flush
<1>11. CASE \E c \in Conversations : visit(c) BY <1>11 DEF visit
<1>12. CASE send_accepted
  <2>1. outcome' = [outcome EXCEPT ![Head(queue[cur])] = "sent"] BY <1>12 DEF send_accepted
  <2> QED BY <1>12, <2>1
<1>13. CASE send_refused
  <2> DEFINE due == give_up_due(UpTo(refusals[cur] + 1, MinRefusals), clock_started(since[cur]))
  <2>1. outcome' = IF due THEN [outcome EXCEPT ![Head(queue[cur])] = "gave_up"] ELSE outcome
    BY <1>13 DEF send_refused
  <2> HIDE DEF due
  <2>2. due BY <2>1
  <2>3. r = Head(queue[cur]) /\ outcome'[r] = "gave_up" BY <2>1, <2>2
  <2> QED BY <1>13, <2>2, <2>3 DEF due
<1>14. CASE send_channel_wide BY <1>14 DEF send_channel_wide
<1>15. CASE send_gone BY <1>15 DEF send_gone
<1>16. CASE conversation_done BY <1>16 DEF conversation_done
<1>17. CASE flush_done BY <1>17 DEF flush_done
<1>18. CASE poll BY <1>18 DEF poll, discard_on_exit
<1>19. CASE poll_failed BY <1>19 DEF poll_failed
<1>20. CASE slice BY <1>20 DEF slice, discard_on_exit
<1> QED BY <1>1, <1>2, <1>3, <1>4, <1>5, <1>6, <1>7, <1>8, <1>9, <1>10, <1>11, <1>12, <1>13, <1>14,
           <1>15, <1>16, <1>17, <1>18, <1>19, <1>20 DEF Next, Driver

\* A reply goes out only when every earlier reply to its conversation is sent or
\* dropped: a refusal keeps its reply at the front, a full queue drops the new
\* one, and no retry, respawn or outage lets a later reply pass.
THEOREM ConversationsInOrder == Spec => RepliesInOrder
<1> DEFINE A == \A r \in Replies : outcome'[r] = "sent" /\ outcome[r] # "sent" =>
                  \A q \in 1..(r - 1) : Conv[q] = Conv[r] => outcome[q] \in Settled
<1>1. QueueInv /\ [Next]_vars => [A]_vars
  <2> SUFFICES ASSUME QueueInv, [Next]_vars,
                      NEW r \in Replies, outcome'[r] = "sent", outcome[r] # "sent",
                      NEW q \in 1..(r - 1), Conv[q] = Conv[r]
               PROVE  outcome[q] \in Settled
    OBVIOUS
  <2>1. send_accepted /\ r = Head(queue[cur]) BY WhoSettles
  <2>2. Rows /\ Flags BY DEF QueueInv
  <2>3. cur \in Conversations /\ queue[cur] # <<>> BY <2>1, <2>2, AtSend DEF send_accepted
  <2>4. /\ queue[cur] \in Seq(Replies) /\ Rising(queue[cur]) /\ Replies \in SUBSET Nat
    BY <2>2, <2>3, Numbers DEF Rows, Ordered
  <2>5. r \in Elems(queue[cur]) /\ \A x \in Elems(queue[cur]) : r <= x
    BY <2>1, <2>3, <2>4, RisingTail
  <2>6. Conv[r] = cur BY <2>2, <2>3, <2>5 DEF Rows
  <2>7. q \in Replies /\ q < r /\ q \in Nat /\ r \in Nat BY Numbers DEF Replies
  <2>8. outcome[r] = "queued" BY <2>2, <2>5, <2>6 DEF Rows
  <2>9. outcome[q] # "none" BY <2>2, <2>7, <2>8 DEF Rows, Ordered
  <2>10. q \notin Elems(queue[cur]) BY <2>5, <2>7
  <2>11. q \notin Elems(out)
    <3>1. q \in Elems(out) => r < q BY <2>2, <2>3, <2>5 DEF Rows, Ordered
    <3> QED BY <2>7, <3>1
  <2>12. outcome[q] # "queued" BY <2>2, <2>6, <2>7, <2>10, <2>11 DEF Rows
  <2> QED BY <2>2, <2>7, <2>9, <2>12 DEF Rows
<1>2. RepliesInOrder <=> [][A]_vars BY PTL DEF RepliesInOrder
<1> HIDE DEF A
<1>3. QED BY <1>1, <1>2, QueuesInvariant, PTL DEF Spec

\* A reply is given up only for its own MinRefusals refusals, and for two of its
\* conversation with no failure of the whole channel between them: neither the
\* reply that stood at the front before it, nor an outage, is charged to it.
THEOREM NoneGivenUpForAnother == Spec => GivenUpOnItsOwnAccount
<1> DEFINE A == \A r \in Replies : outcome'[r] = "gave_up" /\ outcome[r] # "gave_up" =>
                  tries'[r] >= MinRefusals /\ streak'[Conv[r]] >= 2
<1>1. QueueInv /\ [Next]_vars => [A]_vars
  <2> SUFFICES ASSUME QueueInv, [Next]_vars,
                      NEW r \in Replies, outcome'[r] = "gave_up", outcome[r] # "gave_up"
               PROVE  tries'[r] >= MinRefusals /\ streak'[Conv[r]] >= 2
    OBVIOUS
  <2>1. /\ send_refused /\ r = Head(queue[cur])
        /\ give_up_due(UpTo(refusals[cur] + 1, MinRefusals), clock_started(since[cur]))
    BY WhoSettles
  <2>2. Rows /\ Flags /\ Counts /\ Fronts /\ Clocks BY DEF QueueInv
  <2>3. cur \in Conversations /\ queue[cur] # <<>> /\ pc = "flush"
    BY <2>1, <2>2, AtSend DEF send_refused
  <2>4. /\ queue[cur] \in Seq(Replies) /\ Rising(queue[cur]) /\ Replies \in SUBSET Nat
    BY <2>2, <2>3, Numbers DEF Rows, Ordered
  <2>5. r \in Elems(queue[cur]) BY <2>1, <2>3, <2>4, RisingTail
  <2>6. Conv[r] = cur BY <2>2, <2>3, <2>5 DEF Rows
  <2>7. PICK k \in 0..MinRefusals : k = refusals[cur] BY <2>2, <2>3 DEF Counts
  <2>8. PICK m \in 0..MinRefusals : m = tries[r] BY <2>2 DEF Counts
  <2>9. PICK n \in 0..2 : n = streak[cur] BY <2>2, <2>3 DEF Counts
  <2>10. k <= m
    <3>1. CASE k > 0 BY <2>1, <2>2, <2>3, <2>7, <2>8, <3>1 DEF Fronts
    <3>2. CASE ~(k > 0) BY <3>2
    <3> QED BY <3>1, <3>2
  <2>11. UpTo(k + 1, MinRefusals) >= MinRefusals /\ clock_started(since[cur]) = "old"
    BY <2>1, <2>7 DEF give_up_due
  <2>12. n >= 1 BY <2>2, <2>3, <2>9, <2>11 DEF Clocks, clock_started
  <2>13. tries'[r] = UpTo(m + 1, MinRefusals) /\ streak'[cur] = UpTo(n + 1, 2)
    <3>1. /\ tries' = [tries EXCEPT ![r] = UpTo(tries[r] + 1, MinRefusals)]
          /\ streak' = [streak EXCEPT ![cur] = UpTo(streak[cur] + 1, 2)]
      BY <2>1 DEF send_refused
    <3> QED BY <2>2, <2>3, <2>8, <2>9, <3>1 DEF Counts
  <2>14. UpTo(m + 1, MinRefusals) >= MinRefusals BY <2>10, <2>11, Numbers DEF UpTo
  <2>15. UpTo(n + 1, 2) >= 2 BY <2>12 DEF UpTo
  <2> QED BY <2>6, <2>13, <2>14, <2>15
<1>2. GivenUpOnItsOwnAccount <=> [][A]_vars BY PTL DEF GivenUpOnItsOwnAccount
<1> HIDE DEF A
<1>3. QED BY <1>1, <1>2, QueuesInvariant, PTL DEF Spec
=============================================================================
