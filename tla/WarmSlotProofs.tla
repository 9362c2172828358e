--------------------------- MODULE WarmSlotProofs ---------------------------
(* The warm slot for any number of callers, workers and teardown tasks, and    *)
(* any caps and backoff.                                                       *)
EXTENDS WarmSlot, FiniteSetTheorems, WellFoundedInduction, TLAPS

(* The inductive invariant. *)

\* A dispatch at one of these has the slot's mutex; at the second kind also a
\* worker.
Holding == {"spawn", "handle", "call", "read", "done"}

Served == {"handle", "call", "read", "done"}

Places ==
  \A c \in Callers :
    /\ pc[c] \in Holding => holder = c /\ warm = None
    /\ pc[c] \in Served <=> lent[c] # None

\* A process exists exactly while the slot or a handle owns it.
Owned(w) ==
  \/ warm # None /\ warm.worker = w
  \/ \E c \in Callers : lent[c] # None /\ lent[c].worker = w

Processes ==
  \A w \in Workers :
    /\ proc[w] # "none" <=> Owned(w)
    /\ proc[w] = "none" => calls[w] = 0 /\ ~tainted[w] /\ dog[w] = "off"

\* What is known of the worker in the slot, and of one lent out: the slot's own
\* count bounds the calls it really had, and a fatal answer has been reported.
Fit ==
  /\ warm # None =>
       /\ calls[warm.worker] <= warm.count /\ ~tainted[warm.worker]
       /\ MaxRequests > 0 => warm.count < MaxRequests
  /\ \A c \in Callers :
       LET w == lent[c].worker IN
       /\ pc[c] = "handle" => calls[w] <= lent[c].count
       /\ pc[c] \in {"handle", "call"} => ~tainted[w]
       /\ pc[c] \in Served => calls[w] <= lent[c].count + 1
       /\ pc[c] \in {"read", "done"} => (tainted[w] => died[c])

\* A watchdog counts only while its call is on.
Watched ==
  \A w \in Workers : dog[w] # "off" =>
    \E c \in Callers : pc[c] \in {"call", "read"} /\ lent[c].worker = w

\* The gate is never ahead of what the crashes ask for.
Gated ==
  /\ restarts = crashes /\ owed <= gate
  /\ \A c \in Callers : pc[c] = "spawn" => owed = 0

WarmInv == TypeOK /\ Places /\ Processes /\ Fit /\ Watched /\ Gated

-----------------------------------------------------------------------------
(* What the loop of next_delay computes. *)

\* Induction over a set of naturals.
LEMMA SetInduction ==
  ASSUME NEW S, 0 \in S, \A n \in Nat : n \in S => n + 1 \in S
  PROVE  Nat \subseteq S
<1> SUFFICES ASSUME Nat \ S # {} PROVE FALSE
  OBVIOUS
<1> DEFINE R == OpToRel(<, Nat)
<1>1. \A x, y \in Nat : x < y => <<x, y>> \in R
  BY DEF OpToRel
<1>2. IsWellFoundedOn(R, Nat)
  BY NatLessThanWellFounded
<1> HIDE DEF R
<1>3. PICK x \in Nat \ S : \A y \in Nat \ S : ~(<<y, x>> \in R)
  BY <1>2, WFMin
<1>4. x # 0 /\ x - 1 \in Nat /\ x - 1 < x
  BY <1>3
<1>5. x - 1 \in S
  BY <1>1, <1>3, <1>4
<1>6. (x - 1) + 1 = x
  BY <1>3
<1>7. QED
  BY <1>3, <1>4, <1>5, <1>6

\* A value and a step function determine a sequence.
LEMMA Iterates ==
  ASSUME NEW a \in Nat, NEW h \in [Nat -> Nat]
  PROVE  \E f \in [Nat -> Nat] : f[0] = a /\ \A n \in Nat : f[n + 1] = h[f[n]]
<1> DEFINE Starts(n) == {g \in [Nat -> Nat] : g[0] = a /\ \A k \in 0 .. n : k # n => g[k + 1] = h[g[k]]}
           S == {n \in Nat : Starts(n) # {}}
<1>1. Nat \subseteq S
  <2>1. 0 \in S
    <3>1. [k \in Nat |-> a] \in Starts(0)
      OBVIOUS
    <3>2. QED
      BY <3>1
  <2>2. ASSUME NEW n \in Nat, n \in S PROVE n + 1 \in S
    <3>1. PICK g \in Starts(n) : TRUE
      BY <2>2
    <3> DEFINE g2 == [g EXCEPT ![n + 1] = h[g[n]]]
    <3>2. g2 \in Starts(n + 1)
      <4>1. g \in [Nat -> Nat] /\ g2 \in [Nat -> Nat] /\ g2[0] = a
        BY <3>1
      <4>2. ASSUME NEW k \in 0 .. n + 1, k # n + 1 PROVE g2[k + 1] = h[g2[k]]
        <5>1. k \in 0 .. n /\ g2[k] = g[k]
          BY <4>1, <4>2
        <5>2. CASE k = n
          BY <4>1, <5>1, <5>2
        <5>3. CASE k # n
          <6>1. g[k + 1] = h[g[k]] /\ k + 1 # n + 1 /\ k + 1 \in Nat
            BY <3>1, <5>1, <5>3
          <6>2. g2[k + 1] = g[k + 1]
            BY <4>1, <6>1
          <6>3. QED
            BY <5>1, <6>1, <6>2
        <5>4. QED
          BY <5>2, <5>3
      <4>3. QED
        BY <4>1, <4>2
    <3> HIDE DEF Starts, g2
    <3>3. Starts(n + 1) # {} /\ n + 1 \in Nat
      BY <3>2
    <3>4. QED
      BY <3>3
  <2> HIDE DEF S
  <2>3. QED
    BY <2>1, <2>2, SetInduction
<1>2. \A n \in Nat : Starts(n) # {}
  BY <1>1
<1>3. ASSUME NEW m \in Nat, NEW n \in Nat, NEW g \in Starts(m), NEW e \in Starts(n)
      PROVE  \A k \in Nat : k <= m /\ k <= n => g[k] = e[k]
  <2> DEFINE T == {k \in Nat : k <= m /\ k <= n => g[k] = e[k]}
  <2>1. 0 \in T
    BY <1>3
  <2>2. ASSUME NEW k \in Nat, k \in T PROVE k + 1 \in T
    <3> SUFFICES ASSUME k + 1 <= m, k + 1 <= n PROVE g[k + 1] = e[k + 1]
      OBVIOUS
    <3>1. k \in 0 .. m /\ k # m /\ k \in 0 .. n /\ k # n /\ g[k] = e[k]
      BY <2>2
    <3>2. g[k + 1] = h[g[k]] /\ e[k + 1] = h[e[k]]
      BY <1>3, <3>1
    <3>3. QED
      BY <3>1, <3>2
  <2> HIDE DEF T
  <2>3. Nat \subseteq T
    BY <2>1, <2>2, SetInduction
  <2>4. QED
    BY <2>3 DEF T
<1> DEFINE G(n) == CHOOSE g \in Starts(n) : TRUE
           f == [n \in Nat |-> G(n)[n]]
<1>4. \A n \in Nat : G(n) \in Starts(n)
  BY <1>2
<1> HIDE DEF G
<1>5. f \in [Nat -> Nat] /\ f[0] = a
  BY <1>4
<1>6. ASSUME NEW n \in Nat PROVE f[n + 1] = h[f[n]]
  <2>1. n + 1 \in Nat /\ n \in 0 .. n + 1 /\ n # n + 1
    OBVIOUS
  <2>2. G(n + 1)[n + 1] = h[G(n + 1)[n]]
    BY <1>4, <2>1
  <2>3. G(n + 1)[n] = G(n)[n]
    <3> HIDE DEF Starts
    <3>1. G(n + 1) \in Starts(n + 1) /\ G(n) \in Starts(n)
      BY <1>4, <2>1
    <3>2. n <= n + 1 /\ n <= n
      OBVIOUS
    <3>3. QED
      BY <1>3, <2>1, <3>1, <3>2
  <2>4. QED
    BY <2>1, <2>2, <2>3
<1>7. QED
  BY <1>5, <1>6

\* The recursive definitions are what they say.
LEMMA DelayUnfolds ==
  /\ Delay \in [Nat -> Nat]
  /\ Delay[0] = Base
  /\ \A k \in Nat : Delay[k + 1] = IF Delay[k] * Factor >= Cap THEN Cap ELSE Delay[k] * Factor
<1> DEFINE D(g) == [k \in Nat |-> LET d == IF k = 0 THEN Base ELSE g[k - 1] * Factor
                                  IN  IF d >= Cap THEN Cap ELSE d]
           h == [x \in Nat |-> IF x * Factor >= Cap THEN Cap ELSE x * Factor]
<1>1. Base \in Nat /\ Factor \in Nat /\ Cap \in Nat /\ Base <= Cap /\ Factor > 0
  BY WarmAssumption
<1>2. h \in [Nat -> Nat]
  BY <1>1
<1>3. PICK f \in [Nat -> Nat] : f[0] = Base /\ \A n \in Nat : f[n + 1] = h[f[n]]
  <2> HIDE DEF h
  <2>1. QED
    BY <1>1, <1>2, Iterates
<1>4. f = D(f)
  <2>1. ASSUME NEW k \in Nat PROVE f[k] = D(f)[k]
    <3>1. CASE k = 0
      BY <1>1, <1>3, <3>1
    <3>2. CASE k # 0
      <4>1. k - 1 \in Nat /\ (k - 1) + 1 = k
        BY <3>2
      <4>2. f[k] = h[f[k - 1]] /\ f[k - 1] \in Nat
        BY <1>3, <4>1
      <4>3. QED
        BY <3>2, <4>2
    <3>3. QED
      BY <3>1, <3>2
  <2>2. QED
    BY <2>1
<1>5. Delay = CHOOSE g : g = D(g)
  BY DEF Delay
<1>6. Delay = D(Delay)
  <2> HIDE DEF D
  <2>1. QED
    BY <1>4, <1>5
<1>7. \A k \in Nat : Delay[k] = LET d == IF k = 0 THEN Base ELSE Delay[k - 1] * Factor
                               IN  IF d >= Cap THEN Cap ELSE d
  BY <1>6
<1>8. Delay[0] = Base
  BY <1>1, <1>7
<1>9. ASSUME NEW k \in Nat
      PROVE  Delay[k + 1] = IF Delay[k] * Factor >= Cap THEN Cap ELSE Delay[k] * Factor
  <2>1. k + 1 \in Nat /\ k + 1 # 0 /\ (k + 1) - 1 = k
    OBVIOUS
  <2>2. QED
    BY <1>7, <2>1
<1>10. \A k \in Nat : Delay[k] \in Nat
  <2> DEFINE S == {k \in Nat : Delay[k] \in Nat}
  <2>1. 0 \in S
    BY <1>1, <1>8
  <2>2. ASSUME NEW k \in Nat, k \in S PROVE k + 1 \in S
    BY <1>1, <1>9, <2>2
  <2> HIDE DEF S
  <2>3. Nat \subseteq S
    BY <2>1, <2>2, SetInduction
  <2>4. QED
    BY <2>3 DEF S
<1>11. Delay \in [Nat -> Nat]
  <2>1. Delay = [k \in Nat |-> Delay[k]]
    BY <1>6
  <2>2. QED
    BY <1>10, <2>1
<1>12. QED
  BY <1>8, <1>9, <1>11

LEMMA UncappedUnfolds ==
  /\ Uncapped \in [Nat -> Nat]
  /\ Uncapped[0] = Base
  /\ \A k \in Nat : Uncapped[k + 1] = Uncapped[k] * Factor
<1> DEFINE D(g) == [k \in Nat |-> IF k = 0 THEN Base ELSE g[k - 1] * Factor]
           h == [x \in Nat |-> x * Factor]
<1>1. Base \in Nat /\ Factor \in Nat 
  BY WarmAssumption
<1>2. h \in [Nat -> Nat]
  BY <1>1
<1>3. PICK f \in [Nat -> Nat] : f[0] = Base /\ \A n \in Nat : f[n + 1] = h[f[n]]
  <2> HIDE DEF h
  <2>1. QED
    BY <1>1, <1>2, Iterates
<1>4. f = D(f)
  <2>1. ASSUME NEW k \in Nat PROVE f[k] = D(f)[k]
    <3>1. CASE k = 0
      BY <1>1, <1>3, <3>1
    <3>2. CASE k # 0
      <4>1. k - 1 \in Nat /\ (k - 1) + 1 = k
        BY <3>2
      <4>2. f[k] = h[f[k - 1]] /\ f[k - 1] \in Nat
        BY <1>3, <4>1
      <4>3. QED
        BY <3>2, <4>2
    <3>3. QED
      BY <3>1, <3>2
  <2>2. QED
    BY <2>1
<1>5. Uncapped = CHOOSE g : g = D(g)
  BY DEF Uncapped
<1>6. Uncapped = D(Uncapped)
  <2> HIDE DEF D
  <2>1. QED
    BY <1>4, <1>5
<1>7. \A k \in Nat : Uncapped[k] = IF k = 0 THEN Base ELSE Uncapped[k - 1] * Factor
  BY <1>6
<1>8. Uncapped[0] = Base
  BY <1>1, <1>7
<1>9. ASSUME NEW k \in Nat
      PROVE  Uncapped[k + 1] = Uncapped[k] * Factor
  <2>1. k + 1 \in Nat /\ k + 1 # 0 /\ (k + 1) - 1 = k
    OBVIOUS
  <2>2. QED
    BY <1>7, <2>1
<1>10. \A k \in Nat : Uncapped[k] \in Nat
  <2> DEFINE S == {k \in Nat : Uncapped[k] \in Nat}
  <2>1. 0 \in S
    BY <1>1, <1>8
  <2>2. ASSUME NEW k \in Nat, k \in S PROVE k + 1 \in S
    BY <1>1, <1>9, <2>2
  <2> HIDE DEF S
  <2>3. Nat \subseteq S
    BY <2>1, <2>2, SetInduction
  <2>4. QED
    BY <2>3 DEF S
<1>11. Uncapped \in [Nat -> Nat]
  <2>1. Uncapped = [k \in Nat |-> Uncapped[k]]
    BY <1>6
  <2>2. QED
    BY <1>10, <2>1
<1>12. QED
  BY <1>8, <1>9, <1>11

\* A product with a factor of at least one is no smaller.
LEMMA Multiplied == ASSUME NEW x \in Nat, NEW f \in Nat \ {0} PROVE x * f \in Nat /\ x <= x * f
<1>1. PICK g \in Nat : f = g + 1
  <2>1. f - 1 \in Nat /\ f = (f - 1) + 1
    OBVIOUS
  <2>2. QED
    BY <2>1
<1>2. x * (g + 1) = x * g + x /\ x * g \in Nat
  OBVIOUS
<1>3. QED
  BY <1>1, <1>2

\* The loop of RestartBackoff::next_delay, which stops at the cap, computes for
\* every number of restarts what multiplying without a cap and cutting the
\* result would.
THEOREM DelayIsCapped ==
  \A k \in Nat : next_delay(k) = IF Uncapped[k] < Cap THEN Uncapped[k] ELSE Cap
<1> DEFINE S == {k \in Nat : Delay[k] = IF Uncapped[k] < Cap THEN Uncapped[k] ELSE Cap}
<1>1. Base \in Nat /\ Factor \in Nat \ {0} /\ Cap \in Nat /\ Base <= Cap
  BY WarmAssumption
<1>2. 0 \in S
  <2>1. Delay[0] = Base /\ Uncapped[0] = Base
    BY DelayUnfolds, UncappedUnfolds
  <2>2. Base = IF Base < Cap THEN Base ELSE Cap
    BY <1>1
  <2>3. QED
    BY <2>1, <2>2
<1>3. ASSUME NEW k \in Nat, k \in S PROVE k + 1 \in S
  <2>1. Delay[k] \in Nat /\ Uncapped[k] \in Nat /\ k + 1 \in Nat
    BY DelayUnfolds, UncappedUnfolds
  <2>2. CASE Uncapped[k] < Cap
    BY <1>1, <1>3, <2>1, <2>2, Multiplied, DelayUnfolds, UncappedUnfolds
  <2>3. CASE ~(Uncapped[k] < Cap)
    <3>1. Delay[k] = Cap /\ Cap <= Uncapped[k]
      BY <1>1, <1>3, <2>1, <2>3
    <3>2. Cap <= Cap * Factor /\ Uncapped[k] <= Uncapped[k] * Factor /\ Uncapped[k] * Factor \in Nat
      BY <1>1, <2>1, Multiplied
    <3>3. Delay[k + 1] = Cap /\ ~(Uncapped[k + 1] < Cap)
      <4>1. Delay[k + 1] = IF Cap * Factor >= Cap THEN Cap ELSE Cap * Factor
        BY <3>1, DelayUnfolds
      <4>2. Uncapped[k + 1] = Uncapped[k] * Factor
        BY UncappedUnfolds
      <4>3. Cap * Factor \in Nat
        BY <1>1, Multiplied
      <4>4. QED
        BY <1>1, <2>1, <3>1, <3>2, <4>1, <4>2, <4>3
    <3>4. QED
      BY <2>1, <3>3
  <2>4. QED
    BY <2>2, <2>3
<1> HIDE DEF S
<1>4. Nat \subseteq S
  BY <1>2, <1>3, SetInduction
<1>5. QED
  BY <1>4 DEF S, next_delay

-----------------------------------------------------------------------------
(* The slot's mutex. *)

Waiter == Callers \cup Instants

\* What the constants are, the backoff apart.
LEMMA Kinds ==
  /\ None \notin Callers \cup Instants \cup Workers /\ Callers \cap Instants = {}
  /\ None \notin [worker : Workers, count : Nat]
  /\ None \notin [worker : Workers, count : Nat, at : Instants]
  /\ MaxRequests \in Nat /\ Cap \in Nat /\ RestartBound \in Nat
  BY WarmAssumption

\* A queue without one of its waiters is a queue.
LEMMA WaitingTyped == ASSUME NEW gone, queue \in Seq(Waiter) PROVE waiting(gone) \in Seq(Waiter)
<1>1. CASE ~\E k \in DOMAIN queue : queue[k] \in gone
  BY <1>1 DEF waiting
<1>2. CASE \E k \in DOMAIN queue : queue[k] \in gone
  <2> DEFINE k == CHOOSE j \in DOMAIN queue : queue[j] \in gone
  <2>1. k \in DOMAIN queue
    BY <1>2
  <2>2. waiting(gone) = SubSeq(queue, 1, k - 1) \o SubSeq(queue, k + 1, Len(queue))
    BY <1>2 DEF waiting
  <2> HIDE DEF k
  <2>3. k \in 1 .. Len(queue) /\ Len(queue) \in Nat
    BY <2>1
  <2>4. \A i \in 1 .. Len(queue) : queue[i] \in Waiter
    OBVIOUS
  <2>5. SubSeq(queue, 1, k - 1) \in Seq(Waiter)
    BY <2>3, <2>4
  <2>6. SubSeq(queue, k + 1, Len(queue)) \in Seq(Waiter)
    BY <2>3, <2>4
  <2>7. QED
    BY <2>2, <2>5, <2>6
<1>3. QED
  BY <1>1, <1>2

\* The mutex goes to a waiter or is free.
LEMMA UnlockTyped ==
  ASSUME TypeOK, NEW gone, unlock(gone)
  PROVE  holder' \in Waiter \cup {None} /\ queue' \in Seq(Waiter)
<1>1. PICK rest \in Seq(Waiter) : rest = waiting(gone)
  BY WaitingTyped DEF TypeOK, Waiter
<1>2. /\ holder' = IF rest = << >> THEN None ELSE Head(rest)
      /\ queue' = IF rest = << >> THEN << >> ELSE Tail(rest)
  BY <1>1 DEF unlock
<1>3. QED
  BY <1>1, <1>2

\* A waiter takes the free mutex or joins the queue.
LEMMA LockTyped ==
  ASSUME TypeOK, NEW x \in Waiter, lock(x)
  PROVE  /\ holder' \in Waiter \cup {None} /\ queue' \in Seq(Waiter)
         /\ holder # None => holder' = holder
<1>1. queue \in Seq(Waiter) /\ holder \in Waiter \cup {None}
  BY DEF TypeOK, Waiter
<1>2. CASE holder = None
  BY <1>1, <1>2 DEF lock
<1>3. CASE holder # None
  BY <1>1, <1>3 DEF lock
<1>4. QED
  BY <1>2, <1>3

\* A dispatch that holds the mutex is the only one that does, and the slot is
\* empty: the worker it was lent, if any, is the tool's only one.
LEMMA Alone ==
  ASSUME WarmInv, NEW c \in Callers, pc[c] \in Holding
  PROVE  /\ holder = c /\ warm = None
         /\ \A d \in Callers \ {c} : pc[d] \notin Holding /\ pc[d] \notin Served /\ lent[d] = None
         /\ \A w \in Workers : proc[w] # "none" <=> lent[c] # None /\ lent[c].worker = w
<1>1. holder = c /\ warm = None
  BY DEF WarmInv, Places
<1>2. \A d \in Callers \ {c} : pc[d] \notin Holding /\ pc[d] \notin Served /\ lent[d] = None
  BY <1>1 DEF WarmInv, Places, Holding, Served
<1>3. QED
  BY <1>1, <1>2 DEF WarmInv, Processes, Owned

\* While no dispatch holds it no dispatch has a worker.
LEMMA NobodyServed ==
  ASSUME WarmInv, holder \notin Callers
  PROVE  /\ \A c \in Callers : pc[c] \notin Holding /\ pc[c] \notin Served /\ lent[c] = None
         /\ \A w \in Workers : proc[w] # "none" <=> warm # None /\ warm.worker = w
<1>1. \A c \in Callers : pc[c] \notin Holding /\ pc[c] \notin Served /\ lent[c] = None
  BY DEF WarmInv, Places, Holding, Served
<1>2. QED
  BY <1>1 DEF WarmInv, Processes, Owned

\* The workers of S are dropped and leave nothing behind; the others are as they were.
Dropped(S) ==
  /\ proc' \in [Workers -> {"none", "alive", "dead"}] /\ aged' \in [Workers -> BOOLEAN]
  /\ dog' \in [Workers -> {"off", "armed", "late"}]
  /\ calls' \in [Workers -> Nat] /\ tainted' \in [Workers -> BOOLEAN]
  /\ \A v \in S : proc'[v] = "none" /\ calls'[v] = 0 /\ ~tainted'[v] /\ dog'[v] = "off"
  /\ \A v \in Workers \ S : /\ proc'[v] = proc[v] /\ calls'[v] = calls[v]
                            /\ tainted'[v] = tainted[v] /\ dog'[v] = dog[v]

LEMMA DropWorker ==
  ASSUME TypeOK
  PROVE  /\ \A w \in Workers : drop_worker(w) => Dropped({w})
         /\ UNCHANGED procvars => Dropped({})
<1>1. ASSUME NEW w \in Workers, drop_worker(w) PROVE Dropped({w})
  BY <1>1 DEF TypeOK, drop_worker, Dropped
<1>2. ASSUME UNCHANGED procvars PROVE Dropped({})
  BY <1>2 DEF TypeOK, procvars, Dropped
<1>3. QED
  BY <1>1, <1>2

\* Aborting a task changes its state only.
LEMMA AbortedTyped ==
  ASSUME TypeOK PROVE aborted(task) \in [Instants -> {"none", "sleep", "awake", "queued", "doomed"}]
<1>1. CASE handle = None
  BY <1>1 DEF TypeOK, aborted
<1>2. CASE handle \in Instants
  BY <1>2, WarmAssumption DEF TypeOK, aborted
<1>3. QED
  BY <1>1, <1>2 DEF TypeOK

\* What there is to choose from.
LEMMA FreshOnes ==
  /\ (\E w \in Workers : proc[w] = "none") => fresh_worker \in Workers /\ proc[fresh_worker] = "none"
  /\ (\E i \in Instants : task[i] = "none") => fresh_instant \in Instants
  BY DEF fresh_worker, fresh_instant

\* A dispatch asks for the slot.
LEMMA Acquire == ASSUME WarmInv, NEW c \in Callers, acquire(c) PROVE WarmInv'
<1> USE Kinds DEF WarmInv, TypeOK, PCs, Places, Holding, Served, slotvars, procvars, backvars
<1>1. c \in Waiter /\ lock(c) /\ pc[c] = "idle" /\ pc' = [pc EXCEPT ![c] = "queued"]
  BY DEF acquire, Waiter
<1>2. UNCHANGED <<died, lent, warm, gate, restarts, task, handle, procvars, backvars>>
  BY DEF acquire
<1>3. /\ holder' \in Waiter \cup {None} /\ queue' \in Seq(Waiter)
      /\ holder # None => holder' = holder
  BY <1>1, LockTyped
<1>4. TypeOK'
  BY <1>1, <1>2, <1>3 DEF Waiter
<1>5. Places'
  BY <1>1, <1>2, <1>3 DEF Waiter
<1>6. Processes'
  BY <1>1, <1>2, <1>3 DEF Processes, Owned, Waiter
<1>7. Fit'
  BY <1>1, <1>2, <1>3 DEF Fit, Waiter
<1>8. Watched'
  BY <1>1, <1>2, <1>3 DEF Watched, Waiter
<1>9. Gated'
  BY <1>1, <1>2, <1>3 DEF Gated, Waiter
<1>10. QED
  BY <1>4, <1>5, <1>6, <1>7, <1>8, <1>9

\* With the mutex and past the backoff, the warm worker is taken, or dropped for
\* its age.
LEMMA Take == ASSUME WarmInv, NEW c \in Callers, take(c) PROVE WarmInv'
<1> USE Kinds DEF WarmInv, TypeOK, PCs, Places, Holding, Served, slotvars, procvars, backvars
<1>1. pc[c] = "queued" /\ holder = c /\ gate = 0 /\ warm' = None
  BY DEF take
<1>2. \A d \in Callers : pc[d] \notin Holding /\ pc[d] \notin Served /\ lent[d] = None
  BY <1>1
<1>3. UNCHANGED <<died, holder, queue, gate, restarts, task, handle, backvars>>
  BY DEF take
<1>4. PICK p \in {"spawn", "handle"}, l \in {None} \cup [worker : Workers, count : Nat],
           S \in SUBSET Workers :
        /\ pc' = [pc EXCEPT ![c] = p] /\ lent' = [lent EXCEPT ![c] = l] /\ Dropped(S)
        /\ p = "handle" =>
             warm # None /\ l # None /\ l.worker = warm.worker /\ l.count = warm.count /\ S = {}
        /\ p = "spawn" => l = None /\ (warm = None \/ S = {warm.worker})
  <2>1. CASE /\ warm # None
             /\ lent' = [lent EXCEPT ![c] = [worker |-> warm.worker, count |-> warm.count]]
             /\ pc' = [pc EXCEPT ![c] = "handle"] /\ UNCHANGED procvars
    <3>1. PICK l \in [worker : Workers, count : Nat] : l = [worker |-> warm.worker, count |-> warm.count]
      BY <2>1
    <3>2. l # None /\ l.worker = warm.worker /\ l.count = warm.count
      BY <3>1
    <3>3. Dropped({})
      BY <2>1, DropWorker
    <3>4. QED
      BY <2>1, <3>1, <3>2, <3>3
  <2>2. CASE pc' = [pc EXCEPT ![c] = "spawn"] /\ UNCHANGED lent /\ warm # None /\ drop_worker(warm.worker)
    <3>1. lent' = [lent EXCEPT ![c] = None] /\ warm.worker \in Workers
      BY <1>2, <2>2
    <3>2. Dropped({warm.worker})
      BY <2>2, <3>1, DropWorker
    <3>3. QED
      BY <2>2, <3>1, <3>2
  <2>3. CASE pc' = [pc EXCEPT ![c] = "spawn"] /\ warm = None /\ UNCHANGED <<lent, procvars>>
    <3>1. lent' = [lent EXCEPT ![c] = None]
      BY <1>2, <2>3
    <3>2. Dropped({})
      BY <2>3, DropWorker
    <3>3. QED
      BY <2>3, <3>1, <3>2
  <2>4. QED
    BY <2>1, <2>2, <2>3 DEF take
<1>5. TypeOK'
  BY <1>1, <1>2, <1>3, <1>4 DEF Dropped
<1>6. Places'
  BY <1>1, <1>2, <1>3, <1>4 DEF Dropped
<1>7. Processes'
  <2>1. \A w \in Workers : proc[w] # "none" <=> warm # None /\ warm.worker = w
    BY <1>2 DEF Processes, Owned
  <2>2. CASE p = "handle"
    BY <1>1, <1>2, <1>4, <2>1, <2>2 DEF Processes, Owned, Dropped
  <2>3. CASE p = "spawn"
    BY <1>1, <1>2, <1>4, <2>1, <2>3 DEF Processes, Owned, Dropped
  <2>4. QED
    BY <2>2, <2>3
<1>8. Fit'
  BY <1>1, <1>2, <1>3, <1>4 DEF Fit, Dropped
<1>9. Watched'
  BY <1>1, <1>2, <1>3, <1>4 DEF Watched, Dropped
<1>10. Gated'
  BY <1>1, <1>2, <1>3, <1>4 DEF Gated, Dropped
<1>11. QED
  BY <1>5, <1>6, <1>7, <1>8, <1>9, <1>10

\* A worker is spawned for the dispatch that holds the mutex.
LEMMA SpawnWorker == ASSUME WarmInv, NEW c \in Callers, spawn_worker(c) PROVE WarmInv'
<1> USE Kinds DEF WarmInv, TypeOK, PCs, Places, Holding, Served, slotvars, procvars, backvars
<1>1. PICK v \in Workers : v = fresh_worker /\ proc[v] = "none"
  BY FreshOnes DEF spawn_worker
<1>2. PICK l \in [worker : Workers, count : Nat] : l = [worker |-> v, count |-> 0]
  OBVIOUS
<1>3. l # None /\ l.worker = v /\ l.count = 0
  BY <1>2
<1>4. /\ pc[c] = "spawn" /\ pc' = [pc EXCEPT ![c] = "handle"] /\ lent' = [lent EXCEPT ![c] = l]
      /\ proc' = [proc EXCEPT ![v] = "alive"]
      /\ UNCHANGED <<died, slotvars, aged, dog, calls, tainted, backvars>>
  BY <1>1, <1>2 DEF spawn_worker
<1>5. /\ holder = c /\ warm = None
      /\ \A d \in Callers \ {c} : pc[d] \notin Holding /\ pc[d] \notin Served /\ lent[d] = None
      /\ \A u \in Workers : proc[u] # "none" <=> lent[c] # None /\ lent[c].worker = u
  BY <1>4, Alone
<1>6. lent[c] = None /\ calls[v] = 0 /\ ~tainted[v] /\ dog[v] = "off"
  BY <1>1, <1>4 DEF Processes
<1>7. TypeOK'
  BY <1>3, <1>4, <1>5, <1>6
<1>8. Places'
  BY <1>3, <1>4, <1>5, <1>6
<1>9. Processes'
  BY <1>3, <1>4, <1>5, <1>6 DEF Processes, Owned
<1>10. Fit'
  BY <1>3, <1>4, <1>5, <1>6 DEF Fit
<1>11. Watched'
  BY <1>3, <1>4, <1>5, <1>6 DEF Watched
<1>12. Gated'
  BY <1>3, <1>4, <1>5, <1>6 DEF Gated
<1>13. QED
  BY <1>7, <1>8, <1>9, <1>10, <1>11, <1>12

\* The spawn fails, and the mutex goes on.
LEMMA SpawnFailed == ASSUME WarmInv, NEW c \in Callers, spawn_failed(c) PROVE WarmInv'
<1> USE Kinds DEF WarmInv, TypeOK, PCs, Places, Holding, Served, slotvars, procvars, backvars
<1>1. holder' \in Waiter \cup {None} /\ queue' \in Seq(Waiter)
  BY UnlockTyped DEF spawn_failed
<1>2. /\ pc[c] = "spawn" /\ pc' = [pc EXCEPT ![c] = "idle"]
      /\ UNCHANGED <<died, lent, warm, gate, restarts, task, handle, procvars, backvars>>
  BY DEF spawn_failed
<1>3. \A d \in Callers \ {c} : pc[d] \notin Holding /\ pc[d] \notin Served /\ lent[d] = None
  BY <1>2, Alone
<1>4. TypeOK'
  BY <1>1, <1>2, <1>3 DEF Waiter
<1>5. Places'
  BY <1>1, <1>2, <1>3 DEF Waiter
<1>6. Processes'
  BY <1>1, <1>2, <1>3 DEF Processes, Owned, Waiter
<1>7. Fit'
  BY <1>1, <1>2, <1>3 DEF Fit, Waiter
<1>8. Watched'
  BY <1>1, <1>2, <1>3 DEF Watched, Waiter
<1>9. Gated'
  BY <1>1, <1>2, <1>3 DEF Gated, Waiter
<1>10. QED
  BY <1>4, <1>5, <1>6, <1>7, <1>8, <1>9

\* The worker is called, its watchdog armed for this call.
LEMMA Call == ASSUME WarmInv, NEW c \in Callers, call(c) PROVE WarmInv'
<1> USE Kinds DEF WarmInv, TypeOK, PCs, Places, Holding, Served, slotvars, procvars, backvars
<1>1. pc[c] \in Served /\ lent[c] \in [worker : Workers, count : Nat]
  BY DEF call
<1>2. PICK v \in Workers : v = lent[c].worker
  BY <1>1
<1>3. \A d \in Callers \ {c} : pc[d] \notin Holding /\ pc[d] \notin Served /\ lent[d] = None
  BY <1>1, Alone
<1>4. TypeOK'
  BY <1>1, <1>2, <1>3 DEF call, armed
<1>5. Places'
  BY <1>1, <1>2, <1>3 DEF call, armed
<1>6. Processes'
  BY <1>1, <1>2, <1>3 DEF Processes, Owned, call, armed
<1>7. Fit'
  BY <1>1, <1>2, <1>3 DEF Fit, call, armed
<1>8. Watched'
  BY <1>1, <1>2, <1>3 DEF Watched, call, armed
<1>9. Gated'
  BY <1>1, <1>2, <1>3 DEF Gated, call, armed
<1>10. QED
  BY <1>4, <1>5, <1>6, <1>7, <1>8, <1>9

\* The dispatch ends before its call.
LEMMA Denied == ASSUME WarmInv, NEW c \in Callers, denied(c) PROVE WarmInv'
<1> USE Kinds DEF WarmInv, TypeOK, PCs, Places, Holding, Served, slotvars, procvars, backvars
<1>1. pc[c] \in Served /\ lent[c] \in [worker : Workers, count : Nat]
  BY DEF denied
<1>2. PICK v \in Workers : v = lent[c].worker
  BY <1>1
<1>3. \A d \in Callers \ {c} : pc[d] \notin Holding /\ pc[d] \notin Served /\ lent[d] = None
  BY <1>1, Alone
<1>4. TypeOK'
  BY <1>1, <1>2, <1>3 DEF denied
<1>5. Places'
  BY <1>1, <1>2, <1>3 DEF denied
<1>6. Processes'
  BY <1>1, <1>2, <1>3 DEF Processes, Owned, denied
<1>7. Fit'
  BY <1>1, <1>2, <1>3 DEF Fit, denied
<1>8. Watched'
  BY <1>1, <1>2, <1>3 DEF Watched, denied
<1>9. Gated'
  BY <1>1, <1>2, <1>3 DEF Gated, denied
<1>10. QED
  BY <1>4, <1>5, <1>6, <1>7, <1>8, <1>9

\* The client reads the answer or the end of the stream.
LEMMA Answer == ASSUME WarmInv, NEW c \in Callers, NEW r \in {"ok", "rpc_error", "garbled", "early_exit"}, answer(c, r) PROVE WarmInv'
<1> USE Kinds DEF WarmInv, TypeOK, PCs, Places, Holding, Served, slotvars, procvars, backvars
<1>1. pc[c] \in Served /\ lent[c] \in [worker : Workers, count : Nat]
  BY DEF answer
<1>2. PICK v \in Workers : v = lent[c].worker
  BY <1>1
<1>3. \A d \in Callers \ {c} : pc[d] \notin Holding /\ pc[d] \notin Served /\ lent[d] = None
  BY <1>1, Alone

<1>4. /\ pc[c] = "call" /\ pc' = [pc EXCEPT ![c] = "read"]
      /\ UNCHANGED <<lent, slotvars, proc, aged, dog, calls, backvars>>
  BY DEF answer
<1>5. PICK b \in BOOLEAN : died' = [died EXCEPT ![c] = b] /\ tainted' = [tainted EXCEPT ![v] = b]
  <2> DEFINE b == r \in {"early_exit", "garbled"}
  <2>1. died' = [died EXCEPT ![c] = b] /\ tainted' = [tainted EXCEPT ![v] = b]
    BY <1>2 DEF answer, dispatch_indicates_worker_dead
  <2>2. b \in BOOLEAN
    OBVIOUS
  <2> HIDE DEF b
  <2>3. QED
    BY <2>1, <2>2
<1>6. TypeOK'
  BY <1>1, <1>2, <1>3, <1>4, <1>5
<1>7. Places'
  BY <1>1, <1>2, <1>3, <1>4, <1>5
<1>8. Processes'
  BY <1>1, <1>2, <1>3, <1>4, <1>5 DEF Processes, Owned
<1>9. Fit'
  BY <1>1, <1>2, <1>3, <1>4, <1>5 DEF Fit
<1>10. Watched'
  BY <1>1, <1>2, <1>3, <1>4, <1>5 DEF Watched
<1>11. Gated'
  BY <1>1, <1>2, <1>3, <1>4, <1>5 DEF Gated
<1>12. QED
  BY <1>6, <1>7, <1>8, <1>9, <1>10, <1>11

\* The call returns and its watchdog is disarmed.
LEMMA CallReturns == ASSUME WarmInv, NEW c \in Callers, call_returns(c) PROVE WarmInv'
<1> USE Kinds DEF WarmInv, TypeOK, PCs, Places, Holding, Served, slotvars, procvars, backvars
<1>1. pc[c] \in Served /\ lent[c] \in [worker : Workers, count : Nat]
  BY DEF call_returns
<1>2. PICK v \in Workers : v = lent[c].worker
  BY <1>1
<1>3. \A d \in Callers \ {c} : pc[d] \notin Holding /\ pc[d] \notin Served /\ lent[d] = None
  BY <1>1, Alone
<1>4. TypeOK'
  BY <1>1, <1>2, <1>3 DEF call_returns, disarmed
<1>5. Places'
  BY <1>1, <1>2, <1>3 DEF call_returns, disarmed
<1>6. Processes'
  BY <1>1, <1>2, <1>3 DEF Processes, Owned, call_returns, disarmed
<1>7. Fit'
  BY <1>1, <1>2, <1>3 DEF Fit, call_returns, disarmed
<1>8. Watched'
  BY <1>1, <1>2, <1>3 DEF Watched, call_returns, disarmed
<1>9. Gated'
  BY <1>1, <1>2, <1>3 DEF Gated, call_returns, disarmed
<1>10. QED
  BY <1>4, <1>5, <1>6, <1>7, <1>8, <1>9

\* A dead worker is dropped and the gate set.
LEMMA ReleaseCrashed == ASSUME WarmInv, NEW c \in Callers, release_crashed(c) PROVE WarmInv'
<1> USE Kinds DEF WarmInv, TypeOK, PCs, Places, Holding, Served, slotvars, procvars, backvars
<1>1. pc[c] = "done" /\ lent[c] \in [worker : Workers, count : Nat]
  BY DEF release_crashed, handed_back
<1>2. PICK v \in Workers : v = lent[c].worker
  BY <1>1
<1>3. /\ holder = c /\ warm = None
      /\ \A d \in Callers \ {c} : pc[d] \notin Holding /\ pc[d] \notin Served /\ lent[d] = None
      /\ \A u \in Workers : proc[u] # "none" <=> u = v
  BY <1>1, <1>2, Alone
<1>4. /\ pc' = [pc EXCEPT ![c] = "idle"] /\ lent' = [lent EXCEPT ![c] = None]
      /\ died' = [died EXCEPT ![c] = FALSE]
  BY DEF release_crashed, handed_back
<1>5. holder' \in Waiter \cup {None} /\ queue' \in Seq(Waiter)
  BY UnlockTyped DEF release_crashed, handed_back

<1>6. Dropped({v}) /\ warm' = None /\ handle' = None
  BY <1>2, DropWorker DEF release_crashed
<1>7. task' \in [Instants -> {"none", "sleep", "awake", "queued", "doomed"}]
  BY AbortedTyped DEF release_crashed
<1>8. PICK k \in 0 .. RestartBound : k = restarts /\ k = crashes
  BY DEF Gated
<1>9. restarts' = bounded(k + 1) /\ crashes' = bounded(k + 1) /\ bounded(k + 1) \in 0 .. RestartBound
  BY <1>8 DEF release_crashed, bounded
<1>10. gate' = next_delay(k) /\ owed' = next_delay(k) /\ next_delay(k) \in 0 .. Cap
  <2>1. k \in Nat /\ Uncapped[k] \in Nat /\ Cap \in Nat
    BY UncappedUnfolds
  <2>2. owed' = IF Uncapped[k] < Cap THEN Uncapped[k] ELSE Cap
    BY <1>8 DEF release_crashed
  <2>3. next_delay(k) = IF Uncapped[k] < Cap THEN Uncapped[k] ELSE Cap
    BY <2>1, DelayIsCapped
  <2>4. gate' = next_delay(k)
    BY <1>8 DEF release_crashed
  <2>5. QED
    BY <2>1, <2>2, <2>3, <2>4
<1>11. /\ \A u \in Workers : proc'[u] = "none" /\ calls'[u] = 0 /\ ~tainted'[u] /\ dog'[u] = "off"
      /\ \A d \in Callers : lent'[d] = None /\ pc'[d] \notin Served
  BY <1>3, <1>4, <1>6 DEF Dropped, Processes
<1>12. TypeOK'
  BY <1>1, <1>2, <1>3, <1>4, <1>5, <1>6, <1>7, <1>8, <1>9, <1>10 DEF Dropped, Waiter
<1>13. Places'
  BY <1>1, <1>2, <1>3, <1>4, <1>5, <1>6, <1>7, <1>8, <1>9, <1>10 DEF Dropped, Waiter
<1>14. Processes'
  BY <1>6, <1>11 DEF Processes, Owned
<1>15. Fit'
  BY <1>6, <1>11 DEF Fit
<1>16. Watched'
  BY <1>11 DEF Watched
<1>17. Gated'
  BY <1>1, <1>2, <1>3, <1>4, <1>5, <1>6, <1>7, <1>8, <1>9, <1>10 DEF Gated, Dropped, Waiter
<1>18. QED
  BY <1>12, <1>13, <1>14, <1>15, <1>16, <1>17

\* A worker at one of its caps is dropped.
LEMMA ReleaseCapped == ASSUME WarmInv, NEW c \in Callers, release_capped(c) PROVE WarmInv'
<1> USE Kinds DEF WarmInv, TypeOK, PCs, Places, Holding, Served, slotvars, procvars, backvars
<1>1. pc[c] = "done" /\ lent[c] \in [worker : Workers, count : Nat]
  BY DEF release_capped, clean, handed_back
<1>2. PICK v \in Workers : v = lent[c].worker
  BY <1>1
<1>3. /\ holder = c /\ warm = None
      /\ \A d \in Callers \ {c} : pc[d] \notin Holding /\ pc[d] \notin Served /\ lent[d] = None
      /\ \A u \in Workers : proc[u] # "none" <=> u = v
  BY <1>1, <1>2, Alone
<1>4. /\ pc' = [pc EXCEPT ![c] = "idle"] /\ lent' = [lent EXCEPT ![c] = None]
      /\ died' = [died EXCEPT ![c] = FALSE]
  BY DEF release_capped, clean, handed_back
<1>5. holder' \in Waiter \cup {None} /\ queue' \in Seq(Waiter)
  BY UnlockTyped DEF release_capped, clean, handed_back

<1>6. Dropped({v}) /\ warm' = None /\ handle' = None
  BY <1>2, DropWorker DEF release_capped
<1>7. task' \in [Instants -> {"none", "sleep", "awake", "queued", "doomed"}]
  BY AbortedTyped DEF release_capped
<1>8. restarts' = 0 /\ gate' = 0 /\ crashes' = 0 /\ owed' = 0
  BY DEF release_capped, clean
<1>9. /\ \A u \in Workers : proc'[u] = "none" /\ calls'[u] = 0 /\ ~tainted'[u] /\ dog'[u] = "off"
      /\ \A d \in Callers : lent'[d] = None /\ pc'[d] \notin Served
  BY <1>3, <1>4, <1>6 DEF Dropped, Processes
<1>10. TypeOK'
  BY <1>1, <1>2, <1>3, <1>4, <1>5, <1>6, <1>7, <1>8 DEF Dropped, Waiter
<1>11. Places'
  BY <1>1, <1>2, <1>3, <1>4, <1>5, <1>6, <1>7, <1>8 DEF Dropped, Waiter
<1>12. Processes'
  BY <1>6, <1>9 DEF Processes, Owned
<1>13. Fit'
  BY <1>6, <1>9 DEF Fit
<1>14. Watched'
  BY <1>9 DEF Watched
<1>15. Gated'
  BY <1>1, <1>2, <1>3, <1>4, <1>5, <1>6, <1>7, <1>8 DEF Gated, Dropped, Waiter
<1>16. QED
  BY <1>10, <1>11, <1>12, <1>13, <1>14, <1>15

\* A worker with calls left goes back into the slot.
LEMMA ReleaseWarm == ASSUME WarmInv, NEW c \in Callers, release_warm(c) PROVE WarmInv'
<1> USE Kinds DEF WarmInv, TypeOK, PCs, Places, Holding, Served, slotvars, procvars, backvars
<1>1. pc[c] = "done" /\ lent[c] \in [worker : Workers, count : Nat]
  BY DEF release_warm, clean, handed_back
<1>2. PICK v \in Workers : v = lent[c].worker
  BY <1>1
<1>3. /\ holder = c /\ warm = None
      /\ \A d \in Callers \ {c} : pc[d] \notin Holding /\ pc[d] \notin Served /\ lent[d] = None
      /\ \A u \in Workers : proc[u] # "none" <=> u = v
  BY <1>1, <1>2, Alone
<1>4. /\ pc' = [pc EXCEPT ![c] = "idle"] /\ lent' = [lent EXCEPT ![c] = None]
      /\ died' = [died EXCEPT ![c] = FALSE]
  BY DEF release_warm, clean, handed_back
<1>5. holder' \in Waiter \cup {None} /\ queue' \in Seq(Waiter)
  BY UnlockTyped DEF release_warm, clean, handed_back

<1>6. PICK i \in Instants : i = fresh_instant
  BY FreshOnes DEF release_warm
<1>7. PICK n \in Nat : n = lent[c].count
  BY <1>1
<1>8. PICK s \in [worker : Workers, count : Nat, at : Instants] :
        warm' = s /\ s.worker = v /\ s.count = n + 1
  <2>1. warm' = [worker |-> v, count |-> n + 1, at |-> i]
    BY <1>2, <1>6, <1>7 DEF release_warm
  <2>2. [worker |-> v, count |-> n + 1, at |-> i] \in [worker : Workers, count : Nat, at : Instants]
    OBVIOUS
  <2>3. QED
    BY <2>1, <2>2
<1>9. s # None
  OBVIOUS
<1>10. ~died[c] /\ (MaxRequests > 0 => n + 1 < MaxRequests)
  BY <1>7 DEF release_warm, clean, retire, is_request_capped
<1>11. calls[v] <= n + 1 /\ ~tainted[v] /\ UNCHANGED procvars
  BY <1>1, <1>2, <1>7, <1>10 DEF Fit, release_warm
<1>12. task' \in [Instants -> {"none", "sleep", "awake", "queued", "doomed"}]
  <2>1. PICK t \in [Instants -> {"none", "sleep", "awake", "queued", "doomed"}] : t = aborted(task)
    BY AbortedTyped
  <2>2. task' = [t EXCEPT ![i] = IF HasIdle THEN "sleep" ELSE @]
    BY <1>6, <2>1 DEF release_warm
  <2>3. QED
    BY <2>1, <2>2
<1>13. restarts' = 0 /\ gate' = 0 /\ crashes' = 0 /\ owed' = 0 /\ handle' \in Instants \cup {None}
  BY <1>6 DEF release_warm, clean
<1>14. TypeOK'
  BY <1>1, <1>2, <1>3, <1>4, <1>5, <1>8, <1>9, <1>10, <1>11, <1>12, <1>13 DEF Waiter
<1>15. Places'
  BY <1>1, <1>2, <1>3, <1>4, <1>5, <1>8, <1>9, <1>10, <1>11, <1>12, <1>13 DEF Waiter
<1>16. Processes'
  BY <1>1, <1>2, <1>3, <1>4, <1>5, <1>8, <1>9, <1>10, <1>11, <1>12, <1>13 DEF Processes,
     Owned, Waiter
<1>17. Fit'
  BY <1>1, <1>2, <1>3, <1>4, <1>5, <1>8, <1>9, <1>10, <1>11, <1>12, <1>13 DEF Fit, Waiter
<1>18. Watched'
  BY <1>1, <1>2, <1>3, <1>4, <1>5, <1>8, <1>9, <1>10, <1>11, <1>12, <1>13 DEF Watched, Waiter
<1>19. Gated'
  BY <1>1, <1>2, <1>3, <1>4, <1>5, <1>8, <1>9, <1>10, <1>11, <1>12, <1>13 DEF Gated, Waiter
<1>20. QED
  BY <1>14, <1>15, <1>16, <1>17, <1>18, <1>19

\* The deadline of a call passes.
LEMMA Deadline == ASSUME WarmInv, NEW w \in Workers, deadline(w) PROVE WarmInv'
<1> USE Kinds DEF WarmInv, TypeOK, PCs, Places, Holding, Served, slotvars, procvars, backvars
<1>1. TypeOK'
  BY DEF deadline
<1>2. Places'
  BY DEF deadline
<1>3. Processes'
  BY DEF Processes, Owned, deadline
<1>4. Fit'
  BY DEF Fit, deadline
<1>5. Watched'
  BY DEF Watched, deadline
<1>6. Gated'
  BY DEF Gated, deadline
<1>7. QED
  BY <1>1, <1>2, <1>3, <1>4, <1>5, <1>6

\* The watchdog kills.
LEMMA WatchdogFires == ASSUME WarmInv, NEW w \in Workers, watchdog_fires(w) PROVE WarmInv'
<1> USE Kinds DEF WarmInv, TypeOK, PCs, Places, Holding, Served, slotvars, procvars, backvars
<1>1. TypeOK'
  BY DEF watchdog_fires
<1>2. Places'
  BY DEF watchdog_fires
<1>3. Processes'
  BY DEF Processes, Owned, watchdog_fires
<1>4. Fit'
  BY DEF Fit, watchdog_fires
<1>5. Watched'
  BY DEF Watched, watchdog_fires
<1>6. Gated'
  BY DEF Gated, watchdog_fires
<1>7. QED
  BY <1>1, <1>2, <1>3, <1>4, <1>5, <1>6

\* A worker exits by itself.
LEMMA WorkerExits == ASSUME WarmInv, NEW w \in Workers, worker_exits(w) PROVE WarmInv'
<1> USE Kinds DEF WarmInv, TypeOK, PCs, Places, Holding, Served, slotvars, procvars, backvars
<1>1. TypeOK'
  BY DEF worker_exits
<1>2. Places'
  BY DEF worker_exits
<1>3. Processes'
  BY DEF Processes, Owned, worker_exits
<1>4. Fit'
  BY DEF Fit, worker_exits
<1>5. Watched'
  BY DEF Watched, worker_exits
<1>6. Gated'
  BY DEF Gated, worker_exits
<1>7. QED
  BY <1>1, <1>2, <1>3, <1>4, <1>5, <1>6

\* A worker grows too old.
LEMMA Ages == ASSUME WarmInv, NEW w \in Workers, ages(w) PROVE WarmInv'
<1> USE Kinds DEF WarmInv, TypeOK, PCs, Places, Holding, Served, slotvars, procvars, backvars
<1>1. TypeOK'
  BY DEF ages
<1>2. Places'
  BY DEF ages
<1>3. Processes'
  BY DEF Processes, Owned, ages
<1>4. Fit'
  BY DEF Fit, ages
<1>5. Watched'
  BY DEF Watched, ages
<1>6. Gated'
  BY DEF Gated, ages
<1>7. QED
  BY <1>1, <1>2, <1>3, <1>4, <1>5, <1>6

\* A teardown task has slept.
LEMMA Wake == ASSUME WarmInv, NEW i \in Instants, wake(i) PROVE WarmInv'
<1> USE Kinds DEF WarmInv, TypeOK, PCs, Places, Holding, Served, slotvars, procvars, backvars
<1>1. TypeOK'
  BY DEF wake
<1>2. Places'
  BY DEF wake
<1>3. Processes'
  BY DEF Processes, Owned, wake
<1>4. Fit'
  BY DEF Fit, wake
<1>5. Watched'
  BY DEF Watched, wake
<1>6. Gated'
  BY DEF Gated, wake
<1>7. QED
  BY <1>1, <1>2, <1>3, <1>4, <1>5, <1>6

\* A teardown task finds the mutex taken.
LEMMA TeardownWaits == ASSUME WarmInv, NEW i \in Instants, teardown_waits(i) PROVE WarmInv'
<1> USE Kinds DEF WarmInv, TypeOK, PCs, Places, Holding, Served, slotvars, procvars, backvars
<1>1. holder' = holder /\ queue' \in Seq(Waiter)
  <2>1. i \in Waiter
    BY DEF Waiter
  <2>2. QED
    BY <2>1, LockTyped DEF teardown_waits, Waiter
<1>2. UNCHANGED <<pc, died, lent, warm, gate, restarts, handle, procvars, backvars>>
  BY DEF teardown_waits
<1>3. task' \in [Instants -> {"none", "sleep", "awake", "queued", "doomed"}]
  BY DEF teardown_waits
<1>4. TypeOK'
  BY <1>1, <1>2, <1>3 DEF Waiter
<1>5. Places'
  BY <1>1, <1>2, <1>3 DEF Waiter
<1>6. Processes'
  BY <1>1, <1>2, <1>3 DEF Processes, Owned, Waiter
<1>7. Fit'
  BY <1>1, <1>2, <1>3 DEF Fit, Waiter
<1>8. Watched'
  BY <1>1, <1>2, <1>3 DEF Watched, Waiter
<1>9. Gated'
  BY <1>1, <1>2, <1>3 DEF Gated, Waiter
<1>10. QED
  BY <1>4, <1>5, <1>6, <1>7, <1>8, <1>9

\* A teardown task finds the mutex free.
LEMMA TeardownAtOnce == ASSUME WarmInv, NEW i \in Instants, teardown_at_once(i) PROVE WarmInv'
<1> USE Kinds DEF WarmInv, TypeOK, PCs, Places, Holding, Served, slotvars, procvars, backvars
<1>1. holder \notin Callers /\ holder' \in Waiter \cup {None} /\ queue' \in Seq(Waiter)
  BY DEF teardown_at_once, Waiter
<1>2. /\ \A c \in Callers : pc[c] \notin Holding /\ pc[c] \notin Served /\ lent[c] = None
      /\ \A u \in Workers : proc[u] # "none" <=> warm # None /\ warm.worker = u
  BY <1>1, NobodyServed
<1>3. /\ task' \in [Instants -> {"none", "sleep", "awake", "queued", "doomed"}]
      /\ UNCHANGED <<pc, died, lent, gate, restarts, backvars>>
  BY DEF teardown_at_once, teardown
<1>4. PICK S \in SUBSET Workers :
        /\ Dropped(S) /\ handle' \in {handle, None}
        /\ \/ warm' = warm /\ S = {}
           \/ warm' = None /\ S = {warm.worker}
  <2>1. CASE unused_since(i)
    <3>1. warm # None /\ drop_worker(warm.worker) /\ warm' = None /\ handle' = None
      BY <2>1 DEF teardown_at_once, teardown, unused_since
    <3>2. warm.worker \in Workers
      BY <3>1
    <3>3. Dropped({warm.worker})
      BY <3>1, <3>2, DropWorker
    <3>4. QED
      BY <3>1, <3>2, <3>3
  <2>2. CASE ~unused_since(i)
    <3>1. UNCHANGED <<procvars, warm, handle>>
      BY <2>2 DEF teardown_at_once, teardown
    <3>2. Dropped({})
      BY <3>1, DropWorker
    <3>3. QED
      BY <3>1, <3>2
  <2>3. QED
    BY <2>1, <2>2
<1>5. TypeOK'
  BY <1>1, <1>2, <1>3, <1>4 DEF Dropped, Waiter
<1>6. Places'
  BY <1>1, <1>2, <1>3, <1>4 DEF Dropped, Waiter
<1>7. Processes'
  BY <1>1, <1>2, <1>3, <1>4 DEF Processes, Owned, Dropped, Waiter
<1>8. Fit'
  BY <1>1, <1>2, <1>3, <1>4 DEF Fit, Dropped, Waiter
<1>9. Watched'
  BY <1>1, <1>2, <1>3, <1>4 DEF Watched, Dropped, Waiter
<1>10. Gated'
  BY <1>1, <1>2, <1>3, <1>4 DEF Gated, Dropped, Waiter
<1>11. QED
  BY <1>5, <1>6, <1>7, <1>8, <1>9, <1>10

\* A teardown task is handed the mutex.
LEMMA TeardownLocked == ASSUME WarmInv, NEW i \in Instants, teardown_locked(i) PROVE WarmInv'
<1> USE Kinds DEF WarmInv, TypeOK, PCs, Places, Holding, Served, slotvars, procvars, backvars
<1>1. holder \notin Callers /\ holder' \in Waiter \cup {None} /\ queue' \in Seq(Waiter)
  <2>1. holder' \in Waiter \cup {None} /\ queue' \in Seq(Waiter)
    BY UnlockTyped DEF teardown_locked
  <2>2. QED
    BY <2>1 DEF teardown_locked
<1>2. /\ \A c \in Callers : pc[c] \notin Holding /\ pc[c] \notin Served /\ lent[c] = None
      /\ \A u \in Workers : proc[u] # "none" <=> warm # None /\ warm.worker = u
  BY <1>1, NobodyServed
<1>3. /\ task' \in [Instants -> {"none", "sleep", "awake", "queued", "doomed"}]
      /\ UNCHANGED <<pc, died, lent, gate, restarts, backvars>>
  BY DEF teardown_locked, teardown
<1>4. PICK S \in SUBSET Workers :
        /\ Dropped(S) /\ handle' \in {handle, None}
        /\ \/ warm' = warm /\ S = {}
           \/ warm' = None /\ S = {warm.worker}
  <2>1. CASE unused_since(i)
    <3>1. warm # None /\ drop_worker(warm.worker) /\ warm' = None /\ handle' = None
      BY <2>1 DEF teardown_locked, teardown, unused_since
    <3>2. warm.worker \in Workers
      BY <3>1
    <3>3. Dropped({warm.worker})
      BY <3>1, <3>2, DropWorker
    <3>4. QED
      BY <3>1, <3>2, <3>3
  <2>2. CASE ~unused_since(i)
    <3>1. UNCHANGED <<procvars, warm, handle>>
      BY <2>2 DEF teardown_locked, teardown
    <3>2. Dropped({})
      BY <3>1, DropWorker
    <3>3. QED
      BY <3>1, <3>2
  <2>3. QED
    BY <2>1, <2>2
<1>5. TypeOK'
  BY <1>1, <1>2, <1>3, <1>4 DEF Dropped, Waiter
<1>6. Places'
  BY <1>1, <1>2, <1>3, <1>4 DEF Dropped, Waiter
<1>7. Processes'
  BY <1>1, <1>2, <1>3, <1>4 DEF Processes, Owned, Dropped, Waiter
<1>8. Fit'
  BY <1>1, <1>2, <1>3, <1>4 DEF Fit, Dropped, Waiter
<1>9. Watched'
  BY <1>1, <1>2, <1>3, <1>4 DEF Watched, Dropped, Waiter
<1>10. Gated'
  BY <1>1, <1>2, <1>3, <1>4 DEF Gated, Dropped, Waiter
<1>11. QED
  BY <1>5, <1>6, <1>7, <1>8, <1>9, <1>10

\* Time passes.
LEMMA Tick == ASSUME WarmInv, tick PROVE WarmInv'
<1> USE Kinds DEF WarmInv, TypeOK, PCs, Places, Holding, Served, slotvars, procvars, backvars
<1>1. TypeOK'
  BY DEF tick
<1>2. Places'
  BY DEF tick
<1>3. Processes'
  BY DEF Processes, Owned, tick
<1>4. Fit'
  BY DEF Fit, tick
<1>5. Watched'
  BY DEF Watched, tick
<1>6. Gated'
  BY DEF Gated, tick
<1>7. QED
  BY <1>1, <1>2, <1>3, <1>4, <1>5, <1>6


-----------------------------------------------------------------------------
(* The results. *)

\* The tool is cold and nobody waits for it.
LEMMA WarmInit == Init => WarmInv
<1> SUFFICES ASSUME Init PROVE WarmInv
  OBVIOUS
<1>1. TypeOK
  BY Kinds DEF Init, TypeOK, PCs
<1>2. Places /\ Processes /\ Fit /\ Watched /\ Gated
  BY DEF Init, Places, Processes, Owned, Fit, Watched, Gated, Holding, Served
<1>3. QED
  BY <1>1, <1>2 DEF WarmInv

\* Nothing happens.
LEMMA WarmStutters == ASSUME WarmInv, UNCHANGED vars PROVE WarmInv'
<1> USE DEF WarmInv, vars, slotvars, procvars, backvars
<1>1. TypeOK'
  BY DEF TypeOK
<1>2. Places' /\ Processes'
  BY DEF Places, Processes, Owned
<1>3. Fit' /\ Watched' /\ Gated'
  BY DEF Fit, Watched, Gated
<1>4. QED
  BY <1>1, <1>2, <1>3

\* Every step keeps the invariant.
LEMMA WarmStep == WarmInv /\ [Next]_vars => WarmInv'
<1> SUFFICES ASSUME WarmInv, [Next]_vars PROVE WarmInv'
  OBVIOUS
<1>1. ASSUME NEW c \in Callers, acquire(c) \/ take(c) \/ spawn_worker(c) \/ spawn_failed(c)
      PROVE  WarmInv'
  BY <1>1, Acquire, Take, SpawnWorker, SpawnFailed
<1>2. ASSUME NEW c \in Callers,
             \/ call(c) \/ denied(c) \/ call_returns(c)
             \/ \E r \in {"ok", "rpc_error", "garbled", "early_exit"} : answer(c, r)
      PROVE  WarmInv'
  BY <1>2, Call, Denied, CallReturns, Answer
<1>3. ASSUME NEW c \in Callers, release(c) PROVE WarmInv'
  BY <1>3, ReleaseCrashed, ReleaseCapped, ReleaseWarm DEF release
<1>4. ASSUME NEW w \in Workers, deadline(w) \/ watchdog_fires(w) \/ worker_exits(w) \/ ages(w)
      PROVE  WarmInv'
  BY <1>4, Deadline, WatchdogFires, WorkerExits, Ages
<1>5. ASSUME NEW i \in Instants,
             wake(i) \/ teardown_at_once(i) \/ teardown_waits(i) \/ teardown_locked(i)
      PROVE  WarmInv'
  BY <1>5, Wake, TeardownAtOnce, TeardownWaits, TeardownLocked
<1>6. QED
  BY <1>1, <1>2, <1>3, <1>4, <1>5, Tick, WarmStutters DEF Next

\* The slot, its mutex, the handles and the processes stay in step, whatever
\* dispatches, teardown tasks, watchdogs and worker exits interleave
\* (idle_timeout.rs `acquire_impl', release.rs, watchdog.rs).
THEOREM WarmInvariant == Spec => []WarmInv
<1>1. QED
  BY WarmInit, WarmStep, PTL DEF Spec

\* The tool never has two workers: one idle in the slot, or one lent to the
\* dispatch that holds the mutex (idle_timeout.rs, manager.rs `WorkerHandle').
THEOREM OnlyOneWorker == Spec => []OneWorkerPerTool
<1>1. ASSUME WarmInv PROVE \A c \in Callers : lent[c] # None => holder = c /\ warm = None
  BY <1>1 DEF WarmInv, Places, Holding, Served
<1>2. ASSUME WarmInv PROVE Cardinality({w \in Workers : proc[w] # "none"}) <= 1
  <2> DEFINE L == {w \in Workers : proc[w] # "none"}
  <2>1. L = {} \/ \E v \in Workers : L = {v}
    <3>1. CASE \E c \in Callers : lent[c] # None
      <4>1. PICK c \in Callers : lent[c] # None
        BY <3>1
      <4>2. pc[c] \in Holding
        BY <1>2, <4>1 DEF WarmInv, Places, Holding, Served
      <4>3. \A w \in Workers : proc[w] # "none" <=> lent[c].worker = w
        BY <1>2, <4>1, <4>2, Alone
      <4>4. lent[c].worker \in Workers
        BY <1>2, <4>1 DEF WarmInv, TypeOK
      <4>5. QED
        BY <4>3, <4>4
    <3>2. CASE (\A c \in Callers : lent[c] = None) /\ warm # None
      <4>1. warm.worker \in Workers
        BY <1>2, <3>2 DEF WarmInv, TypeOK
      <4>2. QED
        BY <1>2, <3>2, <4>1 DEF WarmInv, Processes, Owned
    <3>3. CASE (\A c \in Callers : lent[c] = None) /\ warm = None
      BY <1>2, <3>3 DEF WarmInv, Processes, Owned
    <3>4. QED
      BY <3>1, <3>2, <3>3
  <2>2. Cardinality({}) = 0
    BY FS_EmptySet
  <2>3. \A v : Cardinality({v}) = 1
    BY FS_Singleton
  <2> HIDE DEF L
  <2>4. Cardinality(L) <= 1
    BY <2>1, <2>2, <2>3
  <2>5. QED
    BY <2>4 DEF L
<1>3. WarmInv => OneWorkerPerTool
  BY <1>1, <1>2 DEF OneWorkerPerTool, WarmInv
<1>4. QED
  BY <1>3, WarmInvariant, PTL

\* A worker left warm never answered out of step and has a call left of its
\* max_requests (liveness.rs `dispatch_indicates_worker_dead', release.rs).
THEOREM WarmWorkersAreFit == Spec => []FitForReuse
<1>1. ASSUME WarmInv, warm # None
      PROVE  ~tainted[warm.worker] /\ (MaxRequests > 0 => calls[warm.worker] < MaxRequests)
  BY <1>1, Kinds DEF WarmInv, TypeOK, Fit
<1>2. WarmInv => FitForReuse
  BY <1>1 DEF FitForReuse
<1>3. QED
  BY <1>2, WarmInvariant, PTL

\* After each crash the tool stays down for the whole delay that crash earned
\* (release.rs crash branch, idle_timeout.rs `next_delay').
THEOREM EveryDelayIsServed == Spec => []BackoffServed
<1>1. WarmInv => BackoffServed
  BY DEF WarmInv, Gated, BackoffServed
<1>2. QED
  BY <1>1, WarmInvariant, PTL

\* The watchdog kills only a worker whose call is running (watchdog.rs
\* `arm_scope', `ArmGuard').
THEOREM WatchdogStaysInItsCall == Spec => KillsOnlyInCall
<1> DEFINE InCall == \A w \in Workers :
             dog[w] = "late" /\ dog'[w] = "off" /\ proc'[w] = "dead" =>
               \E c \in Callers : pc[c] \in {"call", "read"} /\ lent[c].worker = w
<1>1. WarmInv /\ [Next]_vars => [InCall]_vars
  BY DEF WarmInv, Watched
<1>2. KillsOnlyInCall <=> [][InCall]_vars
  BY PTL DEF KillsOnlyInCall
<1> HIDE DEF InCall
<1>3. QED
  BY <1>1, <1>2, WarmInvariant, PTL DEF Spec

\* A teardown task takes the worker only after the task of its own last release
\* has slept through (release.rs `replace_idle_teardown_handle').
THEOREM TeardownWaitsItsPeriod == Spec => IdleForWholePeriod
<1> DEFINE Slept == warm # None /\ warm' = None /\ lent' = lent /\ pc' = pc => task[warm.at] # "sleep"
<1>1. WarmInv /\ [Next]_vars => [Slept]_vars
  <2> SUFFICES ASSUME WarmInv, Next, warm # None, warm' = None, lent' = lent, pc' = pc
               PROVE  task[warm.at] # "sleep"
    OBVIOUS
  <2>1. ASSUME NEW i \in Instants, teardown(i), task[i] # "sleep" PROVE task[warm.at] # "sleep"
    BY <2>1, Kinds DEF teardown, unused_since
  <2>2. ASSUME NEW c \in Callers, pc'[c] # pc[c] PROVE FALSE
    BY <2>2
  <2>3. ASSUME NEW c \in Callers,
               \/ acquire(c) \/ spawn_worker(c) \/ spawn_failed(c) \/ call(c) \/ denied(c)
               \/ \E r \in {"ok", "rpc_error", "garbled", "early_exit"} : answer(c, r)
               \/ call_returns(c) \/ release(c) \/ take(c)
        PROVE  FALSE
    <3>1. pc'[c] # pc[c]
      BY <2>3 DEF WarmInv, TypeOK, acquire, spawn_worker, spawn_failed, call, denied, answer,
           call_returns, release, release_crashed, release_capped, release_warm, clean,
           handed_back, take
    <3>2. QED
      BY <2>2, <3>1
  <2>4. ASSUME warm' = warm PROVE FALSE
    BY <2>4
  <2>5. ASSUME NEW w \in Workers, deadline(w) \/ watchdog_fires(w) \/ worker_exits(w) \/ ages(w)
        PROVE  FALSE
    BY <2>4, <2>5 DEF deadline, watchdog_fires, worker_exits, ages, slotvars
  <2>6. ASSUME NEW i \in Instants, wake(i) \/ teardown_waits(i) PROVE FALSE
    BY <2>4, <2>6 DEF wake, teardown_waits
  <2>7. ASSUME tick PROVE FALSE
    BY <2>4, <2>7 DEF tick
  <2>8. ASSUME NEW i \in Instants, teardown_at_once(i) \/ teardown_locked(i)
        PROVE  task[warm.at] # "sleep"
    BY <2>1, <2>8 DEF teardown_at_once, teardown_locked
  <2>9. QED
    BY <2>3, <2>5, <2>6, <2>7, <2>8 DEF Next
<1>2. IdleForWholePeriod <=> [][Slept]_vars
  BY PTL DEF IdleForWholePeriod
<1> HIDE DEF Slept
<1>3. QED
  BY <1>1, <1>2, WarmInvariant, PTL DEF Spec
=============================================================================
