------------------------ MODULE BootSupervisorProofs ------------------------
(* At most one bus runs and none outlives its supervisor, only a stable run     *)
(* shortens the backoff, and the thinned reports stay true, for any delays,     *)
(* windows and thresholds and any number of deaths and failed attempts.         *)
EXTENDS BootSupervisor, NaturalsInduction, WellFoundedInduction, SequenceTheorems, TLAPS

(* The inductive invariant. *)

\* The bus of the current attempt is up.
Up ==
    \/ at \in {"emit_started", "running", "stop", "stop_dead"}
    \/ at = "attempt" /\ ready = "started"

\* Exactly the current attempt's bus is running, and nobody else's.
OwnBus == buses = IF Up THEN 1 ELSE 0

\* Every backoff but a stable death's first is at least as long as the last.
Slowing == delay <= next_delay(failures)

\* A tick at least has passed since the latest event when the next one comes:
\* it sleeps in between.
Gap == IF at = "ended" \/ (at \in {"emit", "wait"} /\ left > 0) THEN 0 ELSE 1

\* The events of an alarm are at least a tick apart, so a window holds few.
Spaced(a, gap) ==
    \A i \in 1 .. Len(a.recent) :
        a.recent[i] = Horizon \/ a.recent[i] >= Len(a.recent) - i + gap

Sleeps == at = "emit" => left > 0

\* Not later than, as ages.
Since(x, y) == y # None => x <= y

\* What an alarm remembers was said: the row or the line it stands for was
\* written no longer ago than it remembers having spoken.
Told ==
    /\ deaths.armed => deaths.fired # None
    /\ attempts.armed => attempts.fired # None
    /\ escalator.last # None => escalator.first # None /\ escalator.first >= DownThreshold
    /\ Since(seen.flap, deaths.fired)
    /\ at # "emit" => Since(seen.row, escalator.last) /\ Since(seen.row, deaths.fired)
    /\ at # "emit" => Since(seen.row, attempts.fired) \/ has_escalated(escalator)
    /\ at \in {"running", "stop", "stop_dead"} => Since(seen.row, attempts.fired)
    /\ escalator.first = None \/ escalator.first <= seen.stable
    /\ verdict.still_down = None \/ verdict.still_down <= seen.stable

\* The parts of the invariant, each with the types of its variables.
Control ==
    /\ at \in Places /\ ready \in Outcomes \cup {"pending"}
    /\ shutdown \in BOOLEAN /\ died \in BOOLEAN /\ permit \in BOOLEAN
    /\ OwnBus

Delays ==
    /\ failures \in Nat /\ delay \in 0 .. MaxDelay /\ left \in 0 .. MaxDelay
    /\ Slowing /\ Sleeps

Windows ==
    /\ deaths \in AlarmType /\ attempts \in AlarmType
    /\ Len(deaths.recent) <= Horizon + 1 /\ Len(attempts.recent) <= Horizon + 1
    /\ Spaced(deaths, Gap) /\ Spaced(attempts, Gap)

Reports ==
    /\ ran \in 0 .. Horizon /\ escalator \in [first : Age, last : Age]
    /\ verdict \in [record : BOOLEAN, still_down : Age, flapping : BOOLEAN]
    /\ seen \in [stable : 0 .. Horizon, row : 0 .. Horizon, flap : 0 .. Horizon]
    /\ Told

BootInv == Control /\ Delays /\ Windows /\ Reports

-----------------------------------------------------------------------------
(* The backoff. *)

\* Induction over a set of naturals.
LEMMA SetInduction ==
  ASSUME NEW S, 0 \in S, \A n \in Nat : n \in S => n + 1 \in S
  PROVE  Nat \subseteq S
<1> SUFFICES ASSUME Nat \ S # {} PROVE FALSE
  OBVIOUS
<1> DEFINE R == OpToRel(<, Nat)
<1>1. \A x, y \in Nat : x < y => <<x, y>> \in R
  BY DEF OpToRel
<1>2. IsWellFoundedOn(R, Nat)
  BY NatLessThanWellFounded
<1> HIDE DEF R
<1>3. PICK x \in Nat \ S : \A y \in Nat \ S : ~(<<y, x>> \in R)
  BY <1>2, WFMin
<1>4. x # 0 /\ x - 1 \in Nat /\ x - 1 < x
  BY <1>3
<1>5. x - 1 \in S
  BY <1>1, <1>3, <1>4
<1>6. (x - 1) + 1 = x
  BY <1>3
<1>7. QED
  BY <1>3, <1>4, <1>5, <1>6

\* A value and a step function determine a sequence.
LEMMA Iterates ==
  ASSUME NEW a \in Nat, NEW h \in [Nat -> Nat]
  PROVE  \E f \in [Nat -> Nat] : f[0] = a /\ \A n \in Nat : f[n + 1] = h[f[n]]
<1> DEFINE Starts(n) == {g \in [Nat -> Nat] : g[0] = a /\ \A k \in 0 .. n : k # n => g[k + 1] = h[g[k]]}
           S == {n \in Nat : Starts(n) # {}}
<1>1. Nat \subseteq S
  <2>1. 0 \in S
    <3>1. [k \in Nat |-> a] \in Starts(0)
      OBVIOUS
    <3>2. QED
      BY <3>1
  <2>2. ASSUME NEW n \in Nat, n \in S PROVE n + 1 \in S
    <3>1. PICK g \in Starts(n) : TRUE
      BY <2>2
    <3> DEFINE g2 == [g EXCEPT ![n + 1] = h[g[n]]]
    <3>2. g2 \in Starts(n + 1)
      <4>1. g \in [Nat -> Nat] /\ g2 \in [Nat -> Nat] /\ g2[0] = a
        BY <3>1
      <4>2. ASSUME NEW k \in 0 .. n + 1, k # n + 1 PROVE g2[k + 1] = h[g2[k]]
        <5>1. k \in 0 .. n /\ g2[k] = g[k]
          BY <4>1, <4>2
        <5>2. CASE k = n
          BY <4>1, <5>1, <5>2
        <5>3. CASE k # n
          <6>1. g[k + 1] = h[g[k]] /\ k + 1 # n + 1 /\ k + 1 \in Nat
            BY <3>1, <5>1, <5>3
          <6>2. g2[k + 1] = g[k + 1]
            BY <4>1, <6>1
          <6>3. QED
            BY <5>1, <6>1, <6>2
        <5>4. QED
          BY <5>2, <5>3
      <4>3. QED
        BY <4>1, <4>2
    <3> HIDE DEF Starts, g2
    <3>3. Starts(n + 1) # {} /\ n + 1 \in Nat
      BY <3>2
    <3>4. QED
      BY <3>3
  <2> HIDE DEF S
  <2>3. QED
    BY <2>1, <2>2, SetInduction
<1>2. \A n \in Nat : Starts(n) # {}
  BY <1>1
<1>3. ASSUME NEW m \in Nat, NEW n \in Nat, NEW g \in Starts(m), NEW e \in Starts(n)
      PROVE  \A k \in Nat : k <= m /\ k <= n => g[k] = e[k]
  <2> DEFINE T == {k \in Nat : k <= m /\ k <= n => g[k] = e[k]}
  <2>1. 0 \in T
    BY <1>3
  <2>2. ASSUME NEW k \in Nat, k \in T PROVE k + 1 \in T
    <3> SUFFICES ASSUME k + 1 <= m, k + 1 <= n PROVE g[k + 1] = e[k + 1]
      OBVIOUS
    <3>1. k \in 0 .. m /\ k # m /\ k \in 0 .. n /\ k # n /\ g[k] = e[k]
      BY <2>2
    <3>2. g[k + 1] = h[g[k]] /\ e[k + 1] = h[e[k]]
      BY <1>3, <3>1
    <3>3. QED
      BY <3>1, <3>2
  <2> HIDE DEF T
  <2>3. Nat \subseteq T
    BY <2>1, <2>2, SetInduction
  <2>4. QED
    BY <2>3 DEF T
<1> DEFINE G(n) == CHOOSE g \in Starts(n) : TRUE
           f == [n \in Nat |-> G(n)[n]]
<1>4. \A n \in Nat : G(n) \in Starts(n)
  BY <1>2
<1> HIDE DEF G
<1>5. f \in [Nat -> Nat] /\ f[0] = a
  BY <1>4
<1>6. ASSUME NEW n \in Nat PROVE f[n + 1] = h[f[n]]
  <2>1. n + 1 \in Nat /\ n \in 0 .. n + 1 /\ n # n + 1
    OBVIOUS
  <2>2. G(n + 1)[n + 1] = h[G(n + 1)[n]]
    BY <1>4, <2>1
  <2>3. G(n + 1)[n] = G(n)[n]
    <3> HIDE DEF Starts
    <3>1. G(n + 1) \in Starts(n + 1) /\ G(n) \in Starts(n)
      BY <1>4, <2>1
    <3>2. n <= n + 1 /\ n <= n
      OBVIOUS
    <3>3. QED
      BY <1>3, <2>1, <3>1, <3>2
  <2>4. QED
    BY <2>1, <2>2, <2>3
<1>7. QED
  BY <1>5, <1>6

\* The recursive definition is what it says.
LEMMA BackoffUnfolds ==
  /\ Backoff[0] = BaseDelay
  /\ \A k \in Nat : Backoff[k + 1] = IF 2 * Backoff[k] < MaxDelay THEN 2 * Backoff[k] ELSE MaxDelay
<1> DEFINE D(g) == [n \in Nat |-> IF n = 0 THEN BaseDelay
                                  ELSE LET d == 2 * g[n - 1] IN IF d < MaxDelay THEN d ELSE MaxDelay]
           h == [x \in Nat |-> IF 2 * x < MaxDelay THEN 2 * x ELSE MaxDelay]
<1>1. BaseDelay \in Nat /\ MaxDelay \in Nat
  BY ConstantsAssumption
<1>2. h \in [Nat -> Nat]
  BY <1>1
<1>3. PICK f \in [Nat -> Nat] : f[0] = BaseDelay /\ \A n \in Nat : f[n + 1] = h[f[n]]
  <2> HIDE DEF h
  <2>1. QED
    BY <1>1, <1>2, Iterates
<1>4. f = D(f)
  <2>1. ASSUME NEW k \in Nat PROVE f[k] = D(f)[k]
    <3>1. CASE k = 0
      BY <1>1, <1>3, <3>1
    <3>2. CASE k # 0
      <4>1. k - 1 \in Nat /\ (k - 1) + 1 = k
        BY <3>2
      <4>2. f[k] = h[f[k - 1]] /\ f[k - 1] \in Nat
        BY <1>3, <4>1
      <4>3. QED
        BY <3>2, <4>2
    <3>3. QED
      BY <3>1, <3>2
  <2>2. QED
    BY <2>1
<1>5. Backoff = CHOOSE g : g = D(g)
  BY DEF Backoff
<1>6. Backoff = D(Backoff)
  <2> HIDE DEF D
  <2>1. QED
    BY <1>4, <1>5
<1>7. \A k \in Nat : Backoff[k] = D(Backoff)[k]
  BY <1>6
<1>8. ASSUME NEW k \in Nat
      PROVE  Backoff[k + 1] = IF 2 * Backoff[k] < MaxDelay THEN 2 * Backoff[k] ELSE MaxDelay
  <2>1. k + 1 \in Nat /\ k + 1 # 0 /\ (k + 1) - 1 = k
    OBVIOUS
  <2>2. QED
    BY <1>7, <2>1
<1>9. QED
  BY <1>7, <1>8

\* RestartBackoff::next_delay stays between the base and the cap, and one more
\* failure never shortens it.
THEOREM BackoffGrows ==
  \A n \in Nat : next_delay(n) \in BaseDelay .. MaxDelay /\ next_delay(n) <= next_delay(n + 1)
<1> DEFINE S == {n \in Nat : Backoff[n] \in BaseDelay .. MaxDelay}
<1>1. BaseDelay \in Nat \ {0} /\ MaxDelay \in Nat /\ BaseDelay <= MaxDelay
  BY ConstantsAssumption
<1>2. 0 \in S
  BY <1>1, BackoffUnfolds
<1>3. ASSUME NEW k \in Nat, k \in S PROVE k + 1 \in S
  BY <1>1, <1>3, BackoffUnfolds
<1> HIDE DEF S
<1>4. Nat \subseteq S
  BY <1>2, <1>3, SetInduction
<1> SUFFICES ASSUME NEW n \in Nat PROVE Backoff[n] \in BaseDelay .. MaxDelay /\ Backoff[n] <= Backoff[n + 1]
  BY DEF next_delay
<1>5. Backoff[n] \in BaseDelay .. MaxDelay
  BY <1>4 DEF S
<1>6. QED
  BY <1>1, <1>5, BackoffUnfolds

-----------------------------------------------------------------------------
(* The alarms. *)

LEMMA Bounds ==
  /\ BaseDelay \in Nat \ {0} /\ MaxDelay \in Nat \ {0} /\ StableUptime \in Nat \ {0}
  /\ DownThreshold \in Nat \ {0} /\ DownRepeat \in Nat \ {0} /\ FlapWindow \in Nat \ {0}
  /\ FlapThreshold \in Nat \ {0} /\ FlapRepeat \in Nat \ {0} /\ Horizon \in Nat \ {0}
  /\ BaseDelay <= MaxDelay /\ StableUptime < Horizon /\ DownThreshold < Horizon
  /\ DownRepeat < Horizon /\ FlapWindow < Horizon /\ FlapRepeat < Horizon
  BY ConstantsAssumption

\* Pruning drops a prefix, and keeps nothing stale at the front.
LEMMA Windowed ==
  ASSUME NEW s \in Seq(0 .. Horizon)
  PROVE  \E k \in 0 .. Len(s) :
           /\ in_window(s) \in Seq(0 .. Horizon) /\ Len(in_window(s)) = Len(s) - k
           /\ \A i \in 1 .. Len(s) - k : i + k \in 1 .. Len(s) /\ in_window(s)[i] = s[i + k]
           /\ k < Len(s) => s[k + 1] <= FlapWindow
<1>1. Len(s) \in Nat /\ \A i \in 1 .. Len(s) : s[i] \in 0 .. Horizon
  <2> DEFINE V == 0 .. Horizon
  <2>1. s \in Seq(V) OBVIOUS
  <2> HIDE DEF V
  <2>2. Len(s) \in Nat /\ \A i \in 1 .. Len(s) : s[i] \in V BY <2>1
  <2> QED BY <2>2 DEF V
<1> DEFINE P(k) == (\A i \in 1 .. k : s[i] > FlapWindow) /\ (k < Len(s) => s[k + 1] <= FlapWindow)
           T == {k \in 0 .. Len(s) : k < Len(s) => s[k + 1] <= FlapWindow}
           R == OpToRel(<, Nat)
<1>2. Len(s) \in T /\ T \subseteq Nat
  BY <1>1
<1>3. \A x, y \in Nat : x < y => <<x, y>> \in R
  BY DEF OpToRel
<1>4. IsWellFoundedOn(R, Nat)
  BY NatLessThanWellFounded
<1> HIDE DEF R, T
<1>5. PICK m \in T : \A y \in T : ~(<<y, m>> \in R)
  BY <1>2, <1>4, WFMin
<1>6. m \in 0 .. Len(s) /\ P(m)
  <2>1. m \in 0 .. Len(s) /\ (m < Len(s) => s[m + 1] <= FlapWindow)
    BY <1>5 DEF T
  <2>2. ASSUME NEW i \in 1 .. m PROVE s[i] > FlapWindow
    <3>1. i - 1 \in Nat /\ m \in Nat /\ i - 1 < m /\ i - 1 \in 0 .. Len(s) /\ (i - 1) + 1 = i
      BY <1>1, <2>1
    <3>2. i - 1 \notin T
      BY <1>3, <1>5, <3>1
    <3>3. ~(s[i] <= FlapWindow)
      BY <3>1, <3>2 DEF T
    <3>4. s[i] \in Nat
      BY <1>1, <2>1
    <3> QED BY <3>3, <3>4, Bounds
  <2> QED BY <2>1, <2>2
<1> DEFINE k == CHOOSE j \in 0 .. Len(s) : P(j)
<1>7. k \in 0 .. Len(s) /\ P(k)
  <2> HIDE DEF P
  <2> QED BY <1>6
<1>8. in_window(s) = SubSeq(s, k + 1, Len(s))
  BY DEF in_window
<1> HIDE DEF k, P
<1>9. k \in 0 .. Len(s) /\ (k < Len(s) => s[k + 1] <= FlapWindow)
  BY <1>7 DEF P
<1>10. /\ SubSeq(s, k + 1, Len(s)) \in Seq(0 .. Horizon)
       /\ Len(SubSeq(s, k + 1, Len(s))) = Len(s) - k
       /\ \A i \in 1 .. Len(s) - k : i + k \in 1 .. Len(s) /\ SubSeq(s, k + 1, Len(s))[i] = s[i + k]
  BY <1>1, <1>9
<1> QED BY <1>8, <1>9, <1>10

LEMMA AppendAt ==
  ASSUME NEW S, NEW s \in Seq(S), NEW e \in S
  PROVE  /\ Append(s, e) \in Seq(S) /\ Len(Append(s, e)) = Len(s) + 1
         /\ \A i \in 1 .. Len(s) : Append(s, e)[i] = s[i]
         /\ Append(s, e)[Len(s) + 1] = e
  OBVIOUS

\* record: what RespawnRateAlarm::record does to an alarm whose last event is
\* at least a tick old.
LEMMA Recorded ==
  ASSUME NEW a \in AlarmType, Spaced(a, 1)
  PROVE  /\ record(a).next \in AlarmType /\ record(a).fires \in BOOLEAN
         /\ Len(record(a).next.recent) <= Horizon + 1 /\ Spaced(record(a).next, 0)
         /\ record(a).next.armed = (Len(record(a).next.recent) >= FlapThreshold)
         /\ record(a).fires => record(a).next.armed /\ record(a).next.fired = 0
         /\ record(a).next.armed /\ ~record(a).fires =>
              a.armed /\ ~repeats(a) /\ record(a).next.fired = a.fired
         /\ ~record(a).next.armed => record(a).next.fired = None
<1> DEFINE V == 0 .. Horizon
           s == a.recent
           w == in_window(s)
           t == Append(w, 0)
           storm == Len(t) >= FlapThreshold
           fires == storm /\ (a.armed => repeats(a))
           n == [recent |-> t, armed |-> storm,
                 fired |-> IF fires THEN 0 ELSE IF storm THEN a.fired ELSE None]
<1>1. record(a) = [next |-> n, fires |-> fires]
  BY DEF record
<1>2. s \in Seq(V) /\ a.armed \in BOOLEAN /\ a.fired \in Age
  BY DEF AlarmType
<1>3. PICK k \in 0 .. Len(s) :
        /\ w \in Seq(V) /\ Len(w) = Len(s) - k
        /\ \A i \in 1 .. Len(s) - k : i + k \in 1 .. Len(s) /\ w[i] = s[i + k]
        /\ k < Len(s) => s[k + 1] <= FlapWindow
  BY <1>2, Windowed
<1>4. \A i \in 1 .. Len(s) : s[i] \in V /\ (s[i] = Horizon \/ s[i] >= Len(s) - i + 1)
  <2> HIDE DEF V
  <2>1. \A i \in 1 .. Len(s) : s[i] \in V BY <1>2
  <2> QED BY <2>1 DEF Spaced
<1>5. 0 \in V /\ V \subseteq Nat
  BY Bounds
<1> HIDE DEF V, w
<1>6. Len(s) \in Nat /\ Len(w) \in Nat
  BY <1>2, <1>3
<1>7. /\ t \in Seq(V) /\ Len(t) = Len(w) + 1
      /\ \A i \in 1 .. Len(w) : t[i] = w[i]
      /\ t[Len(w) + 1] = 0
  BY <1>3, <1>5, AppendAt
<1> HIDE DEF s
<1>8. Len(t) <= Horizon + 1
  <2>1. CASE k = Len(s)
    BY <1>3, <1>6, <1>7, <2>1, Bounds
  <2>2. CASE k # Len(s)
    <3>1. k < Len(s) /\ k + 1 \in 1 .. Len(s) BY <1>3, <1>6, <2>2
    <3>2. PICK v \in Nat : v = s[k + 1] BY <1>4, <1>5, <3>1
    <3>3. v <= FlapWindow /\ (v = Horizon \/ v >= Len(s) - (k + 1) + 1) BY <1>3, <1>4, <3>1, <3>2
    <3> QED BY <1>3, <1>6, <1>7, <3>1, <3>3, Bounds
  <2> QED BY <2>1, <2>2
<1> HIDE DEF t
<1>9. ASSUME NEW i \in 1 .. Len(t) PROVE t[i] = Horizon \/ t[i] >= Len(t) - i
  <2>1. CASE i = Len(w) + 1
    BY <1>6, <1>7, <2>1
  <2>2. CASE i # Len(w) + 1
    <3>1. i \in 1 .. Len(w) /\ i \in 1 .. Len(s) - k BY <1>3, <1>6, <1>7, <2>2
    <3>2. i + k \in 1 .. Len(s) /\ t[i] = s[i + k] BY <1>3, <1>7, <3>1
    <3>3. PICK v \in Nat : v = s[i + k] BY <1>4, <1>5, <3>2
    <3>4. v = Horizon \/ v >= Len(s) - (i + k) + 1 BY <1>4, <3>2, <3>3
    <3> QED BY <1>3, <1>6, <1>7, <3>1, <3>2, <3>3, <3>4
  <2> QED BY <2>1, <2>2
<1>10. storm \in BOOLEAN /\ fires \in BOOLEAN
  BY DEF repeats
<1>11. Age = {None} \cup V /\ None \in Age /\ 0 \in Age
  BY <1>5 DEF Age, V
<1>12. /\ n.recent = t /\ n.armed = storm
       /\ n.fired = IF fires THEN 0 ELSE IF storm THEN a.fired ELSE None
  OBVIOUS
<1>13. n \in AlarmType
  <2>1. n.fired \in Age BY <1>2, <1>11, <1>12
  <2> HIDE DEF storm, fires
  <2> QED BY <1>7, <1>10, <2>1 DEF AlarmType, V
<1>14. Spaced(n, 0)
  <2>1. ASSUME NEW i \in 1 .. Len(t) PROVE t[i] = Horizon \/ t[i] >= Len(t) - i + 0
    BY <1>6, <1>7, <1>9
  <2> HIDE DEF n
  <2> QED BY <1>12, <2>1 DEF Spaced
<1>15. record(a).next = n /\ record(a).fires = fires
  BY <1>1
<1>16. /\ fires => storm
       /\ storm /\ ~fires => a.armed /\ ~repeats(a)
  OBVIOUS
<1> HIDE DEF n
<1>17. n.armed = (Len(n.recent) >= FlapThreshold)
  BY <1>12
<1> HIDE DEF fires, storm
<1> QED BY <1>8, <1>10, <1>12, <1>13, <1>14, <1>15, <1>16, <1>17

\* A tick.
LEMMA OlderAge ==
  /\ \A x \in 0 .. Horizon : older(x) \in 0 .. Horizon /\ x <= older(x)
                             /\ (x # Horizon => older(x) = x + 1) /\ older(x) # None
  /\ older(Horizon) = Horizon /\ older(None) = None
  /\ \A x \in Age : older(x) \in Age /\ (older(x) = None <=> x = None) /\ x <= older(x)
  /\ \A x, y \in Age : x <= y => older(x) <= older(y)
  BY Bounds DEF older, Age, None

LEMMA Aged ==
  ASSUME NEW a \in AlarmType
  PROVE  /\ older_alarm(a) \in AlarmType /\ Len(older_alarm(a).recent) = Len(a.recent)
         /\ older_alarm(a).armed = a.armed /\ older_alarm(a).fired = older(a.fired)
         /\ \A g \in 0 .. 1 : Spaced(a, g) => Spaced(older_alarm(a), 1)
<1> DEFINE V == 0 .. Horizon
           s == a.recent
           t == [i \in DOMAIN s |-> older(s[i])]
           n == [a EXCEPT !.recent = t, !.fired = older(a.fired)]
<1>1. older_alarm(a) = n
  BY DEF older_alarm
<1>2. s \in Seq(V) /\ a.armed \in BOOLEAN /\ a.fired \in Age
  BY DEF AlarmType
<1>3. \A x \in V : older(x) \in V /\ x <= older(x) /\ (x # Horizon => older(x) = x + 1)
  BY OlderAge
<1>4. V \subseteq Nat /\ older(Horizon) = Horizon
  BY Bounds, OlderAge
<1> HIDE DEF V
<1>5. DOMAIN s = 1 .. Len(s) /\ Len(s) \in Nat /\ \A i \in 1 .. Len(s) : s[i] \in V
  BY <1>2
<1> HIDE DEF s
<1>6. t \in [1 .. Len(s) -> V]
  BY <1>3, <1>5
<1>7. t \in Seq(V) /\ Len(t) = Len(s) /\ \A i \in 1 .. Len(s) : t[i] = older(s[i])
  <2>1. t \in Seq(V) BY <1>5, <1>6, SeqDef
  <2>2. DOMAIN t = 1 .. Len(s) /\ \A i \in 1 .. Len(s) : t[i] = older(s[i]) BY <1>5
  <2> HIDE DEF t
  <2>3. DOMAIN t = 1 .. Len(t) /\ Len(t) \in Nat BY <2>1
  <2> QED BY <1>5, <2>1, <2>2, <2>3
<1> HIDE DEF t
<1>8. n.recent = t /\ n.armed = a.armed /\ n.fired = older(a.fired)
  BY DEF AlarmType
<1>9. older(a.fired) \in Age
  BY <1>2, OlderAge
<1>10. n \in AlarmType
  BY <1>7, <1>9 DEF AlarmType, V
<1>11. ASSUME NEW g \in 0 .. 1, Spaced(a, g), NEW i \in 1 .. Len(s)
       PROVE  t[i] = Horizon \/ t[i] >= Len(s) - i + 1
  <2>1. PICK v \in V : v = s[i] BY <1>5
  <2>2. v = Horizon \/ v >= Len(s) - i + g BY <1>11, <2>1 DEF Spaced, s
  <2>3. t[i] = older(v) BY <1>7, <2>1
  <2>4. CASE v = Horizon BY <1>4, <2>3, <2>4
  <2>5. CASE v # Horizon
    <3>1. t[i] = v + 1 /\ v \in Nat BY <1>3, <1>4, <2>3, <2>5
    <3>2. v >= Len(s) - i + g BY <2>2, <2>5
    <3> QED BY <1>5, <3>1, <3>2
  <2> QED BY <2>4, <2>5
<1>12. ASSUME NEW g \in 0 .. 1, Spaced(a, g) PROVE Spaced(n, 1)
  <2> HIDE DEF n
  <2>1. \A i \in 1 .. Len(n.recent) : n.recent[i] = Horizon \/ n.recent[i] >= Len(n.recent) - i + 1
    BY <1>7, <1>8, <1>11, <1>12
  <2> QED BY <2>1 DEF Spaced
<1> HIDE DEF n
<1> QED BY <1>1, <1>7, <1>8, <1>10, <1>12 DEF s

LEMMA SpacedWeaker ==
  ASSUME NEW a \in AlarmType, Spaced(a, 1)
  PROVE  Spaced(a, 0)
<1>1. a.recent \in Seq(0 .. Horizon) BY DEF AlarmType
<1>2. Len(a.recent) \in Nat /\ \A i \in 1 .. Len(a.recent) : a.recent[i] \in 0 .. Horizon
  <2> DEFINE V == 0 .. Horizon
  <2>1. a.recent \in Seq(V) BY <1>1
  <2> HIDE DEF V
  <2>2. Len(a.recent) \in Nat /\ \A i \in 1 .. Len(a.recent) : a.recent[i] \in V BY <2>1
  <2> QED BY <2>2 DEF V
<1>3. ASSUME NEW i \in 1 .. Len(a.recent)
      PROVE  a.recent[i] = Horizon \/ a.recent[i] >= Len(a.recent) - i + 0
  <2>1. PICK v \in 0 .. Horizon : v = a.recent[i] BY <1>2
  <2>2. v = Horizon \/ v >= Len(a.recent) - i + 1 BY <2>1 DEF Spaced
  <2> QED BY <1>2, <2>1, <2>2
<1> QED BY <1>3 DEF Spaced

-----------------------------------------------------------------------------
(* The steps. *)

LEMMA NextDelay == \A n \in Nat : /\ next_delay(n) \in BaseDelay .. MaxDelay /\ next_delay(n) \in 1 .. MaxDelay
                                 /\ one_more(n) \in Nat /\ next_delay(n) <= next_delay(one_more(n))
<1> SUFFICES ASSUME NEW n \in Nat
             PROVE  /\ next_delay(n) \in BaseDelay .. MaxDelay /\ next_delay(n) \in 1 .. MaxDelay
                    /\ one_more(n) \in Nat /\ next_delay(n) <= next_delay(one_more(n))
  OBVIOUS
<1>1. next_delay(n) \in BaseDelay .. MaxDelay /\ next_delay(n) <= next_delay(n + 1) BY BackoffGrows
<1>2. one_more(n) \in {n, n + 1} BY DEF one_more
<1> QED BY <1>1, <1>2, Bounds

\* DowntimeEscalator::record_failure.
LEMMA Failed ==
  ASSUME NEW e \in [first : Age, last : Age]
  PROVE  /\ record_failure(e).next \in [first : Age, last : Age] /\ record_failure(e).line \in Age
         /\ record_failure(e).next.first = IF e.first = None THEN 0 ELSE e.first
         /\ record_failure(e).line # None =>
              /\ record_failure(e).line = record_failure(e).next.first
              /\ record_failure(e).next.last = 0 /\ record_failure(e).next.first >= DownThreshold
         /\ record_failure(e).line = None =>
              /\ record_failure(e).next.last = e.last
              /\ ~(record_failure(e).next.first >= DownThreshold
                     /\ (e.last = None \/ e.last >= DownRepeat))
<1> DEFINE first == IF e.first = None THEN 0 ELSE e.first
           fires == first >= DownThreshold /\ (e.last = None \/ e.last >= DownRepeat)
           n == [first |-> first, last |-> IF fires THEN 0 ELSE e.last]
           l == IF fires THEN first ELSE None
<1>1. record_failure(e) = [next |-> n, line |-> l]
  BY DEF record_failure
<1>2. first \in 0 .. Horizon /\ first # None /\ e.last \in Age
  BY Bounds DEF Age, None
<1>3. 0 \in Age /\ None \in Age /\ 0 .. Horizon \subseteq Age
  BY Bounds DEF Age
<1> HIDE DEF first
<1>4. n \in [first : Age, last : Age] /\ l \in Age
  BY <1>2, <1>3
<1>5. /\ n.first = first /\ n.last = IF fires THEN 0 ELSE e.last
  OBVIOUS
<1> HIDE DEF n
<1>6. record_failure(e).next = n /\ record_failure(e).line = l
  BY <1>1
<1> QED BY <1>2, <1>4, <1>5, <1>6 DEF first

LEMMA ControlStep == BootInv /\ [Next]_vars => Control'
<1> SUFFICES ASSUME BootInv, [Next]_vars PROVE Control'
  OBVIOUS
<1> USE DEF BootInv, Control, OwnBus, Up, Places, Outcomes, policy
<1>1. CASE UNCHANGED vars BY <1>1 DEF vars
<1>2. CASE begin BY <1>2 DEF begin
<1>3. CASE \E outcome \in Outcomes : attempt(outcome)
  <2>1. PICK outcome \in Outcomes : attempt(outcome) BY <1>3
  <2>2. buses = 0 BY <2>1 DEF attempt
  <2>3. buses' = IF outcome = "started" THEN 1 ELSE 0 BY <2>1, <2>2 DEF attempt
  <2> QED BY <2>1, <2>3 DEF attempt
<1>4. CASE abandon_attempt BY <1>4 DEF abandon_attempt, attempt_first
<1>5. CASE not_configured BY <1>5 DEF not_configured
<1>6. CASE started BY <1>6 DEF started
<1>7. CASE emit_started BY <1>7 DEF emit_started
<1>8. CASE hear_shutdown BY <1>8 DEF hear_shutdown
<1>9. CASE wait_for_death BY <1>9 DEF wait_for_death
<1>10. CASE stop
  <2>1. buses = 1 BY <1>10 DEF stop
  <2>2. buses' = 0 BY <1>10, <2>1 DEF stop
  <2> QED BY <1>10, <2>2 DEF stop
<1>11. CASE death
  <2>1. buses = 1 BY <1>11 DEF death
  <2>2. buses' = 0 BY <1>11, <2>1 DEF death
  <2>3. /\ at' \in {"emit", "wait"} /\ died' = FALSE
        /\ shutdown' = shutdown /\ ready' = ready /\ permit' = permit
    BY <1>11 DEF death
  <2> QED BY <2>2, <2>3
<1>12. CASE retry BY <1>12 DEF retry
<1>13. CASE fatal BY <1>13 DEF fatal
<1>14. CASE emit BY <1>14 DEF emit
<1>15. CASE wait_or_shutdown BY <1>15 DEF wait_or_shutdown
<1>16. CASE send_shutdown BY <1>16 DEF send_shutdown
<1>17. CASE pump_ends BY <1>17 DEF pump_ends, rings
<1>18. CASE tick BY <1>18 DEF tick
<1> QED BY <1>1, <1>2, <1>3, <1>4, <1>5, <1>6, <1>7, <1>8, <1>9, <1>10,
           <1>11, <1>12, <1>13, <1>14, <1>15, <1>16, <1>17, <1>18 DEF Next, run

LEMMA DelaysStep == BootInv /\ [Next]_vars => Delays'
<1> SUFFICES ASSUME BootInv, [Next]_vars PROVE Delays'
  OBVIOUS
<1> USE DEF BootInv, Control, Delays, Slowing, Sleeps, policy
<1>1. CASE UNCHANGED vars BY <1>1 DEF vars
<1>2. CASE begin BY <1>2 DEF begin
<1>3. CASE \E outcome \in Outcomes : attempt(outcome) BY <1>3 DEF attempt
<1>4. CASE abandon_attempt BY <1>4 DEF abandon_attempt, attempt_first
<1>5. CASE not_configured BY <1>5 DEF not_configured
<1>6. CASE started BY <1>6 DEF started
<1>7. CASE emit_started BY <1>7 DEF emit_started
<1>8. CASE hear_shutdown BY <1>8 DEF hear_shutdown
<1>9. CASE wait_for_death BY <1>9 DEF wait_for_death
<1>10. CASE stop BY <1>10 DEF stop
<1>11. CASE death
  <2>1. at' \in {"emit", "wait"} BY <1>11 DEF death
  <2>2. CASE ran_long_enough(ran)
    <3>1. failures' = 0 /\ delay' = next_delay(0) /\ left' = next_delay(0) BY <1>11, <2>2 DEF death
    <3>2. next_delay(0) \in 1 .. MaxDelay BY NextDelay
    <3> QED BY <3>1, <3>2
  <2>3. CASE ~ran_long_enough(ran)
    <3>1. /\ failures' = one_more(failures) /\ delay' = next_delay(failures)
          /\ left' = next_delay(failures)
      BY <1>11, <2>3 DEF death, after_flap
    <3>2. /\ next_delay(failures) \in 1 .. MaxDelay /\ one_more(failures) \in Nat
          /\ next_delay(failures) <= next_delay(one_more(failures))
      BY NextDelay
    <3> QED BY <3>1, <3>2
  <2> QED BY <2>2, <2>3
<1>12. CASE retry
  <2>1. failures' = one_more(failures) /\ delay' = next_delay(failures) /\ left' = next_delay(failures)
    BY <1>12 DEF retry
  <2>2. /\ next_delay(failures) \in 1 .. MaxDelay /\ one_more(failures) \in Nat
        /\ next_delay(failures) <= next_delay(one_more(failures))
    BY NextDelay
  <2> QED BY <2>1, <2>2
<1>13. CASE fatal BY <1>13 DEF fatal
<1>14. CASE emit BY <1>14 DEF emit
<1>15. CASE wait_or_shutdown BY <1>15 DEF wait_or_shutdown
<1>16. CASE send_shutdown BY <1>16 DEF send_shutdown
<1>17. CASE pump_ends BY <1>17 DEF pump_ends, rings
<1>18. CASE tick
  <2>1. /\ at' = at /\ failures' = failures /\ delay' = delay
        /\ left' = IF at = "wait" /\ left > 0 THEN left - 1 ELSE left
    BY <1>18 DEF tick
  <2>2. PICK l \in 0 .. MaxDelay : l = left OBVIOUS
  <2>3. CASE at = "wait" /\ l > 0
    <3>1. l - 1 \in 0 .. MaxDelay BY <2>3, Bounds
    <3> QED BY <2>1, <2>2, <2>3, <3>1
  <2>4. CASE ~(at = "wait" /\ l > 0) BY <2>1, <2>2, <2>4
  <2> QED BY <2>3, <2>4
<1> QED BY <1>1, <1>2, <1>3, <1>4, <1>5, <1>6, <1>7, <1>8, <1>9, <1>10,
           <1>11, <1>12, <1>13, <1>14, <1>15, <1>16, <1>17, <1>18 DEF Next, run

LEMMA SpacedPrimes ==
  ASSUME NEW d, NEW a, deaths' = d, attempts' = a,
         d \in AlarmType, a \in AlarmType, Len(d.recent) <= Horizon + 1, Len(a.recent) <= Horizon + 1,
         NEW g, Gap' = g, Spaced(d, g), Spaced(a, g)
  PROVE  Windows'
<1>1. Spaced(deaths, Gap)' BY DEF Spaced
<1>2. Spaced(attempts, Gap)' BY DEF Spaced
<1> QED BY <1>1, <1>2 DEF Windows

LEMMA WindowsFrame ==
  ASSUME Windows, deaths' = deaths, attempts' = attempts, Gap' = 0 \/ Gap = 1 \/ Gap' = Gap
  PROVE  Windows'
<1>1. Gap \in {0, 1} /\ Gap' \in {0, 1} BY DEF Gap
<1>2. Spaced(deaths, Gap) /\ Spaced(attempts, Gap) /\ deaths \in AlarmType /\ attempts \in AlarmType
  BY DEF Windows
<1>3. Gap = 1 => Spaced(deaths, 0) /\ Spaced(attempts, 0) BY <1>2, SpacedWeaker
<1>4. Spaced(deaths, Gap') /\ Spaced(attempts, Gap')
  <2>1. CASE Gap = Gap' BY <1>2, <2>1
  <2>2. CASE Gap # Gap' BY <1>1, <1>3, <2>2
  <2> QED BY <2>1, <2>2
<1> QED BY <1>2, <1>4, SpacedPrimes DEF Windows

LEMMA WindowsStep == BootInv /\ [Next]_vars => Windows'
<1> SUFFICES ASSUME BootInv, [Next]_vars PROVE Windows'
  OBVIOUS
<1> USE DEF BootInv, Control, Delays, Windows, Sleeps, policy
<1>1. CASE UNCHANGED vars
  <2>1. Gap' = Gap /\ deaths' = deaths /\ attempts' = attempts BY <1>1 DEF vars, Gap
  <2> QED BY <2>1, WindowsFrame
<1>2. CASE begin
  <2>1. Gap = 1 /\ deaths' = deaths /\ attempts' = attempts BY <1>2 DEF begin, Gap
  <2> QED BY <2>1, WindowsFrame
<1>3. CASE \E outcome \in Outcomes : attempt(outcome)
  <2>1. Gap = 1 /\ deaths' = deaths /\ attempts' = attempts BY <1>3 DEF attempt, Gap
  <2> QED BY <2>1, WindowsFrame
<1>4. CASE abandon_attempt
  <2>1. Gap = 1 /\ deaths' = deaths /\ attempts' = attempts BY <1>4 DEF abandon_attempt, Gap
  <2> QED BY <2>1, WindowsFrame
<1>5. CASE not_configured
  <2>1. Gap = 1 /\ deaths' = deaths /\ attempts' = attempts BY <1>5 DEF not_configured, Gap
  <2> QED BY <2>1, WindowsFrame
<1>6. CASE started
  <2>1. Gap = 1 /\ deaths' = deaths /\ attempts' = attempts BY <1>6 DEF started, Gap
  <2> QED BY <2>1, WindowsFrame
<1>7. CASE emit_started
  <2>1. Gap = 1 /\ deaths' = deaths /\ attempts' = attempts BY <1>7 DEF emit_started, Gap
  <2> QED BY <2>1, WindowsFrame
<1>8. CASE hear_shutdown
  <2>1. Gap = 1 /\ deaths' = deaths /\ attempts' = attempts BY <1>8 DEF hear_shutdown, Gap
  <2> QED BY <2>1, WindowsFrame
<1>9. CASE wait_for_death
  <2>1. Gap = 1 /\ deaths' = deaths /\ attempts' = attempts BY <1>9 DEF wait_for_death, Gap
  <2> QED BY <2>1, WindowsFrame
<1>10. CASE stop
  <2>1. Gap = 1 /\ deaths' = deaths /\ attempts' = attempts BY <1>10 DEF stop, Gap
  <2> QED BY <2>1, WindowsFrame
<1>11. CASE death
  <2>1. Gap = 1 BY <1>11 DEF death, Gap
  <2>2. at' \in {"emit", "wait"} /\ left' > 0
    <3>1. at' \in {"emit", "wait"} BY <1>11 DEF death
    <3>2. \E n \in Nat : left' = next_delay(n) BY <1>11 DEF death
    <3> QED BY <3>1, <3>2, NextDelay
  <2>3. Gap' = 0 BY <2>2 DEF Gap
  <2>4. deaths' = record(deaths).next /\ attempts' = attempts BY <1>11 DEF death, note_death
  <2>5. Spaced(deaths, 1) /\ Spaced(attempts, 1) BY <2>1
  <2>6. /\ record(deaths).next \in AlarmType /\ Len(record(deaths).next.recent) <= Horizon + 1
        /\ Spaced(record(deaths).next, 0)
    BY <2>5, Recorded
  <2>7. Spaced(attempts, 0) BY <2>5, SpacedWeaker
  <2> QED BY <2>3, <2>4, <2>6, <2>7, SpacedPrimes
<1>12. CASE retry
  <2>1. Gap = 1 BY <1>12 DEF retry, Gap
  <2>2. at' \in {"emit", "wait"} /\ left' > 0
    <3>1. at' \in {"emit", "wait"} BY <1>12 DEF retry
    <3>2. \E n \in Nat : left' = next_delay(n) BY <1>12 DEF retry
    <3> QED BY <3>1, <3>2, NextDelay
  <2>3. Gap' = 0 BY <2>2 DEF Gap
  <2>4. attempts' = record(attempts).next /\ deaths' = deaths BY <1>12 DEF retry, note_failed_attempt
  <2>5. Spaced(attempts, 1) /\ Spaced(deaths, 1) BY <2>1
  <2>6. /\ record(attempts).next \in AlarmType /\ Len(record(attempts).next.recent) <= Horizon + 1
        /\ Spaced(record(attempts).next, 0)
    BY <2>5, Recorded
  <2>7. Spaced(deaths, 0) BY <2>5, SpacedWeaker
  <2> QED BY <2>3, <2>4, <2>6, <2>7, SpacedPrimes
<1>13. CASE fatal
  <2>1. Gap = 1 /\ deaths' = deaths /\ attempts' = attempts BY <1>13 DEF fatal, Gap
  <2> QED BY <2>1, WindowsFrame
<1>14. CASE emit
  <2>1. (Gap' = 0 \/ Gap = 1) /\ deaths' = deaths /\ attempts' = attempts BY <1>14 DEF emit, Gap
  <2> QED BY <2>1, WindowsFrame
<1>15. CASE wait_or_shutdown
  <2>1. (Gap' = 0 \/ Gap = 1) /\ deaths' = deaths /\ attempts' = attempts BY <1>15 DEF wait_or_shutdown, Gap
  <2> QED BY <2>1, WindowsFrame
<1>16. CASE send_shutdown
  <2>1. Gap' = Gap /\ deaths' = deaths /\ attempts' = attempts BY <1>16 DEF send_shutdown, Gap
  <2> QED BY <2>1, WindowsFrame
<1>17. CASE pump_ends
  <2>1. Gap' = Gap /\ deaths' = deaths /\ attempts' = attempts BY <1>17 DEF pump_ends, Gap
  <2> QED BY <2>1, WindowsFrame
<1>18. CASE tick
  <2>1. deaths' = older_alarm(deaths) /\ attempts' = older_alarm(attempts) BY <1>18 DEF tick
  <2>2. Gap \in 0 .. 1 /\ Gap' \in 0 .. 1 BY DEF Gap
  <2>3. /\ older_alarm(deaths) \in AlarmType /\ Len(older_alarm(deaths).recent) = Len(deaths.recent)
        /\ Spaced(older_alarm(deaths), 1)
    BY <2>2, Aged
  <2>4. /\ older_alarm(attempts) \in AlarmType /\ Len(older_alarm(attempts).recent) = Len(attempts.recent)
        /\ Spaced(older_alarm(attempts), 1)
    BY <2>2, Aged
  <2>5. Spaced(older_alarm(deaths), 0) /\ Spaced(older_alarm(attempts), 0)
    BY <2>3, <2>4, SpacedWeaker
  <2>6. Gap' = 0 \/ Gap' = 1 BY <2>2
  <2> QED BY <2>1, <2>3, <2>4, <2>5, <2>6, SpacedPrimes
<1> QED BY <1>1, <1>2, <1>3, <1>4, <1>5, <1>6, <1>7, <1>8, <1>9, <1>10,
           <1>11, <1>12, <1>13, <1>14, <1>15, <1>16, <1>17, <1>18 DEF Next, run

\* The fields of the history that a step sets.
LEMMA SeenSet ==
  ASSUME NEW V, NEW x \in [stable : V, row : V, flap : V], NEW u \in V, NEW v \in V
  PROVE  /\ [x EXCEPT !.row = v] \in [stable : V, row : V, flap : V]
         /\ [x EXCEPT !.row = v].stable = x.stable /\ [x EXCEPT !.row = v].row = v
         /\ [x EXCEPT !.row = v].flap = x.flap
         /\ [x EXCEPT !.stable = u, !.flap = v] \in [stable : V, row : V, flap : V]
         /\ [x EXCEPT !.stable = u, !.flap = v].stable = u
         /\ [x EXCEPT !.stable = u, !.flap = v].row = x.row
         /\ [x EXCEPT !.stable = u, !.flap = v].flap = v
  OBVIOUS

LEMMA ReportsStep == BootInv /\ [Next]_vars => Reports'
<1> SUFFICES ASSUME BootInv, [Next]_vars PROVE Reports'
  OBVIOUS
<1> USE DEF BootInv, Windows, Reports, Told, AlarmType, policy, has_escalated
<1>1. CASE UNCHANGED vars BY <1>1 DEF vars
<1>2. CASE begin BY <1>2 DEF begin
<1>3. CASE \E outcome \in Outcomes : attempt(outcome) BY <1>3 DEF attempt
<1>4. CASE abandon_attempt BY <1>4 DEF abandon_attempt, attempt_first
<1>5. CASE not_configured BY <1>5 DEF not_configured
<1>6. CASE started BY <1>6 DEF started
<1>7. CASE emit_started
  <2>1. seen' = [seen EXCEPT !.row = 0] /\ UNCHANGED policy BY <1>7 DEF emit_started
  <2>2. /\ seen' \in [stable : 0 .. Horizon, row : 0 .. Horizon, flap : 0 .. Horizon]
        /\ seen'.stable = seen.stable /\ seen'.row = 0 /\ seen'.flap = seen.flap
    <3>1. 0 \in 0 .. Horizon BY Bounds
    <3> QED BY <2>1, <3>1, SeenSet
  <2>3. \A x \in Age : Since(0, x) BY DEF Since, Age, None
  <2>4. Since(0, escalator.last) /\ Since(0, deaths.fired) /\ Since(0, attempts.fired)
    BY <2>3
  <2>5. ran' \in 0 .. Horizon BY <1>7, Bounds DEF emit_started
  <2> QED BY <2>1, <2>2, <2>4, <2>5
<1>8. CASE hear_shutdown BY <1>8 DEF hear_shutdown
<1>9. CASE wait_for_death BY <1>9 DEF wait_for_death
<1>10. CASE stop BY <1>10 DEF stop
<1>11. CASE death
  <2> DEFINE stable == ran_long_enough(ran)
             o == note_outage(escalator, stable)
             r == record(deaths)
  <2>1. /\ escalator' = o.next /\ deaths' = r.next /\ attempts' = attempts
        /\ verdict' = [record |-> should_record(in_storm(r.next), o.line # None \/ r.fires),
                       still_down |-> o.line, flapping |-> r.fires]
        /\ ran' = ran
        /\ at' = IF verdict'.record THEN "emit" ELSE "wait"
    BY <1>11 DEF death, note_death
  <2>17. seen' = [seen EXCEPT !.stable = IF stable THEN 0 ELSE seen.stable,
                              !.flap   = IF verdict'.flapping THEN 0 ELSE seen.flap]
    BY <1>11 DEF death
  <2>2. Spaced(deaths, 1) BY <1>11 DEF death, Gap
  <2>3. /\ r.next \in AlarmType /\ r.fires \in BOOLEAN
        /\ r.fires => r.next.armed /\ r.next.fired = 0
        /\ r.next.armed /\ ~r.fires => deaths.armed /\ ~repeats(deaths) /\ r.next.fired = deaths.fired
        /\ ~r.next.armed => r.next.fired = None
    BY <2>2, Recorded
  <2>18. None \in Age /\ Quiet \in [first : Age, last : Age] /\ Quiet.first = None /\ Quiet.last = None
    BY DEF Quiet, Age
  <2>4. /\ o.next \in [first : Age, last : Age] /\ o.line \in Age
        /\ stable => o.next = Quiet /\ o.line = None
        /\ ~stable => o.next.first = IF escalator.first = None THEN 0 ELSE escalator.first
        /\ ~stable /\ o.line # None =>
             o.line = o.next.first /\ o.next.last = 0 /\ o.next.first >= DownThreshold
        /\ ~stable /\ o.line = None => o.next.last = escalator.last
    <3>1. CASE stable BY <2>18, <3>1 DEF note_outage, record_success
    <3>2. CASE ~stable
      <4>1. o = record_failure(escalator) BY <3>2 DEF note_outage
      <4> QED BY <3>2, <4>1, Failed
    <3> QED BY <3>1, <3>2
  <2> HIDE DEF o, r, stable
  <2>5. should_record(in_storm(r.next), o.line # None \/ r.fires) \in BOOLEAN
    BY DEF should_record
  <2>6. /\ verdict' \in [record : BOOLEAN, still_down : Age, flapping : BOOLEAN]
        /\ verdict'.still_down = o.line /\ verdict'.flapping = r.fires
        /\ verdict'.record = should_record(in_storm(r.next), o.line # None \/ r.fires)
    BY <2>1, <2>3, <2>4, <2>5
  <2>19. /\ seen' \in [stable : 0 .. Horizon, row : 0 .. Horizon, flap : 0 .. Horizon]
         /\ seen'.stable = (IF stable THEN 0 ELSE seen.stable) /\ seen'.row = seen.row
         /\ seen'.flap = IF r.fires THEN 0 ELSE seen.flap
    <3>1. 0 \in 0 .. Horizon BY Bounds
    <3>2. PICK u \in 0 .. Horizon : u = IF stable THEN 0 ELSE seen.stable BY <3>1
    <3>3. PICK v \in 0 .. Horizon : v = IF r.fires THEN 0 ELSE seen.flap BY <3>1
    <3>4. seen' = [seen EXCEPT !.stable = u, !.flap = v] BY <2>6, <2>17, <3>2, <3>3
    <3> QED BY <3>2, <3>3, <3>4, SeenSet
  <2>7. r.next.armed => r.next.fired # None
    <3>1. 0 # None BY DEF None
    <3> QED BY <2>3, <3>1
  <2>20. Since(seen'.flap, r.next.fired)
    <3>1. CASE r.fires BY <2>3, <2>19, <3>1 DEF Since
    <3>2. CASE ~r.fires /\ r.next.armed BY <2>3, <2>19, <3>2
    <3>3. CASE ~r.next.armed BY <2>3, <3>3 DEF Since
    <3> QED BY <3>1, <3>2, <3>3
  <2>8. o.next.first = None \/ o.next.first <= seen'.stable
    <3>1. CASE stable BY <2>4, <2>18, <3>1
    <3>2. CASE ~stable
      <4>1. seen'.stable = seen.stable BY <2>19, <3>2
      <4>2. CASE escalator.first = None BY <2>4, <3>2, <4>1, <4>2
      <4>3. CASE escalator.first # None BY <2>4, <3>2, <4>1, <4>3
      <4> QED BY <4>2, <4>3
    <3> QED BY <3>1, <3>2
  <2>9. o.next.last # None => o.next.first # None /\ o.next.first >= DownThreshold
    <3>1. CASE stable BY <2>4, <2>18, <3>1
    <3>2. CASE ~stable /\ o.line # None BY <2>4, <3>2, Bounds DEF None
    <3>3. CASE ~stable /\ o.line = None
      <4>1. o.next.last = escalator.last BY <2>4, <3>3
      <4>2. escalator.last # None => escalator.first # None /\ escalator.first >= DownThreshold OBVIOUS
      <4> QED BY <2>4, <3>3, <4>1, <4>2
    <3> QED BY <3>1, <3>2, <3>3
  <2>10. o.line = None \/ o.line <= seen'.stable
    <3>1. CASE o.line = None BY <3>1
    <3>2. CASE o.line # None
      <4>1. ~stable /\ o.line = o.next.first BY <2>4, <3>2
      <4> QED BY <2>8, <4>1
    <3> QED BY <3>1, <3>2
  <2>11. at = "stop_dead" BY <1>11 DEF death
  <2>12. ASSUME at' # "emit" PROVE o.line = None /\ ~r.fires
    <3>1. ~should_record(in_storm(r.next), o.line # None \/ r.fires) BY <2>1, <2>6, <2>12
    <3> QED BY <3>1 DEF should_record
  <2>13. at' # "emit" => Since(seen.row, o.next.last) /\ Since(seen.row, r.next.fired)
    <3> SUFFICES ASSUME at' # "emit" PROVE Since(seen.row, o.next.last) /\ Since(seen.row, r.next.fired)
      OBVIOUS
    <3>1. o.line = None /\ ~r.fires BY <2>12
    <3>2. Since(seen.row, escalator.last) /\ Since(seen.row, deaths.fired) BY <2>11
    <3>3. Since(seen.row, o.next.last)
      <4>1. CASE stable BY <2>4, <2>18, <4>1 DEF Since
      <4>2. CASE ~stable BY <2>4, <3>1, <3>2, <4>2
      <4> QED BY <4>1, <4>2
    <3>4. Since(seen.row, r.next.fired)
      <4>1. CASE r.next.armed BY <2>3, <3>1, <3>2, <4>1
      <4>2. CASE ~r.next.armed BY <2>3, <4>2 DEF Since
      <4> QED BY <4>1, <4>2
    <3> QED BY <3>3, <3>4
  <2>14. Since(seen.row, attempts.fired) BY <2>11
  <2>15. at' \notin {"running", "stop", "stop_dead"} BY <2>1
  <2>16. Told'
    BY <2>1, <2>6, <2>7, <2>8, <2>9, <2>10, <2>13, <2>14, <2>15, <2>19, <2>20
  <2> QED BY <2>1, <2>4, <2>6, <2>16, <2>19
<1>12. CASE retry
  <2> DEFINE o == record_failure(escalator)
             r == record(attempts)
  <2>1. /\ escalator' = o.next /\ attempts' = r.next /\ deaths' = deaths
        /\ verdict' = [record |-> failed_row(o.next, r.next, o.line, r.fires),
                       still_down |-> o.line, flapping |-> FALSE]
        /\ seen' = seen /\ ran' = ran
        /\ at' = IF verdict'.record THEN "emit" ELSE "wait"
    BY <1>12 DEF retry, note_failed_attempt
  <2>2. Spaced(attempts, 1) BY <1>12 DEF retry, Gap
  <2>3. /\ r.next \in AlarmType /\ r.fires \in BOOLEAN
        /\ r.fires => r.next.armed /\ r.next.fired = 0
        /\ r.next.armed /\ ~r.fires => attempts.armed /\ ~repeats(attempts) /\ r.next.fired = attempts.fired
        /\ ~r.next.armed => r.next.fired = None
    BY <2>2, Recorded
  <2>4. /\ o.next \in [first : Age, last : Age] /\ o.line \in Age
        /\ o.next.first = IF escalator.first = None THEN 0 ELSE escalator.first
        /\ o.line # None => o.line = o.next.first /\ o.next.last = 0 /\ o.next.first >= DownThreshold
        /\ o.line = None => o.next.last = escalator.last
    BY Failed
  <2> HIDE DEF o, r
  <2>5. failed_row(o.next, r.next, o.line, r.fires) \in BOOLEAN
    BY DEF failed_row, should_record
  <2>6. /\ verdict' \in [record : BOOLEAN, still_down : Age, flapping : BOOLEAN]
        /\ verdict'.still_down = o.line
        /\ verdict'.record = failed_row(o.next, r.next, o.line, r.fires)
    BY <2>1, <2>4, <2>5
  <2>7. r.next.armed => r.next.fired # None
    <3>1. 0 # None BY DEF None
    <3> QED BY <2>3, <3>1
  <2>8. o.next.first # None /\ o.next.first <= seen.stable
    <3>1. CASE escalator.first = None BY <2>4, <3>1 DEF None
    <3>2. CASE escalator.first # None BY <2>4, <3>2
    <3> QED BY <3>1, <3>2
  <2>9. o.next.last # None => o.next.first >= DownThreshold
    <3>1. CASE o.line # None BY <2>4, <3>1
    <3>2. CASE o.line = None
      <4>1. o.next.last = escalator.last BY <2>4, <3>2
      <4>2. escalator.last # None => escalator.first # None /\ escalator.first >= DownThreshold OBVIOUS
      <4> QED BY <2>4, <4>1, <4>2
    <3> QED BY <3>1, <3>2
  <2>10. o.line = None \/ o.line <= seen.stable BY <2>4, <2>8
  <2>11. at = "attempt" BY <1>12 DEF retry
  <2>12. ASSUME at' # "emit"
         PROVE  /\ o.line = None
                /\ r.fires => has_escalated(o.next)
    <3>1. ~failed_row(o.next, r.next, o.line, r.fires) BY <2>1, <2>6, <2>12
    <3> QED BY <3>1 DEF failed_row, should_record
  <2>13. at' # "emit" => Since(seen.row, o.next.last) /\ Since(seen.row, deaths.fired)
    BY <2>4, <2>11, <2>12
  <2>14. at' # "emit" => Since(seen.row, r.next.fired) \/ has_escalated(o.next)
    <3> SUFFICES ASSUME at' # "emit", ~has_escalated(o.next) PROVE Since(seen.row, r.next.fired)
      OBVIOUS
    <3>1. ~r.fires /\ o.line = None BY <2>12
    <3>2. ~has_escalated(escalator) BY <2>4, <3>1 DEF has_escalated
    <3>3. Since(seen.row, attempts.fired) BY <2>11, <3>2
    <3>4. CASE r.next.armed BY <2>3, <3>1, <3>3, <3>4
    <3>5. CASE ~r.next.armed BY <2>3, <3>5 DEF Since
    <3> QED BY <3>4, <3>5
  <2>15. at' \notin {"running", "stop", "stop_dead"} BY <2>1
  <2>16. Told'
    BY <2>1, <2>6, <2>7, <2>8, <2>9, <2>10, <2>13, <2>14, <2>15
  <2> QED BY <2>1, <2>4, <2>6, <2>16
<1>13. CASE fatal BY <1>13 DEF fatal
<1>14. CASE emit
  <2>1. seen' = [seen EXCEPT !.row = 0] /\ UNCHANGED policy BY <1>14 DEF emit
  <2>2. /\ seen' \in [stable : 0 .. Horizon, row : 0 .. Horizon, flap : 0 .. Horizon]
        /\ seen'.stable = seen.stable /\ seen'.row = 0 /\ seen'.flap = seen.flap
    <3>1. 0 \in 0 .. Horizon BY Bounds
    <3> QED BY <2>1, <3>1, SeenSet
  <2>3. \A x \in Age : Since(0, x) BY DEF Since, Age, None
  <2>4. Since(0, escalator.last) /\ Since(0, deaths.fired) /\ Since(0, attempts.fired)
    BY <2>3
  <2>5. ran' \in 0 .. Horizon BY <1>14, Bounds DEF emit
  <2> QED BY <2>1, <2>2, <2>4, <2>5
<1>15. CASE wait_or_shutdown BY <1>15 DEF wait_or_shutdown
<1>16. CASE send_shutdown BY <1>16 DEF send_shutdown
<1>17. CASE pump_ends BY <1>17 DEF pump_ends, rings
<1>18. CASE tick
  <2>1. /\ at' = at /\ verdict' = verdict /\ attempts' = older_alarm(attempts)
        /\ deaths' = older_alarm(deaths)
        /\ escalator' = [first |-> older(escalator.first), last |-> older(escalator.last)]
        /\ seen' = [k \in DOMAIN seen |-> older(seen[k])]
        /\ ran' \in {older(ran), ran}
    BY <1>18 DEF tick
  <2>2. /\ seen' \in [stable : 0 .. Horizon, row : 0 .. Horizon, flap : 0 .. Horizon]
        /\ seen'.stable = older(seen.stable) /\ seen'.row = older(seen.row)
        /\ seen'.flap = older(seen.flap)
    <3>1. older(seen.stable) \in 0 .. Horizon /\ older(seen.row) \in 0 .. Horizon
          /\ older(seen.flap) \in 0 .. Horizon
      BY OlderAge
    <3>2. DOMAIN seen = {"stable", "row", "flap"} OBVIOUS
    <3>3. seen' = [stable |-> older(seen.stable), row |-> older(seen.row), flap |-> older(seen.flap)]
      BY <2>1, <3>2
    <3> QED BY <3>1, <3>3
  <2>3. /\ deaths'.armed = deaths.armed /\ deaths'.fired = older(deaths.fired)
        /\ attempts'.armed = attempts.armed /\ attempts'.fired = older(attempts.fired)
    BY <2>1, Aged
  <2>4. /\ escalator' \in [first : Age, last : Age]
        /\ escalator'.first = older(escalator.first) /\ escalator'.last = older(escalator.last)
    BY <2>1, OlderAge
  <2>5. ran' \in 0 .. Horizon BY <2>1, OlderAge
  <2>6. \A x \in 0 .. Horizon, y \in Age : Since(x, y) => Since(older(x), older(y))
    <3> SUFFICES ASSUME NEW x \in 0 .. Horizon, NEW y \in Age, Since(x, y), older(y) # None
                 PROVE  older(x) <= older(y)
      BY DEF Since
    <3>1. x \in Age /\ y # None BY OlderAge DEF Age
    <3> QED BY <3>1, OlderAge DEF Since
  <2>7. /\ deaths.fired \in Age /\ attempts.fired \in Age /\ escalator.first \in Age /\ escalator.last \in Age
        /\ seen.row \in 0 .. Horizon /\ seen.flap \in 0 .. Horizon /\ seen.stable \in 0 .. Horizon
        /\ verdict.still_down \in Age
    OBVIOUS
  <2>8. /\ deaths'.armed => deaths'.fired # None
        /\ attempts'.armed => attempts'.fired # None
    BY <2>3, <2>7, OlderAge
  <2>9. escalator'.last # None => escalator'.first # None /\ escalator'.first >= DownThreshold
    <3> SUFFICES ASSUME older(escalator.last) # None
                 PROVE  older(escalator.first) # None /\ older(escalator.first) >= DownThreshold
      BY <2>4
    <3>1. escalator.last # None BY <2>7, OlderAge
    <3>2. escalator.first # None /\ escalator.first >= DownThreshold BY <3>1
    <3>3. PICK x \in 0 .. Horizon : x = escalator.first BY <2>7, <3>2 DEF Age
    <3>4. older(x) \in 0 .. Horizon /\ x <= older(x) /\ older(x) # None BY OlderAge
    <3> QED BY <3>2, <3>3, <3>4, Bounds
  <2>10. Since(seen'.flap, deaths'.fired) BY <2>2, <2>3, <2>6, <2>7
  <2>11. at # "emit" => Since(seen'.row, escalator'.last) /\ Since(seen'.row, deaths'.fired)
    BY <2>2, <2>3, <2>4, <2>6, <2>7
  <2>12. has_escalated(escalator) => has_escalated(escalator')
    BY <2>4, <2>7, OlderAge DEF has_escalated
  <2>13. at # "emit" => Since(seen'.row, attempts'.fired) \/ has_escalated(escalator')
    BY <2>2, <2>3, <2>6, <2>7, <2>12
  <2>14. at \in {"running", "stop", "stop_dead"} => Since(seen'.row, attempts'.fired)
    BY <2>2, <2>3, <2>6, <2>7
  <2>15. escalator'.first = None \/ escalator'.first <= seen'.stable
    <3>1. CASE escalator.first = None BY <2>4, <3>1, OlderAge
    <3>2. CASE escalator.first # None
      <4>1. escalator.first <= seen.stable /\ seen.stable \in Age BY <2>7, <3>2 DEF Age
      <4> QED BY <2>2, <2>4, <2>7, <4>1, OlderAge
    <3> QED BY <3>1, <3>2
  <2>16. verdict.still_down = None \/ verdict.still_down <= seen'.stable
    <3> SUFFICES ASSUME verdict.still_down # None PROVE verdict.still_down <= seen'.stable
      OBVIOUS
    <3>1. PICK x \in 0 .. Horizon : x = verdict.still_down BY <2>7 DEF Age
    <3>2. PICK y \in 0 .. Horizon : y = seen.stable BY <2>7
    <3>3. x <= y BY <3>1, <3>2
    <3>4. y <= older(y) /\ older(y) \in 0 .. Horizon BY OlderAge
    <3> QED BY <2>2, <3>1, <3>2, <3>3, <3>4
  <2>17. Told'
    BY <2>1, <2>8, <2>9, <2>10, <2>11, <2>13, <2>14, <2>15, <2>16
  <2> QED BY <2>1, <2>2, <2>4, <2>5, <2>17
<1> QED BY <1>1, <1>2, <1>3, <1>4, <1>5, <1>6, <1>7, <1>8, <1>9, <1>10,
           <1>11, <1>12, <1>13, <1>14, <1>15, <1>16, <1>17, <1>18 DEF Next, run

LEMMA InitInv == Init => BootInv
<1> SUFFICES ASSUME Init PROVE BootInv
  OBVIOUS
<1>1. Control BY DEF Init, Control, OwnBus, Up, Places, Outcomes
<1>2. Delays
  <2>1. next_delay(0) \in 1 .. MaxDelay BY NextDelay
  <2> QED BY <2>1, Bounds DEF Init, Delays, Slowing, Sleeps
<1>3. Windows
  <2>1. Disarmed \in AlarmType /\ Disarmed.recent = <<>> /\ Len(Disarmed.recent) = 0
    BY DEF Disarmed, AlarmType, Age
  <2>2. \A g : Spaced(Disarmed, g) BY <2>1 DEF Spaced
  <2> QED BY <2>1, <2>2, Bounds DEF Init, Windows
<1>4. Reports
  <2>1. None \in Age /\ Horizon \in 0 .. Horizon /\ 0 \in 0 .. Horizon BY Bounds DEF Age
  <2>2. \A x : Since(x, None) BY DEF Since
  <2> QED BY <2>1, <2>2 DEF Init, Reports, Told, Quiet, Disarmed, Unspoken
<1> QED BY <1>1, <1>2, <1>3, <1>4 DEF BootInv

LEMMA StepInv == BootInv /\ [Next]_vars => BootInv'
  BY ControlStep, DelaysStep, WindowsStep, ReportsStep DEF BootInv

-----------------------------------------------------------------------------
(* The theorems. *)

\* The supervisor's inductive invariant: only the current attempt's bus is up,
\* the next backoff is no shorter, the events of an alarm lie a tick apart, and
\* what an alarm remembers having said was written.
THEOREM BootInvariant == Spec => []BootInv
<1>1. BootInv /\ [Next]_vars => BootInv' BY StepInv
<1>2. QED BY <1>1, InitInv, PTL DEF Spec

\* The state has its types, never two buses run, and a supervisor that returns
\* leaves none: a completed attempt beats shutdown in the select, and both arms
\* of the select on a running bus stop it.
THEOREM OneBusAtMost == Spec => []NoBusLeaks
<1>1. BootInv => NoBusLeaks
  <2> SUFFICES ASSUME BootInv PROVE NoBusLeaks
    OBVIOUS
  <2>1. buses \in Nat /\ buses <= 1 BY DEF BootInv, Control, OwnBus
  <2>2. at = "ended" => buses = 0 BY DEF BootInv, Control, OwnBus, Up
  <2>3. TypeOK BY <2>1 DEF BootInv, Control, Delays, Windows, Reports, TypeOK
  <2> QED BY <2>1, <2>2, <2>3 DEF NoBusLeaks
<1>2. QED BY <1>1, BootInvariant, PTL

\* A backoff gets shorter only after a bus that ran for StableUptime: a start
\* alone, or a failed attempt in between, does not reset it.
THEOREM OnlyStabilityShortens == Spec => FlapsAreSlowed
<1> DEFINE A == delay' < delay => at = "stop_dead" /\ ran_long_enough(ran)
<1>1. BootInv /\ [Next]_vars => [A]_vars
  <2> SUFFICES ASSUME BootInv, [Next]_vars, delay' < delay
               PROVE  at = "stop_dead" /\ ran_long_enough(ran)
    OBVIOUS
  <2>1. /\ failures \in Nat /\ delay \in 0 .. MaxDelay /\ delay <= next_delay(failures)
        /\ next_delay(failures) \in 1 .. MaxDelay
    BY NextDelay DEF BootInv, Delays, Slowing
  <2>2. delay' # next_delay(failures) /\ delay' # delay BY <2>1
  <2>3. ~retry BY <2>2 DEF retry
  <2>4. CASE death
    <3>1. ran_long_enough(ran) BY <2>2, <2>4 DEF death
    <3> QED BY <2>4, <3>1 DEF death
  <2>5. CASE ~death
    <3>1. delay' = delay
      BY <2>3, <2>5 DEF Next, run, vars, begin, attempt, abandon_attempt, not_configured, started, emit_started,
         hear_shutdown, wait_for_death, stop, fatal, emit, wait_or_shutdown, send_shutdown, pump_ends, tick
    <3> QED BY <2>2, <3>1
  <2> QED BY <2>4, <2>5
<1>2. FlapsAreSlowed <=> [][A]_vars BY PTL DEF FlapsAreSlowed
<1> HIDE DEF A
<1>3. QED BY <1>1, <1>2, BootInvariant, PTL DEF Spec

\* A death or a failed attempt that leaves no row comes within a repeat interval
\* of one that did, a death in a storm finds or writes a CHANNEL FLAPPING line
\* that recent, and a CHANNEL STILL DOWN line reports no time in which the
\* channel was stably up.
THEOREM SilenceIsCovered == Spec => ReportsStayTrue
<1> DEFINE A1 == (at' = "wait" /\ at \in {"attempt", "stop_dead"})
                   => seen.row < DownRepeat \/ seen.row < FlapRepeat
           A2 == (at = "stop_dead" /\ at' # at /\ Len(deaths'.recent) >= FlapThreshold)
                   => seen'.flap < FlapRepeat
           A3 == verdict'.still_down \in {None} \cup 0 .. seen'.stable
           A == A1 /\ A2 /\ A3
<1>1. BootInv /\ [Next]_vars => [A]_vars
  <2> SUFFICES ASSUME BootInv, [Next]_vars PROVE A
    OBVIOUS
  <2> USE DEF BootInv
  <2>1. Reports' BY ReportsStep
  <2>2. A3
    <3>1. /\ verdict'.still_down \in Age /\ seen'.stable \in Nat
          /\ verdict'.still_down = None \/ verdict'.still_down <= seen'.stable
      BY <2>1 DEF Reports, Told
    <3> QED BY <3>1, Bounds DEF Age, None
  <2>3. seen.row \in Nat /\ seen.flap \in Nat BY DEF Reports
  <2>4. A2
    <3> SUFFICES ASSUME at = "stop_dead", at' # at, Len(deaths'.recent) >= FlapThreshold
                 PROVE  seen'.flap < FlapRepeat
      OBVIOUS
    <3>1. death
      BY DEF Next, run, vars, begin, attempt, abandon_attempt, not_configured, started, emit_started,
         hear_shutdown, wait_for_death, stop, retry, fatal, emit, wait_or_shutdown, send_shutdown, pump_ends, tick
    <3>2. Spaced(deaths, 1) /\ deaths \in AlarmType BY DEF Windows, Gap
    <3> DEFINE r == record(deaths)
    <3>3. deaths' = r.next /\ verdict'.flapping = r.fires BY <3>1 DEF death, note_death
    <3>4. /\ r.fires \in BOOLEAN /\ r.next.armed = (Len(r.next.recent) >= FlapThreshold)
          /\ r.fires => r.next.armed /\ r.next.fired = 0
          /\ r.next.armed /\ ~r.fires => deaths.armed /\ ~repeats(deaths) /\ r.next.fired = deaths.fired
      BY <3>2, Recorded
    <3> HIDE DEF r
    <3>5. r.next.armed BY <3>3, <3>4
    <3>6. /\ deaths'.fired # None /\ Since(seen'.flap, deaths'.fired)
          /\ seen'.flap \in 0 .. Horizon
      BY <2>1, <3>3, <3>5 DEF Reports, Told
    <3>7. CASE r.fires
      <4>1. seen'.flap <= 0 BY <3>3, <3>4, <3>6, <3>7 DEF Since
      <4> QED BY <3>6, <4>1, Bounds
    <3>8. CASE ~r.fires
      <4>1. ~repeats(deaths) /\ deaths'.fired = deaths.fired BY <3>3, <3>4, <3>5, <3>8
      <4>2. PICK f \in 0 .. Horizon : f = deaths.fired
        BY <3>2, <3>6, <4>1 DEF AlarmType, Age
      <4>3. f < FlapRepeat BY <3>6, <4>1, <4>2, Bounds DEF repeats
      <4>4. seen'.flap <= f BY <3>6, <4>1, <4>2 DEF Since
      <4> QED BY <3>6, <4>3, <4>4, Bounds
    <3> QED BY <3>4, <3>7, <3>8
  <2>5. A1
    <3> SUFFICES ASSUME at' = "wait", at \in {"attempt", "stop_dead"}
                 PROVE  seen.row < DownRepeat \/ seen.row < FlapRepeat
      OBVIOUS
    <3>1. death \/ retry
      BY DEF Next, run, vars, begin, attempt, abandon_attempt, not_configured, started, emit_started,
         hear_shutdown, wait_for_death, stop, fatal, emit, wait_or_shutdown, send_shutdown, pump_ends, tick
    <3>2. /\ Spaced(deaths, 1) /\ deaths \in AlarmType /\ Spaced(attempts, 1) /\ attempts \in AlarmType
      BY DEF Windows, Gap
    <3>3. /\ escalator \in [first : Age, last : Age]
          /\ Since(seen.row, escalator.last) /\ Since(seen.row, deaths.fired)
          /\ Since(seen.row, attempts.fired) \/ has_escalated(escalator)
          /\ deaths.armed => deaths.fired # None
          /\ attempts.armed => attempts.fired # None
          /\ escalator.last # None => escalator.first # None /\ escalator.first >= DownThreshold
      BY DEF Reports, Told
    <3>4. ASSUME NEW a \in AlarmType, a.armed, ~repeats(a), a.fired # None, Since(seen.row, a.fired)
          PROVE  seen.row < FlapRepeat
      <4>1. PICK f \in 0 .. Horizon : f = a.fired BY <3>4 DEF AlarmType, Age
      <4>2. f < FlapRepeat BY <3>4, <4>1, Bounds DEF repeats
      <4>3. seen.row <= f BY <3>4, <4>1 DEF Since
      <4> QED BY <2>3, <4>2, <4>3, Bounds
    <3>5. CASE death
      <4> DEFINE r == record(deaths)
                 l == note_outage(escalator, ran_long_enough(ran)).line
      <4>1. ~should_record(in_storm(r.next), l # None \/ r.fires)
        BY <3>5 DEF death, note_death
      <4>2. r.next.armed /\ ~r.fires BY <4>1 DEF should_record, in_storm
      <4>3. deaths.armed /\ ~repeats(deaths) BY <3>2, <4>2, Recorded
      <4> QED BY <3>2, <3>3, <3>4, <4>3
    <3>6. CASE retry
      <4> DEFINE r == record(attempts)
                 o == record_failure(escalator)
      <4>1. ~failed_row(o.next, r.next, o.line, r.fires)
        BY <3>6 DEF retry, note_failed_attempt
      <4>2. /\ r.fires \in BOOLEAN
            /\ r.next.armed /\ ~r.fires => attempts.armed /\ ~repeats(attempts)
        BY <3>2, Recorded
      <4>3. /\ o.next.first = IF escalator.first = None THEN 0 ELSE escalator.first
            /\ o.line = None =>
                 /\ o.next.last = escalator.last
                 /\ ~(o.next.first >= DownThreshold /\ (escalator.last = None \/ escalator.last >= DownRepeat))
        BY <3>3, Failed
      <4> HIDE DEF r, o
      <4>4. o.line = None /\ (has_escalated(o.next) \/ r.next.armed)
            /\ ~(r.fires /\ ~has_escalated(o.next))
        BY <4>1 DEF failed_row, should_record, in_storm
      <4>5. CASE has_escalated(o.next)
        <5>1. escalator.last # None BY <4>3, <4>4, <4>5 DEF has_escalated
        <5>2. o.next.first >= DownThreshold BY <3>3, <4>3, <5>1
        <5>3. PICK f \in 0 .. Horizon : f = escalator.last BY <3>3, <5>1 DEF Age
        <5>4. f < DownRepeat BY <4>3, <4>4, <5>2, <5>3, Bounds
        <5>5. seen.row <= f BY <3>3, <5>1, <5>3 DEF Since
        <5> QED BY <2>3, <5>4, <5>5, Bounds
      <4>6. CASE ~has_escalated(o.next)
        <5>1. attempts.armed /\ ~repeats(attempts) BY <4>2, <4>4, <4>6
        <5>2. ~has_escalated(escalator) BY <4>3, <4>4, <4>6 DEF has_escalated
        <5> QED BY <3>2, <3>3, <3>4, <5>1, <5>2
      <4> QED BY <4>5, <4>6
    <3> QED BY <3>1, <3>5, <3>6
  <2> QED BY <2>2, <2>4, <2>5
<1>2. ReportsStayTrue <=> [][A]_vars BY PTL DEF ReportsStayTrue
<1> HIDE DEF A
<1>3. QED BY <1>1, <1>2, BootInvariant, PTL DEF Spec
=============================================================================
