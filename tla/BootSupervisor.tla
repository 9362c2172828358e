--------------------------- MODULE BootSupervisor ---------------------------
(***************************************************************************)
(* The supervisor that brings one channel up and keeps it up               *)
(* (core/src/channel/boot_supervisor.rs, its downtime escalator and        *)
(* reporting policy, respawn_alarm.rs, and the death bell of               *)
(* pump_liveness.rs).  It calls `attempt' until a bus starts, waits for    *)
(* that bus to lose a pump or for the daemon to shut down, stops it, and   *)
(* starts over after a backoff; for every failed attempt and every death   *)
(* it decides which loud line is written and whether a durable row is.     *)
(*                                                                         *)
(* Time is counted in ticks.  An Instant the code keeps is modelled by its *)
(* age, which stops growing at Horizon: no comparison of the code tells    *)
(* larger ages apart.                                                      *)
(***************************************************************************)
EXTENDS Integers, Sequences

CONSTANTS
    BaseDelay,      \* RestartBackoff: the first delay
    MaxDelay,       \* and its cap
    StableUptime,   \* a bus that ran this long has worked
    DownThreshold,  \* DowntimeEscalator: first CHANNEL STILL DOWN line
    DownRepeat,     \* and the interval of the next ones
    FlapWindow,     \* RespawnRateAlarm: how far back events count
    FlapThreshold,  \* how many of them are a storm
    FlapRepeat,     \* interval at which a lasting storm speaks again
    Horizon         \* bound on every age

ASSUME ConstantsAssumption ==
    /\ {BaseDelay, MaxDelay, StableUptime, DownThreshold, DownRepeat,
        FlapWindow, FlapThreshold, FlapRepeat, Horizon} \subseteq Nat \ {0}
    /\ BaseDelay <= MaxDelay
    /\ \A d \in {StableUptime, DownThreshold, DownRepeat, FlapWindow, FlapRepeat} :
          d < Horizon

VARIABLES
    at,         \* where `run' stands
    shutdown,   \* the oneshot has been sent
    ready,      \* what the attempt in flight has returned
    buses,      \* buses started and not stopped
    died,       \* a pump of the running bus has ended
    permit,     \* the death bell's stored wake-up
    failures,   \* restart-worthy events since the channel was last healthy
    delay,      \* the backoff chosen by the latest event
    left,       \* what is left of the sleep
    ran,        \* age of started_at
    escalator, deaths, attempts,    \* the ReportingPolicy
    verdict,    \* what the latest event earned
    seen        \* history: ages of the last stable death, row and flap line

vars == <<at, shutdown, ready, buses, died, permit, failures, delay, left, ran,
          escalator, deaths, attempts, verdict, seen>>

policy == <<escalator, deaths, attempts, verdict>>

-----------------------------------------------------------------------------
(* Ages *)

None == -1

Age == {None} \cup 0 .. Horizon

older(a) == IF a = None \/ a = Horizon THEN a ELSE a + 1

-----------------------------------------------------------------------------
(* RestartBackoff::next_delay: doubling from the base up to the cap.  The
   count of failures is only ever used through it, so it stops where the
   delay no longer grows. *)

Backoff[n \in Nat] ==
    IF n = 0 THEN BaseDelay
    ELSE LET d == 2 * Backoff[n - 1] IN IF d < MaxDelay THEN d ELSE MaxDelay

next_delay(n) == Backoff[n]

one_more(n) == IF Backoff[n] = MaxDelay THEN n ELSE n + 1

\* A variant that takes a start for a recovery.
reset_by_a_start(n) == 0

\* The failures an unstable death leaves behind: it counts as one more.
after_flap(n) == one_more(n)

-----------------------------------------------------------------------------
(* DowntimeEscalator *)

Quiet == [first |-> None, last |-> None]

record_success(e) == Quiet

\* record_failure: the escalator after a failure now, and the downtime the
\* loud line reports, None when there is no line.
record_failure(e) ==
    LET first == IF e.first = None THEN 0 ELSE e.first
        fires == first >= DownThreshold /\ (e.last = None \/ e.last >= DownRepeat)
    IN  [next |-> [first |-> first, last |-> IF fires THEN 0 ELSE e.last],
         line |-> IF fires THEN first ELSE None]

has_escalated(e) == e.last # None

ran_long_enough(r) == r >= StableUptime

\* note_outage: a death after a stable run ends the outage and opens none.
note_outage(e, stable) ==
    IF stable THEN [next |-> record_success(e), line |-> None]
              ELSE record_failure(e)

-----------------------------------------------------------------------------
(* RespawnRateAlarm *)

Disarmed == [recent |-> << >>, armed |-> FALSE, fired |-> None]

repeats(a) == a.fired # None /\ a.fired >= FlapRepeat

\* The events still in the window: stale ones are popped, oldest first.
in_window(recent) ==
    LET stale(k) == \A i \in 1 .. k : recent[i] > FlapWindow
        popped == CHOOSE k \in 0 .. Len(recent) :
                      stale(k) /\ (k < Len(recent) => recent[k + 1] <= FlapWindow)
    IN  SubSeq(recent, popped + 1, Len(recent))

\* record: prune, count this event, fire on the edge of a storm and again at
\* every repeat interval while it lasts.
record(a) ==
    LET recent == Append(in_window(a.recent), 0)
        storm  == Len(recent) >= FlapThreshold
        fires  == storm /\ (a.armed => repeats(a))
    IN  [next  |-> [recent |-> recent, armed |-> storm,
                    fired |-> IF fires THEN 0 ELSE IF storm THEN a.fired ELSE None],
         fires |-> fires]

in_storm(a) == a.armed

-----------------------------------------------------------------------------
(* ReportingPolicy *)

should_record(latched, spoke) == ~latched \/ spoke

Unspoken == [record |-> FALSE, still_down |-> None, flapping |-> FALSE]

\* A variant that drops every row of a storm, the one that speaks included.
latched_means_silent(e, a, line, fires) == ~(has_escalated(e) \/ in_storm(a))

\* note_failed_attempt's row: kept unless one of the two latches holds and
\* neither alarm spoke; the rate gate has no voice once the escalator has one.
failed_row(e, a, line, fires) ==
    should_record(has_escalated(e) \/ in_storm(a), line # None \/ (fires /\ ~has_escalated(e)))

note_failed_attempt ==
    LET outage == record_failure(escalator)
        rate   == record(attempts)
    IN  /\ escalator' = outage.next
        /\ attempts' = rate.next
        /\ verdict' = [record |-> failed_row(outage.next, rate.next, outage.line, rate.fires),
                       still_down |-> outage.line, flapping |-> FALSE]
        /\ UNCHANGED deaths

note_death(stable) ==
    LET outage == note_outage(escalator, stable)
        rate   == record(deaths)
    IN  /\ escalator' = outage.next
        /\ deaths' = rate.next
        /\ verdict' = [record |-> should_record(in_storm(rate.next),
                                                outage.line # None \/ rate.fires),
                       still_down |-> outage.line, flapping |-> rate.fires]
        /\ UNCHANGED attempts

-----------------------------------------------------------------------------
(* ChannelSupervisor::spawn *)

Places == {"top", "attempt", "emit_started", "running", "stop", "stop_dead",
           "emit", "emit_fatal", "wait", "ended"}

Outcomes == {"started", "retry", "fatal", "not_configured"}

Init ==
    /\ at = "top" /\ shutdown = FALSE /\ ready = "pending"
    /\ buses = 0 /\ died = FALSE /\ permit = FALSE
    /\ failures = 0 /\ delay = 0 /\ left = 0 /\ ran = 0
    /\ escalator = Quiet /\ deaths = Disarmed /\ attempts = Disarmed
    /\ verdict = Unspoken
    /\ seen = [stable |-> Horizon, row |-> Horizon, flap |-> Horizon]

(* The loop's top: never start an attempt once shutdown has arrived. *)
begin ==
    /\ at = "top"
    /\ at' = IF shutdown THEN "ended" ELSE "attempt"
    /\ ready' = "pending"
    /\ UNCHANGED <<shutdown, buses, died, permit, failures, delay, left, ran, policy, seen>>

(* The attempt in flight returns; `started' hands over a bus with its bell. *)
attempt(outcome) ==
    /\ at = "attempt" /\ ready = "pending"
    /\ ready' = outcome
    /\ buses' = IF outcome = "started" THEN buses + 1 ELSE buses
    /\ died' = FALSE /\ permit' = FALSE
    /\ UNCHANGED <<at, shutdown, failures, delay, left, ran, policy, seen>>

\* A variant of the select that polls shutdown first.
shutdown_first == TRUE

\* The select's `biased' order: an attempt that has completed is never
\* discarded in favour of shutdown.
attempt_first == ready = "pending"

abandon_attempt ==
    /\ at = "attempt" /\ shutdown /\ attempt_first
    /\ at' = "ended"
    /\ UNCHANGED <<shutdown, ready, buses, died, permit, failures, delay, left, ran,
                   policy, seen>>

not_configured ==
    /\ at = "attempt" /\ ready = "not_configured"
    /\ at' = "ended"
    /\ UNCHANGED <<shutdown, ready, buses, died, permit, failures, delay, left, ran,
                   policy, seen>>

(* Started: its row is never gated; started_at is taken after the row. *)
started ==
    /\ at = "attempt" /\ ready = "started"
    /\ at' = "emit_started"
    /\ UNCHANGED <<shutdown, ready, buses, died, permit, failures, delay, left, ran,
                   policy, seen>>

emit_started ==
    /\ at = "emit_started"
    /\ at' = "running" /\ ran' = 0
    /\ seen' = [seen EXCEPT !.row = 0]
    /\ UNCHANGED <<shutdown, ready, buses, died, permit, failures, delay, left, policy>>

(* The select on the running bus: shutdown first. *)
hear_shutdown ==
    /\ at = "running" /\ shutdown
    /\ at' = "stop"
    /\ UNCHANGED <<shutdown, ready, buses, died, permit, failures, delay, left, ran,
                   policy, seen>>

wait_for_death ==
    /\ at = "running" /\ ~shutdown /\ permit
    /\ at' = "stop_dead" /\ permit' = FALSE
    /\ UNCHANGED <<shutdown, ready, buses, died, failures, delay, left, ran, policy, seen>>

stop ==
    /\ at = "stop"
    /\ at' = "ended" /\ buses' = buses - 1 /\ died' = FALSE
    /\ UNCHANGED <<shutdown, ready, permit, failures, delay, left, ran, policy, seen>>

(* A death: the bus is stopped all the same, the failures are reset by a
   stable run and counted by a flap, and the event is reported. *)
death ==
    LET stable == ran_long_enough(ran) IN
    /\ at = "stop_dead"
    /\ buses' = buses - 1 /\ died' = FALSE
    /\ failures' = IF stable THEN 0 ELSE after_flap(failures)
    /\ delay' = next_delay(IF stable THEN 0 ELSE failures)
    /\ left' = delay'
    /\ note_death(stable)
    /\ at' = IF verdict'.record THEN "emit" ELSE "wait"
    /\ seen' = [seen EXCEPT !.stable = IF stable THEN 0 ELSE @,
                            !.flap   = IF verdict'.flapping THEN 0 ELSE @]
    /\ UNCHANGED <<shutdown, ready, permit, ran>>

retry ==
    /\ at = "attempt" /\ ready = "retry"
    /\ delay' = next_delay(failures)
    /\ failures' = one_more(failures)
    /\ left' = delay'
    /\ note_failed_attempt
    /\ at' = IF verdict'.record THEN "emit" ELSE "wait"
    /\ UNCHANGED <<shutdown, ready, buses, died, permit, ran, seen>>

fatal ==
    /\ at = "attempt" /\ ready = "fatal"
    /\ at' = "emit_fatal"
    /\ UNCHANGED <<shutdown, ready, buses, died, permit, failures, delay, left, ran,
                   policy, seen>>

(* The gated row of a death or a failed attempt, and the row of a fatal one. *)
emit ==
    /\ at \in {"emit", "emit_fatal"}
    /\ at' = IF at = "emit" THEN "wait" ELSE "ended"
    /\ seen' = [seen EXCEPT !.row = 0]
    /\ UNCHANGED <<shutdown, ready, buses, died, permit, failures, delay, left, ran, policy>>

wait_or_shutdown ==
    /\ at = "wait" /\ (shutdown \/ left = 0)
    /\ at' = IF shutdown THEN "ended" ELSE "top"
    /\ UNCHANGED <<shutdown, ready, buses, died, permit, failures, delay, left, ran,
                   policy, seen>>

-----------------------------------------------------------------------------
(* The daemon, the bus's pumps and the clock *)

send_shutdown ==
    /\ ~shutdown
    /\ shutdown' = TRUE
    /\ UNCHANGED <<at, ready, buses, died, permit, failures, delay, left, ran, policy, seen>>

\* PumpLife::drop rings with notify_one, whose permit is kept when nobody
\* waits yet; the variant is notify_waiters, which forgets it.
rings_only_a_waiter == at = "running"

rings == TRUE

pump_ends ==
    /\ buses > 0 /\ ~died
    /\ at \in {"attempt", "emit_started", "running"}
    /\ died' = TRUE /\ permit' = rings
    /\ UNCHANGED <<at, shutdown, ready, buses, failures, delay, left, ran, policy, seen>>

older_alarm(a) ==
    [a EXCEPT !.recent = [i \in DOMAIN @ |-> older(@[i])], !.fired = older(@)]

tick ==
    /\ at # "ended"
    /\ left' = IF at = "wait" /\ left > 0 THEN left - 1 ELSE left
    /\ ran' = IF at \in {"running", "stop", "stop_dead"} THEN older(ran) ELSE ran
    /\ escalator' = [first |-> older(escalator.first), last |-> older(escalator.last)]
    /\ deaths' = older_alarm(deaths)
    /\ attempts' = older_alarm(attempts)
    /\ seen' = [k \in DOMAIN seen |-> older(seen[k])]
    /\ UNCHANGED <<at, shutdown, ready, buses, died, permit, failures, delay, verdict>>

run ==
    \/ begin \/ abandon_attempt \/ not_configured \/ started \/ emit_started
    \/ hear_shutdown \/ wait_for_death \/ stop \/ death \/ retry \/ fatal
    \/ emit \/ wait_or_shutdown

Next ==
    \/ run
    \/ \E outcome \in Outcomes : attempt(outcome)
    \/ send_shutdown
    \/ pump_ends
    \/ tick

Spec == Init /\ [][Next]_vars

\* The task is scheduled, its awaits (a row's insert, a bus's stop, a sleep)
\* are bounded, and time passes.  Nothing is assumed of the attempt.
FairSpec == Spec /\ WF_vars(run) /\ WF_vars(tick)

-----------------------------------------------------------------------------
(* Properties *)

AlarmType ==
    [recent : Seq(0 .. Horizon), armed : BOOLEAN, fired : Age]

\* The type of the state; a window holds no more events than its ticks.
TypeOK ==
    /\ at \in Places
    /\ shutdown \in BOOLEAN /\ died \in BOOLEAN /\ permit \in BOOLEAN
    /\ ready \in Outcomes \cup {"pending"}
    /\ buses \in Nat /\ failures \in Nat
    /\ delay \in 0 .. MaxDelay /\ left \in 0 .. MaxDelay /\ ran \in 0 .. Horizon
    /\ escalator \in [first : Age, last : Age]
    /\ deaths \in AlarmType /\ attempts \in AlarmType
    /\ Len(deaths.recent) <= Horizon + 1 /\ Len(attempts.recent) <= Horizon + 1
    /\ verdict \in [record : BOOLEAN, still_down : Age, flapping : BOOLEAN]
    /\ seen \in [stable : 0 .. Horizon, row : 0 .. Horizon, flap : 0 .. Horizon]

\* The state has its types, there is never more than one bus, and a supervisor
\* that has returned has left none running: a completed attempt beats shutdown
\* in the first select and both arms of the second one stop the bus
\* (boot_supervisor.rs:246, 314).
NoBusLeaks == TypeOK /\ buses <= 1 /\ (at = "ended" => buses = 0)

\* The thinned reports stay true.  A death or a failed attempt that leaves no
\* row comes within a repeat interval of some row of this channel, be it of a
\* death, of a failed attempt or of a start; a death that is at least
\* the FlapThreshold-th of its window finds a CHANNEL FLAPPING line less than a
\* repeat interval old, or writes one; and no stable run ended within the time
\* a CHANNEL STILL DOWN line reports (reporting.rs:86, 188, 296, respawn_alarm.rs:116).
ReportsStayTrue ==
    [][/\ (at' = "wait" /\ at \in {"attempt", "stop_dead"})
             => seen.row < DownRepeat \/ seen.row < FlapRepeat
       /\ (at = "stop_dead" /\ at' # at /\ Len(deaths'.recent) >= FlapThreshold)
             => seen'.flap < FlapRepeat
       /\ verdict'.still_down \in {None} \cup 0 .. seen'.stable]_vars

\* Only a stable run earns the base delay again: a channel that keeps dying
\* on arrival is restarted ever more slowly (boot_supervisor.rs:343).
FlapsAreSlowed ==
    [][delay' < delay => at = "stop_dead" /\ ran_long_enough(ran)]_vars

\* Nothing the supervisor waits for is missed, at whichever await it stands: a
\* bus that loses a pump, even before anybody listens, is replaced, and a
\* shutdown ends the supervisor, an attempt that never returns included
\* (pump_liveness.rs:83, boot_supervisor.rs:197).
NoEventMissed ==
    /\ (at = "running" /\ died) ~> (at \in {"attempt", "ended"})
    /\ shutdown ~> (at = "ended")
=============================================================================
