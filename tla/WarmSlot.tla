------------------------------ MODULE WarmSlot ------------------------------
(***************************************************************************)
(* The workers a tool call runs in: core/src/worker_lifecycle (manager.rs, *)
(* composite.rs, idle_timeout.rs and its release.rs and liveness.rs), the  *)
(* per-call watchdog of core/src/tool_host/watchdog.rs, and how a dispatch *)
(* uses them (scheduler/tool_dispatch.rs, tool_host.rs).                   *)
(*                                                                         *)
(* One tool is kept warm: its slot, a fair (FIFO) tokio mutex, holds at    *)
(* most one idle worker.  A caller queues for the mutex, sleeps out the    *)
(* restart backoff with the mutex held, takes the warm worker or spawns    *)
(* one, and keeps the mutex until its handle is dropped.  Each clean       *)
(* release leaves an idle-teardown task behind.  (A single-use tool shares *)
(* nothing: its dispatch spawns a worker and drops it.)                    *)
(*                                                                         *)
(* Durations are abstracted: the idle period, the call deadline and the    *)
(* age cap each elapse in a step of their own; the restart backoff is      *)
(* counted in ticks.  Worker ids and Instants are reused once nothing      *)
(* refers to them.                                                         *)
(***************************************************************************)
EXTENDS Integers, Sequences, FiniteSets

CONSTANTS
  Callers,      \* dispatches of the warm tool
  Workers,      \* worker processes
  Instants,     \* values of last_completion
  None,
  MaxRequests,  \* caps.max_requests, 0 for no cap
  HasMaxAge,    \* caps.max_age_seconds > 0
  HasIdle,      \* caps.idle_seconds > 0
  HasWallClock, \* entry.wall_clock_ms is set
  Base, Factor, Cap,  \* the restart backoff, in ticks (1 s, 2, 60 s)
  RestartBound        \* where the model stops counting restarts

\* RestartBackoff::next_delay: the loop over consecutive restarts.
Delay[k \in Nat] ==
  LET d == IF k = 0 THEN Base ELSE Delay[k - 1] * Factor
  IN  IF d >= Cap THEN Cap ELSE d
delay_flat(k) == Base
next_delay(k) == Delay[k]

\* The delay the backoff is meant to reach, without its cap: Base * Factor ^ k.
Uncapped[k \in Nat] == IF k = 0 THEN Base ELSE Uncapped[k - 1] * Factor

ASSUME WarmAssumption ==
  /\ None \notin Callers \cup Instants \cup Workers
  /\ None \notin [worker : Workers, count : Nat]
  /\ None \notin [worker : Workers, count : Nat, at : Instants]
  /\ Callers \cap Instants = {} /\ IsFiniteSet(Callers)
  /\ MaxRequests \in Nat
  /\ {HasMaxAge, HasIdle, HasWallClock} \subseteq BOOLEAN
  /\ Base \in Nat \ {0} /\ Factor \in Nat \ {0} /\ Cap \in Nat /\ Base <= Cap
  /\ RestartBound \in Nat /\ Uncapped[RestartBound] >= Cap

VARIABLES
  pc,       \* each dispatch
  died,     \* the handle's flag, set by report_crash
  lent,     \* the handle: its worker and request_count_so_far
  holder,   \* who holds the slot's mutex: a caller, a teardown task or None
  queue,    \* who waits for it
  warm,     \* the slot's idle worker, its request_count and last_completion
  gate,     \* ticks left until next_spawn_allowed_at
  restarts, \* consecutive_restarts
  task,     \* the teardown task of each Instant
  handle,   \* idle_teardown_handle
  proc,     \* each worker: "none", "alive", "dead" (not yet dropped)
  aged,     \* spawned more than max_age_seconds ago
  dog,      \* each worker's watchdog: "off", "armed", or "late" past its deadline
  crashes,  \* ghost: dispatches that lost their worker since the last clean one
  owed,     \* ghost: ticks the tool must still be kept down after a crash
  calls,    \* ghost: calls made to each worker since its spawn
  tainted   \* ghost: a call of this worker ended in a fatal error

slotvars == <<holder, queue, warm, gate, restarts, task, handle>>
procvars == <<proc, aged, dog, calls, tainted>>
backvars == <<crashes, owed>>
vars == <<pc, died, lent, slotvars, procvars, backvars>>

PCs == {"idle", "queued", "spawn", "handle", "call", "read", "done"}

\* The types; the gate and the delay it is set to stay within the backoff's cap
\* (idle_timeout.rs next_delay).
TypeOK ==
  /\ pc \in [Callers -> PCs]
  /\ died \in [Callers -> BOOLEAN]
  /\ lent \in [Callers -> {None} \cup [worker : Workers, count : Nat]]
  /\ holder \in Callers \cup Instants \cup {None}
  /\ queue \in Seq(Callers \cup Instants)
  /\ warm \in {None} \cup [worker : Workers, count : Nat, at : Instants]
  /\ gate \in 0..Cap /\ restarts \in 0..RestartBound
  /\ task \in [Instants -> {"none", "sleep", "awake", "queued", "doomed"}]
  /\ handle \in Instants \cup {None}
  /\ proc \in [Workers -> {"none", "alive", "dead"}]
  /\ aged \in [Workers -> BOOLEAN]
  /\ dog \in [Workers -> {"off", "armed", "late"}]
  /\ crashes \in 0..RestartBound /\ owed \in 0..Cap
  /\ calls \in [Workers -> Nat] /\ tainted \in [Workers -> BOOLEAN]

Init ==
  /\ pc = [c \in Callers |-> "idle"]
  /\ died = [c \in Callers |-> FALSE]
  /\ lent = [c \in Callers |-> None]
  /\ holder = None /\ queue = << >>
  /\ warm = None /\ gate = 0 /\ restarts = 0
  /\ task = [i \in Instants |-> "none"] /\ handle = None
  /\ proc = [w \in Workers |-> "none"]
  /\ aged = [w \in Workers |-> FALSE]
  /\ dog = [w \in Workers |-> "off"]
  /\ crashes = 0 /\ owed = 0
  /\ calls = [w \in Workers |-> 0]
  /\ tainted = [w \in Workers |-> FALSE]

-----------------------------------------------------------------------------
(* The slot's mutex and the caps. *)

\* lock_owned().await: taken at once when it is free, else behind the others.
lock(x) ==
  IF holder = None THEN holder' = x /\ UNCHANGED queue
                   ELSE queue' = Append(queue, x) /\ UNCHANGED holder

\* The queue without the waiter that was aborted; a task waits at most once.
waiting(gone) ==
  IF \E k \in DOMAIN queue : queue[k] \in gone
  THEN LET k == CHOOSE k \in DOMAIN queue : queue[k] \in gone
       IN  SubSeq(queue, 1, k - 1) \o SubSeq(queue, k + 1, Len(queue))
  ELSE queue

\* The guard is dropped: the longest waiter is handed the mutex.
unlock(gone) ==
  LET rest == waiting(gone)
  IN  /\ holder' = IF rest = << >> THEN None ELSE Head(rest)
      /\ queue' = IF rest = << >> THEN << >> ELSE Tail(rest)

is_request_capped(count) == MaxRequests > 0 /\ count >= MaxRequests

is_aged_out(w) == HasMaxAge /\ aged[w]

drop_unreaped(w) == UNCHANGED procvars
\* SupervisedWorker dropped: its pipes close, the process is killed and reaped.
drop_worker(w) ==
  /\ proc' = [proc EXCEPT ![w] = "none"]
  /\ dog' = [dog EXCEPT ![w] = "off"]
  /\ aged' = [aged EXCEPT ![w] = FALSE]
  /\ calls' = [calls EXCEPT ![w] = 0]
  /\ tainted' = [tainted EXCEPT ![w] = FALSE]

\* abort(): a task that sleeps or waits for the mutex is gone; one that is being
\* polled runs on until its next await.
aborted(t) ==
  IF handle = None THEN t
  ELSE [t EXCEPT ![handle] = CASE @ \in {"sleep", "queued"} -> "none"
                               [] @ = "awake" -> "doomed"
                               [] OTHER -> @]
\* The waiters abort() takes out of the mutex's queue.
cancelled == {i \in Instants : i = handle /\ task[i] = "queued"}

-----------------------------------------------------------------------------
(* acquire. *)

\* acquire_impl up to lock_owned().await; the guard that counts the callers in
\* the queue, and the warning about a deep one, are left out.
acquire(c) ==
  /\ pc[c] = "idle"
  /\ pc' = [pc EXCEPT ![c] = "queued"]
  /\ lock(c)
  /\ UNCHANGED <<died, lent, warm, gate, restarts, task, handle, procvars, backvars>>

\* With the mutex: the restart backoff is slept out, then the warm worker is
\* taken unless it is too old, in which case it is dropped.
take(c) ==
  /\ pc[c] = "queued" /\ holder = c /\ gate = 0
  /\ warm' = None
  /\ \/ /\ warm # None /\ ~is_aged_out(warm.worker)
        /\ lent' = [lent EXCEPT ![c] = [worker |-> warm.worker, count |-> warm.count]]
        /\ pc' = [pc EXCEPT ![c] = "handle"]
        /\ UNCHANGED procvars
     \/ /\ warm # None /\ is_aged_out(warm.worker)
        /\ drop_worker(warm.worker)
        /\ pc' = [pc EXCEPT ![c] = "spawn"]
        /\ UNCHANGED lent
     \/ /\ warm = None
        /\ pc' = [pc EXCEPT ![c] = "spawn"]
        /\ UNCHANGED <<lent, procvars>>
  /\ UNCHANGED <<died, holder, queue, gate, restarts, task, handle, backvars>>

\* A worker id and an Instant nothing refers to.
fresh_worker == CHOOSE w \in Workers : proc[w] = "none"
fresh_instant == CHOOSE i \in Instants : task[i] = "none"

\* spawn_worker_with_optional_broker.
spawn_worker(c) ==
  /\ pc[c] = "spawn" /\ \E w \in Workers : proc[w] = "none"
  /\ proc' = [proc EXCEPT ![fresh_worker] = "alive"]
  /\ lent' = [lent EXCEPT ![c] = [worker |-> fresh_worker, count |-> 0]]
  /\ pc' = [pc EXCEPT ![c] = "handle"]
  /\ UNCHANGED <<died, slotvars, aged, dog, calls, tainted, backvars>>

\* The spawn fails: the guard is dropped, the slot stays empty, and the backoff
\* is not touched.
spawn_failed(c) ==
  /\ pc[c] = "spawn"
  /\ pc' = [pc EXCEPT ![c] = "idle"]
  /\ unlock({})
  /\ UNCHANGED <<died, lent, warm, gate, restarts, task, handle, procvars, backvars>>

-----------------------------------------------------------------------------
(* dispatch: one call to the worker, under its watchdog. *)

armed_once(w) == [dog EXCEPT ![w] = IF HasWallClock /\ calls[w] = 0 THEN "armed" ELSE "off"]
\* Watchdog::arm_scope.
armed(w) == [dog EXCEPT ![w] = IF HasWallClock THEN "armed" ELSE "off"]

\* SupervisedWorker::call: the watchdog is armed for exactly this call.
call(c) ==
  LET w == lent[c].worker
  IN  /\ pc[c] = "handle"
      /\ pc' = [pc EXCEPT ![c] = "call"]
      /\ dog' = armed(w)
      /\ calls' = [calls EXCEPT ![w] = @ + 1]
      /\ UNCHANGED <<died, lent, slotvars, proc, aged, tainted, backvars>>

\* A secret that cannot be redeemed, or an egress fingerprint that cannot be
\* written, ends the dispatch before the worker is called.
denied(c) ==
  /\ pc[c] = "handle"
  /\ pc' = [pc EXCEPT ![c] = "done"]
  /\ UNCHANGED <<died, lent, slotvars, procvars, backvars>>

dead_only_on_exit(r) == r = "early_exit"
\* WorkerRetirementCause::from_client_error: only a structured answer, a result
\* or an RPC error, leaves the worker alive and in step with its stream.
dispatch_indicates_worker_dead(r) == r \in {"early_exit", "garbled"}

\* The client reads what the worker wrote, or the end of its stream.
answer(c, r) ==
  LET w == lent[c].worker
  IN  /\ pc[c] = "call"
      /\ r = "early_exit" <=> proc[w] = "dead"
      /\ pc' = [pc EXCEPT ![c] = "read"]
      /\ died' = [died EXCEPT ![c] = dispatch_indicates_worker_dead(r)]
      /\ tainted' = [tainted EXCEPT ![w] = r \in {"early_exit", "garbled"}]
      /\ UNCHANGED <<lent, slotvars, proc, aged, dog, calls, backvars>>

not_disarmed(w) == dog
\* ArmGuard dropped.
disarmed(w) == [dog EXCEPT ![w] = "off"]

\* The call returns and the result is screened and audited.
call_returns(c) ==
  /\ pc[c] = "read"
  /\ pc' = [pc EXCEPT ![c] = "done"]
  /\ dog' = disarmed(lent[c].worker)
  /\ UNCHANGED <<died, lent, slotvars, proc, aged, calls, tainted, backvars>>

\* The deadline of the call passes.
deadline(w) ==
  /\ dog[w] = "armed"
  /\ dog' = [dog EXCEPT ![w] = "late"]
  /\ UNCHANGED <<pc, died, lent, slotvars, proc, aged, calls, tainted, backvars>>

\* The watchdog thread sees it passed, kills the worker and disarms.
watchdog_fires(w) ==
  /\ dog[w] = "late"
  /\ dog' = [dog EXCEPT ![w] = "off"]
  /\ proc' = [proc EXCEPT ![w] = IF @ = "alive" THEN "dead" ELSE @]
  /\ UNCHANGED <<pc, died, lent, slotvars, aged, calls, tainted, backvars>>

\* A worker exits by itself, in a call or idle: nobody notices until it is called.
worker_exits(w) ==
  /\ proc[w] = "alive"
  /\ proc' = [proc EXCEPT ![w] = "dead"]
  /\ UNCHANGED <<pc, died, lent, slotvars, aged, dog, calls, tainted, backvars>>

-----------------------------------------------------------------------------
(* WorkerHandle::drop. *)

bounded(n) == IF n < RestartBound THEN n ELSE RestartBound

handed_back(c) ==
  /\ pc[c] = "done"
  /\ pc' = [pc EXCEPT ![c] = "idle"]
  /\ died' = [died EXCEPT ![c] = FALSE]
  /\ lent' = [lent EXCEPT ![c] = None]

\* The worker died: the slot is cleared and the backoff raised.
release_crashed(c) ==
  /\ handed_back(c) /\ died[c]
  /\ drop_worker(lent[c].worker)
  /\ task' = aborted(task) /\ handle' = None /\ warm' = None
  /\ restarts' = bounded(restarts + 1)
  /\ gate' = next_delay(restarts)
  /\ crashes' = bounded(crashes + 1)
  /\ owed' = IF Uncapped[crashes] < Cap THEN Uncapped[crashes] ELSE Cap
  /\ unlock(cancelled)

retire(c) == \/ is_request_capped(lent[c].count + 1)
             \/ is_aged_out(lent[c].worker)

\* A clean dispatch ends the run of crashes, whatever becomes of the worker.
clean(c) ==
  /\ handed_back(c) /\ ~died[c]
  /\ restarts' = 0 /\ gate' = 0 /\ crashes' = 0 /\ owed' = 0

\* max_requests or max_age_seconds is reached: the worker is dropped.
release_capped(c) ==
  /\ clean(c) /\ retire(c)
  /\ drop_worker(lent[c].worker)
  /\ task' = aborted(task) /\ handle' = None /\ warm' = None
  /\ unlock(cancelled)

\* Otherwise it goes back into the slot, and the teardown task of the release
\* before gives way to one of its own.
release_warm(c) ==
  /\ clean(c) /\ ~retire(c) /\ \E i \in Instants : task[i] = "none"
  /\ warm' = [worker |-> lent[c].worker, count |-> lent[c].count + 1, at |-> fresh_instant]
  /\ task' = [aborted(task) EXCEPT ![fresh_instant] = IF HasIdle THEN "sleep" ELSE @]
  /\ handle' = IF HasIdle THEN fresh_instant ELSE None
  /\ unlock(cancelled)
  /\ UNCHANGED procvars

-----------------------------------------------------------------------------
(* The idle-teardown task: sleep, lock, compare, drop. *)

warm_at_all(i) == warm # None
\* The slot is still as this task's release left it.
unused_since(i) == warm # None /\ warm.at = i

teardown(i) ==
  /\ task' = [task EXCEPT ![i] = "none"]
  /\ IF unused_since(i)
     THEN drop_worker(warm.worker) /\ warm' = None /\ handle' = None
     ELSE UNCHANGED <<procvars, warm, handle>>
  /\ UNCHANGED <<pc, died, lent, gate, restarts, backvars>>

\* idle_seconds have passed.
wake(i) ==
  /\ task[i] = "sleep"
  /\ task' = [task EXCEPT ![i] = "awake"]
  /\ UNCHANGED <<pc, died, lent, holder, queue, warm, gate, restarts, handle, procvars, backvars>>

\* The mutex is free: the task runs to its end, even if it was aborted just now.
teardown_at_once(i) ==
  /\ task[i] \in {"awake", "doomed"} /\ holder = None
  /\ teardown(i)
  /\ UNCHANGED <<holder, queue>>

\* The mutex is taken: the task waits for it, or is gone if it was aborted.
teardown_waits(i) ==
  /\ task[i] \in {"awake", "doomed"} /\ holder # None
  /\ task' = [task EXCEPT ![i] = IF @ = "awake" THEN "queued" ELSE "none"]
  /\ IF task[i] = "awake" THEN lock(i) ELSE UNCHANGED <<holder, queue>>
  /\ UNCHANGED <<pc, died, lent, warm, gate, restarts, handle, procvars, backvars>>

\* It is handed the mutex.
teardown_locked(i) ==
  /\ task[i] = "queued" /\ holder = i
  /\ teardown(i)
  /\ unlock({})

-----------------------------------------------------------------------------
(* Time. *)

tick ==
  /\ gate > 0 \/ owed > 0
  /\ gate' = IF gate > 0 THEN gate - 1 ELSE 0
  /\ owed' = IF owed > 0 THEN owed - 1 ELSE 0
  /\ UNCHANGED <<pc, died, lent, holder, queue, warm, restarts, task, handle, procvars, crashes>>

ages(w) ==
  /\ HasMaxAge /\ proc[w] # "none" /\ ~aged[w]
  /\ aged' = [aged EXCEPT ![w] = TRUE]
  /\ UNCHANGED <<pc, died, lent, slotvars, proc, dog, calls, tainted, backvars>>

release(c) == release_crashed(c) \/ release_capped(c) \/ release_warm(c)

Next ==
  \/ \E c \in Callers :
       \/ acquire(c) \/ spawn_worker(c) \/ spawn_failed(c) \/ call(c) \/ denied(c)
       \/ \E r \in {"ok", "rpc_error", "garbled", "early_exit"} : answer(c, r)
       \/ call_returns(c) \/ release(c)
       \/ take(c)
  \/ \E w \in Workers : deadline(w) \/ watchdog_fires(w) \/ worker_exits(w) \/ ages(w)
  \/ \E i \in Instants : wake(i) \/ teardown_at_once(i) \/ teardown_waits(i) \/ teardown_locked(i)
  \/ tick

Spec == Init /\ [][Next]_vars

\* The runtime polls what is ready, timers fire, and a spawn or an audit
\* insert ends.  A worker need never answer: only the watchdog ends its call.
Fairness ==
  /\ \A c \in Callers :
       /\ WF_vars(spawn_worker(c) \/ spawn_failed(c))
       /\ WF_vars(call(c) \/ denied(c))
       /\ WF_vars(answer(c, "early_exit"))
       /\ WF_vars(call_returns(c)) /\ WF_vars(release(c))
  /\ \A c \in Callers : WF_vars(take(c))
  /\ \A w \in Workers : WF_vars(deadline(w)) /\ WF_vars(watchdog_fires(w))
  /\ \A i \in Instants :
       /\ WF_vars(wake(i)) /\ WF_vars(teardown_locked(i))
       /\ WF_vars(teardown_at_once(i) \/ teardown_waits(i))
  /\ WF_vars(tick)

FairSpec == Spec /\ Fairness

-----------------------------------------------------------------------------
(* Properties. *)

\* The state has its types, and the tool has at most one live worker: idle in
\* the slot, or lent to the one dispatch that holds the mutex.
OneWorkerPerTool ==
  /\ TypeOK
  /\ \A c \in Callers : lent[c] # None => holder = c /\ warm = None
  /\ Cardinality({w \in Workers : proc[w] # "none"}) <= 1

\* A worker left warm is fit for the next dispatch: it never answered out of
\* step, or not at all, and has a call left of max_requests, whoever made them.
FitForReuse ==
  warm # None =>
    /\ ~tainted[warm.worker]
    /\ MaxRequests > 0 => calls[warm.worker] < MaxRequests

\* After the n-th crash in a row the tool stays down for the whole of its n-th
\* delay, whoever asks for it and however many spawns fail in between.  A
\* dispatch that ends otherwise, a denied one too, ends the row.
BackoffServed == \A c \in Callers : pc[c] = "spawn" => owed = 0

\* The watchdog kills only a worker whose call is running: never an idle one,
\* nor the next call of a worker for the deadline of the last.
KillsOnlyInCall ==
  [][\A w \in Workers :
       dog[w] = "late" /\ dog'[w] = "off" /\ proc'[w] = "dead" =>
         \E c \in Callers : pc[c] \in {"call", "read"} /\ lent[c].worker = w]_vars

\* A teardown task takes only a worker that has been idle for the whole of
\* idle_seconds: the task of its own last release has slept through.
IdleForWholePeriod ==
  [][warm # None /\ warm' = None /\ lent' = lent /\ pc' = pc => task[warm.at] # "sleep"]_vars

\* With a wall clock (HasWallClock), every dispatch ends, behind whatever queue,
\* backoff and hung worker.  Without one nothing ends a hung call: gliner-relex
\* sets none (gliner_relex/entry.rs, wall_clock_ms: None).
EveryDispatchEnds ==
  HasWallClock => \A c \in Callers : pc[c] # "idle" ~> pc[c] = "idle"
=============================================================================
