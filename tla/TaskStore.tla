----------------------------- MODULE TaskStore -----------------------------
(***************************************************************************)
(* The task queue and the operator asks: db/src/tasks.rs, db/src/asks.rs,  *)
(* the lane runner of core/src/scheduler/runner.rs that drives them, the   *)
(* ask sweep, the startup crash sweep and the CLI's cancel.                *)
(*                                                                         *)
(* PostgreSQL runs at READ COMMITTED.  A statement is one action; a        *)
(* transaction of several statements is several actions, which hold the    *)
(* row locks they took until commit or rollback.  The tables below hold    *)
(* the COMMITTED rows; what a transaction has written and not committed is *)
(* determined by its pc, and commit applies it in one step.  A statement   *)
(* that must change a row another transaction has locked waits: its action *)
(* is disabled until the lock is free, and then it re-reads the row.       *)
(*                                                                         *)
(* Time is reduced to what the WHERE clauses ask of it: a lease or a       *)
(* deadline is ahead or behind.                                            *)
(***************************************************************************)
EXTENDS Integers, FiniteSets

CONSTANTS
  Tasks,       \* task ids, numbered in created_at order
  Asks,        \* ask ids, in the order of the asks id sequence
  Runners,     \* the lane loops of the daemon
  Resolvers,   \* the callers of asks::resolve and asks::resolve_with_nonce
  Cancellers,  \* the callers of tasks::mark_cancelled (CLI processes)
  Sweeper,     \* the daemon's ask-expiry loop
  Nobody,      \* no lock holder
  NoTask,      \* a process that has had no task yet
  TaskLane,    \* tasks.lane
  RunnerLane,  \* the lane a runner drains
  Reach,       \* Reach[p]: the tasks whose asks resolver p can match
  BusResolvers,\* the resolvers that live in the daemon (the channel bus)
  L3Runs,      \* the tasks whose payload is an operator's l3_run
  Outcomes,    \* the final states an inner loop can reach by itself
  Faults       \* the faults that may happen: a subset of FaultKinds

Procs == Runners \cup Resolvers \cup Cancellers \cup {Sweeper}
DaemonProcs == Runners \cup BusResolvers \cup {Sweeper}

FaultKinds == {"crash", "dberr"}

\* pc values inside a transaction or between two statements of an operation
RunnerPCs   == {"idle", "preplan", "running", "suspend", "insert",
                "commit", "finalize", "audit"}
ResolverPCs == {"idle", "begun", "resume", "commit"}
CancelPCs   == {"idle", "sweep1", "locktask", "update", "sweep2", "commit",
                "audit"}
SweeperPCs  == {"idle", "lockasks", "failtasks", "audit"}

Choices == {"approve", "deny", "other"}
Offered == {"approve", "deny"}   \* the options raise_and_suspend offers

ASSUME ConstantsAssumption ==
  /\ Tasks \subseteq Int /\ Asks \subseteq Int
  /\ Runners \cap Resolvers = {} /\ Runners \cap Cancellers = {}
  /\ Resolvers \cap Cancellers = {}
  /\ Sweeper \notin Runners \cup Resolvers \cup Cancellers
  /\ Nobody \notin Procs /\ NoTask \notin Tasks
  /\ BusResolvers \subseteq Resolvers
  /\ Reach \in [Resolvers -> SUBSET Tasks]
  /\ L3Runs \subseteq Tasks
  /\ Outcomes \subseteq {"completed", "failed", "timed_out", "blocked", "refused"}
  /\ Faults \subseteq FaultKinds

Live == {"pending", "running", "awaiting_operator"}
Terminal == {"completed", "failed", "cancelled", "timed_out", "blocked",
             "refused", "crashed"}
TaskStates == {"absent"} \cup Live \cup Terminal
AskStates == {"absent", "pending", "resolved", "expired", "cancelled"}

VARIABLES
  tstate,    \* tasks.state
  lease,     \* tasks.lease_expires_at against now()
  started,   \* tasks.started_at IS NOT NULL
  astate,    \* asks.state
  atask,     \* asks.task_id
  due,       \* asks.deadline_at is behind
  choice,    \* asks.resolution->>'choice'
  tlock,     \* the transaction that holds the row lock of a task
  alock,     \* the transaction that holds the row lock of an ask
  pc,        \* where each process is
  ptask,     \* the task a process works on
  pasks,     \* the asks its transaction has written
  todo,      \* the sweeper's rows still to visit
  began,     \* history: the task's pending asks when a cancel began
  late,      \* the deadline was behind when the resolver's transaction began
  out,       \* runner: final state; resolver: choice; canceller: previous_state
  rows,      \* the task.finalize audit rows written for each task
  daemon,    \* "up", "booting" (the startup sweep's audit rows) or "down"
  boot       \* the crashed tasks whose rows the startup sweep has to write

tables == <<tstate, lease, started, astate, atask, due, choice>>
locks  == <<tlock, alock>>
procs  == <<pc, ptask, pasks, todo, began, late, out>>
vars   == <<tables, locks, procs, rows, daemon, boot>>

RowCap == 2   \* rows beyond the second are not told apart
Bump(n) == IF n < RowCap THEN n + 1 ELSE n

-----------------------------------------------------------------------------
(* Rows as one statement sees them. *)

PendingAsksOf(t) == {a \in Asks : astate[a] = "pending" /\ atask[a] = t}
FreeTask(p, t) == tlock[t] \in {Nobody, p}
FreeAsk(p, a)  == alock[a] \in {Nobody, p}
ResolvedAsksOf(t) == {a \in Asks : astate[a] = "resolved" /\ atask[a] = t}

Goto(p, l) == pc' = [pc EXCEPT ![p] = l]
\* The operation returns to its caller, and its locals are gone.
Return(p) ==
  /\ Goto(p, "idle")
  /\ ptask' = [ptask EXCEPT ![p] = NoTask]
  /\ pasks' = [pasks EXCEPT ![p] = {}]
  /\ began' = [began EXCEPT ![p] = {}]
  /\ late' = [late EXCEPT ![p] = FALSE]
  /\ out' = [out EXCEPT ![p] = "none"]
ReleaseTasks(S) == tlock' = [t \in Tasks |-> IF tlock[t] \in S THEN Nobody ELSE tlock[t]]
ReleaseAsks(S)  == alock' = [a \in Asks |-> IF alock[a] \in S THEN Nobody ELSE alock[a]]
Release(S) == ReleaseTasks(S) /\ ReleaseAsks(S)

-----------------------------------------------------------------------------
(* The producer side of the queue. *)

\* insert_pending: the row is born 'pending', with no lease.
insert_pending ==
  \E t \in Tasks :
    /\ tstate[t] = "absent"
    /\ \A u \in Tasks : u < t => tstate[u] # "absent"
    /\ tstate' = [tstate EXCEPT ![t] = "pending"]
    /\ UNCHANGED <<lease, started, astate, atask, due, choice, locks, procs,
                   rows, daemon, boot>>

-----------------------------------------------------------------------------
(* The lane runner: drain_lane and run_one. *)

\* The claim's WHERE state = 'pending'; and a claim that steals a row whose
\* lease has elapsed.
claimable_by_lease(t) == tstate[t] = "pending" \/ (tstate[t] = "running" /\ lease[t] = "expired")
claimable(t) == tstate[t] = "pending"

\* claim_one: the oldest pending row of the lane that nobody has locked.
claim_one(r) ==
  /\ daemon = "up" /\ pc[r] = "idle"
  /\ \E t \in Tasks :
       /\ claimable(t) /\ TaskLane[t] = RunnerLane[r] /\ tlock[t] = Nobody
       /\ \A u \in Tasks :
            (u < t /\ claimable(u) /\ TaskLane[u] = RunnerLane[r])
               => tlock[u] # Nobody
       /\ tstate' = [tstate EXCEPT ![t] = "running"]
       /\ lease' = [lease EXCEPT ![t] = "live"]
       /\ started' = [started EXCEPT ![t] = TRUE]
       /\ ptask' = [ptask EXCEPT ![r] = t]
       /\ Goto(r, IF t \in L3Runs THEN "running" ELSE "preplan")
  /\ UNCHANGED <<astate, atask, due, choice, locks, pasks, todo, began, late,
                 out, rows, daemon, boot>>

\* pre_plan_outcome: any resolved denial.
denied(t) == \E a \in ResolvedAsksOf(t) : choice[a] = "deny"

\* run_one before the first plan: a resolved denial ends the run 'blocked'.
pre_plan(r) ==
  /\ pc[r] = "preplan"
  /\ IF denied(ptask[r])
     THEN Goto(r, "finalize") /\ out' = [out EXCEPT ![r] = "blocked"]
     ELSE Goto(r, "running") /\ out' = out
  /\ UNCHANGED <<tables, locks, ptask, pasks, todo, began, late, rows, daemon, boot>>

\* The inner loop's observe_state poll: only 'cancelled' stops it.
observe_cancelled(r) ==
  /\ pc[r] = "running" /\ ptask[r] \notin L3Runs
  /\ tstate[ptask[r]] = "cancelled"
  /\ Goto(r, "finalize") /\ out' = [out EXCEPT ![r] = "cancelled"]
  /\ UNCHANGED <<tables, locks, ptask, pasks, todo, began, late, rows, daemon, boot>>

\* The inner loop (or run_l3_run_task) ends by itself.
run_ends(r) ==
  /\ pc[r] = "running"
  /\ \E o \in Outcomes :
       /\ ptask[r] \in L3Runs => o = "completed"
       /\ out' = [out EXCEPT ![r] = o]
  /\ Goto(r, "finalize")
  /\ UNCHANGED <<tables, locks, ptask, pasks, todo, began, late, rows, daemon, boot>>

\* An l3_run has no finalize row; an agent task's is written next.
AfterFinalize(r) ==
  IF ptask[r] \in L3Runs THEN Return(r)
  ELSE Goto(r, "audit") /\ UNCHANGED <<ptask, pasks, began, late, out>>

\* A finalize without its WHERE state = 'running'.
finalize_unguarded(r) ==
  /\ pc[r] = "finalize" /\ tlock[ptask[r]] = Nobody
  /\ tstate' = [tstate EXCEPT ![ptask[r]] = out[r]]
  /\ AfterFinalize(r)
  /\ UNCHANGED <<lease, started, astate, atask, due, choice, locks, todo, rows,
                 daemon, boot>>

\* finalize: UPDATE ... WHERE state = 'running'; a miss is silent.
finalize(r) ==
  LET t == ptask[r] IN
  /\ pc[r] = "finalize"
  /\ tstate[t] = "running" => tlock[t] = Nobody
  /\ tstate' = IF tstate[t] = "running" THEN [tstate EXCEPT ![t] = out[r]] ELSE tstate
  /\ AfterFinalize(r)
  /\ UNCHANGED <<lease, started, astate, atask, due, choice, locks, todo, rows,
                 daemon, boot>>

\* The finalize UPDATE fails: drain_lane logs and goes on to the audit rows.
finalize_error(r) ==
  /\ "dberr" \in Faults
  /\ pc[r] = "finalize"
  /\ AfterFinalize(r)
  /\ UNCHANGED <<tables, locks, todo, rows, daemon, boot>>

\* write_finalize_row, whatever the UPDATE did.
write_finalize_row(r) ==
  /\ pc[r] = "audit"
  /\ rows' = [rows EXCEPT ![ptask[r]] = Bump(@)]
  /\ Return(r)
  /\ UNCHANGED <<tables, locks, todo, daemon, boot>>

-----------------------------------------------------------------------------
(* asks::raise, one transaction: tasks row first, then the INSERT. *)

\* The review verdict is Escalate: the inner loop calls raise_and_suspend.
escalate(r) ==
  /\ pc[r] = "running" /\ ptask[r] \notin L3Runs
  /\ \E a \in Asks : astate[a] = "absent" /\ alock[a] = Nobody
  /\ Goto(r, "suspend")
  /\ UNCHANGED <<tables, locks, ptask, pasks, todo, began, late, out, rows, daemon, boot>>

\* An Err from raise ends the run 'failed'; the transaction rolls back.
RaiseFails(r) ==
  /\ Goto(r, "finalize") /\ out' = [out EXCEPT ![r] = "failed"]
  /\ pasks' = [pasks EXCEPT ![r] = {}]
  /\ Release({r})
  /\ UNCHANGED <<tables, ptask, todo, began, late, rows, daemon, boot>>

\* suspend_for_ask: UPDATE ... WHERE state = 'running'.
raise_suspend(r) ==
  LET t == ptask[r] IN
  /\ pc[r] = "suspend"
  /\ IF tstate[t] = "running"
     THEN /\ tlock[t] = Nobody
          /\ tlock' = [tlock EXCEPT ![t] = r]
          /\ Goto(r, "insert")
          /\ UNCHANGED <<tables, alock, ptask, pasks, todo, began, late, out, rows,
                         daemon, boot>>
     ELSE RaiseFails(r)

\* INSERT INTO asks, under the unique index on a task's pending ask: a
\* conflicting row is waited for, and then refuses the insert.
raise_insert(r) ==
  LET t == ptask[r] IN
  /\ pc[r] = "insert"
  /\ \A a \in PendingAsksOf(t) : FreeAsk(r, a)
  /\ IF PendingAsksOf(t) # {} THEN RaiseFails(r)
     ELSE /\ \E a \in Asks :
               /\ astate[a] = "absent" /\ alock[a] = Nobody
               /\ \A b \in Asks : b < a => astate[b] # "absent" \/ alock[b] # Nobody
               /\ alock' = [alock EXCEPT ![a] = r]
               /\ pasks' = [pasks EXCEPT ![r] = {a}]
          /\ Goto(r, "commit")
          /\ UNCHANGED <<tables, tlock, ptask, todo, began, late, out, rows, daemon, boot>>

\* COMMIT: the ask is live and its task suspended, in one step.  The run
\* returns AwaitingOperator, so drain_lane finalizes nothing.
raise_commit(r) ==
  /\ pc[r] = "commit"
  /\ tstate' = [tstate EXCEPT ![ptask[r]] = "awaiting_operator"]
  /\ lease' = [lease EXCEPT ![ptask[r]] = "null"]
  /\ astate' = [a \in Asks |-> IF a \in pasks[r] THEN "pending" ELSE astate[a]]
  /\ atask' = [a \in Asks |-> IF a \in pasks[r] THEN ptask[r] ELSE atask[a]]
  /\ Return(r)
  /\ Release({r})
  /\ UNCHANGED <<started, due, choice, todo, rows, daemon, boot>>

\* The database answers one of raise's statements with an error, COMMIT
\* included.  Every error is a rollback: a COMMIT that landed and lost only its
\* acknowledgement (the run then goes on to finalize a suspended task) is not
\* modelled.
raise_error(r) ==
  /\ "dberr" \in Faults
  /\ pc[r] \in {"suspend", "insert", "commit"}
  /\ RaiseFails(r)

-----------------------------------------------------------------------------
(* asks::resolve and asks::resolve_with_nonce: asks row first, then tasks. *)

\* Back to idle with nothing written: Ok(false), Ok(None) or Err.
Rollback(p) ==
  /\ Return(p)
  /\ Release({p})
  /\ UNCHANGED <<tables, rows, daemon, boot>>

\* BEGIN fixes now() for the whole transaction.
resolve_begin(p) ==
  /\ p \in BusResolvers => daemon = "up"
  /\ pc[p] = "idle"
  /\ \E a \in Asks, c \in Choices :
       /\ astate[a] # "absent"
       /\ pasks' = [pasks EXCEPT ![p] = {a}]
       /\ late' = [late EXCEPT ![p] = due[a]]
       /\ out' = [out EXCEPT ![p] = c]
  /\ Goto(p, "begun")
  /\ UNCHANGED <<tables, locks, ptask, todo, began, rows, daemon, boot>>

\* decode_resolved_ids: RETURNING id, task_id; and with the two swapped.
decode_resolved_ids_swapped(a) == a
decode_resolved_ids(a) == atask[a]

\* WHERE state = 'pending' AND deadline_at > now(), and the claimant predicate
\* for a channel caller.
resolvable(p, a) == astate[a] = "pending" /\ ~late[p] /\ atask[a] \in Reach[p]

\* The UPDATE of the ask, and reject_choice_outside_options: a choice the ask
\* never offered rolls the UPDATE back.
resolve_update(p) ==
  /\ pc[p] = "begun"
  /\ \E a \in pasks[p] :
       IF resolvable(p, a) /\ out[p] \in Offered
       THEN /\ alock[a] = Nobody
            /\ alock' = [alock EXCEPT ![a] = p]
            /\ ptask' = [ptask EXCEPT ![p] = decode_resolved_ids(a)]
            /\ Goto(p, "resume")
            /\ UNCHANGED <<tables, tlock, pasks, todo, began, late, out, rows, daemon, boot>>
       ELSE /\ resolvable(p, a) => alock[a] = Nobody
            /\ Rollback(p) /\ todo' = todo

\* finish_resolve: resume_from_ask ... WHERE state = 'awaiting_operator'.
resolve_resume(p) ==
  LET t == ptask[p] IN
  /\ pc[p] = "resume"
  /\ IF tstate[t] = "awaiting_operator"
     THEN /\ tlock[t] = Nobody
          /\ tlock' = [tlock EXCEPT ![t] = p]
          /\ Goto(p, "commit")
          /\ UNCHANGED <<tables, alock, ptask, pasks, todo, began, late, out, rows, daemon, boot>>
     ELSE Rollback(p) /\ todo' = todo

\* resume_from_ask puts the task back into the queue.
resume_state == "pending"

resolve_commit(p) ==
  /\ pc[p] = "commit"
  /\ tstate' = [tstate EXCEPT ![ptask[p]] = resume_state]
  /\ astate' = [a \in Asks |-> IF a \in pasks[p] THEN "resolved" ELSE astate[a]]
  /\ choice' = [a \in Asks |-> IF a \in pasks[p] THEN out[p] ELSE choice[a]]
  /\ Return(p)
  /\ Release({p})
  /\ UNCHANGED <<lease, started, atask, due, todo, rows, daemon, boot>>

-----------------------------------------------------------------------------
(* tasks::mark_cancelled, and the audit rows of cancel_and_audit. *)

\* A cancel that leaves the asks to its second sweep (tasks row first).
cancel_begin_tasks_first(p) ==
  /\ pc[p] = "idle"
  /\ \E t \in Tasks :
       /\ tstate[t] # "absent"
       /\ ptask' = [ptask EXCEPT ![p] = t]
       /\ began' = [began EXCEPT ![p] = PendingAsksOf(t)]
  /\ Goto(p, "locktask")
  /\ UNCHANGED <<tables, locks, pasks, todo, late, out, rows, daemon, boot>>

cancel_begin(p) ==
  /\ pc[p] = "idle"
  /\ \E t \in Tasks :
       /\ tstate[t] # "absent"
       /\ ptask' = [ptask EXCEPT ![p] = t]
       /\ began' = [began EXCEPT ![p] = PendingAsksOf(t)]
  /\ Goto(p, "sweep1")
  /\ UNCHANGED <<tables, locks, pasks, todo, late, out, rows, daemon, boot>>

\* cancel_for_task: UPDATE asks SET 'cancelled' WHERE task_id AND 'pending'.
cancel_for_task(p, next) ==
  LET S == PendingAsksOf(ptask[p]) IN
  /\ \A a \in S : FreeAsk(p, a)
  /\ alock' = [a \in Asks |-> IF a \in S THEN p ELSE alock[a]]
  /\ pasks' = [pasks EXCEPT ![p] = pasks[p] \cup S]
  /\ Goto(p, next)
  /\ UNCHANGED <<tables, tlock, ptask, todo, began, late, out, rows, daemon, boot>>

cancel_sweep1(p) == pc[p] = "sweep1" /\ cancel_for_task(p, "locktask")

\* state_locked_in_tx: SELECT state ... FOR UPDATE.
cancel_lock(p) ==
  LET t == ptask[p] IN
  /\ pc[p] = "locktask"
  /\ tlock[t] = Nobody
  /\ tlock' = [tlock EXCEPT ![t] = p]
  /\ out' = [out EXCEPT ![p] = tstate[t]]
  /\ Goto(p, "update")
  /\ UNCHANGED <<tables, alock, ptask, pasks, todo, began, late, rows, daemon, boot>>

\* UPDATE tasks ... WHERE state IN (live states); a miss rolls back.
cancellable(t) == tstate[t] \in Live
cancel_update(p) ==
  LET t == ptask[p] IN
  /\ pc[p] = "update"
  /\ IF cancellable(t)
     THEN /\ FreeTask(p, t)
          /\ tlock' = [tlock EXCEPT ![t] = p]
          /\ Goto(p, "sweep2")
          /\ UNCHANGED <<tables, alock, ptask, pasks, todo, began, late, out, rows, daemon, boot>>
     ELSE Rollback(p) /\ todo' = todo

\* A cancel that trusts its first sweep.
cancel_sweep2_dropped(p) ==
  /\ pc[p] = "sweep2" /\ Goto(p, "commit")
  /\ UNCHANGED <<tables, locks, ptask, pasks, todo, began, late, out, rows, daemon, boot>>

\* The second sweep, with the tasks row lock held.
cancel_sweep2(p) == pc[p] = "sweep2" /\ cancel_for_task(p, "commit")

cancel_commit(p) ==
  /\ pc[p] = "commit"
  /\ tstate' = [tstate EXCEPT ![ptask[p]] = "cancelled"]
  /\ astate' = [a \in Asks |-> IF a \in pasks[p] THEN "cancelled" ELSE astate[a]]
  /\ pasks' = [pasks EXCEPT ![p] = {}]
  /\ Goto(p, "audit")
  /\ Release({p})
  /\ UNCHANGED <<lease, started, atask, due, choice, ptask, todo, began, late, out, rows,
                 daemon, boot>>

\* mark_cancelled_if_pending (the l3 run client giving up on a lingering task).
cancel_if_pending(p) ==
  /\ pc[p] = "idle"
  /\ \E t \in L3Runs :
       /\ tstate[t] = "pending" /\ tlock[t] = Nobody
       /\ tstate' = [tstate EXCEPT ![t] = "cancelled"]
       /\ ptask' = [ptask EXCEPT ![p] = t]
  /\ out' = [out EXCEPT ![p] = "pending"]
  /\ Goto(p, "audit")
  /\ UNCHANGED <<lease, started, astate, atask, due, choice, locks, pasks, todo,
                 began, late, rows, daemon, boot>>

\* The discriminator before #564 (started_at.is_some()), and none at all.
finalize_expected_if_started(previous_state) == previous_state # "pending"
finalize_never_expected(previous_state) == FALSE
scheduler_will_emit_finalize(previous_state) == previous_state = "running"

\* emit_cancel_audit_rows: the producer's task.finalize row, unless a runner
\* is expected to write it.
emit_cancel_audit_rows(p) ==
  /\ pc[p] = "audit"
  /\ rows' = IF scheduler_will_emit_finalize(out[p]) THEN rows
             ELSE [rows EXCEPT ![ptask[p]] = Bump(@)]
  /\ Return(p)
  /\ UNCHANGED <<tables, locks, todo, daemon, boot>>

\* mark_failed_running: the operator's `tasks fail`.
mark_failed_running ==
  \E t \in Tasks :
    /\ tstate[t] = "running" /\ lease[t] = "live" /\ tlock[t] = Nobody
    /\ tstate' = [tstate EXCEPT ![t] = "crashed"]
    /\ UNCHANGED <<lease, started, astate, atask, due, choice, locks, procs,
                   rows, daemon, boot>>

-----------------------------------------------------------------------------
(* asks::expire_due, one transaction, and sweep_expired_and_audit. *)

FirstOf(S, a) == a \in S /\ \A b \in S : a <= b

\* The UPDATE's snapshot: every pending ask whose deadline is behind.
expire_begin ==
  LET D == {a \in Asks : astate[a] = "pending" /\ due[a]} IN
  /\ daemon = "up" /\ pc[Sweeper] = "idle" /\ D # {}
  /\ todo' = D
  /\ Goto(Sweeper, "lockasks")
  /\ UNCHANGED <<tables, locks, ptask, pasks, began, late, out, rows, daemon, boot>>

\* ... and its rows, one lock after the other, re-read when a lock was waited
\* for.
expire_lock ==
  /\ pc[Sweeper] = "lockasks"
  /\ \E a \in todo :
       /\ FirstOf(todo, a)
       /\ astate[a] = "pending" => alock[a] = Nobody
       /\ todo' = todo \ {a}
       /\ IF astate[a] = "pending"
          THEN /\ alock' = [alock EXCEPT ![a] = Sweeper]
               /\ pasks' = [pasks EXCEPT ![Sweeper] = @ \cup {a}]
          ELSE UNCHANGED <<alock, pasks>>
  /\ UNCHANGED <<tables, tlock, pc, ptask, began, late, out, rows, daemon, boot>>

expire_updated ==
  /\ pc[Sweeper] = "lockasks" /\ todo = {}
  /\ todo' = pasks[Sweeper]
  /\ Goto(Sweeper, "failtasks")
  /\ UNCHANGED <<tables, locks, ptask, pasks, began, late, out, rows, daemon, boot>>

\* fail_awaiting_operator per returned row: a task that is no longer
\* awaiting_operator is left alone and not reported.
expire_fail ==
  /\ pc[Sweeper] = "failtasks"
  /\ \E a \in todo :
       LET t == atask[a] IN
       /\ FirstOf(todo, a)
       /\ tstate[t] = "awaiting_operator" => FreeTask(Sweeper, t)
       /\ todo' = todo \ {a}
       /\ tlock' = IF tstate[t] = "awaiting_operator"
                   THEN [tlock EXCEPT ![t] = Sweeper] ELSE tlock
  /\ UNCHANGED <<tables, alock, pc, ptask, pasks, began, late, out, rows, daemon, boot>>

\* The asks whose tasks this transaction failed: expire_due's return value.
expired_asks == {a \in pasks[Sweeper] : tlock[atask[a]] = Sweeper}

\* fail_awaiting_operator; and an expiry that leaves the task as it was.
expired_task_left(t) == tstate[t]
expired_task_state(t) == IF tlock[t] = Sweeper THEN "failed" ELSE tstate[t]

expire_commit ==
  /\ pc[Sweeper] = "failtasks" /\ todo = {}
  /\ tstate' = [t \in Tasks |-> expired_task_state(t)]
  /\ astate' = [a \in Asks |-> IF a \in pasks[Sweeper] THEN "expired" ELSE astate[a]]
  /\ todo' = expired_asks
  /\ pasks' = [pasks EXCEPT ![Sweeper] = {}]
  /\ Goto(Sweeper, "audit")
  /\ Release({Sweeper})
  /\ UNCHANGED <<lease, started, atask, due, choice, ptask, began, late, out, rows,
                 daemon, boot>>

\* emit_expired_task_rows, one expired ask at a time.
emit_expired_task_rows ==
  /\ pc[Sweeper] = "audit"
  /\ \/ \E a \in todo :
          /\ FirstOf(todo, a)
          /\ todo' = todo \ {a}
          /\ rows' = [rows EXCEPT ![atask[a]] = Bump(@)]
          /\ pc' = pc
     \/ /\ todo = {}
        /\ Goto(Sweeper, "idle")
        /\ UNCHANGED <<todo, rows>>
  /\ UNCHANGED <<tables, locks, ptask, pasks, began, late, out, daemon, boot>>

-----------------------------------------------------------------------------
(* Lock waits and PostgreSQL's deadlock detector (external). *)

\* The transactions p's next statement has to wait for.
WaitsFor(p) ==
  LET t == ptask[p]
      Held(x) == {x} \ {p, Nobody} IN
  CASE p \in Cancellers /\ pc[p] \in {"sweep1", "sweep2"} ->
         UNION {Held(alock[a]) : a \in PendingAsksOf(t)}
    [] p \in Cancellers /\ pc[p] = "locktask" -> Held(tlock[t])
    [] p \in Cancellers /\ pc[p] = "update" /\ tstate[t] \in Live -> Held(tlock[t])
    [] p \in Resolvers /\ pc[p] = "begun" ->
         UNION {Held(alock[a]) : a \in {b \in pasks[p] : resolvable(p, b)}}
    [] p \in Resolvers /\ pc[p] = "resume" /\ tstate[t] = "awaiting_operator" ->
         Held(tlock[t])
    [] p \in Runners /\ pc[p] \in {"suspend", "finalize"} /\ tstate[t] = "running" ->
         Held(tlock[t])
    [] p = Sweeper /\ pc[p] = "lockasks" ->
         UNION {Held(alock[a]) : a \in {b \in todo : FirstOf(todo, b) /\ astate[b] = "pending"}}
    [] p = Sweeper /\ pc[p] = "failtasks" ->
         UNION {Held(tlock[atask[a]]) : a \in
                  {b \in todo : FirstOf(todo, b) /\ tstate[atask[b]] = "awaiting_operator"}}
    [] OTHER -> {}

LockCycle(p, q) == q \in WaitsFor(p) /\ p \in WaitsFor(q)

\* One transaction of a cycle is aborted with SQLSTATE 40P01.
deadlock_victim(p) ==
  /\ p \notin Runners   \* a runner waits only before it holds a lock
  /\ \E q \in Procs : LockCycle(p, q)
  /\ Rollback(p)
  /\ todo' = IF p = Sweeper THEN {} ELSE todo

-----------------------------------------------------------------------------
(* Failures: a process that dies or a statement that errors rolls back. *)

\* A resolver, a canceller or the sweep loses its connection mid-transaction;
\* a CLI process may also die before its audit rows.
abort(p) ==
  /\ "dberr" \in Faults
  /\ p \notin Runners /\ pc[p] # "idle"
  /\ Rollback(p)
  /\ todo' = IF p = Sweeper THEN {} ELSE todo

\* The daemon dies: its transactions roll back and its runners are gone.
daemon_crash ==
  /\ "crash" \in Faults
  /\ daemon # "down"
  /\ daemon' = "down" /\ boot' = {} /\ todo' = {}
  /\ pc' = [p \in Procs |-> IF p \in DaemonProcs THEN "idle" ELSE pc[p]]
  /\ ptask' = [p \in Procs |-> IF p \in DaemonProcs THEN NoTask ELSE ptask[p]]
  /\ pasks' = [p \in Procs |-> IF p \in DaemonProcs THEN {} ELSE pasks[p]]
  /\ began' = [p \in Procs |-> IF p \in DaemonProcs THEN {} ELSE began[p]]
  /\ late' = [p \in Procs |-> IF p \in DaemonProcs THEN FALSE ELSE late[p]]
  /\ out' = [p \in Procs |-> IF p \in DaemonProcs THEN "none" ELSE out[p]]
  /\ Release(DaemonProcs)
  /\ UNCHANGED <<tables, rows>>

\* sweep_crashed, at startup only: running rows whose lease is behind.
sweep_crashed ==
  LET S == {t \in Tasks : tstate[t] = "running" /\ lease[t] = "expired"} IN
  /\ daemon = "down"
  /\ \A t \in S : tlock[t] = Nobody
  /\ tstate' = [t \in Tasks |-> IF t \in S THEN "crashed" ELSE tstate[t]]
  /\ boot' = S
  /\ daemon' = "booting"
  /\ UNCHANGED <<lease, started, astate, atask, due, choice, locks, procs, rows>>

\* emit_task_finalize_row per swept task; then the scheduler is spawned.
boot_audit ==
  /\ daemon = "booting"
  /\ \/ \E t \in boot :
          /\ boot' = boot \ {t}
          /\ rows' = [rows EXCEPT ![t] = Bump(@)]
          /\ daemon' = daemon
     \/ boot = {} /\ daemon' = "up" /\ UNCHANGED <<boot, rows>>
  /\ UNCHANGED <<tables, locks, procs>>

-----------------------------------------------------------------------------
(* Time. *)

lease_passes ==
  \E t \in Tasks :
    /\ lease[t] = "live"
    /\ lease' = [lease EXCEPT ![t] = "expired"]
    /\ UNCHANGED <<tstate, started, astate, atask, due, choice, locks, procs,
                   rows, daemon, boot>>

deadline_passes(a) ==
  /\ astate[a] = "pending" /\ ~due[a]
  /\ due' = [due EXCEPT ![a] = TRUE]
  /\ UNCHANGED <<tstate, lease, started, astate, atask, choice, locks, procs,
                 rows, daemon, boot>>

-----------------------------------------------------------------------------
Init ==
  /\ tstate = [t \in Tasks |-> "absent"]
  /\ lease = [t \in Tasks |-> "null"]
  /\ started = [t \in Tasks |-> FALSE]
  /\ astate = [a \in Asks |-> "absent"]
  /\ atask = [a \in Asks |-> NoTask]
  /\ due = [a \in Asks |-> FALSE]
  /\ choice = [a \in Asks |-> "none"]
  /\ tlock = [t \in Tasks |-> Nobody]
  /\ alock = [a \in Asks |-> Nobody]
  /\ pc = [p \in Procs |-> "idle"]
  /\ ptask = [p \in Procs |-> NoTask]
  /\ pasks = [p \in Procs |-> {}]
  /\ todo = {}
  /\ began = [p \in Procs |-> {}]
  /\ late = [p \in Procs |-> FALSE]
  /\ out = [p \in Procs |-> "none"]
  /\ rows = [t \in Tasks |-> 0]
  /\ daemon = "up"
  /\ boot = {}

RunnerStep(r) ==
  \/ claim_one(r) \/ pre_plan(r) \/ observe_cancelled(r) \/ run_ends(r)
  \/ escalate(r) \/ raise_suspend(r) \/ raise_insert(r) \/ raise_commit(r)
  \/ finalize(r) \/ write_finalize_row(r)
ResolverStep(p) ==
  resolve_update(p) \/ resolve_resume(p) \/ resolve_commit(p)
CancellerStep(p) ==
  \/ cancel_sweep1(p) \/ cancel_lock(p) \/ cancel_update(p) \/ cancel_sweep2(p)
  \/ cancel_commit(p) \/ emit_cancel_audit_rows(p)
SweeperStep ==
  \/ expire_begin \/ expire_lock \/ expire_updated \/ expire_fail \/ expire_commit
  \/ emit_expired_task_rows

Next ==
  \/ insert_pending \/ mark_failed_running
  \/ \E r \in Runners : RunnerStep(r) \/ raise_error(r) \/ finalize_error(r)
  \/ \E p \in Resolvers : resolve_begin(p) \/ ResolverStep(p)
  \/ \E p \in Cancellers : cancel_begin(p) \/ cancel_if_pending(p) \/ CancellerStep(p)
  \/ SweeperStep
  \/ \E p \in Procs : deadlock_victim(p) \/ abort(p)
  \/ daemon_crash \/ sweep_crashed \/ boot_audit
  \/ lease_passes \/ \E a \in Asks : deadline_passes(a)

Spec == Init /\ [][Next]_vars

\* Every process that has begun something goes on with it, the lane loops and
\* the sweep wake up (HEARTBEAT, ASK_SWEEP_INTERVAL), PostgreSQL breaks a lock
\* cycle, deadlines pass and a supervisor restarts the daemon.  Strong fairness
\* for the transactions: PostgreSQL hands a row lock to the transaction that
\* has waited for it, so nobody overtakes a waiter for ever.  Nobody is obliged
\* to submit, to answer, to cancel or to fail anything.
Fairness ==
  /\ \A r \in Runners : SF_vars(RunnerStep(r))
  /\ \A p \in Resolvers : SF_vars(ResolverStep(p))
  /\ \A p \in Cancellers : SF_vars(CancellerStep(p))
  /\ SF_vars(SweeperStep)
  /\ WF_vars(\E p \in Procs : deadlock_victim(p))
  /\ WF_vars(sweep_crashed) /\ WF_vars(boot_audit)
  /\ \A a \in Asks : WF_vars(deadline_passes(a))

FairSpec == Spec /\ Fairness

-----------------------------------------------------------------------------
(* Properties. *)

\* The types of every variable.
TypeOK ==
  /\ tstate \in [Tasks -> TaskStates]
  /\ lease \in [Tasks -> {"null", "live", "expired"}]
  /\ started \in [Tasks -> BOOLEAN]
  /\ astate \in [Asks -> AskStates]
  /\ atask \in [Asks -> Tasks \cup {NoTask}]
  /\ due \in [Asks -> BOOLEAN]
  /\ choice \in [Asks -> Choices \cup {"none"}]
  /\ tlock \in [Tasks -> Procs \cup {Nobody}]
  /\ alock \in [Asks -> Procs \cup {Nobody}]
  /\ pc \in [Procs -> RunnerPCs \cup ResolverPCs \cup CancelPCs \cup SweeperPCs]
  /\ ptask \in [Procs -> Tasks \cup {NoTask}]
  /\ pasks \in [Procs -> SUBSET Asks]
  /\ todo \in SUBSET Asks
  /\ began \in [Procs -> SUBSET Asks]
  /\ late \in [Procs -> BOOLEAN]
  /\ out \in [Procs -> TaskStates \cup Choices \cup {"none"}]
  /\ rows \in [Tasks -> 0..RowCap]
  /\ daemon \in {"up", "booting", "down"}
  /\ boot \in SUBSET Tasks

\* "An ask and its task move together" (db/src/asks.rs): in every committed
\* state a task awaits the operator exactly when an ask of its is pending,
\* so no task is wedged without a question, no live question hangs on a task
\* that has gone on or ended, and a task has never two of them.
AskTaskCoupled ==
  /\ \A a \in Asks : astate[a] = "pending" =>
       atask[a] \in Tasks /\ tstate[atask[a]] = "awaiting_operator"
  /\ \A t \in Tasks : tstate[t] = "awaiting_operator" => PendingAsksOf(t) # {}
  /\ \A a, b \in Asks :
       astate[a] = "pending" /\ astate[b] = "pending" /\ atask[a] = atask[b] => a = b

\* The branch of expire_due that finds its ask's task gone (it warns and
\* reports nothing) and the Err of finish_resolve are reached by no
\* interleaving of the functions that own these transitions: whoever has
\* written a pending ask still finds the task suspended.
AskWriterFindsTask ==
  \A p \in Resolvers \cup {Sweeper} :
    pc[p] \in {"resume", "lockasks", "failtasks"} =>
      \A a \in pasks[p] : astate[a] = "pending" /\ tstate[atask[a]] = "awaiting_operator"

\* A task the operator has denied is never run again: the run that follows a
\* resolved denial stops before its first plan, and no denial can be recorded
\* behind a run's back.
DeniedNeverRuns ==
  \A r \in Runners :
    pc[r] \in {"running", "suspend", "insert", "commit"} =>
      \A a \in ResolvedAsksOf(ptask[r]) : choice[a] # "deny"

\* claim_one hands a task to one runner at a time, even across a suspension,
\* a resume and a second claim, a cancel or `tasks fail`.
Working(r) == pc[r] \in {"preplan", "running", "suspend", "insert", "commit", "finalize"}
OneRunnerPerTask ==
  \A r, s \in Runners : Working(r) /\ Working(s) /\ ptask[r] = ptask[s] => r = s

\* previous_state is what the cancel really ended: while the cancelling
\* transaction is open the task is still in the state it read, so the
\* producer's choice of who writes the task.finalize row is not stale.
PreviousStateCurrent ==
  \A p \in Cancellers :
    pc[p] \in {"update", "sweep2", "commit"} => out[p] = tstate[ptask[p]]

\* No task is counted twice: cancel_and_audit, the runner, the ask sweep and
\* the startup sweep never both write a task.finalize row for one task, with
\* crashes and restarts anywhere.  (A failed finalize UPDATE is the exception:
\* the runner writes its row and the task stays running.)
FinalizedOnce == \A t \in Tasks : rows[t] <= 1

\* The acquisition order asks -> tasks keeps the four transactions out of each
\* other's way: a lock cycle only ever closes through a cancel's second sweep,
\* on an ask raised after its first.
CycleOnlyThroughResweep ==
  \A p, q \in Procs : LockCycle(p, q) =>
    \E c \in {p, q} : /\ c \in Cancellers /\ pc[c] = "sweep2"
                      /\ PendingAsksOf(ptask[c]) \cap began[c] = {}

\* What a step may never do: move a finished task, answer a question twice, or
\* re-open one (first responder wins, across the CLI, a channel and the sweep).
NothingReopens ==
  [][/\ \A t \in Tasks : tstate[t] \in Terminal => tstate'[t] = tstate[t]
     /\ \A a \in Asks : astate[a] \in AskStates \ {"absent", "pending"} =>
          astate'[a] = astate[a] /\ choice'[a] = choice[a]]_vars

\* While the daemon stays up and the database answers, every submitted task
\* ends, through any number of suspensions, answered or not, and whoever ended
\* it, an agent task then has its task.finalize row.
EveryTaskEnds ==
  \A t \in Tasks :
    tstate[t] = "pending" ~> tstate[t] \in Terminal /\ (t \in L3Runs \/ rows[t] = 1)

\* The statements, locks, crashes and rollbacks of TaskStore implement the
\* life cycle of TaskLifecycle: every step of every interleaving is one atomic
\* move of a task together with its question, or changes neither.
Lifecycle == INSTANCE TaskLifecycle
  WITH Tasks <- Tasks, Asks <- Asks, NoTask <- NoTask,
       tstate <- tstate, astate <- astate, atask <- atask, choice <- choice
ImplementsLifecycle == Lifecycle!LSpec

-----------------------------------------------------------------------------
(* What a comment of the code says, and the code does not keep. *)

\* db/src/tasks.rs: the second sweep "cannot deadlock".
ResweepNeverDeadlocks == \A p, q \in Procs : ~LockCycle(p, q)
=============================================================================
