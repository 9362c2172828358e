-------------------------- MODULE TaskStoreProofs --------------------------
(***************************************************************************)
(* Theorems about TaskStore, for any number of tasks, asks and processes:  *)
(* its types, its inductive invariant, that it implements TaskLifecycle,   *)
(* where a lock cycle can close, and who writes the task.finalize row.     *)
(***************************************************************************)
EXTENDS TaskStore, TLAPS

(* Type correctness. *)

\* What the types owe to the control state: a process past its first step
\* works on a task, and what it will write is a state or an offered choice.
Typed ==
  /\ \A r \in Runners :
       /\ pc[r] \in RunnerPCs
       /\ pc[r] # "idle" => ptask[r] \in Tasks
       /\ pc[r] = "finalize" => out[r] \in Terminal
  /\ \A p \in Resolvers :
       /\ pc[p] \in ResolverPCs
       /\ pc[p] = "begun" => out[p] \in Choices
       /\ pc[p] \in {"resume", "commit"} => ptask[p] \in Tasks /\ out[p] \in Offered
  /\ \A p \in Cancellers :
       /\ pc[p] \in CancelPCs
       /\ pc[p] # "idle" => ptask[p] \in Tasks
  /\ pc[Sweeper] \in SweeperPCs

TypeInv == TypeOK /\ Typed

ProcTypes ==
  /\ pc \in [Procs -> RunnerPCs \cup ResolverPCs \cup CancelPCs \cup SweeperPCs]
  /\ ptask \in [Procs -> Tasks \cup {NoTask}]
  /\ pasks \in [Procs -> SUBSET Asks]
  /\ began \in [Procs -> SUBSET Asks]
  /\ late \in [Procs -> BOOLEAN]
  /\ out \in [Procs -> TaskStates \cup Choices \cup {"none"}]

LockTypes ==
  /\ tlock \in [Tasks -> Procs \cup {Nobody}]
  /\ alock \in [Asks -> Procs \cup {Nobody}]

TableTypes ==
  /\ tstate \in [Tasks -> TaskStates]
  /\ lease \in [Tasks -> {"null", "live", "expired"}]
  /\ started \in [Tasks -> BOOLEAN]
  /\ astate \in [Asks -> AskStates]
  /\ atask \in [Asks -> Tasks \cup {NoTask}]
  /\ due \in [Asks -> BOOLEAN]
  /\ choice \in [Asks -> Choices \cup {"none"}]

OtherTypes ==
  /\ todo \in SUBSET Asks
  /\ rows \in [Tasks -> 0..RowCap]
  /\ daemon \in {"up", "booting", "down"}
  /\ boot \in SUBSET Tasks

\* TypeOK, cut into the parts an action can leave alone.
LEMMA TypeParts == TypeOK <=> ProcTypes /\ LockTypes /\ TableTypes /\ OtherTypes
  BY DEF TypeOK, ProcTypes, LockTypes, TableTypes, OtherTypes

\* The empty database is typed.
LEMMA TypeInit == Init => TypeInv
  BY ConstantsAssumption DEF Init, TypeInv, TypeOK, Typed, TaskStates, AskStates,
     Procs, RunnerPCs, ResolverPCs, CancelPCs, SweeperPCs, RowCap

\* Return leaves every local typed.
LEMMA ReturnTypes == ASSUME TypeInv, NEW p \in Procs, Return(p) PROVE ProcTypes' /\ Typed'
<1>1. ProcTypes'
  BY DEF TypeInv, TypeOK, ProcTypes, Return, Goto, RunnerPCs
<1>2. Typed'
  BY ConstantsAssumption DEF TypeInv, TypeOK, Typed, Return, Goto, Procs, RunnerPCs,
     ResolverPCs, CancelPCs, SweeperPCs
<1> QED BY <1>1, <1>2

\* Releasing locks leaves the lock tables typed.
LEMMA ReleaseTypes == ASSUME TypeInv, NEW S, Release(S) PROVE LockTypes'
  BY DEF TypeInv, TypeOK, LockTypes, Release, ReleaseTasks, ReleaseAsks

\* The row counter saturates at RowCap.
LEMMA BumpType == \A n \in 0..RowCap : Bump(n) \in 0..RowCap
  BY DEF Bump, RowCap

\* A rollback (Ok(false), Err, a deadlock victim) keeps the types.
LEMMA RollbackTypes ==
  ASSUME TypeInv, NEW p \in Procs, Rollback(p), todo' \in SUBSET Asks
  PROVE  TypeInv'
<1>1. ProcTypes' /\ Typed' /\ LockTypes'
  BY ReturnTypes, ReleaseTypes DEF Rollback
<1> QED BY <1>1 DEF Rollback, TypeInv, TypeOK, ProcTypes, LockTypes, tables

\* The Err of asks::raise keeps the types: its outcome is Terminal.
LEMMA RaiseFailsTypes == ASSUME TypeInv, NEW r \in Runners, RaiseFails(r), pc[r] # "idle" PROVE TypeInv'
<1>1. LockTypes' BY ReleaseTypes DEF RaiseFails
<1>2. ProcTypes'
  BY DEF RaiseFails, Goto, TypeInv, TypeOK, ProcTypes, RunnerPCs, Procs, TaskStates, Terminal
<1>3. Typed'
  BY ConstantsAssumption DEF RaiseFails, Goto, TypeInv, TypeOK, Typed, Procs, RunnerPCs, Terminal
<1> QED BY <1>1, <1>2, <1>3 DEF RaiseFails, TypeInv, TypeOK, ProcTypes, LockTypes, tables

\* Every step of drain_lane, run_one and asks::raise keeps the types.
LEMMA RunnerTypes == ASSUME TypeInv, NEW r \in Runners, RunnerStep(r) \/ raise_error(r) \/ finalize_error(r) PROVE TypeInv'
<1>1. CASE claim_one(r)
  BY <1>1, ConstantsAssumption DEF TypeInv, TypeOK, Typed, TaskStates, AskStates, Procs, RunnerPCs,
     ResolverPCs, CancelPCs, SweeperPCs, claim_one, claimable, Goto, locks, Live, Terminal
<1>2. CASE pre_plan(r)
  BY <1>2, ConstantsAssumption DEF TypeInv, TypeOK, Typed, TaskStates, Procs, RunnerPCs,
     pre_plan, Goto, locks, tables, Terminal
<1>3. CASE observe_cancelled(r)
  BY <1>3, ConstantsAssumption DEF TypeInv, TypeOK, Typed, TaskStates, Procs, RunnerPCs,
     observe_cancelled, Goto, locks, tables, Terminal
<1>4. CASE run_ends(r)
  BY <1>4, ConstantsAssumption DEF TypeInv, TypeOK, Typed, TaskStates, Procs, RunnerPCs,
     run_ends, Goto, locks, tables, Terminal
<1>5. CASE escalate(r)
  BY <1>5, ConstantsAssumption DEF TypeInv, TypeOK, Typed, Procs, RunnerPCs,
     escalate, Goto, locks, tables
<1>6. CASE raise_suspend(r)
  <2>1. CASE tstate[ptask[r]] = "running"
    <3>1. /\ tlock' = [tlock EXCEPT ![ptask[r]] = r]
          /\ Goto(r, "insert") /\ pc[r] = "suspend"
          /\ UNCHANGED <<tables, alock, ptask, pasks, todo, began, late, out, rows,
                         daemon, boot>>
      BY <1>6, <2>1 DEF raise_suspend
    <3>2. ProcTypes' /\ LockTypes'
      BY <3>1 DEF TypeInv, TypeOK, ProcTypes, LockTypes, Goto, RunnerPCs, Procs
    <3>3. Typed'
      BY <3>1, ConstantsAssumption DEF TypeInv, TypeOK, Typed, Goto, RunnerPCs, Procs
    <3> QED BY <3>1, <3>2, <3>3 DEF TypeInv, TypeOK, ProcTypes, LockTypes, tables
  <2>2. CASE tstate[ptask[r]] # "running"
    BY <1>6, <2>2, RaiseFailsTypes DEF raise_suspend
  <2> QED BY <2>1, <2>2
<1>7. CASE raise_insert(r)
  <2>1. CASE PendingAsksOf(ptask[r]) = {}
    <3>1. PICK a \in Asks : /\ alock' = [alock EXCEPT ![a] = r]
                            /\ pasks' = [pasks EXCEPT ![r] = {a}]
      BY <1>7, <2>1 DEF raise_insert
    <3>2. /\ Goto(r, "commit") /\ pc[r] = "insert"
          /\ UNCHANGED <<tables, tlock, ptask, todo, began, late, out, rows, daemon, boot>>
      BY <1>7, <2>1 DEF raise_insert
    <3>3. ProcTypes' /\ LockTypes'
      BY <3>1, <3>2 DEF TypeInv, TypeOK, ProcTypes, LockTypes, Goto, RunnerPCs, Procs
    <3>4. Typed'
      BY <3>2, ConstantsAssumption DEF TypeInv, TypeOK, Typed, Goto, RunnerPCs, Procs
    <3> QED BY <3>2, <3>3, <3>4 DEF TypeInv, TypeOK, ProcTypes, LockTypes, tables
  <2>2. CASE PendingAsksOf(ptask[r]) # {}
    BY <1>7, <2>2, RaiseFailsTypes DEF raise_insert
  <2> QED BY <2>1, <2>2
<1>8. CASE raise_commit(r)
  <2>1. ProcTypes' /\ Typed' /\ LockTypes'
    BY <1>8, ReturnTypes, ReleaseTypes DEF raise_commit, Procs
  <2> QED BY <1>8, <2>1 DEF raise_commit, TypeInv, TypeOK, ProcTypes, LockTypes, TaskStates, AskStates, Live, Procs
<1>9. CASE raise_error(r)
  BY <1>9, RaiseFailsTypes DEF raise_error
<1>10. CASE finalize(r) \/ finalize_error(r)
  <2>1. tstate' \in [Tasks -> TaskStates]
    BY <1>10 DEF finalize, finalize_error, tables, TypeInv, TypeOK, Typed, TaskStates
  <2>2. ProcTypes' /\ Typed'
    <3>1. AfterFinalize(r) /\ pc[r] = "finalize" BY <1>10 DEF finalize, finalize_error
    <3>2. CASE ptask[r] \in L3Runs
      BY <3>1, <3>2, ReturnTypes DEF AfterFinalize, Procs
    <3>3. CASE ptask[r] \notin L3Runs
      <4>1. ProcTypes' BY <3>1, <3>3 DEF AfterFinalize, Goto, TypeInv, TypeOK, ProcTypes, RunnerPCs
      <4>2. Typed'
        BY <3>1, <3>3, ConstantsAssumption DEF AfterFinalize, Goto, TypeInv, TypeOK, Typed, RunnerPCs, Procs
      <4> QED BY <4>1, <4>2
    <3> QED BY <3>2, <3>3
  <2> QED BY <1>10, <2>1, <2>2 DEF finalize, finalize_error, TypeInv, TypeOK, ProcTypes, tables, locks
<1>11. CASE write_finalize_row(r)
  <2>1. ProcTypes' /\ Typed' BY <1>11, ReturnTypes DEF write_finalize_row, Procs
  <2>2. rows' \in [Tasks -> 0..RowCap] BY <1>11, BumpType DEF write_finalize_row, TypeInv, TypeOK
  <2> QED BY <1>11, <2>1, <2>2 DEF write_finalize_row, TypeInv, TypeOK, ProcTypes, tables, locks
<1> QED BY <1>1, <1>2, <1>3, <1>4, <1>5, <1>6, <1>7, <1>8, <1>9, <1>10, <1>11 DEF RunnerStep

\* Every step of asks::resolve keeps the types; decode_resolved_ids yields a
\* task, because resolvable has matched the ask to one.
LEMMA ResolverTypes ==
  ASSUME TypeInv, NEW p \in Resolvers, resolve_begin(p) \/ ResolverStep(p)
  PROVE  TypeInv'
<1>1. CASE resolve_begin(p)
  <2>1. ProcTypes'
    BY <1>1 DEF resolve_begin, TypeInv, TypeOK, ProcTypes, Goto, ResolverPCs, Procs
  <2>2. Typed'
    BY <1>1, ConstantsAssumption DEF resolve_begin, TypeInv, TypeOK, Typed, Goto, ResolverPCs, Procs
  <2> QED BY <1>1, <2>1, <2>2 DEF resolve_begin, TypeInv, TypeOK, ProcTypes, tables, locks
<1>2. CASE resolve_update(p)
  <2>1. PICK a \in pasks[p] :
          \/ /\ resolvable(p, a) /\ out[p] \in Offered
             /\ alock[a] = Nobody
             /\ alock' = [alock EXCEPT ![a] = p]
             /\ ptask' = [ptask EXCEPT ![p] = atask[a]]
             /\ Goto(p, "resume")
             /\ UNCHANGED <<tables, tlock, pasks, todo, began, late, out, rows, daemon, boot>>
          \/ Rollback(p) /\ todo' = todo
    BY <1>2 DEF resolve_update, decode_resolved_ids
  <2>2. CASE Rollback(p) /\ todo' = todo
    BY <2>2, RollbackTypes DEF TypeInv, TypeOK, Procs
  <2>3. CASE ~(Rollback(p) /\ todo' = todo)
    <3>1. ProcTypes' /\ LockTypes'
      BY <2>1, <2>3 DEF TypeInv, TypeOK, ProcTypes, LockTypes, Goto, ResolverPCs, Procs
    <3>2. atask[a] \in Tasks
      BY <2>1, <2>3, ConstantsAssumption DEF resolvable
    <3>3. Typed'
      BY <2>1, <2>3, <3>2, ConstantsAssumption DEF TypeInv, TypeOK, Typed, Goto, ResolverPCs, Procs
    <3> QED BY <2>1, <2>3, <3>1, <3>3 DEF TypeInv, TypeOK, ProcTypes, LockTypes, tables
  <2> QED BY <2>2, <2>3
<1>3. CASE resolve_resume(p)
  <2>1. CASE tstate[ptask[p]] = "awaiting_operator"
    <3>1. /\ tlock' = [tlock EXCEPT ![ptask[p]] = p]
          /\ Goto(p, "commit") /\ pc[p] = "resume"
          /\ UNCHANGED <<tables, alock, ptask, pasks, todo, began, late, out, rows, daemon, boot>>
      BY <1>3, <2>1 DEF resolve_resume
    <3>2. ProcTypes' /\ LockTypes'
      BY <3>1 DEF TypeInv, TypeOK, ProcTypes, LockTypes, Goto, ResolverPCs, Procs
    <3>3. Typed'
      BY <3>1, ConstantsAssumption DEF TypeInv, TypeOK, Typed, Goto, ResolverPCs, Procs
    <3> QED BY <3>1, <3>2, <3>3 DEF TypeInv, TypeOK, ProcTypes, LockTypes, tables
  <2>2. CASE tstate[ptask[p]] # "awaiting_operator"
    BY <1>3, <2>2, RollbackTypes DEF resolve_resume, TypeInv, TypeOK, Procs
  <2> QED BY <2>1, <2>2
<1>4. CASE resolve_commit(p)
  <2>1. ProcTypes' /\ Typed' /\ LockTypes'
    BY <1>4, ReturnTypes, ReleaseTypes DEF resolve_commit, Procs
  <2>2. out[p] \in Choices
    BY <1>4 DEF resolve_commit, TypeInv, Typed, Offered, Choices
  <2> QED BY <1>4, <2>1, <2>2 DEF resolve_commit, resume_state, TypeInv, TypeOK, ProcTypes,
            LockTypes, TaskStates, AskStates, Live
<1> QED BY <1>1, <1>2, <1>3, <1>4 DEF ResolverStep

\* cancel_for_task keeps the types.
LEMMA SweepTypes ==
  ASSUME TypeInv, NEW p \in Cancellers, NEW next \in CancelPCs, pc[p] # "idle",
         cancel_for_task(p, next)
  PROVE  TypeInv'
<1>1. PendingAsksOf(ptask[p]) \subseteq Asks BY DEF PendingAsksOf
<1>2. ProcTypes' /\ LockTypes'
  BY <1>1 DEF cancel_for_task, TypeInv, TypeOK, ProcTypes, LockTypes, Goto, Procs
<1>3. Typed'
  BY ConstantsAssumption DEF cancel_for_task, TypeInv, TypeOK, Typed, Goto, Procs
<1> QED BY <1>2, <1>3 DEF cancel_for_task, TypeInv, TypeOK, ProcTypes, LockTypes, tables

\* Every step of mark_cancelled and cancel_and_audit keeps the types.
LEMMA CancellerTypes ==
  ASSUME TypeInv, NEW p \in Cancellers,
         cancel_begin(p) \/ cancel_if_pending(p) \/ CancellerStep(p)
  PROVE  TypeInv'
<1>1. CASE cancel_begin(p)
  <2>1. PendingAsksOf(ptask'[p]) \subseteq Asks BY DEF PendingAsksOf
  <2>2. ProcTypes'
    BY <1>1 DEF cancel_begin, TypeInv, TypeOK, ProcTypes, Goto, CancelPCs, Procs, PendingAsksOf
  <2>3. Typed'
    BY <1>1, ConstantsAssumption DEF cancel_begin, TypeInv, TypeOK, Typed, Goto, CancelPCs, Procs
  <2> QED BY <1>1, <2>2, <2>3 DEF cancel_begin, TypeInv, TypeOK, ProcTypes, tables, locks
<1>2. CASE cancel_if_pending(p)
  <2>1. ProcTypes'
    BY <1>2, ConstantsAssumption DEF cancel_if_pending, TypeInv, TypeOK, ProcTypes, Goto, CancelPCs,
       Procs, TaskStates, Live
  <2>2. Typed'
    BY <1>2, ConstantsAssumption DEF cancel_if_pending, TypeInv, TypeOK, Typed, Goto, CancelPCs, Procs
  <2>3. tstate' \in [Tasks -> TaskStates]
    BY <1>2 DEF cancel_if_pending, TypeInv, TypeOK, TaskStates, Terminal
  <2> QED BY <1>2, <2>1, <2>2, <2>3 DEF cancel_if_pending, TypeInv, TypeOK, ProcTypes, locks
<1>3. CASE cancel_sweep1(p)
  BY <1>3, SweepTypes DEF cancel_sweep1, CancelPCs
<1>4. CASE cancel_lock(p)
  <2>1. ProcTypes' /\ LockTypes'
    BY <1>4 DEF cancel_lock, TypeInv, TypeOK, Typed, ProcTypes, LockTypes, Goto, CancelPCs, Procs
  <2>2. Typed'
    BY <1>4, ConstantsAssumption DEF cancel_lock, TypeInv, TypeOK, Typed, Goto, CancelPCs, Procs
  <2> QED BY <1>4, <2>1, <2>2 DEF cancel_lock, TypeInv, TypeOK, ProcTypes, LockTypes, tables
<1>5. CASE cancel_update(p)
  <2>1. CASE cancellable(ptask[p])
    <3>1. /\ tlock' = [tlock EXCEPT ![ptask[p]] = p]
          /\ Goto(p, "sweep2") /\ pc[p] = "update"
          /\ UNCHANGED <<tables, alock, ptask, pasks, todo, began, late, out, rows, daemon, boot>>
      BY <1>5, <2>1 DEF cancel_update
    <3>2. ProcTypes' /\ LockTypes'
      BY <3>1 DEF TypeInv, TypeOK, ProcTypes, LockTypes, Goto, CancelPCs, Procs
    <3>3. Typed'
      BY <3>1, ConstantsAssumption DEF TypeInv, TypeOK, Typed, Goto, CancelPCs, Procs
    <3> QED BY <3>1, <3>2, <3>3 DEF TypeInv, TypeOK, ProcTypes, LockTypes, tables
  <2>2. CASE ~cancellable(ptask[p])
    BY <1>5, <2>2, RollbackTypes DEF cancel_update, TypeInv, TypeOK, Procs
  <2> QED BY <2>1, <2>2
<1>6. CASE cancel_sweep2(p)
  BY <1>6, SweepTypes DEF cancel_sweep2, CancelPCs
<1>7. CASE cancel_commit(p)
  <2>1. LockTypes' BY <1>7, ReleaseTypes DEF cancel_commit
  <2>2. ProcTypes'
    BY <1>7 DEF cancel_commit, TypeInv, TypeOK, ProcTypes, Goto, CancelPCs, Procs
  <2>3. Typed'
    BY <1>7, ConstantsAssumption DEF cancel_commit, TypeInv, TypeOK, Typed, Goto, CancelPCs, Procs
  <2>4. tstate' \in [Tasks -> TaskStates] /\ astate' \in [Asks -> AskStates]
    BY <1>7 DEF cancel_commit, TypeInv, TypeOK, TaskStates, AskStates, Terminal
  <2> QED BY <1>7, <2>1, <2>2, <2>3, <2>4 DEF cancel_commit, TypeInv, TypeOK, ProcTypes, LockTypes
<1>8. CASE emit_cancel_audit_rows(p)
  <2>1. ProcTypes' /\ Typed' BY <1>8, ReturnTypes DEF emit_cancel_audit_rows, Procs
  <2>2. rows' \in [Tasks -> 0..RowCap] BY <1>8, BumpType DEF emit_cancel_audit_rows, TypeInv, TypeOK
  <2> QED BY <1>8, <2>1, <2>2 DEF emit_cancel_audit_rows, TypeInv, TypeOK, ProcTypes, tables, locks
<1> QED BY <1>1, <1>2, <1>3, <1>4, <1>5, <1>6, <1>7, <1>8 DEF CancellerStep

\* Every step of expire_due and its audit rows keeps the types.
LEMMA SweeperTypes == ASSUME TypeInv, SweeperStep PROVE TypeInv'
<1> USE ConstantsAssumption
<1>1. CASE expire_begin
  <2>1. ProcTypes'
    BY <1>1 DEF expire_begin, TypeInv, TypeOK, ProcTypes, Goto, SweeperPCs, Procs
  <2>2. Typed'
    BY <1>1 DEF expire_begin, TypeInv, TypeOK, Typed, Goto, SweeperPCs, Procs
  <2> QED BY <1>1, <2>1, <2>2 DEF expire_begin, TypeInv, TypeOK, ProcTypes, tables, locks
<1>2. CASE expire_lock
  <2>1. LockTypes' /\ todo' \subseteq Asks
    BY <1>2 DEF expire_lock, TypeInv, TypeOK, LockTypes, Procs, tables
  <2>2. pasks' \in [Procs -> SUBSET Asks]
    BY <1>2 DEF expire_lock, TypeInv, TypeOK, Procs
  <2>3. Typed' BY <1>2 DEF expire_lock, TypeInv, Typed
  <2> QED BY <1>2, <2>1, <2>2, <2>3 DEF expire_lock, TypeInv, TypeOK, LockTypes, tables
<1>3. CASE expire_updated
  <2>1. ProcTypes'
    BY <1>3 DEF expire_updated, TypeInv, TypeOK, ProcTypes, Goto, SweeperPCs, Procs
  <2>2. Typed'
    BY <1>3 DEF expire_updated, TypeInv, TypeOK, Typed, Goto, SweeperPCs, Procs
  <2>3. todo' \subseteq Asks BY <1>3 DEF expire_updated, TypeInv, TypeOK, Procs
  <2> QED BY <1>3, <2>1, <2>2, <2>3 DEF expire_updated, TypeInv, TypeOK, ProcTypes, tables, locks
<1>4. CASE expire_fail
  <2>0. tlock' \in [Tasks -> Procs \cup {Nobody}]
    <3>1. PICK a \in todo : tlock' = IF tstate[atask[a]] = "awaiting_operator"
                                    THEN [tlock EXCEPT ![atask[a]] = Sweeper] ELSE tlock
      BY <1>4 DEF expire_fail
    <3>2. tlock \in [Tasks -> Procs \cup {Nobody}] /\ Sweeper \in Procs
      BY DEF TypeInv, TypeOK, Procs
    <3> QED BY ONLY <3>1, <3>2
  <2>1. LockTypes' /\ todo' \subseteq Asks
    BY <1>4, <2>0 DEF expire_fail, TypeInv, TypeOK, LockTypes
  <2>2. Typed' BY <1>4 DEF expire_fail, TypeInv, Typed
  <2> QED BY <1>4, <2>1, <2>2 DEF expire_fail, TypeInv, TypeOK, LockTypes, tables
<1>5. CASE expire_commit
  <2>1. LockTypes' BY <1>5, ReleaseTypes DEF expire_commit
  <2>2. ProcTypes' /\ Typed'
    BY <1>5 DEF expire_commit, TypeInv, TypeOK, Typed, ProcTypes, Goto, SweeperPCs, Procs
  <2>3. tstate' \in [Tasks -> TaskStates] /\ astate' \in [Asks -> AskStates]
    BY <1>5 DEF expire_commit, expired_task_state, TypeInv, TypeOK, TaskStates, AskStates, Terminal
  <2>4. todo' \in SUBSET Asks
    BY <1>5 DEF expire_commit, expired_asks, TypeInv, TypeOK, Procs
  <2> QED BY <1>5, <2>1, <2>2, <2>3, <2>4 DEF expire_commit, TypeInv, TypeOK, ProcTypes, LockTypes
<1>6. CASE emit_expired_task_rows
  <2>1. rows' \in [Tasks -> 0..RowCap] BY <1>6, BumpType DEF emit_expired_task_rows, TypeInv, TypeOK
  <2>2. ProcTypes'
    BY <1>6 DEF emit_expired_task_rows, TypeInv, TypeOK, ProcTypes, Goto, SweeperPCs, Procs
  <2>3. Typed'
    BY <1>6 DEF emit_expired_task_rows, TypeInv, TypeOK, Typed, Goto, SweeperPCs, Procs
  <2> QED BY <1>6, <2>1, <2>2, <2>3 DEF emit_expired_task_rows, TypeInv, TypeOK, ProcTypes, tables, locks
<1> QED BY <1>1, <1>2, <1>3, <1>4, <1>5, <1>6 DEF SweeperStep

\* The type invariant is inductive.
LEMMA TypeNext == TypeInv /\ [Next]_vars => TypeInv'
<1> SUFFICES ASSUME TypeInv, [Next]_vars PROVE TypeInv'
  OBVIOUS
<1>1. CASE insert_pending
  BY <1>1 DEF insert_pending, TypeInv, TypeOK, Typed, TaskStates, Live, locks, procs
<1>2. CASE mark_failed_running
  BY <1>2 DEF mark_failed_running, TypeInv, TypeOK, Typed, TaskStates, Terminal, locks, procs
<1>3. CASE \E r \in Runners : RunnerStep(r) \/ raise_error(r) \/ finalize_error(r)
  BY <1>3, RunnerTypes
<1>4. CASE \E p \in Resolvers : resolve_begin(p) \/ ResolverStep(p)
  BY <1>4, ResolverTypes
<1>5. CASE \E p \in Cancellers : cancel_begin(p) \/ cancel_if_pending(p) \/ CancellerStep(p)
  BY <1>5, CancellerTypes
<1>6. CASE SweeperStep
  BY <1>6, SweeperTypes
<1>7. CASE \E p \in Procs : deadlock_victim(p) \/ abort(p)
  BY <1>7, RollbackTypes DEF deadlock_victim, abort, TypeInv, TypeOK
<1>8. CASE daemon_crash
  <2>1. LockTypes' BY <1>8, ReleaseTypes DEF daemon_crash
  <2>2. ProcTypes'
    BY <1>8 DEF daemon_crash, TypeInv, TypeOK, ProcTypes, RunnerPCs
  <2>3. Typed'
    BY <1>8 DEF daemon_crash, TypeInv, TypeOK, Typed, Procs, RunnerPCs, ResolverPCs, CancelPCs, SweeperPCs
  <2> QED BY <1>8, <2>1, <2>2, <2>3 DEF daemon_crash, TypeInv, TypeOK, ProcTypes, LockTypes, tables
<1>9. CASE sweep_crashed
  BY <1>9 DEF sweep_crashed, TypeInv, TypeOK, Typed, TaskStates, Terminal, locks, procs
<1>10. CASE boot_audit
  <2>1. rows' \in [Tasks -> 0..RowCap] BY <1>10, BumpType DEF boot_audit, TypeInv, TypeOK
  <2> QED BY <1>10, <2>1 DEF boot_audit, TypeInv, TypeOK, Typed, tables, locks, procs
<1>11. CASE lease_passes
  BY <1>11 DEF lease_passes, TypeInv, TypeOK, Typed, locks, procs
<1>12. CASE \E a \in Asks : deadline_passes(a)
  BY <1>12 DEF deadline_passes, TypeInv, TypeOK, Typed, locks, procs
<1>13. CASE UNCHANGED vars
  BY <1>13 DEF vars, tables, locks, procs, TypeInv, TypeOK, Typed
<1> QED BY <1>1, <1>2, <1>3, <1>4, <1>5, <1>6, <1>7, <1>8, <1>9, <1>10, <1>11, <1>12, <1>13 DEF Next

\* Every variable keeps its type, for every choice of the constants: among the
\* consequences, a state an UPDATE writes is one the tasks and asks tables know.
THEOREM TypeCorrect == Spec => []TypeOK
<1>1. TypeInv => TypeOK BY DEF TypeInv
<1> QED BY TypeInit, TypeNext, <1>1, PTL DEF Spec

-----------------------------------------------------------------------------
(***************************************************************************)
(* The inductive invariant of TaskStore.                                   *)
(*                                                                         *)
(* A row lock says where its holder is and which row it works on, and the  *)
(* committed row is what the holder read when it took the lock: nobody     *)
(* else may change it.  That turns the facts a transaction checks in its   *)
(* first statements into facts at its commit, and the coupling of asks and *)
(* tasks follows.                                                          *)
(***************************************************************************)

\* The transactions that have the lock of their tasks row, and of their asks.
HoldsTask(p) ==
  \/ p \in Runners /\ pc[p] \in {"insert", "commit"}
  \/ p \in Resolvers /\ pc[p] = "commit"
  \/ p \in Cancellers /\ pc[p] \in {"update", "sweep2", "commit"}

HoldsAsks(p) ==
  \/ p \in Runners /\ pc[p] = "commit"
  \/ p \in Resolvers /\ pc[p] \in {"resume", "commit"}
  \/ p \in Cancellers /\ pc[p] \in {"locktask", "update", "sweep2", "commit"}
  \/ p = Sweeper /\ pc[p] \in {"lockasks", "failtasks"}

\* A locked row names its holder, and a holder has its rows locked.
TaskLocks ==
  \A t \in Tasks : tlock[t] # Nobody =>
    \/ HoldsTask(tlock[t]) /\ ptask[tlock[t]] = t
    \/ /\ tlock[t] = Sweeper /\ pc[Sweeper] = "failtasks"
       /\ \E a \in pasks[Sweeper] : atask[a] = t
TaskHolders == \A p \in Procs : HoldsTask(p) => tlock[ptask[p]] = p
AskLocks ==
  \A a \in Asks : alock[a] # Nobody => HoldsAsks(alock[a]) /\ a \in pasks[alock[a]]
AskHolders == \A p \in Procs : HoldsAsks(p) => \A a \in pasks[p] : alock[a] = p

LockInv == TaskLocks /\ TaskHolders /\ AskLocks /\ AskHolders

\* What each process knows of the rows it works on.
RunnerOK(r) ==
  /\ pc[r] \in {"insert", "commit"} => tstate[ptask[r]] = "running"
  /\ pc[r] = "commit" => \E a \in Asks : pasks[r] = {a} /\ astate[a] = "absent"
  /\ pc[r] \in {"suspend", "insert", "commit"} => ptask[r] \notin L3Runs
  /\ Working(r) => tstate[ptask[r]] \in {"running"} \cup Terminal
  /\ pc[r] \in {"running", "suspend", "insert", "commit"} =>
       \A a \in Asks : astate[a] = "resolved" /\ atask[a] = ptask[r] => choice[a] # "deny"

ResolverOK(p) ==
  /\ pc[p] = "begun" => \E a \in Asks : pasks[p] = {a}
  /\ pc[p] \in {"resume", "commit"} =>
       \E a \in Asks : pasks[p] = {a} /\ astate[a] = "pending" /\ atask[a] = ptask[p]

CancellerOK(p) ==
  /\ pc[p] \in {"idle", "sweep1", "audit"} => pasks[p] = {}
  /\ pc[p] # "idle" => tstate[ptask[p]] # "absent"
  /\ \A a \in pasks[p] : astate[a] = "pending" /\ atask[a] = ptask[p]
  /\ pc[p] \in {"update", "sweep2", "commit"} => out[p] = tstate[ptask[p]]
  /\ pc[p] \in {"sweep2", "commit"} => tstate[ptask[p]] \in Live
  /\ pc[p] = "commit" =>
       \A a \in Asks : astate[a] = "pending" /\ atask[a] = ptask[p] => a \in pasks[p]

SweeperOK ==
  /\ pc[Sweeper] \in {"idle", "audit"} => pasks[Sweeper] = {}
  /\ \A a \in pasks[Sweeper] : astate[a] = "pending"
  /\ pc[Sweeper] = "failtasks" =>
       /\ todo \subseteq pasks[Sweeper]
       /\ \A a \in pasks[Sweeper] \ todo : tlock[atask[a]] = Sweeper

ProcInv ==
  /\ \A r \in Runners : RunnerOK(r)
  /\ \A p \in Resolvers : ResolverOK(p)
  /\ \A p \in Cancellers : CancellerOK(p)
  /\ SweeperOK

\* AskTaskCoupled with its witness spelt out.
CoupledInv ==
  /\ \A a \in Asks : astate[a] = "pending" =>
       atask[a] \in Tasks /\ tstate[atask[a]] = "awaiting_operator"
  /\ \A t \in Tasks : tstate[t] = "awaiting_operator" =>
       \E a \in Asks : astate[a] = "pending" /\ atask[a] = t
  /\ \A a, b \in Asks :
       astate[a] = "pending" /\ astate[b] = "pending" /\ atask[a] = atask[b] => a = b

\* An l3_run raises no ask.
L3Unasked == \A a \in Asks : atask[a] \notin L3Runs

\* The inductive invariant.
IInv == TypeInv /\ LockInv /\ ProcInv /\ CoupledInv /\ L3Unasked /\ OneRunnerPerTask

\* A step of the processes S: the locals of the others stay.
Only(S) ==
  \A q \in Procs \ S :
    pc'[q] = pc[q] /\ ptask'[q] = ptask[q] /\ pasks'[q] = pasks[q] /\ out'[q] = out[q]

\* The empty database satisfies the inductive invariant.
LEMMA IInvInit == Init => IInv
<1> SUFFICES ASSUME Init PROVE IInv
  OBVIOUS
<1>1. TypeInv BY TypeInit
<1>2. LockInv
  BY ConstantsAssumption DEF Init, LockInv, TaskLocks, TaskHolders, AskLocks, AskHolders,
     HoldsTask, HoldsAsks, Procs
<1>3. ProcInv
  BY ConstantsAssumption DEF Init, ProcInv, RunnerOK, ResolverOK, CancellerOK, SweeperOK, Working, Procs
<1>4. CoupledInv /\ L3Unasked
  BY ConstantsAssumption DEF Init, CoupledInv, L3Unasked
<1>5. OneRunnerPerTask
  BY DEF Init, OneRunnerPerTask, Working, Procs
<1> QED BY <1>1, <1>2, <1>3, <1>4, <1>5 DEF IInv

\* A transaction that holds a tasks row works on a task.
LEMMA HolderHasTask == ASSUME TypeInv, NEW p \in Procs, HoldsTask(p) PROVE ptask[p] \in Tasks
  BY DEF TypeInv, Typed, HoldsTask

\* The coupling is a fact about three columns.
LEMMA SameCoupling ==
  ASSUME CoupledInv, UNCHANGED <<tstate, astate, atask>> PROVE CoupledInv'
  BY DEF CoupledInv

\* So is what a cancel knows.
LEMMA SameCanceller ==
  ASSUME NEW q, CancellerOK(q), UNCHANGED <<tstate, astate, atask>>,
         pc'[q] = pc[q], ptask'[q] = ptask[q], pasks'[q] = pasks[q], out'[q] = out[q]
  PROVE  CancellerOK(q)'
  BY DEF CancellerOK

(* A step of the processes S that lets go of every lock they hold. *)
LEMMA LetGo ==
  ASSUME IInv, TypeInv', NEW S \in SUBSET Procs, Only(S), UNCHANGED tables,
         \A t \in Tasks : tlock'[t] = IF tlock[t] \in S THEN Nobody ELSE tlock[t],
         \A a \in Asks : alock'[a] = IF alock[a] \in S THEN Nobody ELSE alock[a],
         Sweeper \notin S => todo' = todo,
         \A p \in S :
           /\ ~HoldsTask(p)' /\ ~HoldsAsks(p)'
           /\ p \in Runners =>
                RunnerOK(p)' /\ (Working(p)' => Working(p) /\ ptask'[p] = ptask[p])
           /\ p \in Resolvers => ResolverOK(p)'
           /\ p \in Cancellers => CancellerOK(p)'
           /\ p = Sweeper => SweeperOK' /\ pc'[Sweeper] # "failtasks"
  PROVE  IInv'
<1> USE ConstantsAssumption DEF IInv, Procs
<1>1. \A p \in Procs : (HoldsTask(p)' => p \notin S /\ HoldsTask(p)) /\ (HoldsAsks(p)' => p \notin S /\ HoldsAsks(p))
  BY DEF HoldsTask, HoldsAsks, Only
<1>2. \A p \in Procs \ S : HoldsTask(p)' = HoldsTask(p) /\ HoldsAsks(p)' = HoldsAsks(p)
  BY DEF HoldsTask, HoldsAsks, Only
<1>3. TaskLocks'
  BY <1>2 DEF TaskLocks, LockInv, Only, TypeInv, TypeOK, tables
<1>4. TaskHolders'
  <2> SUFFICES ASSUME NEW p \in Procs, HoldsTask(p)' PROVE tlock'[ptask'[p]] = p
    BY DEF TaskHolders
  <2>1. p \notin S /\ HoldsTask(p) BY <1>1
  <2>2. ptask[p] \in Tasks /\ tlock[ptask[p]] = p BY <2>1, HolderHasTask DEF TaskHolders, LockInv
  <2>3. ptask'[p] = ptask[p] BY <2>1 DEF Only
  <2>4. \A t \in Tasks : tlock[t] \notin S => tlock'[t] = tlock[t] OBVIOUS
  <2>5. tlock'[ptask[p]] = p BY ONLY <2>1, <2>2, <2>4
  <2> QED BY ONLY <2>3, <2>5
<1>5. AskLocks'
  BY <1>2 DEF AskLocks, LockInv, Only, TypeInv, TypeOK
<1>6. AskHolders'
  BY <1>1 DEF AskHolders, LockInv, Only, TypeInv, TypeOK
<1>7. \A r \in Runners : RunnerOK(r)'
  BY DEF ProcInv, RunnerOK, Working, Only, tables
<1>8. \A p \in Resolvers : ResolverOK(p)'
  BY DEF ProcInv, ResolverOK, Only, tables
<1>9. \A p \in Cancellers : CancellerOK(p)'
  BY DEF ProcInv, CancellerOK, Only, tables
<1>10. SweeperOK'
  <2>1. CASE Sweeper \in S
    BY <2>1
  <2>2. CASE Sweeper \notin S
    <3>1. \A a \in pasks[Sweeper] : atask[a] \in Tasks
      BY DEF ProcInv, SweeperOK, CoupledInv, TypeInv, TypeOK
    <3> QED BY <2>2, <3>1 DEF ProcInv, SweeperOK, Only, tables
  <2> QED BY <2>1, <2>2
<1>11. CoupledInv' /\ L3Unasked'
  BY SameCoupling DEF L3Unasked, tables
<1>12. OneRunnerPerTask'
  BY DEF OneRunnerPerTask, Working, Only
<1> QED BY <1>3, <1>4, <1>5, <1>6, <1>7, <1>8, <1>9, <1>10, <1>11, <1>12 DEF LockInv, ProcInv

(* A step of a process that holds no lock before or after it, which may also *)
(* move task rows that nobody has locked.                                    *)
LEMMA Move ==
  ASSUME IInv, TypeInv', NEW S \in SUBSET (Procs \ {Sweeper}), Only(S),
         UNCHANGED <<astate, atask, choice, locks, todo>>,
         \A t \in Tasks : tstate'[t] # tstate[t] =>
           /\ tlock[t] = Nobody
           /\ tstate[t] # "awaiting_operator"
           /\ tstate'[t] \notin {"awaiting_operator", "absent"}
           /\ tstate[t] \in {"running"} \cup Terminal => tstate'[t] \in Terminal,
         \A p \in S :
           /\ ~HoldsTask(p) /\ ~HoldsAsks(p) /\ ~HoldsTask(p)' /\ ~HoldsAsks(p)'
           /\ p \in Runners =>
                /\ RunnerOK(p)'
                /\ Working(p)' => \/ Working(p) /\ ptask'[p] = ptask[p]
                                  \/ tstate[ptask'[p]] = "pending" /\ S = {p}
           /\ p \in Resolvers => ResolverOK(p)'
           /\ p \in Cancellers => CancellerOK(p)'
  PROVE  IInv'
<1> USE ConstantsAssumption DEF IInv, Procs
<1>1. \A p \in Procs : HoldsTask(p)' = HoldsTask(p) /\ HoldsAsks(p)' = HoldsAsks(p)
  BY DEF HoldsTask, HoldsAsks, Only
<1>2. \A p \in Procs : (HoldsTask(p) => ptask'[p] = ptask[p]) /\ (HoldsAsks(p) => pasks'[p] = pasks[p])
  BY DEF Only
<1>3. pc'[Sweeper] = pc[Sweeper] /\ pasks'[Sweeper] = pasks[Sweeper]
  BY DEF Only
<1>4. TaskLocks'
  BY <1>1, <1>2, <1>3 DEF TaskLocks, LockInv, TypeInv, TypeOK, locks
<1>5. TaskHolders'
  BY <1>1, <1>2 DEF TaskHolders, LockInv, locks
<1>6. AskLocks' /\ AskHolders'
  BY <1>1, <1>2 DEF AskLocks, AskHolders, LockInv, TypeInv, TypeOK, locks
<1>7. \A p \in Procs : HoldsTask(p) => ptask[p] \in Tasks /\ tstate'[ptask[p]] = tstate[ptask[p]]
  BY HolderHasTask DEF LockInv, TaskHolders
<1>8. ASSUME NEW r \in Runners PROVE RunnerOK(r)'
  <2>1. CASE r \in S
    BY <2>1
  <2>2. CASE r \notin S
    <3>1. pc'[r] = pc[r] /\ ptask'[r] = ptask[r] /\ pasks'[r] = pasks[r] BY <2>2 DEF Only
    <3>2. RunnerOK(r) BY DEF ProcInv
    <3>3. pc[r] \in {"insert", "commit"} => tstate'[ptask[r]] = tstate[ptask[r]]
      BY <1>7 DEF HoldsTask
    <3>4. Working(r) => ptask[r] \in Tasks BY DEF Working, TypeInv, Typed
    <3> QED BY <3>1, <3>2, <3>3, <3>4 DEF RunnerOK, Working
  <2> QED BY <2>1, <2>2
<1>9. ASSUME NEW p \in Resolvers PROVE ResolverOK(p)'
  <2>1. CASE p \in S
    BY <2>1
  <2>2. CASE p \notin S
    <3>1. pc'[p] = pc[p] /\ ptask'[p] = ptask[p] /\ pasks'[p] = pasks[p] BY <2>2 DEF Only
    <3>2. ResolverOK(p) BY DEF ProcInv
    <3> QED BY <3>1, <3>2 DEF ResolverOK
  <2> QED BY <2>1, <2>2
<1>10. ASSUME NEW p \in Cancellers PROVE CancellerOK(p)'
  <2>1. CASE p \in S
    BY <2>1
  <2>2. CASE p \notin S
    <3>1. pc'[p] = pc[p] /\ ptask'[p] = ptask[p] /\ pasks'[p] = pasks[p] /\ out'[p] = out[p]
      BY <2>2 DEF Only
    <3>2. CancellerOK(p) BY DEF ProcInv
    <3>3. pc[p] \in {"update", "sweep2", "commit"} => tstate'[ptask[p]] = tstate[ptask[p]]
      BY <1>7 DEF HoldsTask
    <3>4. pc[p] # "idle" => ptask[p] \in Tasks BY DEF TypeInv, Typed
    <3>5. pc[p] # "idle" => tstate'[ptask[p]] # "absent" BY <3>2, <3>4 DEF CancellerOK
    <3>6. UNCHANGED <<astate, atask>> OBVIOUS
    <3> QED BY ONLY <3>1, <3>2, <3>3, <3>5, <3>6 DEF CancellerOK
  <2> QED BY <2>1, <2>2
<1>11. SweeperOK'
  BY <1>3 DEF ProcInv, SweeperOK, locks
<1>12. CoupledInv'
  <2>1. \A t \in Tasks : tstate'[t] = "awaiting_operator" <=> tstate[t] = "awaiting_operator"
    OBVIOUS
  <2>2. UNCHANGED <<astate, atask>> /\ CoupledInv
    OBVIOUS
  <2> QED BY ONLY <2>1, <2>2 DEF CoupledInv
<1>13. OneRunnerPerTask'
  <2> SUFFICES ASSUME NEW r \in Runners, NEW s \in Runners, Working(r)', Working(s)',
                      ptask'[r] = ptask'[s]
               PROVE  r = s
    BY DEF OneRunnerPerTask
  <2>1. \A q \in Runners : q \notin S => Working(q)' = Working(q) /\ ptask'[q] = ptask[q]
    BY DEF Only, Working
  <2>2. \A q \in Runners : Working(q) => tstate[ptask[q]] # "pending"
    BY DEF ProcInv, RunnerOK, Terminal
  <2> QED BY <2>1, <2>2 DEF OneRunnerPerTask
<1> QED BY <1>4, <1>5, <1>6, <1>8, <1>9, <1>10, <1>11, <1>12, <1>13 DEF LockInv, ProcInv, L3Unasked

(* A step of a process that takes the lock of the task it works on. *)
LEMMA TakeTask ==
  ASSUME IInv, TypeInv', NEW p \in Procs \ {Sweeper}, Only({p}), ptask[p] \in Tasks,
         tlock[ptask[p]] \in {Nobody, p}, tlock' = [tlock EXCEPT ![ptask[p]] = p],
         UNCHANGED <<tables, alock, ptask, pasks, todo>>,
         HoldsTask(p)', HoldsAsks(p)' <=> HoldsAsks(p),
         p \in Runners => RunnerOK(p)' /\ Working(p),
         p \in Resolvers => ResolverOK(p)',
         p \in Cancellers => CancellerOK(p)'
  PROVE  IInv'
<1> USE ConstantsAssumption DEF IInv, Procs
<1>1. \A q \in Procs : HoldsAsks(q)' = HoldsAsks(q) /\ (q # p => HoldsTask(q)' = HoldsTask(q))
  BY DEF HoldsTask, HoldsAsks, Only
<1>2. pc'[Sweeper] = pc[Sweeper]
  BY DEF Only
<1>3. \A t \in Tasks : t # ptask[p] => tlock'[t] = tlock[t] /\ tlock[t] # p
  BY DEF TypeInv, TypeOK, LockInv, TaskLocks
<1>4. TaskLocks'
  BY <1>1, <1>2, <1>3 DEF TaskLocks, LockInv, TypeInv, TypeOK, tables
<1>5. TaskHolders'
  <2>1. ptask' = ptask /\ tlock'[ptask[p]] = p BY DEF TypeInv, TypeOK
  <2>2. ASSUME NEW q \in Procs, HoldsTask(q)', q # p PROVE tlock'[ptask[q]] = q
    <3>1. HoldsTask(q) BY <1>1, <2>2
    <3>2. ptask[q] \in Tasks /\ tlock[ptask[q]] = q
      BY <3>1, HolderHasTask DEF TaskHolders, LockInv
    <3> QED BY <3>2, <2>2, <1>3
  <2> QED BY ONLY <2>1, <2>2 DEF TaskHolders
<1>6. AskLocks' /\ AskHolders'
  BY <1>1 DEF AskLocks, AskHolders, LockInv, TypeInv, TypeOK
<1>7. \A r \in Runners : RunnerOK(r)'
  BY DEF ProcInv, RunnerOK, Working, Only, tables
<1>8. \A q \in Resolvers : ResolverOK(q)'
  BY DEF ProcInv, ResolverOK, Only, tables
<1>9. ASSUME NEW q \in Cancellers PROVE CancellerOK(q)'
  <2>1. CASE q = p
    BY <2>1
  <2>2. CASE q # p
    <3>1. pc'[q] = pc[q] /\ ptask'[q] = ptask[q] /\ pasks'[q] = pasks[q] /\ out'[q] = out[q]
      BY <2>2 DEF Only
    <3>2. CancellerOK(q) /\ UNCHANGED <<tstate, astate, atask>> BY DEF ProcInv, tables
    <3> QED BY <3>1, <3>2, SameCanceller
  <2> QED BY <2>1, <2>2
<1>10. SweeperOK'
  <2>1. \A a \in pasks[Sweeper] : atask[a] \in Tasks
    BY DEF ProcInv, SweeperOK, CoupledInv, TypeInv, TypeOK
  <2>2. \A a \in pasks[Sweeper] : tlock[atask[a]] = Sweeper => tlock'[atask[a]] = Sweeper
    BY <2>1, <1>3
  <2> QED BY <1>2, <2>2 DEF ProcInv, SweeperOK, tables
<1>11. CoupledInv' /\ L3Unasked'
  BY SameCoupling DEF L3Unasked, tables
<1>12. OneRunnerPerTask'
  BY DEF OneRunnerPerTask, Working, Only
<1> QED BY <1>4, <1>5, <1>6, <1>7, <1>8, <1>9, <1>10, <1>11, <1>12 DEF LockInv, ProcInv

(* A step of a process that takes the locks of asks nobody else has. *)
LEMMA TakeAsks ==
  ASSUME IInv, TypeInv', NEW p \in Procs, Only({p}), NEW S \in SUBSET Asks,
         \A a \in S : alock[a] \in {Nobody, p},
         \A a \in Asks : alock'[a] = IF a \in S THEN p ELSE alock[a],
         UNCHANGED <<tables, tlock>>,
         HoldsAsks(p)', pasks'[p] = (IF HoldsAsks(p) THEN pasks[p] ELSE {}) \cup S,
         HoldsTask(p)' <=> HoldsTask(p), HoldsTask(p) => ptask'[p] = ptask[p],
         p \in Runners => RunnerOK(p)' /\ Working(p) /\ ptask'[p] = ptask[p],
         p \in Resolvers => ResolverOK(p)',
         p \in Cancellers => CancellerOK(p)',
         p # Sweeper => todo' = todo,
         p = Sweeper => SweeperOK' /\ pc[Sweeper] # "failtasks"
  PROVE  IInv'
<1> USE ConstantsAssumption DEF IInv, Procs
<1>1. \A q \in Procs : HoldsTask(q)' = HoldsTask(q) /\ (q # p => HoldsAsks(q)' = HoldsAsks(q))
  BY DEF HoldsTask, HoldsAsks, Only
<1>2. \A q \in Procs : HoldsTask(q) => ptask'[q] = ptask[q]
  BY DEF Only
<1>3. \A t \in Tasks : tlock[t] = Sweeper => p # Sweeper
  BY DEF LockInv, TaskLocks, HoldsTask
<1>4. TaskLocks'
  BY <1>1, <1>2, <1>3 DEF TaskLocks, LockInv, TypeInv, TypeOK, tables, Only
<1>5. TaskHolders'
  BY <1>1, <1>2 DEF TaskHolders, LockInv
<1>6. AskLocks'
  BY <1>1 DEF AskLocks, LockInv, TypeInv, TypeOK, Only
<1>7. AskHolders'
  BY <1>1 DEF AskHolders, LockInv, TypeInv, TypeOK, Only
<1>8. \A r \in Runners : RunnerOK(r)'
  BY DEF ProcInv, RunnerOK, Working, Only, tables
<1>9. \A q \in Resolvers : ResolverOK(q)'
  BY DEF ProcInv, ResolverOK, Only, tables
<1>10. ASSUME NEW q \in Cancellers PROVE CancellerOK(q)'
  <2>1. CASE q = p
    BY <2>1
  <2>2. CASE q # p
    <3>1. pc'[q] = pc[q] /\ ptask'[q] = ptask[q] /\ pasks'[q] = pasks[q] /\ out'[q] = out[q]
      BY <2>2 DEF Only
    <3>2. CancellerOK(q) /\ UNCHANGED <<tstate, astate, atask>> BY DEF ProcInv, tables
    <3> QED BY <3>1, <3>2, SameCanceller
  <2> QED BY <2>1, <2>2
<1>11. SweeperOK'
  BY DEF ProcInv, SweeperOK, tables, Only
<1>12. CoupledInv' /\ L3Unasked'
  BY SameCoupling DEF L3Unasked, tables
<1>13. OneRunnerPerTask'
  BY DEF OneRunnerPerTask, Working, Only
<1> QED BY <1>4, <1>5, <1>6, <1>7, <1>8, <1>9, <1>10, <1>11, <1>12, <1>13 DEF LockInv, ProcInv

\* Move for one process.
LEMMA MoveOne ==
  ASSUME IInv, TypeInv', NEW p \in Procs, p # Sweeper, Only({p}),
         UNCHANGED <<astate, atask, choice, locks, todo>>,
         \A t \in Tasks : tstate'[t] # tstate[t] =>
           /\ tlock[t] = Nobody
           /\ tstate[t] # "awaiting_operator"
           /\ tstate'[t] \notin {"awaiting_operator", "absent"}
           /\ tstate[t] \in {"running"} \cup Terminal => tstate'[t] \in Terminal,
         ~HoldsTask(p), ~HoldsAsks(p), ~HoldsTask(p)', ~HoldsAsks(p)',
         p \in Runners =>
           /\ RunnerOK(p)'
           /\ Working(p)' => \/ Working(p) /\ ptask'[p] = ptask[p]
                             \/ tstate[ptask'[p]] = "pending",
         p \in Resolvers => ResolverOK(p)',
         p \in Cancellers => CancellerOK(p)'
  PROVE  IInv'
<1> DEFINE S == {p}
<1>1. S \in SUBSET (Procs \ {Sweeper}) /\ Only(S) /\ \A q \in S : q = p OBVIOUS
<1> HIDE DEF S
<1> QED BY <1>1, Move DEF S

\* The same for a statement of no modelled process.
LEMMA MoveRows ==
  ASSUME IInv, TypeInv', UNCHANGED <<astate, atask, choice, locks, procs>>,
         \A t \in Tasks : tstate'[t] # tstate[t] =>
           /\ tlock[t] = Nobody
           /\ tstate[t] # "awaiting_operator"
           /\ tstate'[t] \notin {"awaiting_operator", "absent"}
           /\ tstate[t] \in {"running"} \cup Terminal => tstate'[t] \in Terminal
  PROVE  IInv'
<1> DEFINE S == {}
<1>1. S \in SUBSET (Procs \ {Sweeper}) /\ Only(S) /\ \A q \in S : FALSE BY DEF Only, procs
<1>2. todo' = todo BY DEF procs
<1> HIDE DEF S
<1> QED BY <1>1, <1>2, Move

\* LetGo for one process.
LEMMA LetGoOne ==
  ASSUME IInv, TypeInv', NEW p \in Procs, Only({p}), UNCHANGED tables, Release({p}),
         p # Sweeper => todo' = todo,
         ~HoldsTask(p)', ~HoldsAsks(p)',
         p \in Runners =>
           RunnerOK(p)' /\ (Working(p)' => Working(p) /\ ptask'[p] = ptask[p]),
         p \in Resolvers => ResolverOK(p)',
         p \in Cancellers => CancellerOK(p)',
         p = Sweeper => SweeperOK' /\ pc'[Sweeper] # "failtasks"
  PROVE  IInv'
<1> DEFINE S == {p}
<1>1. S \in SUBSET Procs /\ Only(S) /\ p \in S /\ \A q \in S : q = p OBVIOUS
<1>2. /\ \A t \in Tasks : tlock'[t] = IF tlock[t] \in S THEN Nobody ELSE tlock[t]
      /\ \A a \in Asks : alock'[a] = IF alock[a] \in S THEN Nobody ELSE alock[a]
  BY DEF Release, ReleaseTasks, ReleaseAsks
<1> HIDE DEF S
<1> QED BY <1>1, <1>2, LetGo

(* Ok(false), Ok(None), Err, a deadlock victim, a lost connection. *)
LEMMA RollbackKeeps ==
  ASSUME IInv, TypeInv', NEW p \in Procs, p \notin Runners, Rollback(p),
         p # Sweeper => todo' = todo
  PROVE  IInv'
<1>1. pc'[p] = "idle" /\ pasks'[p] = {} /\ ptask'[p] = NoTask
  BY DEF IInv, TypeInv, TypeOK, Rollback, Return, Goto
<1>2. Only({p}) /\ UNCHANGED tables /\ Release({p})
  BY DEF IInv, TypeInv, TypeOK, Rollback, Return, Goto, Only
<1>3. ~HoldsTask(p)' /\ ~HoldsAsks(p)'
  BY <1>1, ConstantsAssumption DEF HoldsTask, HoldsAsks
<1>4. ResolverOK(p)' /\ CancellerOK(p)'
  BY <1>1 DEF ResolverOK, CancellerOK
<1>5. p = Sweeper => SweeperOK' /\ pc'[Sweeper] # "failtasks"
  BY <1>1 DEF SweeperOK
<1> QED BY <1>2, <1>3, <1>4, <1>5, LetGoOne

\* An Err from raise rolls its transaction back and ends the run.
LEMMA RaiseFailsKeeps ==
  ASSUME IInv, TypeInv', NEW r \in Runners, RaiseFails(r), pc[r] \in {"suspend", "insert", "commit"}
  PROVE  IInv'
<1> USE ConstantsAssumption DEF Procs
<1>1. pc'[r] = "finalize" /\ ptask' = ptask /\ todo' = todo
  BY DEF IInv, TypeInv, TypeOK, RaiseFails, Goto
<1>2. Only({r}) /\ UNCHANGED tables /\ Release({r})
  BY DEF IInv, TypeInv, TypeOK, RaiseFails, Goto, Only
<1>3. ~HoldsTask(r)' /\ ~HoldsAsks(r)'
  BY <1>1 DEF HoldsTask, HoldsAsks
<1>4. Working(r) BY DEF Working
<1>5. RunnerOK(r)'
  BY <1>1, <1>2, <1>4 DEF IInv, ProcInv, RunnerOK, Working, tables
<1> QED BY <1>1, <1>2, <1>3, <1>4, <1>5, LetGoOne

\* A step of a runner between its transactions that touches no table.
LEMMA RunnerQuiet ==
  ASSUME IInv, TypeInv', NEW r \in Runners, Only({r}),
         UNCHANGED <<tables, locks, todo>>,
         pc[r] \notin {"insert", "commit"}, pc'[r] \notin {"insert", "commit"},
         RunnerOK(r)', Working(r)' => Working(r) /\ ptask'[r] = ptask[r]
  PROVE  IInv'
<1> USE ConstantsAssumption DEF Procs
<1>1. ~HoldsTask(r) /\ ~HoldsAsks(r) /\ ~HoldsTask(r)' /\ ~HoldsAsks(r)'
  BY DEF HoldsTask, HoldsAsks
<1>2. UNCHANGED <<astate, atask, choice, locks, todo>> /\ tstate' = tstate
  BY DEF tables
<1> QED BY <1>1, <1>2, MoveOne

\* drain_lane, run_one and asks::raise up to its COMMIT keep the invariant.
LEMMA RunnerKeeps ==
  ASSUME IInv, NEW r \in Runners, RunnerStep(r) \/ raise_error(r) \/ finalize_error(r),
         ~raise_commit(r)
  PROVE  IInv'
<1> USE ConstantsAssumption DEF Procs
<1>0. TypeInv' /\ TypeOK /\ RunnerOK(r)
  BY RunnerTypes DEF IInv, TypeInv, ProcInv
<1>1. CASE claim_one(r)
  <2>1. PICK t \in Tasks :
          /\ claimable(t) /\ tlock[t] = Nobody
          /\ tstate' = [tstate EXCEPT ![t] = "running"]
          /\ ptask' = [ptask EXCEPT ![r] = t]
          /\ Goto(r, IF t \in L3Runs THEN "running" ELSE "preplan")
    BY <1>1 DEF claim_one
  <2>2. /\ pc[r] = "idle"
        /\ UNCHANGED <<astate, atask, choice, locks, todo, pasks, out>>
    BY <1>1 DEF claim_one
  <2>3. pc'[r] \in {"running", "preplan"} /\ ptask'[r] = t /\ tstate'[t] = "running"
    BY <1>0, <2>1 DEF TypeOK, Goto
  <2>4. Only({r}) BY <1>0, <2>1, <2>2 DEF TypeOK, Goto, Only
  <2>5. ~HoldsTask(r) /\ ~HoldsAsks(r) /\ ~HoldsTask(r)' /\ ~HoldsAsks(r)'
    BY <2>2, <2>3 DEF HoldsTask, HoldsAsks
  <2>6. RunnerOK(r)'
    <3>1. pc'[r] = "running" => t \in L3Runs
      BY <1>0, <2>1 DEF TypeOK, Goto
    <3> QED BY <2>2, <2>3, <3>1 DEF RunnerOK, IInv, L3Unasked
  <2>7. tstate[t] = "pending" /\ \A u \in Tasks : tstate'[u] # tstate[u] => u = t
    BY <1>0, <2>1 DEF claimable, TypeOK
  <2> QED BY <1>0, <2>1, <2>2, <2>3, <2>4, <2>5, <2>6, <2>7, MoveOne DEF Terminal
<1>2. CASE pre_plan(r)
  <2>1. /\ pc[r] = "preplan" /\ UNCHANGED <<tables, locks, todo, ptask, pasks>>
        /\ pc'[r] \in {"finalize", "running"} /\ (pc'[r] = "running" => ~denied(ptask[r]))
    BY <1>0, <1>2 DEF pre_plan, Goto, TypeOK
  <2>2. Only({r}) BY <1>0, <1>2 DEF pre_plan, Goto, Only, TypeOK
  <2>3. RunnerOK(r)'
    BY <1>0, <2>1 DEF RunnerOK, Working, tables, denied, ResolvedAsksOf
  <2> QED BY <1>0, <2>1, <2>2, <2>3, RunnerQuiet DEF Working
<1>3. CASE observe_cancelled(r) \/ run_ends(r)
  <2>1. /\ pc[r] = "running" /\ UNCHANGED <<tables, locks, todo, ptask, pasks>>
        /\ pc'[r] = "finalize"
    BY <1>0, <1>3 DEF observe_cancelled, run_ends, Goto, TypeOK
  <2>2. Only({r}) BY <1>0, <1>3 DEF observe_cancelled, run_ends, Goto, Only, TypeOK
  <2>3. RunnerOK(r)'
    BY <1>0, <2>1 DEF RunnerOK, Working, tables
  <2> QED BY <1>0, <2>1, <2>2, <2>3, RunnerQuiet DEF Working
<1>4. CASE escalate(r)
  <2>1. /\ pc[r] = "running" /\ UNCHANGED <<tables, locks, todo, ptask, pasks>>
        /\ pc'[r] = "suspend" /\ ptask[r] \notin L3Runs
    BY <1>0, <1>4 DEF escalate, Goto, TypeOK
  <2>2. Only({r}) BY <1>0, <1>4 DEF escalate, Goto, Only, TypeOK
  <2>3. RunnerOK(r)'
    BY <1>0, <2>1 DEF RunnerOK, Working, tables
  <2> QED BY <1>0, <2>1, <2>2, <2>3, RunnerQuiet DEF Working
<1>5. CASE raise_suspend(r)
  <2>1. CASE tstate[ptask[r]] = "running"
    <3>1. /\ pc[r] = "suspend" /\ tlock[ptask[r]] = Nobody
          /\ tlock' = [tlock EXCEPT ![ptask[r]] = r]
          /\ Goto(r, "insert")
          /\ UNCHANGED <<tables, alock, ptask, pasks, todo, out>>
      BY <1>5, <2>1 DEF raise_suspend
    <3>2. pc'[r] = "insert" /\ Only({r}) BY <1>0, <3>1 DEF Goto, Only, TypeOK
    <3>3. ptask[r] \in Tasks BY <3>1 DEF IInv, TypeInv, Typed
    <3>4. HoldsTask(r)' /\ HoldsAsks(r)' = HoldsAsks(r) /\ Working(r)
      BY <3>1, <3>2 DEF HoldsTask, HoldsAsks, Working
    <3>5. RunnerOK(r)'
      BY <1>0, <2>1, <3>1, <3>2 DEF RunnerOK, Working, tables
    <3> QED BY <1>0, <3>1, <3>2, <3>3, <3>4, <3>5, TakeTask
  <2>2. CASE tstate[ptask[r]] # "running"
    BY <1>0, <1>5, <2>2, RaiseFailsKeeps DEF raise_suspend
  <2> QED BY <2>1, <2>2
<1>6. CASE raise_insert(r)
  <2>1. CASE PendingAsksOf(ptask[r]) = {}
    <3>1. PICK a \in Asks : /\ astate[a] = "absent" /\ alock[a] = Nobody
                            /\ alock' = [alock EXCEPT ![a] = r]
                            /\ pasks' = [pasks EXCEPT ![r] = {a}]
      BY <1>6, <2>1 DEF raise_insert
    <3>2. /\ Goto(r, "commit") /\ pc[r] = "insert"
          /\ UNCHANGED <<tables, tlock, ptask, todo, out>>
      BY <1>6, <2>1 DEF raise_insert
    <3>3. pc'[r] = "commit" /\ Only({r}) /\ pasks'[r] = {a}
      BY <1>0, <3>1, <3>2 DEF Goto, Only, TypeOK
    <3>4. /\ ~HoldsAsks(r) /\ HoldsAsks(r)' /\ HoldsTask(r)' /\ HoldsTask(r)
          /\ Working(r) /\ r # Sweeper
      BY <3>2, <3>3 DEF HoldsTask, HoldsAsks, Working
    <3>5. RunnerOK(r)'
      BY <1>0, <3>1, <3>2, <3>3 DEF RunnerOK, Working, tables
    <3>6. {a} \in SUBSET Asks /\ \A b \in Asks : alock'[b] = IF b \in {a} THEN r ELSE alock[b]
      BY <1>0, <3>1 DEF TypeOK
    <3>7. /\ \A b \in {a} : alock[b] \in {Nobody, r}
          /\ pasks'[r] = (IF HoldsAsks(r) THEN pasks[r] ELSE {}) \cup {a}
          /\ ptask'[r] = ptask[r]
      BY <3>1, <3>2, <3>3, <3>4
    <3>8. r \in Procs /\ r \notin Resolvers /\ r \notin Cancellers /\ r # Sweeper
      BY DEF Procs
    <3> HIDE DEF IInv, Procs
    <3> QED
      BY <1>0, <3>2, <3>3, <3>4, <3>5, <3>6, <3>7, <3>8, TakeAsks, SMTT(30)
  <2>2. CASE PendingAsksOf(ptask[r]) # {}
    BY <1>0, <1>6, <2>2, RaiseFailsKeeps DEF raise_insert
  <2> QED BY <2>1, <2>2
<1>7. CASE raise_error(r)
  BY <1>0, <1>7, RaiseFailsKeeps DEF raise_error
<1>8. CASE finalize(r) \/ finalize_error(r)
  <2>1. pc[r] = "finalize" /\ AfterFinalize(r) /\ UNCHANGED <<astate, atask, choice, locks, todo>>
    BY <1>8 DEF finalize, finalize_error, tables
  <2>2. pc'[r] \in {"idle", "audit"}
    BY <1>0, <2>1 DEF AfterFinalize, Return, Goto, TypeOK
  <2>3. Only({r})
    BY <1>0, <2>1 DEF AfterFinalize, Return, Goto, TypeOK, Only
  <2>4. ~HoldsTask(r) /\ ~HoldsAsks(r) /\ ~HoldsTask(r)' /\ ~HoldsAsks(r)'
    BY <2>1, <2>2 DEF HoldsTask, HoldsAsks
  <2>5. RunnerOK(r)' /\ ~Working(r)'
    BY <2>2 DEF RunnerOK, Working
  <2>6. \A t \in Tasks : tstate'[t] # tstate[t] =>
          tlock[t] = Nobody /\ tstate[t] = "running" /\ tstate'[t] \in Terminal
    BY <1>0, <1>8 DEF finalize, finalize_error, tables, TypeOK, IInv, TypeInv, Typed
  <2>7. r # Sweeper /\ r \in Procs /\ r \notin Resolvers /\ r \notin Cancellers OBVIOUS
  <2> QED BY <1>0, <2>1, <2>3, <2>4, <2>5, <2>6, <2>7, MoveOne DEF Terminal
<1>9. CASE write_finalize_row(r)
  <2>1. pc[r] = "audit" /\ Return(r) /\ UNCHANGED <<tables, locks, todo>>
    BY <1>9 DEF write_finalize_row
  <2>2. pc'[r] = "idle" /\ Only({r})
    BY <1>0, <2>1 DEF Return, Goto, TypeOK, Only
  <2>3. RunnerOK(r)' /\ ~Working(r)' BY <2>2 DEF RunnerOK, Working
  <2> QED BY <1>0, <2>1, <2>2, <2>3, RunnerQuiet
<1> QED BY <1>1, <1>2, <1>3, <1>4, <1>5, <1>6, <1>7, <1>8, <1>9 DEF RunnerStep

\* asks::resolve and resolve_with_nonce up to their COMMIT keep it.
LEMMA ResolverKeeps ==
  ASSUME IInv, NEW p \in Resolvers, resolve_begin(p) \/ ResolverStep(p), ~resolve_commit(p)
  PROVE  IInv'
<1> USE ConstantsAssumption DEF Procs
<1>0. TypeInv' /\ TypeOK /\ ResolverOK(p)
  BY ResolverTypes DEF IInv, TypeInv, ProcInv
<1>1. CASE resolve_begin(p)
  <2>1. PICK a \in Asks : pasks' = [pasks EXCEPT ![p] = {a}]
    BY <1>1 DEF resolve_begin
  <2>2. /\ pc[p] = "idle" /\ Goto(p, "begun") /\ UNCHANGED <<tables, locks, ptask, todo>>
    BY <1>1 DEF resolve_begin
  <2>3. pc'[p] = "begun" /\ pasks'[p] = {a}
    BY <1>0, <2>1, <2>2 DEF TypeOK, Goto
  <2>4. Only({p}) BY <1>0, <1>1, <2>1, <2>2 DEF TypeOK, Goto, Only, resolve_begin
  <2>5. ~HoldsTask(p) /\ ~HoldsAsks(p) /\ ~HoldsTask(p)' /\ ~HoldsAsks(p)'
    BY <2>2, <2>3 DEF HoldsTask, HoldsAsks
  <2>6. ResolverOK(p)' BY <2>3 DEF ResolverOK
  <2> QED BY <1>0, <2>2, <2>4, <2>5, <2>6, MoveOne DEF tables
<1>2. CASE resolve_update(p)
  <2>1. CASE Rollback(p) /\ todo' = todo
    BY <1>0, <2>1, RollbackKeeps
  <2>2. CASE ~(Rollback(p) /\ todo' = todo)
    <3>1. PICK a \in pasks[p] :
            /\ resolvable(p, a) /\ alock[a] = Nobody
            /\ alock' = [alock EXCEPT ![a] = p]
            /\ ptask' = [ptask EXCEPT ![p] = atask[a]]
            /\ Goto(p, "resume")
            /\ UNCHANGED <<tables, tlock, pasks, todo, out>>
      BY <1>2, <2>2 DEF resolve_update, decode_resolved_ids
    <3>2. pc[p] = "begun" /\ pc'[p] = "resume" /\ Only({p}) /\ ptask'[p] = atask[a]
      BY <1>0, <1>2, <3>1 DEF resolve_update, Goto, Only, TypeOK
    <3>3. a \in Asks /\ pasks[p] = {a}
      BY <1>0, <3>1, <3>2 DEF ResolverOK
    <3>4. ~HoldsAsks(p) /\ HoldsAsks(p)' /\ ~HoldsTask(p)' /\ ~HoldsTask(p)
      BY <3>2 DEF HoldsTask, HoldsAsks
    <3>5. ResolverOK(p)'
      BY <3>1, <3>2, <3>3 DEF ResolverOK, resolvable, tables
    <3>6. {a} \in SUBSET Asks /\ \A b \in Asks : alock'[b] = IF b \in {a} THEN p ELSE alock[b]
      BY <1>0, <3>1, <3>3 DEF TypeOK
    <3>7. p \notin Runners /\ p \notin Cancellers /\ p # Sweeper OBVIOUS
    <3>8. pasks'[p] = (IF HoldsAsks(p) THEN pasks[p] ELSE {}) \cup {a}
      BY <3>1, <3>3, <3>4
    <3>9. alock[a] \in {Nobody, p} /\ UNCHANGED <<tables, tlock>> /\ todo' = todo BY <3>1
    <3> QED BY <1>0, <3>2, <3>4, <3>5, <3>6, <3>7, <3>8, <3>9, TakeAsks
  <2> QED BY <2>1, <2>2
<1>3. CASE resolve_resume(p)
  <2>1. CASE tstate[ptask[p]] = "awaiting_operator"
    <3>1. /\ pc[p] = "resume" /\ tlock[ptask[p]] = Nobody
          /\ tlock' = [tlock EXCEPT ![ptask[p]] = p]
          /\ Goto(p, "commit")
          /\ UNCHANGED <<tables, alock, ptask, pasks, todo, out>>
      BY <1>3, <2>1 DEF resolve_resume
    <3>2. pc'[p] = "commit" /\ Only({p}) BY <1>0, <3>1 DEF Goto, Only, TypeOK
    <3>3. ptask[p] \in Tasks BY <3>1 DEF IInv, TypeInv, Typed
    <3>4. HoldsTask(p)' /\ HoldsAsks(p)' = HoldsAsks(p)
      BY <3>1, <3>2 DEF HoldsTask, HoldsAsks
    <3>5. ResolverOK(p)'
      BY <1>0, <3>1, <3>2 DEF ResolverOK, tables
    <3>6. p \notin Runners /\ p \notin Cancellers /\ p # Sweeper OBVIOUS
    <3> QED BY <1>0, <3>1, <3>2, <3>3, <3>4, <3>5, <3>6, TakeTask
  <2>2. CASE tstate[ptask[p]] # "awaiting_operator"
    BY <1>0, <1>3, <2>2, RollbackKeeps DEF resolve_resume
  <2> QED BY <2>1, <2>2
<1> QED BY <1>1, <1>2, <1>3 DEF ResolverStep

\* cancel_for_task keeps it: the asks it adds are pending asks of the task it
\* cancels, and after the second sweep it has written all of them.
LEMMA SweepKeeps ==
  ASSUME IInv, TypeInv', NEW p \in Cancellers, cancel_sweep1(p) \/ cancel_sweep2(p)
  PROVE  IInv'
<1> USE ConstantsAssumption DEF Procs
<1> DEFINE S == PendingAsksOf(ptask[p])
<1>1. TypeOK /\ CancellerOK(p) BY DEF IInv, TypeInv, ProcInv
<1>2. /\ \A a \in S : FreeAsk(p, a)
      /\ alock' = [a \in Asks |-> IF a \in S THEN p ELSE alock[a]]
      /\ pasks' = [pasks EXCEPT ![p] = pasks[p] \cup S]
      /\ UNCHANGED <<tables, tlock, ptask, todo, out>>
  BY DEF cancel_sweep1, cancel_sweep2, cancel_for_task
<1>3. \/ pc[p] = "sweep1" /\ pc'[p] = "locktask"
      \/ pc[p] = "sweep2" /\ pc'[p] = "commit"
  BY <1>1 DEF cancel_sweep1, cancel_sweep2, cancel_for_task, Goto, TypeOK
<1>4. Only({p})
  BY <1>1, <1>2 DEF cancel_sweep1, cancel_sweep2, cancel_for_task, Goto, TypeOK, Only
<1>5. HoldsAsks(p)' /\ HoldsTask(p)' = HoldsTask(p) /\ (HoldsAsks(p) <=> pc[p] = "sweep2")
  BY <1>3 DEF HoldsTask, HoldsAsks
<1>6. pasks'[p] = (IF HoldsAsks(p) THEN pasks[p] ELSE {}) \cup S
  BY <1>1, <1>2, <1>3, <1>5 DEF CancellerOK, TypeOK
<1>7. S \in SUBSET Asks /\ \A a \in S : astate[a] = "pending" /\ atask[a] = ptask[p]
  BY DEF PendingAsksOf
<1>8. \A a \in Asks : astate[a] = "pending" /\ atask[a] = ptask[p] => a \in S
  BY DEF PendingAsksOf
<1>9. \A a \in S : alock[a] \in {Nobody, p} BY <1>2 DEF FreeAsk
<1> HIDE DEF S
<1>10. CancellerOK(p)'
  <2>1. \A a \in pasks'[p] : a \in S \/ a \in pasks[p] BY <1>6
  <2>2. S \subseteq pasks'[p] BY <1>6
  <2> QED BY <1>1, <1>2, <1>3, <1>7, <1>8, <2>1, <2>2 DEF CancellerOK, tables
<1>11. p \notin Runners /\ p \notin Resolvers /\ p # Sweeper OBVIOUS
<1> QED BY <1>2, <1>4, <1>5, <1>6, <1>7, <1>9, <1>10, <1>11, TakeAsks

\* mark_cancelled up to its COMMIT and its audit rows keep it.
LEMMA CancellerKeeps ==
  ASSUME IInv, NEW p \in Cancellers,
         cancel_begin(p) \/ cancel_if_pending(p) \/ CancellerStep(p), ~cancel_commit(p)
  PROVE  IInv'
<1> USE ConstantsAssumption DEF Procs
<1>0. TypeInv' /\ TypeOK /\ CancellerOK(p) /\ p \notin Runners /\ p \notin Resolvers /\ p # Sweeper
  BY CancellerTypes DEF IInv, TypeInv, ProcInv
<1>1. CASE cancel_begin(p)
  <2>1. PICK t \in Tasks : tstate[t] # "absent" /\ ptask' = [ptask EXCEPT ![p] = t]
    BY <1>1 DEF cancel_begin
  <2>2. pc[p] = "idle" /\ Goto(p, "sweep1") /\ UNCHANGED <<tables, locks, pasks, todo, out>>
    BY <1>1 DEF cancel_begin
  <2>3. pc'[p] = "sweep1" /\ ptask'[p] = t /\ Only({p})
    BY <1>0, <2>1, <2>2 DEF TypeOK, Goto, Only
  <2>4. ~HoldsTask(p) /\ ~HoldsAsks(p) /\ ~HoldsTask(p)' /\ ~HoldsAsks(p)'
    BY <2>2, <2>3 DEF HoldsTask, HoldsAsks
  <2>5. CancellerOK(p)' BY <1>0, <2>1, <2>2, <2>3 DEF CancellerOK, tables
  <2> QED BY <1>0, <2>2, <2>3, <2>4, <2>5, MoveOne DEF tables
<1>2. CASE cancel_if_pending(p)
  <2>1. PICK t \in Tasks : /\ tstate[t] = "pending" /\ tlock[t] = Nobody
                           /\ tstate' = [tstate EXCEPT ![t] = "cancelled"]
                           /\ ptask' = [ptask EXCEPT ![p] = t]
    BY <1>2 DEF cancel_if_pending
  <2>2. /\ pc[p] = "idle" /\ Goto(p, "audit") /\ out' = [out EXCEPT ![p] = "pending"]
        /\ UNCHANGED <<astate, atask, choice, locks, pasks, todo>>
    BY <1>2 DEF cancel_if_pending
  <2>3. pc'[p] = "audit" /\ ptask'[p] = t /\ Only({p}) /\ tstate'[t] = "cancelled"
    BY <1>0, <2>1, <2>2 DEF TypeOK, Goto, Only
  <2>4. ~HoldsTask(p) /\ ~HoldsAsks(p) /\ ~HoldsTask(p)' /\ ~HoldsAsks(p)'
    BY <2>2, <2>3 DEF HoldsTask, HoldsAsks
  <2>5. CancellerOK(p)' BY <1>0, <2>2, <2>3 DEF CancellerOK
  <2>6. \A u \in Tasks : tstate'[u] # tstate[u] => u = t BY <1>0, <2>1 DEF TypeOK
  <2> QED BY <1>0, <2>1, <2>2, <2>3, <2>4, <2>5, <2>6, MoveOne DEF Terminal
<1>3. CASE cancel_sweep1(p) \/ cancel_sweep2(p)
  BY <1>0, <1>3, SweepKeeps
<1>4. CASE cancel_lock(p)
  <2>1. /\ pc[p] = "locktask" /\ tlock[ptask[p]] = Nobody
        /\ tlock' = [tlock EXCEPT ![ptask[p]] = p]
        /\ out' = [out EXCEPT ![p] = tstate[ptask[p]]]
        /\ Goto(p, "update")
        /\ UNCHANGED <<tables, alock, ptask, pasks, todo>>
    BY <1>4 DEF cancel_lock
  <2>2. pc'[p] = "update" /\ Only({p}) /\ out'[p] = tstate[ptask[p]]
    BY <1>0, <2>1 DEF Goto, Only, TypeOK
  <2>3. ptask[p] \in Tasks BY <2>1 DEF IInv, TypeInv, Typed
  <2>4. HoldsTask(p)' /\ HoldsAsks(p)' = HoldsAsks(p)
    BY <2>1, <2>2 DEF HoldsTask, HoldsAsks
  <2>5. CancellerOK(p)' BY <1>0, <2>1, <2>2 DEF CancellerOK, tables
  <2> QED BY <1>0, <2>1, <2>2, <2>3, <2>4, <2>5, TakeTask
<1>5. CASE cancel_update(p)
  <2>1. CASE cancellable(ptask[p])
    <3>1. /\ pc[p] = "update" /\ FreeTask(p, ptask[p])
          /\ tlock' = [tlock EXCEPT ![ptask[p]] = p]
          /\ Goto(p, "sweep2")
          /\ UNCHANGED <<tables, alock, ptask, pasks, todo, out>>
      BY <1>5, <2>1 DEF cancel_update
    <3>2. pc'[p] = "sweep2" /\ Only({p}) BY <1>0, <3>1 DEF Goto, Only, TypeOK
    <3>3. ptask[p] \in Tasks BY <3>1 DEF IInv, TypeInv, Typed
    <3>4. HoldsTask(p)' /\ HoldsAsks(p)' = HoldsAsks(p)
      BY <3>1, <3>2 DEF HoldsTask, HoldsAsks
    <3>5. CancellerOK(p)' BY <1>0, <2>1, <3>1, <3>2 DEF CancellerOK, cancellable, tables
    <3> QED BY <1>0, <3>1, <3>2, <3>3, <3>4, <3>5, TakeTask DEF FreeTask
  <2>2. CASE ~cancellable(ptask[p])
    BY <1>0, <1>5, <2>2, RollbackKeeps DEF cancel_update
  <2> QED BY <2>1, <2>2
<1>6. CASE emit_cancel_audit_rows(p)
  <2>1. pc[p] = "audit" /\ Return(p) /\ UNCHANGED <<tables, locks, todo>>
    BY <1>6 DEF emit_cancel_audit_rows
  <2>2. pc'[p] = "idle" /\ pasks'[p] = {} /\ Only({p})
    BY <1>0, <2>1 DEF Return, Goto, TypeOK, Only
  <2>3. CancellerOK(p)' BY <2>2 DEF CancellerOK
  <2>4. ~HoldsTask(p) /\ ~HoldsAsks(p) /\ ~HoldsTask(p)' /\ ~HoldsAsks(p)'
    BY <2>1, <2>2 DEF HoldsTask, HoldsAsks
  <2> QED BY <1>0, <2>1, <2>2, <2>3, <2>4, MoveOne DEF tables
<1> QED BY <1>1, <1>2, <1>3, <1>4, <1>5, <1>6 DEF CancellerStep

\* expire_due up to its COMMIT and its audit rows keep it.
LEMMA SweeperKeeps == ASSUME IInv, SweeperStep, ~expire_commit PROVE IInv'
<1> USE ConstantsAssumption DEF Procs
<1>0. TypeInv' /\ TypeOK /\ SweeperOK
  BY SweeperTypes DEF IInv, TypeInv, ProcInv
<1>00. Sweeper \in Procs /\ Sweeper \notin Runners /\ Sweeper \notin Resolvers /\ Sweeper \notin Cancellers
  OBVIOUS
<1>1. CASE expire_begin
  <2>1. /\ pc[Sweeper] = "idle" /\ Goto(Sweeper, "lockasks")
        /\ UNCHANGED <<tables, locks, ptask, pasks, out>>
    BY <1>1 DEF expire_begin
  <2>2. pc'[Sweeper] = "lockasks" /\ Only({Sweeper})
    BY <1>0, <2>1 DEF TypeOK, Goto, Only
  <2>3. HoldsAsks(Sweeper)' /\ ~HoldsAsks(Sweeper) /\ ~HoldsTask(Sweeper) /\ ~HoldsTask(Sweeper)'
    BY <2>1, <2>2 DEF HoldsAsks, HoldsTask
  <2>4. SweeperOK' BY <1>0, <2>1, <2>2 DEF SweeperOK, tables
  <2>5. pasks'[Sweeper] = {} BY <1>0, <2>1 DEF SweeperOK
  <2> DEFINE S == {}
  <2>6. /\ S \in SUBSET Asks /\ \A a \in S : FALSE
        /\ \A a \in Asks : alock'[a] = IF a \in S THEN Sweeper ELSE alock[a]
        /\ pasks'[Sweeper] = (IF HoldsAsks(Sweeper) THEN pasks[Sweeper] ELSE {}) \cup S
    BY <2>1, <2>3, <2>5 DEF locks
  <2>7. UNCHANGED <<tables, tlock>> BY <2>1 DEF locks
  <2> HIDE DEF S
  <2> QED BY <1>0, <1>00, <2>1, <2>2, <2>3, <2>4, <2>6, <2>7, TakeAsks
<1>2. CASE expire_lock
  <2>1. PICK a \in todo :
          /\ astate[a] = "pending" => alock[a] = Nobody
          /\ IF astate[a] = "pending"
             THEN /\ alock' = [alock EXCEPT ![a] = Sweeper]
                  /\ pasks' = [pasks EXCEPT ![Sweeper] = @ \cup {a}]
             ELSE UNCHANGED <<alock, pasks>>
    BY <1>2 DEF expire_lock
  <2> DEFINE S == IF astate[a] = "pending" THEN {a} ELSE {}
  <2>2. pc[Sweeper] = "lockasks" /\ UNCHANGED <<tables, tlock, pc, ptask, out>>
    BY <1>2 DEF expire_lock
  <2>3. a \in Asks /\ S \in SUBSET Asks /\ \A b \in S : b = a /\ astate[b] = "pending" /\ alock[b] = Nobody
    BY <1>0, <2>1 DEF TypeOK
  <2>4. /\ \A b \in Asks : alock'[b] = IF b \in S THEN Sweeper ELSE alock[b]
        /\ pasks'[Sweeper] = pasks[Sweeper] \cup S
    BY <1>0, <2>1, <2>3 DEF TypeOK
  <2>5. Only({Sweeper}) BY <1>0, <2>1, <2>2 DEF TypeOK, Only
  <2>6. HoldsAsks(Sweeper)' /\ HoldsAsks(Sweeper) /\ ~HoldsTask(Sweeper) /\ ~HoldsTask(Sweeper)'
    BY <2>2 DEF HoldsAsks, HoldsTask
  <2> HIDE DEF S
  <2>7. SweeperOK' BY <1>0, <2>2, <2>3, <2>4 DEF SweeperOK, tables
  <2>8. \A b \in S : alock[b] \in {Nobody, Sweeper} BY <2>3
  <2>9. pasks'[Sweeper] = (IF HoldsAsks(Sweeper) THEN pasks[Sweeper] ELSE {}) \cup S BY <2>4, <2>6
  <2> QED BY <1>0, <1>00, <2>2, <2>3, <2>4, <2>5, <2>6, <2>7, <2>8, <2>9, TakeAsks
<1>3. CASE expire_updated
  <2>1. /\ pc[Sweeper] = "lockasks" /\ todo' = pasks[Sweeper] /\ Goto(Sweeper, "failtasks")
        /\ UNCHANGED <<tables, locks, ptask, pasks, out>>
    BY <1>3 DEF expire_updated
  <2>2. pc'[Sweeper] = "failtasks" /\ Only({Sweeper})
    BY <1>0, <2>1 DEF TypeOK, Goto, Only
  <2>3. SweeperOK' BY <1>0, <2>1, <2>2 DEF SweeperOK, tables
  <2>4. HoldsAsks(Sweeper)' /\ HoldsAsks(Sweeper) /\ ~HoldsTask(Sweeper) /\ ~HoldsTask(Sweeper)'
    BY <2>1, <2>2 DEF HoldsAsks, HoldsTask
  <2> DEFINE S == {}
  <2>5. /\ S \in SUBSET Asks /\ \A a \in S : FALSE
        /\ \A a \in Asks : alock'[a] = IF a \in S THEN Sweeper ELSE alock[a]
        /\ pasks'[Sweeper] = (IF HoldsAsks(Sweeper) THEN pasks[Sweeper] ELSE {}) \cup S
    BY <2>1, <2>4 DEF locks
  <2>6. UNCHANGED <<tables, tlock>> BY <2>1 DEF locks
  <2> HIDE DEF S
  <2> QED BY <1>0, <1>00, <2>1, <2>2, <2>3, <2>4, <2>5, <2>6, TakeAsks
<1>4. CASE expire_fail
  <2>1. PICK a \in todo :
          /\ tstate[atask[a]] = "awaiting_operator" => FreeTask(Sweeper, atask[a])
          /\ todo' = todo \ {a}
          /\ tlock' = IF tstate[atask[a]] = "awaiting_operator"
                      THEN [tlock EXCEPT ![atask[a]] = Sweeper] ELSE tlock
    BY <1>4 DEF expire_fail
  <2>2. pc[Sweeper] = "failtasks" /\ UNCHANGED <<tables, alock, pc, ptask, pasks, out>>
    BY <1>4 DEF expire_fail
  <2>3. a \in pasks[Sweeper] /\ a \in Asks /\ astate[a] = "pending"
    BY <1>0, <2>1, <2>2 DEF SweeperOK, TypeOK
  <2>4. atask[a] \in Tasks /\ tstate[atask[a]] = "awaiting_operator"
    BY <2>3 DEF IInv, CoupledInv
  <2>5. /\ tlock[atask[a]] \in {Nobody, Sweeper} /\ tlock'[atask[a]] = Sweeper
        /\ \A t \in Tasks : t # atask[a] => tlock'[t] = tlock[t]
    BY <1>0, <2>1, <2>4 DEF FreeTask, TypeOK
  <2>6. \A q \in Procs : HoldsTask(q)' = HoldsTask(q) /\ HoldsAsks(q)' = HoldsAsks(q)
    BY <2>2 DEF HoldsTask, HoldsAsks
  <2>7. TaskLocks'
    BY <1>0, <2>2, <2>3, <2>5, <2>6 DEF TaskLocks, IInv, LockInv, tables, TypeOK
  <2>8. TaskHolders'
    <3> SUFFICES ASSUME NEW q \in Procs, HoldsTask(q) PROVE tlock'[ptask[q]] = q
      BY <2>2, <2>6 DEF TaskHolders
    <3>1. ptask[q] \in Tasks /\ tlock[ptask[q]] = q
      BY HolderHasTask DEF IInv, LockInv, TaskHolders
    <3>2. q # Sweeper BY DEF HoldsTask
    <3> QED BY <2>5, <3>1, <3>2
  <2>9. AskLocks' /\ AskHolders'
    BY <1>0, <2>2, <2>6 DEF AskLocks, AskHolders, IInv, LockInv, TypeOK
  <2>10. SweeperOK'
    <3>1. \A b \in pasks[Sweeper] : atask[b] \in Tasks
      BY <1>0 DEF SweeperOK, IInv, CoupledInv, TypeOK
    <3> QED BY <1>0, <2>1, <2>2, <2>3, <2>5, <3>1 DEF SweeperOK, tables
  <2>11. /\ \A q \in Runners : RunnerOK(q)'
         /\ \A q \in Resolvers : ResolverOK(q)'
         /\ \A q \in Cancellers : CancellerOK(q)'
    BY <2>2 DEF IInv, ProcInv, RunnerOK, ResolverOK, CancellerOK, Working, tables
  <2>12. CoupledInv' /\ L3Unasked' /\ OneRunnerPerTask'
    BY <2>2, SameCoupling DEF IInv, L3Unasked, OneRunnerPerTask, Working, tables
  <2> QED BY <1>0, <2>7, <2>8, <2>9, <2>10, <2>11, <2>12 DEF IInv, LockInv, ProcInv
<1>5. CASE emit_expired_task_rows
  <2>1. /\ pc[Sweeper] = "audit" /\ pc'[Sweeper] \in {"idle", "audit"}
        /\ UNCHANGED <<tables, locks, ptask, pasks, out>>
    BY <1>0, <1>5 DEF emit_expired_task_rows, Goto, TypeOK
  <2>2. Only({Sweeper}) BY <1>0, <1>5 DEF emit_expired_task_rows, Goto, Only, TypeOK
  <2>3. ~HoldsTask(Sweeper)' /\ ~HoldsAsks(Sweeper)' BY <2>1 DEF HoldsTask, HoldsAsks
  <2>4. SweeperOK' BY <1>0, <2>1 DEF SweeperOK, tables
  <2>5. (\A t \in Tasks : tlock[t] # Sweeper) /\ (\A a \in Asks : alock[a] # Sweeper)
    BY <2>1 DEF IInv, LockInv, TaskLocks, AskLocks, HoldsTask, HoldsAsks
  <2>6. Release({Sweeper})
    <3>1. tlock = [t \in Tasks |-> tlock[t]] /\ alock = [a \in Asks |-> alock[a]]
      BY <1>0 DEF TypeOK
    <3>2. /\ [t \in Tasks |-> IF tlock[t] \in {Sweeper} THEN Nobody ELSE tlock[t]] = [t \in Tasks |-> tlock[t]]
          /\ [a \in Asks |-> IF alock[a] \in {Sweeper} THEN Nobody ELSE alock[a]] = [a \in Asks |-> alock[a]]
      BY <2>5
    <3> QED BY <2>1, <3>1, <3>2 DEF Release, ReleaseTasks, ReleaseAsks, locks
  <2> QED BY <1>0, <1>00, <2>1, <2>2, <2>3, <2>4, <2>6, LetGoOne
<1> QED BY <1>1, <1>2, <1>3, <1>4, <1>5 DEF SweeperStep

\* A crash of the daemon rolls back all its transactions at once.
LEMMA CrashKeeps == ASSUME IInv, TypeInv', daemon_crash PROVE IInv'
<1> USE ConstantsAssumption DEF Procs, DaemonProcs
<1>1. TypeOK BY DEF IInv, TypeInv
<1>2. DaemonProcs \in SUBSET Procs /\ Sweeper \in DaemonProcs OBVIOUS
<1>3. \A p \in DaemonProcs : pc'[p] = "idle" /\ pasks'[p] = {}
  BY <1>2 DEF daemon_crash
<1>4. Only(DaemonProcs) /\ UNCHANGED tables BY DEF daemon_crash, Only
<1>5. /\ \A t \in Tasks : tlock'[t] = IF tlock[t] \in DaemonProcs THEN Nobody ELSE tlock[t]
      /\ \A a \in Asks : alock'[a] = IF alock[a] \in DaemonProcs THEN Nobody ELSE alock[a]
  BY DEF daemon_crash, Release, ReleaseTasks, ReleaseAsks
<1>6. ASSUME NEW p \in DaemonProcs
      PROVE  /\ ~HoldsTask(p)' /\ ~HoldsAsks(p)'
             /\ p \in Runners => RunnerOK(p)' /\ ~Working(p)'
             /\ p \in Resolvers => ResolverOK(p)'
             /\ p \in Cancellers => CancellerOK(p)'
             /\ p = Sweeper => SweeperOK' /\ pc'[Sweeper] # "failtasks"
  BY <1>3 DEF HoldsTask, HoldsAsks, RunnerOK, Working, ResolverOK, CancellerOK, SweeperOK
<1> HIDE DEF DaemonProcs
<1> QED BY <1>2, <1>4, <1>5, <1>6, LetGo

(* A commit: the locks of p's transaction go, and the rows it changes are   *)
(* rows it had locked.  What the others know of their own rows stays true.  *)
LEMMA Commit ==
  ASSUME IInv, TypeInv', NEW p \in Procs, Only({p}), Release({p}),
         p # Sweeper => todo' = todo,
         \A t \in Tasks : tstate'[t] # tstate[t] =>
           /\ tlock[t] = p /\ tstate'[t] # "absent"
           /\ \/ tstate'[t] \in Terminal \/ tstate[t] = "awaiting_operator"
              \/ p \in Runners /\ Working(p) /\ ptask[p] = t,
         \A a \in Asks :
           astate'[a] # astate[a] \/ atask'[a] # atask[a] \/ choice'[a] # choice[a] =>
             /\ alock[a] = p
             /\ astate'[a] = "pending" => tlock[atask'[a]] = p
             /\ astate'[a] = "resolved" => tstate[atask'[a]] = "awaiting_operator",
         ~HoldsTask(p)', ~HoldsAsks(p)',
         p \in Runners => RunnerOK(p)' /\ ~Working(p)',
         p \in Resolvers => ResolverOK(p)',
         p \in Cancellers => CancellerOK(p)',
         p = Sweeper => SweeperOK' /\ pc'[Sweeper] # "failtasks",
         CoupledInv', L3Unasked'
  PROVE  IInv'
<1> USE ConstantsAssumption DEF Procs
<1>0. TypeOK /\ TaskLocks /\ TaskHolders /\ AskLocks /\ AskHolders
  BY DEF IInv, TypeInv, LockInv
<1>1. /\ \A t \in Tasks : tlock'[t] = IF tlock[t] = p THEN Nobody ELSE tlock[t]
      /\ \A a \in Asks : alock'[a] = IF alock[a] = p THEN Nobody ELSE alock[a]
  BY DEF Release, ReleaseTasks, ReleaseAsks
<1>2. \A q \in Procs : q # p =>
        /\ HoldsTask(q)' <=> HoldsTask(q)
        /\ HoldsAsks(q)' <=> HoldsAsks(q)
        /\ pc'[q] = pc[q] /\ ptask'[q] = ptask[q] /\ pasks'[q] = pasks[q] /\ out'[q] = out[q]
  BY DEF HoldsTask, HoldsAsks, Only
<1>3. \A q \in Procs : q # p /\ HoldsTask(q) =>
        ptask[q] \in Tasks /\ tlock[ptask[q]] = q /\ tstate'[ptask[q]] = tstate[ptask[q]]
  BY <1>0, HolderHasTask DEF IInv, TaskHolders
<1>4. \A q \in Procs : q # p /\ HoldsAsks(q) =>
        \A a \in pasks[q] : /\ a \in Asks /\ alock[a] = q
                            /\ astate'[a] = astate[a] /\ atask'[a] = atask[a]
  BY <1>0 DEF AskHolders, TypeOK
<1>5. TaskLocks'
  <2>1. p # Sweeper /\ pc[Sweeper] = "failtasks" => \A a \in pasks[Sweeper] : atask'[a] = atask[a]
    BY <1>4 DEF HoldsAsks
  <2> QED BY <1>0, <1>1, <1>2, <2>1 DEF TaskLocks, TypeOK
<1>6. TaskHolders'
  <2> SUFFICES ASSUME NEW q \in Procs, HoldsTask(q)' PROVE tlock'[ptask'[q]] = q
    BY DEF TaskHolders
  <2>1. q # p OBVIOUS
  <2>2. HoldsTask(q) /\ ptask'[q] = ptask[q] BY <1>2, <2>1
  <2>3. ptask[q] \in Tasks /\ tlock[ptask[q]] = q BY <1>3, <2>1, <2>2
  <2> QED BY <1>1, <2>1, <2>2, <2>3
<1>7. AskLocks'
  <2>1. \A q \in Procs : q # p /\ HoldsAsks(q) => HoldsAsks(q)' /\ pasks'[q] = pasks[q]
    BY <1>2
  <2>2. \A a \in Asks : alock'[a] # Nobody =>
          alock'[a] = alock[a] /\ alock[a] \in Procs /\ alock[a] # p
    BY <1>0, <1>1 DEF TypeOK
  <2> QED BY <1>0, <2>1, <2>2 DEF AskLocks
<1>8. AskHolders'
  <2> SUFFICES ASSUME NEW q \in Procs, HoldsAsks(q)', NEW a \in pasks'[q] PROVE alock'[a] = q
    BY DEF AskHolders
  <2>1. q # p OBVIOUS
  <2>2. HoldsAsks(q) /\ a \in pasks[q] BY <1>2, <2>1
  <2>3. a \in Asks /\ alock[a] = q BY <1>4, <2>1, <2>2
  <2> QED BY <1>1, <2>1, <2>3
<1>9. ASSUME NEW r \in Runners PROVE RunnerOK(r)'
  <2>1. CASE r = p
    BY <2>1
  <2>2. CASE r # p
    <3>1. RunnerOK(r) BY DEF IInv, ProcInv
    <3>2. pc'[r] = pc[r] /\ ptask'[r] = ptask[r] /\ pasks'[r] = pasks[r] /\ Working(r)' = Working(r)
      BY <1>2, <2>2 DEF Working
    <3>3. pc[r] \in {"insert", "commit"} => tstate'[ptask[r]] = tstate[ptask[r]]
      BY <1>3, <2>2 DEF HoldsTask
    <3>4. pc[r] = "commit" => \A a \in pasks[r] : astate'[a] = astate[a]
      BY <1>4, <2>2 DEF HoldsAsks
    <3>5. Working(r) => tstate'[ptask[r]] \in {"running"} \cup Terminal
      <4> SUFFICES ASSUME Working(r), tstate'[ptask[r]] # tstate[ptask[r]]
                   PROVE  tstate'[ptask[r]] \in Terminal
        BY <3>1 DEF RunnerOK
      <4>1. ptask[r] \in Tasks BY DEF Working, IInv, TypeInv, Typed
      <4>2. ~(p \in Runners /\ Working(p) /\ ptask[p] = ptask[r])
        BY <2>2 DEF IInv, OneRunnerPerTask
      <4>3. tstate[ptask[r]] # "awaiting_operator" BY <3>1 DEF RunnerOK, Terminal
      <4> QED BY <4>1, <4>2, <4>3
    <3>6. ASSUME pc[r] \in {"running", "suspend", "insert", "commit"}, NEW a \in Asks,
                 astate'[a] = "resolved", atask'[a] = ptask[r]
          PROVE  choice'[a] # "deny"
      <4>1. Working(r) BY <3>6 DEF Working
      <4>2. tstate[ptask[r]] # "awaiting_operator" BY <3>1, <4>1 DEF RunnerOK, Terminal
      <4>3. astate'[a] = astate[a] /\ atask'[a] = atask[a] /\ choice'[a] = choice[a]
        BY <3>6, <4>2
      <4> QED BY <3>1, <3>6, <4>3 DEF RunnerOK
    <3> QED BY <3>1, <3>2, <3>3, <3>4, <3>5, <3>6 DEF RunnerOK
  <2> QED BY <2>1, <2>2
<1>10. ASSUME NEW q \in Resolvers PROVE ResolverOK(q)'
  <2>1. CASE q = p
    BY <2>1
  <2>2. CASE q # p
    <3>1. ResolverOK(q) BY DEF IInv, ProcInv
    <3>2. pc'[q] = pc[q] /\ ptask'[q] = ptask[q] /\ pasks'[q] = pasks[q]
      BY <1>2, <2>2
    <3>3. pc[q] \in {"resume", "commit"} =>
            \A a \in pasks[q] : astate'[a] = astate[a] /\ atask'[a] = atask[a]
      BY <1>4, <2>2 DEF HoldsAsks
    <3> QED BY <3>1, <3>2, <3>3 DEF ResolverOK
  <2> QED BY <2>1, <2>2
<1>11. ASSUME NEW q \in Cancellers PROVE CancellerOK(q)'
  <2>1. CASE q = p
    BY <2>1
  <2>2. CASE q # p
    <3>1. CancellerOK(q) /\ pc[q] \in CancelPCs BY DEF IInv, ProcInv, TypeInv, Typed
    <3>2. pc'[q] = pc[q] /\ ptask'[q] = ptask[q] /\ pasks'[q] = pasks[q] /\ out'[q] = out[q]
      BY <1>2, <2>2
    <3>3. pc[q] \in {"update", "sweep2", "commit"} =>
            /\ tlock[ptask[q]] = q /\ tstate'[ptask[q]] = tstate[ptask[q]]
      BY <1>3, <2>2 DEF HoldsTask
    <3>4. \A a \in pasks[q] : astate'[a] = astate[a] /\ atask'[a] = atask[a]
      <4>1. CASE HoldsAsks(q) BY <1>4, <2>2, <4>1
      <4>2. CASE ~HoldsAsks(q) BY <3>1, <4>2 DEF HoldsAsks, CancellerOK, CancelPCs
      <4> QED BY <4>1, <4>2
    <3>5. pc[q] # "idle" => tstate'[ptask[q]] # "absent"
      <4> SUFFICES ASSUME pc[q] # "idle" PROVE tstate'[ptask[q]] # "absent" OBVIOUS
      <4>1. ptask[q] \in Tasks /\ tstate[ptask[q]] # "absent"
        BY <3>1 DEF CancellerOK, IInv, TypeInv, Typed
      <4> QED BY <4>1
    <3>6. ASSUME pc[q] = "commit", NEW a \in Asks, astate'[a] = "pending", atask'[a] = ptask[q]
          PROVE  a \in pasks[q]
      <4>1. tlock[ptask[q]] = q BY <3>3, <3>6
      <4>2. astate'[a] = astate[a] /\ atask'[a] = atask[a]
        <5> SUFFICES ASSUME ~(astate'[a] = astate[a] /\ atask'[a] = atask[a]) PROVE FALSE
          OBVIOUS
        <5>1. tlock[atask'[a]] = p BY <3>6
        <5> QED BY <2>2, <3>6, <4>1, <5>1
      <4> QED BY <3>1, <3>6, <4>2 DEF CancellerOK
    <3> QED BY <3>1, <3>2, <3>3, <3>4, <3>5, <3>6 DEF CancellerOK
  <2> QED BY <2>1, <2>2
<1>12. SweeperOK'
  <2>1. CASE p = Sweeper
    BY <2>1
  <2>2. CASE p # Sweeper
    <3>1. SweeperOK /\ pc[Sweeper] \in SweeperPCs BY DEF IInv, ProcInv, TypeInv, Typed
    <3>2. pc'[Sweeper] = pc[Sweeper] /\ pasks'[Sweeper] = pasks[Sweeper] /\ todo' = todo
      BY <1>2, <2>2
    <3>3. \A a \in pasks[Sweeper] : astate'[a] = astate[a] /\ atask'[a] = atask[a]
      <4>1. CASE HoldsAsks(Sweeper) BY <1>4, <2>2, <4>1
      <4>2. CASE ~HoldsAsks(Sweeper) BY <3>1, <4>2 DEF HoldsAsks, SweeperOK, SweeperPCs
      <4> QED BY <4>1, <4>2
    <3>4. \A a \in pasks[Sweeper] : tlock[atask[a]] = Sweeper => tlock'[atask[a]] = Sweeper
      <4>1. \A a \in pasks[Sweeper] : atask[a] \in Tasks
        BY <1>0, <3>1 DEF SweeperOK, IInv, CoupledInv, TypeOK
      <4> QED BY <1>1, <2>2, <4>1
    <3> QED BY <3>1, <3>2, <3>3, <3>4 DEF SweeperOK
  <2> QED BY <2>1, <2>2
<1>13. OneRunnerPerTask'
  <2>1. \A r \in Runners : Working(r)' => r # p /\ Working(r) /\ ptask'[r] = ptask[r]
    BY <1>2 DEF Working
  <2> QED BY <2>1 DEF IInv, OneRunnerPerTask
<1> QED BY <1>5, <1>6, <1>7, <1>8, <1>9, <1>10, <1>11, <1>12, <1>13 DEF IInv, LockInv, ProcInv

\* raise's COMMIT: a running task gets its first open ask.
LEMMA RaiseCommitKeeps == ASSUME IInv, TypeInv', NEW r \in Runners, raise_commit(r) PROVE IInv'
<1> USE ConstantsAssumption DEF Procs
<1> DEFINE t == ptask[r]
<1>0. TypeOK /\ RunnerOK(r) /\ CoupledInv /\ L3Unasked BY DEF IInv, TypeInv, ProcInv
<1>1. /\ pc[r] = "commit" /\ Return(r) /\ Release({r}) /\ UNCHANGED <<choice, todo>>
      /\ tstate' = [tstate EXCEPT ![t] = "awaiting_operator"]
      /\ astate' = [b \in Asks |-> IF b \in pasks[r] THEN "pending" ELSE astate[b]]
      /\ atask' = [b \in Asks |-> IF b \in pasks[r] THEN t ELSE atask[b]]
  BY DEF raise_commit
<1>2. PICK a \in Asks : pasks[r] = {a} /\ astate[a] = "absent"
  BY <1>0, <1>1 DEF RunnerOK
<1>3. t \in Tasks /\ tstate[t] = "running" /\ t \notin L3Runs /\ tlock[t] = r /\ alock[a] = r
  BY <1>0, <1>1, <1>2 DEF RunnerOK, IInv, TypeInv, Typed, LockInv, TaskHolders, AskHolders,
     HoldsTask, HoldsAsks
<1>4. pc'[r] = "idle" /\ Only({r})
  BY <1>0, <1>1 DEF Return, Goto, Only, TypeOK
<1> HIDE DEF t
<1>5. /\ tstate'[t] = "awaiting_operator" /\ \A u \in Tasks : u # t => tstate'[u] = tstate[u]
      /\ astate'[a] = "pending" /\ atask'[a] = t
      /\ \A b \in Asks : b # a => astate'[b] = astate[b] /\ atask'[b] = atask[b]
  BY <1>0, <1>1, <1>2, <1>3 DEF TypeOK
<1>6. CoupledInv'
  <2>0. \A b \in Asks : b # a /\ astate[b] = "pending" =>
          atask[b] \in Tasks /\ tstate[atask[b]] = "awaiting_operator" /\ atask[b] # t
    BY <1>0, <1>3 DEF CoupledInv
  <2>1. ASSUME NEW b \in Asks, astate'[b] = "pending"
        PROVE  atask'[b] \in Tasks /\ tstate'[atask'[b]] = "awaiting_operator"
    <3>1. CASE b = a
      BY <1>3, <1>5, <3>1
    <3>2. CASE b # a
      <4>1. astate[b] = "pending" /\ atask'[b] = atask[b] BY <1>5, <2>1, <3>2
      <4>2. atask[b] \in Tasks /\ tstate[atask[b]] = "awaiting_operator" /\ atask[b] # t
        BY <2>0, <3>2, <4>1
      <4>3. tstate'[atask[b]] = tstate[atask[b]] BY ONLY <1>5, <4>2
      <4> QED BY ONLY <4>1, <4>2, <4>3
    <3> QED BY <3>1, <3>2
  <2>2. \A u \in Tasks : tstate'[u] = "awaiting_operator" =>
          \E b \in Asks : astate'[b] = "pending" /\ atask'[b] = u
    <3> SUFFICES ASSUME NEW u \in Tasks, tstate'[u] = "awaiting_operator", u # t
                 PROVE  \E b \in Asks : astate'[b] = "pending" /\ atask'[b] = u
      BY <1>5
    <3>1. PICK b \in Asks : astate[b] = "pending" /\ atask[b] = u
      BY <1>0, <1>5 DEF CoupledInv
    <3> QED BY <1>2, <1>5, <3>1
  <2>3. ASSUME NEW b \in Asks, NEW c \in Asks, astate'[b] = "pending", astate'[c] = "pending",
               atask'[b] = atask'[c], b # c
        PROVE  FALSE
    <3>1. CASE b # a /\ c # a
      BY <1>0, <1>5, <2>3, <3>1 DEF CoupledInv
    <3>2. CASE b = a \/ c = a
      BY <1>5, <2>0, <2>3, <3>2
    <3> QED BY <3>1, <3>2
  <2> QED BY <2>1, <2>2, <2>3 DEF CoupledInv
<1>7. L3Unasked' BY <1>0, <1>3, <1>5 DEF L3Unasked
<1>8. ~HoldsTask(r)' /\ ~HoldsAsks(r)' /\ RunnerOK(r)' /\ ~Working(r)'
  BY <1>4 DEF HoldsTask, HoldsAsks, RunnerOK, Working
<1>9. Working(r) /\ ptask[r] = t BY <1>1 DEF Working, t
<1>10. r \notin Resolvers /\ r \notin Cancellers /\ r # Sweeper /\ r \in Procs OBVIOUS
<1>11. /\ \A u \in Tasks : tstate'[u] # tstate[u] =>
            /\ tlock[u] = r /\ tstate'[u] # "absent"
            /\ r \in Runners /\ Working(r) /\ ptask[r] = u
       /\ \A b \in Asks :
            astate'[b] # astate[b] \/ atask'[b] # atask[b] \/ choice'[b] # choice[b] =>
              /\ alock[b] = r
              /\ astate'[b] = "pending" => tlock[atask'[b]] = r
              /\ astate'[b] = "resolved" => tstate[atask'[b]] = "awaiting_operator"
  BY <1>1, <1>3, <1>5, <1>9
<1> QED BY <1>1, <1>4, <1>6, <1>7, <1>8, <1>10, <1>11, Commit

\* resolve's COMMIT: the one open ask of the task is answered.
LEMMA ResolveCommitKeeps == ASSUME IInv, TypeInv', NEW p \in Resolvers, resolve_commit(p) PROVE IInv'
<1> USE ConstantsAssumption DEF Procs
<1> DEFINE t == ptask[p]
<1>0. TypeOK /\ ResolverOK(p) /\ CoupledInv /\ L3Unasked BY DEF IInv, TypeInv, ProcInv
<1>1. /\ pc[p] = "commit" /\ Return(p) /\ Release({p}) /\ UNCHANGED <<atask, todo>>
      /\ tstate' = [tstate EXCEPT ![t] = "pending"]
      /\ astate' = [b \in Asks |-> IF b \in pasks[p] THEN "resolved" ELSE astate[b]]
      /\ choice' = [b \in Asks |-> IF b \in pasks[p] THEN out[p] ELSE choice[b]]
  BY DEF resolve_commit, resume_state
<1>2. PICK a \in Asks : pasks[p] = {a} /\ astate[a] = "pending" /\ atask[a] = t
  BY <1>0, <1>1 DEF ResolverOK
<1>3. t \in Tasks /\ tstate[t] = "awaiting_operator" /\ tlock[t] = p /\ alock[a] = p
  BY <1>0, <1>1, <1>2 DEF CoupledInv, IInv, LockInv, TaskHolders, AskHolders, HoldsTask, HoldsAsks
<1>4. pc'[p] = "idle" /\ pasks'[p] = {} /\ Only({p})
  BY <1>0, <1>1 DEF Return, Goto, Only, TypeOK
<1> HIDE DEF t
<1>5. /\ tstate'[t] = "pending" /\ \A u \in Tasks : u # t => tstate'[u] = tstate[u]
      /\ astate'[a] = "resolved"
      /\ \A b \in Asks : b # a => astate'[b] = astate[b] /\ choice'[b] = choice[b]
  BY <1>0, <1>1, <1>2, <1>3 DEF TypeOK
<1>6. CoupledInv'
  <2>1. \A b \in Asks : astate'[b] = "pending" =>
          atask'[b] \in Tasks /\ tstate'[atask'[b]] = "awaiting_operator"
    BY <1>0, <1>1, <1>2, <1>5 DEF CoupledInv
  <2>2. \A u \in Tasks : tstate'[u] = "awaiting_operator" =>
          \E b \in Asks : astate'[b] = "pending" /\ atask'[b] = u
    <3> SUFFICES ASSUME NEW u \in Tasks, tstate'[u] = "awaiting_operator"
                 PROVE  \E b \in Asks : astate'[b] = "pending" /\ atask'[b] = u
      OBVIOUS
    <3>1. u # t BY <1>5
    <3>2. PICK b \in Asks : astate[b] = "pending" /\ atask[b] = u
      BY <1>0, <1>5, <3>1 DEF CoupledInv
    <3> QED BY <1>1, <1>2, <1>5, <3>1, <3>2
  <2>3. ASSUME NEW b \in Asks, NEW c \in Asks, astate'[b] = "pending", astate'[c] = "pending",
               atask'[b] = atask'[c]
        PROVE  b = c
    <3>1. astate[b] = "pending" /\ astate[c] = "pending" /\ atask[b] = atask[c]
      BY <1>1, <1>5, <2>3
    <3> QED BY <1>0, <3>1 DEF CoupledInv
  <2> QED BY <2>1, <2>2, <2>3 DEF CoupledInv
<1>7. L3Unasked' BY <1>0, <1>1 DEF L3Unasked
<1>8. ~HoldsTask(p)' /\ ~HoldsAsks(p)' /\ ResolverOK(p)'
  BY <1>4 DEF HoldsTask, HoldsAsks, ResolverOK
<1>9. p \notin Runners /\ p \notin Cancellers /\ p # Sweeper /\ p \in Procs OBVIOUS
<1>10. /\ \A u \in Tasks : tstate'[u] # tstate[u] =>
            tlock[u] = p /\ tstate'[u] # "absent" /\ tstate[u] = "awaiting_operator"
       /\ \A b \in Asks :
            astate'[b] # astate[b] \/ atask'[b] # atask[b] \/ choice'[b] # choice[b] =>
              /\ alock[b] = p
              /\ astate'[b] = "pending" => tlock[atask'[b]] = p
              /\ astate'[b] = "resolved" => tstate[atask'[b]] = "awaiting_operator"
  BY <1>1, <1>2, <1>3, <1>5
<1> QED BY <1>1, <1>4, <1>6, <1>7, <1>8, <1>9, <1>10, Commit

\* mark_cancelled's COMMIT: every open ask of the task goes with it.
LEMMA CancelCommitKeeps == ASSUME IInv, TypeInv', NEW p \in Cancellers, cancel_commit(p) PROVE IInv'
<1> USE ConstantsAssumption DEF Procs
<1> DEFINE t == ptask[p]
<1>0. TypeOK /\ CancellerOK(p) /\ CoupledInv /\ L3Unasked BY DEF IInv, TypeInv, ProcInv
<1>1. /\ pc[p] = "commit" /\ Goto(p, "audit") /\ Release({p})
      /\ UNCHANGED <<atask, choice, todo, ptask, out>>
      /\ tstate' = [tstate EXCEPT ![t] = "cancelled"]
      /\ astate' = [b \in Asks |-> IF b \in pasks[p] THEN "cancelled" ELSE astate[b]]
      /\ pasks' = [pasks EXCEPT ![p] = {}]
  BY DEF cancel_commit
<1>2. \A a \in Asks : a \in pasks[p] <=> astate[a] = "pending" /\ atask[a] = t
  BY <1>0, <1>1 DEF CancellerOK
<1>3. t \in Tasks /\ tlock[t] = p /\ \A a \in pasks[p] : alock[a] = p
  BY <1>1 DEF IInv, TypeInv, Typed, LockInv, TaskHolders, AskHolders, HoldsTask, HoldsAsks
<1>4. pc'[p] = "audit" /\ pasks'[p] = {} /\ ptask'[p] = t /\ Only({p})
  BY <1>0, <1>1 DEF Goto, Only, TypeOK
<1> HIDE DEF t
<1>5. /\ tstate'[t] = "cancelled" /\ \A u \in Tasks : u # t => tstate'[u] = tstate[u]
      /\ \A b \in Asks : astate'[b] = IF b \in pasks[p] THEN "cancelled" ELSE astate[b]
  BY <1>0, <1>1, <1>3 DEF TypeOK
<1>6. CoupledInv'
  <2>1. \A b \in Asks : astate'[b] = "pending" =>
          atask'[b] \in Tasks /\ tstate'[atask'[b]] = "awaiting_operator"
    BY <1>0, <1>1, <1>2, <1>5 DEF CoupledInv
  <2>2. \A u \in Tasks : tstate'[u] = "awaiting_operator" =>
          \E b \in Asks : astate'[b] = "pending" /\ atask'[b] = u
    <3> SUFFICES ASSUME NEW u \in Tasks, tstate'[u] = "awaiting_operator"
                 PROVE  \E b \in Asks : astate'[b] = "pending" /\ atask'[b] = u
      OBVIOUS
    <3>1. u # t BY <1>5
    <3>2. PICK b \in Asks : astate[b] = "pending" /\ atask[b] = u
      BY <1>0, <1>5, <3>1 DEF CoupledInv
    <3> QED BY <1>1, <1>2, <1>5, <3>1, <3>2
  <2>3. ASSUME NEW b \in Asks, NEW c \in Asks, astate'[b] = "pending", astate'[c] = "pending",
               atask'[b] = atask'[c]
        PROVE  b = c
    <3>1. astate[b] = "pending" /\ astate[c] = "pending" /\ atask[b] = atask[c]
      BY <1>1, <1>5, <2>3
    <3> QED BY <1>0, <3>1 DEF CoupledInv
  <2> QED BY <2>1, <2>2, <2>3 DEF CoupledInv
<1>7. L3Unasked' BY <1>0, <1>1 DEF L3Unasked
<1>8. ~HoldsTask(p)' /\ ~HoldsAsks(p)' BY <1>4 DEF HoldsTask, HoldsAsks
<1>9. CancellerOK(p)' BY <1>4, <1>5 DEF CancellerOK
<1>10. p \notin Runners /\ p \notin Resolvers /\ p # Sweeper /\ p \in Procs OBVIOUS
<1>11. /\ \A u \in Tasks : tstate'[u] # tstate[u] =>
            tlock[u] = p /\ tstate'[u] # "absent" /\ tstate'[u] \in Terminal
       /\ \A b \in Asks :
            astate'[b] # astate[b] \/ atask'[b] # atask[b] \/ choice'[b] # choice[b] =>
              /\ alock[b] = p
              /\ astate'[b] = "pending" => tlock[atask'[b]] = p
              /\ astate'[b] = "resolved" => tstate[atask'[b]] = "awaiting_operator"
  BY <1>1, <1>3, <1>5 DEF Terminal
<1> QED BY <1>1, <1>4, <1>6, <1>7, <1>8, <1>9, <1>10, <1>11, Commit

\* expire_due's COMMIT: the tasks it fails are those of the asks it expires.
LEMMA ExpireCommitKeeps == ASSUME IInv, TypeInv', expire_commit PROVE IInv'
<1> USE ConstantsAssumption DEF Procs
<1> DEFINE X == pasks[Sweeper]
<1>0. TypeOK /\ SweeperOK /\ CoupledInv /\ L3Unasked BY DEF IInv, TypeInv, ProcInv
<1>1. /\ pc[Sweeper] = "failtasks" /\ todo = {} /\ Goto(Sweeper, "audit") /\ Release({Sweeper})
      /\ UNCHANGED <<atask, choice, ptask, out>>
      /\ tstate' = [u \in Tasks |-> expired_task_state(u)]
      /\ astate' = [b \in Asks |-> IF b \in X THEN "expired" ELSE astate[b]]
      /\ pasks' = [pasks EXCEPT ![Sweeper] = {}]
  BY DEF expire_commit
<1>2. \A a \in X : a \in Asks /\ astate[a] = "pending" /\ tlock[atask[a]] = Sweeper /\ alock[a] = Sweeper
  BY <1>0, <1>1 DEF SweeperOK, TypeOK, IInv, LockInv, AskHolders, HoldsAsks
<1>3. \A u \in Tasks : tlock[u] = Sweeper => \E a \in X : atask[a] = u
  BY <1>1 DEF IInv, LockInv, TaskLocks, HoldsTask
<1>4. pc'[Sweeper] = "audit" /\ pasks'[Sweeper] = {} /\ Only({Sweeper})
  BY <1>0, <1>1 DEF Goto, Only, TypeOK
<1> HIDE DEF X
<1>5. /\ \A u \in Tasks : tstate'[u] = IF tlock[u] = Sweeper THEN "failed" ELSE tstate[u]
      /\ \A b \in Asks : astate'[b] = IF b \in X THEN "expired" ELSE astate[b]
  BY <1>1 DEF expired_task_state
<1>6. CoupledInv'
  <2>1. ASSUME NEW b \in Asks, astate'[b] = "pending"
        PROVE  atask'[b] \in Tasks /\ tstate'[atask'[b]] = "awaiting_operator"
    <3>1. b \notin X /\ astate[b] = "pending" BY <1>5, <2>1
    <3>2. atask[b] \in Tasks /\ tstate[atask[b]] = "awaiting_operator"
      BY <1>0, <3>1 DEF CoupledInv
    <3>3. tlock[atask[b]] # Sweeper
      <4> SUFFICES ASSUME tlock[atask[b]] = Sweeper PROVE FALSE
        OBVIOUS
      <4>1. PICK c \in X : atask[c] = atask[b] BY <1>3, <3>2
      <4>2. c \in Asks /\ astate[c] = "pending" BY <1>2
      <4>3. c = b BY <1>0, <3>1, <4>1, <4>2 DEF CoupledInv
      <4> QED BY <3>1, <4>3
    <3> QED BY <1>1, <1>5, <3>2, <3>3
  <2>2. \A u \in Tasks : tstate'[u] = "awaiting_operator" =>
          \E b \in Asks : astate'[b] = "pending" /\ atask'[b] = u
    <3> SUFFICES ASSUME NEW u \in Tasks, tstate'[u] = "awaiting_operator"
                 PROVE  \E b \in Asks : astate'[b] = "pending" /\ atask'[b] = u
      OBVIOUS
    <3>1. tlock[u] # Sweeper /\ tstate[u] = "awaiting_operator" BY <1>5
    <3>2. PICK b \in Asks : astate[b] = "pending" /\ atask[b] = u
      BY <1>0, <3>1 DEF CoupledInv
    <3> QED BY <1>1, <1>2, <1>5, <3>1, <3>2
  <2>3. ASSUME NEW b \in Asks, NEW c \in Asks, astate'[b] = "pending", astate'[c] = "pending",
               atask'[b] = atask'[c]
        PROVE  b = c
    <3>1. astate[b] = "pending" /\ astate[c] = "pending" /\ atask[b] = atask[c]
      BY <1>1, <1>5, <2>3
    <3> QED BY <1>0, <3>1 DEF CoupledInv
  <2> QED BY <2>1, <2>2, <2>3 DEF CoupledInv
<1>7. L3Unasked' BY <1>0, <1>1 DEF L3Unasked
<1>8. ~HoldsTask(Sweeper)' /\ ~HoldsAsks(Sweeper)' /\ SweeperOK' /\ pc'[Sweeper] # "failtasks"
  BY <1>4 DEF HoldsTask, HoldsAsks, SweeperOK
<1>9. Sweeper \notin Runners /\ Sweeper \notin Resolvers /\ Sweeper \notin Cancellers /\ Sweeper \in Procs
  OBVIOUS
<1>10. /\ \A u \in Tasks : tstate'[u] # tstate[u] =>
            tlock[u] = Sweeper /\ tstate'[u] # "absent" /\ tstate'[u] \in Terminal
       /\ \A b \in Asks :
            astate'[b] # astate[b] \/ atask'[b] # atask[b] \/ choice'[b] # choice[b] =>
              /\ alock[b] = Sweeper
              /\ astate'[b] = "pending" => tlock[atask'[b]] = Sweeper
              /\ astate'[b] = "resolved" => tstate[atask'[b]] = "awaiting_operator"
  BY <1>1, <1>2, <1>5 DEF Terminal
<1> QED BY <1>1, <1>4, <1>6, <1>7, <1>8, <1>9, <1>10, Commit

\* The invariant is inductive: no step of any process breaks it.
LEMMA IInvNext == IInv /\ [Next]_vars => IInv'
<1> SUFFICES ASSUME IInv, [Next]_vars PROVE IInv'
  OBVIOUS
<1>0. TypeInv' BY TypeNext DEF IInv
<1>1. CASE insert_pending
  <2>1. PICK t \in Tasks : tstate[t] = "absent" /\ tstate' = [tstate EXCEPT ![t] = "pending"]
    BY <1>1 DEF insert_pending
  <2>2. UNCHANGED <<astate, atask, choice, locks, procs>> BY <1>1 DEF insert_pending
  <2>3. \A u \in Tasks : u # t => tstate'[u] = tstate[u]
    BY <2>1 DEF IInv, TypeInv, TypeOK
  <2>4. tstate'[t] = "pending" BY <2>1 DEF IInv, TypeInv, TypeOK
  <2>5. tlock[t] = Nobody
    <3> SUFFICES ASSUME tlock[t] # Nobody PROVE FALSE
      OBVIOUS
    <3>1. CASE HoldsTask(tlock[t]) /\ ptask[tlock[t]] = t
      <4> DEFINE p == tlock[t]
      <4>1. CASE p \in Runners
        BY <2>1, <3>1, <4>1, ConstantsAssumption DEF HoldsTask, IInv, ProcInv, RunnerOK
      <4>2. CASE p \in Resolvers
        <5>1. pc[p] = "commit" BY <3>1, <4>2, ConstantsAssumption DEF HoldsTask
        <5>2. ResolverOK(p) BY <4>2 DEF IInv, ProcInv
        <5>3. \E a \in Asks : astate[a] = "pending" /\ atask[a] = t
          BY <3>1, <5>1, <5>2 DEF ResolverOK
        <5> QED BY <2>1, <5>3 DEF IInv, CoupledInv
      <4>3. CASE p \in Cancellers
        BY <2>1, <3>1, <4>3, ConstantsAssumption DEF HoldsTask, IInv, ProcInv, CancellerOK
      <4> QED BY <3>1, <4>1, <4>2, <4>3 DEF HoldsTask
    <3>2. CASE pc[Sweeper] = "failtasks" /\ \E a \in pasks[Sweeper] : atask[a] = t
      <4>1. PICK a \in pasks[Sweeper] : atask[a] = t BY <3>2
      <4>2. a \in Asks /\ astate[a] = "pending"
        BY DEF IInv, TypeInv, TypeOK, ProcInv, SweeperOK, Procs
      <4> QED BY <2>1, <4>1, <4>2 DEF IInv, CoupledInv
    <3> QED BY <3>1, <3>2 DEF IInv, LockInv, TaskLocks
  <2> QED BY <1>0, <2>1, <2>2, <2>3, <2>4, <2>5, MoveRows DEF Terminal
<1>2. CASE mark_failed_running
  <2>1. PICK t \in Tasks : /\ tstate[t] = "running" /\ tlock[t] = Nobody
                           /\ tstate' = [tstate EXCEPT ![t] = "crashed"]
    BY <1>2 DEF mark_failed_running
  <2>2. UNCHANGED <<astate, atask, choice, locks, procs>> BY <1>2 DEF mark_failed_running
  <2>3. tstate'[t] = "crashed" /\ \A u \in Tasks : u # t => tstate'[u] = tstate[u]
    BY <2>1 DEF IInv, TypeInv, TypeOK
  <2> QED BY <1>0, <2>1, <2>2, <2>3, MoveRows DEF Terminal
<1>3. CASE \E r \in Runners : RunnerStep(r) \/ raise_error(r) \/ finalize_error(r)
  BY <1>0, <1>3, RunnerKeeps, RaiseCommitKeeps
<1>4. CASE \E p \in Resolvers : resolve_begin(p) \/ ResolverStep(p)
  BY <1>0, <1>4, ResolverKeeps, ResolveCommitKeeps
<1>5. CASE \E p \in Cancellers : cancel_begin(p) \/ cancel_if_pending(p) \/ CancellerStep(p)
  BY <1>0, <1>5, CancellerKeeps, CancelCommitKeeps
<1>6. CASE SweeperStep
  BY <1>0, <1>6, SweeperKeeps, ExpireCommitKeeps
<1>7. CASE \E p \in Procs : deadlock_victim(p) \/ abort(p)
  BY <1>0, <1>7, RollbackKeeps DEF deadlock_victim, abort
<1>8. CASE daemon_crash
  BY <1>0, <1>8, CrashKeeps
<1>9. CASE sweep_crashed
  <2>1. UNCHANGED <<astate, atask, choice, locks, procs>> BY <1>9 DEF sweep_crashed
  <2>2. \A t \in Tasks : tstate'[t] # tstate[t] =>
          tstate[t] = "running" /\ tlock[t] = Nobody /\ tstate'[t] = "crashed"
    BY <1>9 DEF sweep_crashed
  <2> QED BY <1>0, <2>1, <2>2, MoveRows DEF Terminal
<1>10. CASE boot_audit
  BY <1>0, <1>10, MoveRows DEF boot_audit, tables
<1>11. CASE lease_passes \/ \E a \in Asks : deadline_passes(a)
  BY <1>0, <1>11, MoveRows DEF lease_passes, deadline_passes
<1>12. CASE UNCHANGED vars
  BY <1>0, <1>12, MoveRows DEF vars, tables
<1> QED BY <1>1, <1>2, <1>3, <1>4, <1>5, <1>6, <1>7, <1>8, <1>9, <1>10, <1>11, <1>12 DEF Next

\* The invariant holds in every reachable state.
LEMMA IInvAlways == Spec => []IInv
  BY IInvInit, IInvNext, PTL DEF Spec

\* An ask and its task move together: the coupling asks.rs promises of every
\* committed state, for any number of tasks, asks, runners, resolvers and
\* cancels, with crashes, rollbacks and deadlock victims anywhere.
THEOREM CoupledAlways == Spec => []AskTaskCoupled
<1>1. IInv => AskTaskCoupled
  BY DEF IInv, CoupledInv, AskTaskCoupled, PendingAsksOf
<1> QED BY <1>1, IInvAlways, PTL

\* finish_resolve and expire_due never find the task of the ask they have
\* written in another state than awaiting_operator.
THEOREM WriterFindsTask == Spec => []AskWriterFindsTask
<1>1. IInv => AskWriterFindsTask
  <2> SUFFICES ASSUME IInv, NEW p \in Resolvers \cup {Sweeper},
                      pc[p] \in {"resume", "lockasks", "failtasks"}, NEW a \in pasks[p]
               PROVE  astate[a] = "pending" /\ tstate[atask[a]] = "awaiting_operator"
    BY DEF AskWriterFindsTask
  <2>1. astate[a] = "pending"
    <3>1. CASE p \in Resolvers
      BY <3>1 DEF IInv, TypeInv, Typed, ResolverPCs, ProcInv, ResolverOK
    <3>2. CASE p = Sweeper
      BY <3>2 DEF IInv, ProcInv, SweeperOK
    <3> QED BY <3>1, <3>2
  <2>2. a \in Asks BY DEF IInv, TypeInv, TypeOK, Procs
  <2> QED BY <2>1, <2>2 DEF IInv, CoupledInv
<1> QED BY <1>1, IInvAlways, PTL

\* previous_state is the state a cancel really ends: state_locked_in_tx's
\* FOR UPDATE keeps it true until the commit.
THEOREM PreviousStateAlways == Spec => []PreviousStateCurrent
<1>1. IInv => PreviousStateCurrent
  BY DEF IInv, ProcInv, CancellerOK, PreviousStateCurrent
<1> QED BY <1>1, IInvAlways, PTL

\* claim_one never hands a task to a runner while another still works on it.
THEOREM OneRunnerAlways == Spec => []OneRunnerPerTask
<1>1. IInv => OneRunnerPerTask BY DEF IInv
<1> QED BY <1>1, IInvAlways, PTL

\* pre_plan_outcome and the suspension keep a denied task from running.
THEOREM DeniedAlways == Spec => []DeniedNeverRuns
<1>1. IInv => DeniedNeverRuns
  BY DEF IInv, ProcInv, RunnerOK, DeniedNeverRuns, ResolvedAsksOf
<1> QED BY <1>1, IInvAlways, PTL

-----------------------------------------------------------------------------
(***************************************************************************)
(* TaskStore implements TaskLifecycle: whatever the statements, locks,     *)
(* rollbacks and crashes of TaskStore do, the committed tables move along  *)
(* the edges of the life cycle, a task together with its question.         *)
(***************************************************************************)

view == <<tstate, astate, atask, choice>>

\* A task that does not await the operator has no question open.
LEMMA NoneOpen ==
  ASSUME CoupledInv, NEW t, tstate[t] # "awaiting_operator" PROVE Lifecycle!Open(t) = {}
  BY DEF CoupledInv, Lifecycle!Open

\* The statements that commit by themselves: what changes a task row without
\* touching an ask is a submission, a claim, an end, or a cancel of a task
\* that has no question open.
LEMMA OneStatement ==
  ASSUME IInv,
         \/ insert_pending \/ mark_failed_running \/ sweep_crashed
         \/ \E r \in Runners : claim_one(r) \/ finalize(r)
         \/ \E p \in Cancellers : cancel_if_pending(p)
  PROVE  Lifecycle!LNext \/ UNCHANGED view
<1>0. TypeOK BY DEF IInv, TypeInv
<1>1. CASE insert_pending
  BY <1>1 DEF insert_pending, Lifecycle!LNext, Lifecycle!Submit
<1>2. CASE \E r \in Runners : claim_one(r)
  BY <1>2 DEF claim_one, claimable, Lifecycle!LNext, Lifecycle!Start
<1>3. CASE mark_failed_running
  <2>1. PICK t \in Tasks : tstate[t] = "running" /\ tstate' = [tstate EXCEPT ![t] = "crashed"]
    BY <1>3 DEF mark_failed_running
  <2>2. tstate' = [u \in Tasks |-> IF u \in {t} THEN "crashed" ELSE tstate[u]]
    BY <1>0, <2>1 DEF TypeOK
  <2>3. Lifecycle!End({t}, "crashed")
    BY <1>3, <2>1, <2>2 DEF mark_failed_running, Lifecycle!End, Lifecycle!Ended
  <2>4. {t} \in SUBSET Tasks /\ "crashed" \in Lifecycle!Ended BY DEF Lifecycle!Ended
  <2> QED BY <2>3, <2>4 DEF Lifecycle!LNext
<1>4. CASE sweep_crashed
  <2> DEFINE S == {t \in Tasks : tstate[t] = "running" /\ lease[t] = "expired"}
  <2>1. Lifecycle!End(S, "crashed")
    BY <1>4 DEF sweep_crashed, Lifecycle!End, Lifecycle!Ended
  <2>2. S \in SUBSET Tasks /\ "crashed" \in Lifecycle!Ended BY DEF Lifecycle!Ended
  <2> HIDE DEF S
  <2> QED BY <2>1, <2>2 DEF Lifecycle!LNext
<1>5. CASE \E r \in Runners : finalize(r)
  <2>1. PICK r \in Runners : finalize(r) BY <1>5
  <2>2. CASE tstate[ptask[r]] # "running"
    BY <2>1, <2>2 DEF finalize, view
  <2>3. CASE tstate[ptask[r]] = "running"
    <3>1. pc[r] = "finalize" /\ tstate' = [tstate EXCEPT ![ptask[r]] = out[r]]
      BY <2>1, <2>3 DEF finalize
    <3>2. ptask[r] \in Tasks /\ out[r] \in Terminal BY <3>1 DEF IInv, TypeInv, Typed
    <3>3. tstate' = [u \in Tasks |-> IF u \in {ptask[r]} THEN out[r] ELSE tstate[u]]
      BY <1>0, <3>1, <3>2 DEF TypeOK
    <3>4. out[r] \in Lifecycle!Ended BY <3>2 DEF Terminal, Lifecycle!Ended
    <3>5. Lifecycle!End({ptask[r]}, out[r])
      BY <2>1, <2>3, <3>3, <3>4 DEF finalize, Lifecycle!End
    <3>6. {ptask[r]} \in SUBSET Tasks BY <3>2
    <3> QED BY <3>4, <3>5, <3>6 DEF Lifecycle!LNext
  <2> QED BY <2>2, <2>3
<1>6. CASE \E p \in Cancellers : cancel_if_pending(p)
  <2>1. PICK t \in L3Runs : tstate[t] = "pending" /\ tstate' = [tstate EXCEPT ![t] = "cancelled"]
    BY <1>6 DEF cancel_if_pending
  <2>2. t \in Tasks BY <2>1, ConstantsAssumption
  <2>3. UNCHANGED <<astate, atask, choice>> BY <1>6 DEF cancel_if_pending
  <2>4. Lifecycle!Open(t) = {}
    BY <2>1, NoneOpen DEF IInv
  <2>5. astate' = [a \in Asks |-> IF a \in Lifecycle!Open(t) THEN "cancelled" ELSE astate[a]]
    BY <1>0, <2>3, <2>4 DEF TypeOK
  <2>6. Lifecycle!Cancel(t) BY <2>1, <2>3, <2>5 DEF Lifecycle!Cancel
  <2> QED BY <2>2, <2>6 DEF Lifecycle!LNext
<1> QED BY <1>1, <1>2, <1>3, <1>4, <1>5, <1>6

\* The four commits: a suspension, an answer, a cancel, a time-out.
LEMMA OneCommit ==
  ASSUME IInv,
         \/ \E r \in Runners : raise_commit(r)
         \/ \E p \in Resolvers : resolve_commit(p)
         \/ \E p \in Cancellers : cancel_commit(p)
         \/ expire_commit
  PROVE  Lifecycle!LNext
<1> USE ConstantsAssumption DEF Procs
<1>0. TypeOK /\ CoupledInv BY DEF IInv, TypeInv
<1>1. CASE \E r \in Runners : raise_commit(r)
  <2>1. PICK r \in Runners : raise_commit(r) BY <1>1
  <2>2. pc[r] = "commit" /\ RunnerOK(r) BY <2>1 DEF raise_commit, IInv, ProcInv
  <2>3. PICK a \in Asks : pasks[r] = {a} /\ astate[a] = "absent" BY <2>2 DEF RunnerOK
  <2> DEFINE t == ptask[r]
  <2>4. t \in Tasks /\ tstate[t] = "running"
    BY <2>2 DEF RunnerOK, IInv, TypeInv, Typed
  <2>5. Lifecycle!Open(t) = {} BY <1>0, <2>4, NoneOpen
  <2>6. /\ tstate' = [tstate EXCEPT ![t] = "awaiting_operator"]
        /\ astate' = [astate EXCEPT ![a] = "pending"]
        /\ atask' = [atask EXCEPT ![a] = t]
        /\ choice' = choice
    BY <1>0, <2>1, <2>3 DEF raise_commit, TypeOK
  <2>7. Lifecycle!Suspend(t, a)
    BY <2>3, <2>4, <2>5, <2>6 DEF Lifecycle!Suspend
  <2> HIDE DEF t
  <2> QED BY <2>4, <2>7 DEF Lifecycle!LNext
<1>2. CASE \E p \in Resolvers : resolve_commit(p)
  <2>1. PICK p \in Resolvers : resolve_commit(p) BY <1>2
  <2>2. pc[p] = "commit" /\ ResolverOK(p) /\ out[p] \in Offered
    BY <2>1 DEF resolve_commit, IInv, ProcInv, TypeInv, Typed
  <2>3. PICK a \in Asks : pasks[p] = {a} /\ astate[a] = "pending" /\ atask[a] = ptask[p]
    BY <2>2 DEF ResolverOK
  <2>4. tstate[atask[a]] = "awaiting_operator" BY <1>0, <2>3 DEF CoupledInv
  <2>5. /\ tstate' = [tstate EXCEPT ![atask[a]] = "pending"]
        /\ astate' = [astate EXCEPT ![a] = "resolved"]
        /\ choice' = [choice EXCEPT ![a] = out[p]]
        /\ atask' = atask
    BY <1>0, <2>1, <2>3 DEF resolve_commit, resume_state, TypeOK
  <2>6. out[p] \in {"approve", "deny"} BY <2>2 DEF Offered
  <2>7. Lifecycle!Answer(a, out[p])
    BY <2>3, <2>4, <2>5, <2>6 DEF Lifecycle!Answer
  <2> QED BY <2>6, <2>7 DEF Lifecycle!LNext
<1>3. CASE \E p \in Cancellers : cancel_commit(p)
  <2>1. PICK p \in Cancellers : cancel_commit(p) BY <1>3
  <2> DEFINE t == ptask[p]
  <2>2. pc[p] = "commit" /\ CancellerOK(p) /\ t \in Tasks
    BY <2>1 DEF cancel_commit, IInv, ProcInv, TypeInv, Typed
  <2>3. tstate[t] \in {"pending", "running", "awaiting_operator"}
    BY <2>2 DEF CancellerOK, Live
  <2>4. pasks[p] = Lifecycle!Open(t)
    <3>1. pasks[p] \subseteq Asks BY <1>0 DEF TypeOK
    <3> QED BY <2>2, <3>1 DEF CancellerOK, Lifecycle!Open
  <2>5. Lifecycle!Cancel(t)
    BY <2>1, <2>3, <2>4 DEF cancel_commit, Lifecycle!Cancel
  <2> HIDE DEF t
  <2> QED BY <2>2, <2>5 DEF Lifecycle!LNext
<1>4. CASE expire_commit
  <2> DEFINE X == pasks[Sweeper]
  <2>1. /\ pc[Sweeper] = "failtasks" /\ todo = {} /\ SweeperOK /\ X \in SUBSET Asks
    BY <1>0, <1>4 DEF expire_commit, IInv, ProcInv, TypeOK
  <2>2. \A a \in X : astate[a] = "pending" /\ tlock[atask[a]] = Sweeper
    BY <2>1 DEF SweeperOK
  <2>3. \A a \in X : tstate[atask[a]] = "awaiting_operator"
    BY <1>0, <2>1, <2>2 DEF CoupledInv
  <2>4. \A t \in Tasks : tlock[t] = Sweeper <=> \E a \in X : atask[a] = t
    BY <2>1, <2>2 DEF IInv, LockInv, TaskLocks, HoldsTask
  <2>5. tstate' = [t \in Tasks |-> IF \E a \in X : atask[a] = t THEN "failed" ELSE tstate[t]]
    BY <1>4, <2>4 DEF expire_commit, expired_task_state
  <2>6. Lifecycle!TimeOut(X)
    BY <1>4, <2>2, <2>3, <2>5 DEF expire_commit, Lifecycle!TimeOut
  <2> HIDE DEF X
  <2> QED BY <2>1, <2>6 DEF Lifecycle!LNext
<1> QED BY <1>1, <1>2, <1>3, <1>4

\* Every step is a step of the life cycle, or none.
LEMMA StepImplements == IInv /\ [Next]_vars => [Lifecycle!LNext]_view
<1> SUFFICES ASSUME IInv, [Next]_vars PROVE Lifecycle!LNext \/ UNCHANGED view
  OBVIOUS
<1>1. CASE \/ insert_pending \/ mark_failed_running \/ sweep_crashed
           \/ \E r \in Runners : claim_one(r) \/ finalize(r)
           \/ \E p \in Cancellers : cancel_if_pending(p)
  BY <1>1, OneStatement
<1>2. CASE \/ \E r \in Runners : raise_commit(r)
           \/ \E p \in Resolvers : resolve_commit(p)
           \/ \E p \in Cancellers : cancel_commit(p)
           \/ expire_commit
  BY <1>2, OneCommit
<1>3. ASSUME NEW r \in Runners,
             \/ pre_plan(r) \/ observe_cancelled(r) \/ run_ends(r) \/ escalate(r)
             \/ raise_suspend(r) \/ raise_insert(r) \/ raise_error(r)
             \/ finalize_error(r) \/ write_finalize_row(r)
      PROVE  UNCHANGED view
  BY <1>3 DEF pre_plan, observe_cancelled, run_ends, escalate, raise_suspend, raise_insert,
     raise_error, RaiseFails, finalize_error, write_finalize_row, tables, view
<1>4. ASSUME NEW p \in Procs,
             \/ resolve_begin(p) \/ resolve_update(p) \/ resolve_resume(p)
             \/ deadlock_victim(p) \/ abort(p)
      PROVE  UNCHANGED view
  BY <1>4 DEF resolve_begin, resolve_update, resolve_resume, deadlock_victim, abort, Rollback,
     tables, view
<1>5. ASSUME NEW p \in Cancellers,
             \/ cancel_begin(p) \/ cancel_sweep1(p) \/ cancel_lock(p) \/ cancel_update(p)
             \/ cancel_sweep2(p) \/ emit_cancel_audit_rows(p)
      PROVE  UNCHANGED view
  BY <1>5 DEF cancel_begin, cancel_sweep1, cancel_lock, cancel_update, cancel_sweep2,
     cancel_for_task, emit_cancel_audit_rows, Rollback, tables, view
<1>6. CASE \/ expire_begin \/ expire_lock \/ expire_updated \/ expire_fail
           \/ emit_expired_task_rows
  BY <1>6 DEF expire_begin, expire_lock, expire_updated, expire_fail, emit_expired_task_rows,
     tables, view
<1>7. CASE \/ daemon_crash \/ boot_audit \/ lease_passes
           \/ \E a \in Asks : deadline_passes(a)
  BY <1>7 DEF daemon_crash, boot_audit, lease_passes, deadline_passes, tables, view
<1>8. CASE UNCHANGED vars
  BY <1>8 DEF vars, tables, view
<1> QED BY <1>1, <1>2, <1>3, <1>4, <1>5, <1>6, <1>7, <1>8
        DEF Next, RunnerStep, ResolverStep, CancellerStep, SweeperStep, Procs

\* The transactions of tasks.rs and asks.rs implement the life cycle, for any
\* number of tasks, asks and processes and with every failure modelled.
THEOREM Refinement == Spec => ImplementsLifecycle
<1>1. Init => Lifecycle!LInit BY DEF Init, Lifecycle!LInit
<1>2. IInv /\ [Next]_vars => [Lifecycle!LNext]_(Lifecycle!lvars)
  BY StepImplements DEF view, Lifecycle!lvars
<1> QED BY <1>1, <1>2, IInvAlways, PTL DEF Spec, ImplementsLifecycle, Lifecycle!LSpec

\* No step moves a finished task or re-opens, re-answers or un-answers a
\* settled question: first responder wins, for any number of responders.
THEOREM NothingReopensEver == Spec => NothingReopens
<1> DEFINE Kept == /\ \A t \in Tasks : tstate[t] \in Terminal => tstate'[t] = tstate[t]
                   /\ \A a \in Asks : astate[a] \in AskStates \ {"absent", "pending"} =>
                        astate'[a] = astate[a] /\ choice'[a] = choice[a]
<1>1. TypeOK /\ Lifecycle!LNext => Kept
  BY DEF TypeOK, Lifecycle!LNext, Lifecycle!Submit, Lifecycle!Start, Lifecycle!Cancel, Lifecycle!Open,
     Lifecycle!End, Lifecycle!Suspend, Lifecycle!Answer, Lifecycle!TimeOut, Terminal, AskStates
<1>2. IInv /\ [Next]_vars => [Kept]_vars
  BY StepImplements, <1>1 DEF view, IInv, TypeInv
<1> QED BY <1>2, IInvAlways, PTL DEF Spec, NothingReopens

-----------------------------------------------------------------------------
(***************************************************************************)
(* Where a lock cycle can close.  began is what a cancel's first sweep was *)
(* about: whatever of it is still pending behind that sweep the cancel has *)
(* locked itself, so it can only wait for an ask raised later.             *)
(***************************************************************************)

\* What a cancel knows of the asks that were pending when it began.
BeganOK(p) ==
  \A a \in began[p] :
    /\ astate[a] # "absent" /\ atask[a] = ptask[p]
    /\ pc[p] \in {"locktask", "update", "sweep2", "commit"} /\ astate[a] = "pending" =>
         a \in pasks[p]
BeganInv == \A p \in Cancellers : (pc[p] = "idle" => began[p] = {}) /\ BeganOK(p)

\* An ask that has been raised keeps its task and never becomes pending again,
\* and a task that has ended stays so.
LEMMA RowsMoveOn ==
  ASSUME IInv, [Next]_vars
  PROVE  /\ \A a \in Asks : astate[a] # "absent" =>
              /\ astate'[a] # "absent" /\ atask'[a] = atask[a]
              /\ astate'[a] = "pending" => astate[a] = "pending"
         /\ \A t \in Tasks : tstate[t] \in Terminal => tstate'[t] \in Terminal
<1>1. TypeOK BY DEF IInv, TypeInv
<1>2. CASE Lifecycle!LNext
  BY <1>1, <1>2 DEF TypeOK, Lifecycle!LNext, Lifecycle!Submit, Lifecycle!Start, Lifecycle!Cancel,
     Lifecycle!Open, Lifecycle!End, Lifecycle!Suspend, Lifecycle!Answer, Lifecycle!TimeOut, Terminal
<1>3. CASE UNCHANGED view
  BY <1>3 DEF view
<1> QED BY <1>2, <1>3, StepImplements

\* Another process's step does not touch what a cancel knows.
LEMMA BeganElsewhere ==
  ASSUME IInv, BeganInv, [Next]_vars, NEW p \in Cancellers,
         pc'[p] = pc[p], ptask'[p] = ptask[p], pasks'[p] = pasks[p], began'[p] = began[p]
  PROVE  (pc'[p] = "idle" => began'[p] = {}) /\ BeganOK(p)'
<1>1. began[p] \subseteq Asks BY DEF IInv, TypeInv, TypeOK, Procs
<1>2. \A a \in began[p] : astate'[a] # "absent" /\ atask'[a] = atask[a]
                          /\ (astate'[a] = "pending" => astate[a] = "pending")
  BY <1>1, RowsMoveOn DEF BeganInv, BeganOK
<1> QED BY <1>1, <1>2 DEF BeganInv, BeganOK

\* A step of a cancel that returns to its caller.
LEMMA BeganReturns ==
  ASSUME IInv, NEW p \in Cancellers, Return(p)
  PROVE  (pc'[p] = "idle" => began'[p] = {}) /\ BeganOK(p)'
<1>1. began'[p] = {} BY DEF Return, IInv, TypeInv, TypeOK, Procs
<1> QED BY <1>1 DEF BeganOK

\* The cancel's own steps: its first sweep takes every pending ask of its task.
LEMMA BeganOwn ==
  ASSUME IInv, BeganInv, [Next]_vars, NEW p \in Cancellers,
         cancel_begin(p) \/ cancel_if_pending(p) \/ CancellerStep(p)
  PROVE  (pc'[p] = "idle" => began'[p] = {}) /\ BeganOK(p)'
<1> USE DEF Procs
<1>0. /\ pc \in [Procs -> RunnerPCs \cup ResolverPCs \cup CancelPCs \cup SweeperPCs]
      /\ ptask \in [Procs -> Tasks \cup {NoTask}] /\ pasks \in [Procs -> SUBSET Asks]
      /\ began \in [Procs -> SUBSET Asks]
      /\ pc[p] = "idle" => began[p] = {}
      /\ BeganOK(p) /\ CancellerOK(p)
  BY DEF IInv, TypeInv, TypeOK, BeganInv, ProcInv
<1>1. CASE cancel_begin(p)
  <2>1. PICK t \in Tasks : /\ ptask' = [ptask EXCEPT ![p] = t]
                           /\ began' = [began EXCEPT ![p] = PendingAsksOf(t)]
    BY <1>1 DEF cancel_begin
  <2>2. pc'[p] = "sweep1" /\ UNCHANGED <<astate, atask>>
    BY <1>0, <1>1 DEF cancel_begin, Goto, tables
  <2>3. ptask'[p] = t /\ began'[p] = PendingAsksOf(t)
    BY <1>0, <2>1
  <2> QED BY <2>2, <2>3 DEF BeganOK, PendingAsksOf
<1>2. CASE cancel_if_pending(p)
  <2>1. began'[p] = {}
    BY <1>0, <1>2 DEF cancel_if_pending
  <2> QED BY <2>1 DEF BeganOK
<1>3. CASE cancel_sweep1(p) \/ cancel_sweep2(p)
  <2>1. /\ pc'[p] \in {"locktask", "commit"} /\ UNCHANGED <<astate, atask, ptask, began>>
        /\ pasks'[p] = pasks[p] \cup PendingAsksOf(ptask[p])
    BY <1>0, <1>3 DEF cancel_sweep1, cancel_sweep2, cancel_for_task, Goto, tables
  <2>2. began[p] \subseteq Asks BY <1>0
  <2> QED BY <1>0, <2>1, <2>2 DEF BeganOK, PendingAsksOf
<1>4. CASE cancel_lock(p)
  <2>1. /\ pc[p] = "locktask" /\ pc'[p] = "update"
        /\ UNCHANGED <<astate, atask, ptask, pasks, began>>
    BY <1>0, <1>4 DEF cancel_lock, Goto, tables
  <2> QED BY <1>0, <2>1 DEF BeganOK
<1>5. CASE cancel_update(p)
  <2>1. CASE cancellable(ptask[p])
    <3>1. /\ pc[p] = "update" /\ pc'[p] = "sweep2"
          /\ UNCHANGED <<astate, atask, ptask, pasks, began>>
      BY <1>0, <1>5, <2>1 DEF cancel_update, Goto, tables
    <3> QED BY <1>0, <3>1 DEF BeganOK
  <2>2. CASE ~cancellable(ptask[p])
    BY <1>5, <2>2, BeganReturns DEF cancel_update, Rollback
  <2> QED BY <2>1, <2>2
<1>6. CASE cancel_commit(p)
  <2>1. /\ pc'[p] = "audit" /\ UNCHANGED <<atask, ptask, began>>
    BY <1>0, <1>6 DEF cancel_commit, Goto
  <2>2. \A a \in began[p] : astate'[a] # "absent"
    BY <1>0, RowsMoveOn DEF BeganOK
  <2> QED BY <1>0, <2>1, <2>2 DEF BeganOK
<1>7. CASE emit_cancel_audit_rows(p)
  BY <1>7, BeganReturns DEF emit_cancel_audit_rows
<1> QED BY <1>1, <1>2, <1>3, <1>4, <1>5, <1>6, <1>7 DEF CancellerStep

\* Every step keeps BeganInv.
LEMMA BeganNext == IInv /\ BeganInv /\ [Next]_vars => BeganInv'
<1> SUFFICES ASSUME IInv, BeganInv, [Next]_vars, NEW p \in Cancellers
             PROVE  (pc'[p] = "idle" => began'[p] = {}) /\ BeganOK(p)'
  BY DEF BeganInv
<1> DEFINE Still == pc'[p] = pc[p] /\ ptask'[p] = ptask[p] /\ pasks'[p] = pasks[p] /\ began'[p] = began[p]
           Done == (pc'[p] = "idle" => began'[p] = {}) /\ BeganOK(p)'
<1>0. /\ pc \in [Procs -> RunnerPCs \cup ResolverPCs \cup CancelPCs \cup SweeperPCs]
      /\ ptask \in [Procs -> Tasks \cup {NoTask}] /\ pasks \in [Procs -> SUBSET Asks]
      /\ began \in [Procs -> SUBSET Asks]
      /\ p \in Procs /\ p \notin Runners /\ p \notin Resolvers /\ p # Sweeper
  BY ConstantsAssumption DEF IInv, TypeInv, TypeOK, Procs
<1>1. Still => Done
  BY BeganElsewhere
<1> SUFFICES Done
  OBVIOUS
<1> HIDE DEF Done
<1>2. CASE UNCHANGED procs
  BY <1>1, <1>2 DEF procs
<1>3. ASSUME NEW r \in Runners, RunnerStep(r) \/ raise_error(r) \/ finalize_error(r) PROVE Still
  <2>1. r # p /\ r \in Procs BY <1>0 DEF Procs
  <2> QED BY <1>0, <1>3, <2>1 DEF RunnerStep, claim_one, pre_plan, observe_cancelled, run_ends,
        escalate, raise_suspend, raise_insert, raise_commit, finalize, write_finalize_row,
        raise_error, finalize_error, RaiseFails, AfterFinalize, Return, Goto
<1>4. ASSUME NEW q \in Resolvers, resolve_begin(q) \/ ResolverStep(q) PROVE Still
  <2>1. q # p /\ q \in Procs BY <1>0 DEF Procs
  <2> QED BY <1>0, <1>4, <2>1 DEF ResolverStep, resolve_begin, resolve_update, resolve_resume,
        resolve_commit, Rollback, Return, Goto
<1>5. ASSUME NEW q \in Cancellers, cancel_begin(q) \/ cancel_if_pending(q) \/ CancellerStep(q)
      PROVE  Done
  <2>1. CASE q = p
    BY <1>5, <2>1, BeganOwn DEF Done
  <2>2. CASE q # p
    <3>1. q \in Procs BY DEF Procs
    <3>2. Still
      BY <1>0, <1>5, <2>2, <3>1 DEF CancellerStep, cancel_begin, cancel_if_pending, cancel_sweep1,
         cancel_lock, cancel_update, cancel_sweep2, cancel_for_task, cancel_commit,
         emit_cancel_audit_rows, Rollback, Return, Goto
    <3> QED BY <1>1, <3>2
  <2> QED BY <2>1, <2>2
<1>6. CASE SweeperStep
  <2>1. Still
    BY <1>0, <1>6 DEF SweeperStep, expire_begin, expire_lock, expire_updated, expire_fail,
       expire_commit, emit_expired_task_rows, Goto
  <2> QED BY <1>1, <2>1
<1>7. ASSUME NEW q \in Procs, deadlock_victim(q) \/ abort(q) PROVE Done
  <2>1. Return(q) BY <1>7 DEF deadlock_victim, abort, Rollback
  <2>2. CASE q = p
    BY <2>1, <2>2, BeganReturns DEF Done
  <2>3. CASE q # p
    <3>1. Still BY <1>0, <2>1, <2>3 DEF Return, Goto
    <3> QED BY <1>1, <3>1
  <2> QED BY <2>2, <2>3
<1>8. CASE daemon_crash
  <2>1. p \notin DaemonProcs BY <1>0, ConstantsAssumption DEF DaemonProcs
  <2>2. Still BY <1>0, <1>8, <2>1 DEF daemon_crash
  <2> QED BY <1>1, <2>2
<1>9. CASE \/ insert_pending \/ mark_failed_running \/ sweep_crashed \/ boot_audit
           \/ lease_passes \/ \E a \in Asks : deadline_passes(a)
  BY <1>2, <1>9 DEF insert_pending, mark_failed_running, sweep_crashed, boot_audit, lease_passes,
     deadline_passes
<1>10. CASE UNCHANGED vars
  BY <1>2, <1>10 DEF vars
<1> QED
  BY <1>1, <1>3, <1>4, <1>5, <1>6, <1>7, <1>8, <1>9, <1>10 DEF Next

LEMMA BeganAlways == Spec => [](IInv /\ BeganInv)
<1>1. Init => BeganInv
  BY DEF Init, BeganInv, BeganOK, Procs
<1> QED BY <1>1, IInvInit, IInvNext, BeganNext, PTL DEF Spec

\* What a transaction waits for: the row of a task, or that of a pending ask.
OnTask(p, q) ==
  \E t \in Tasks :
    /\ tlock[t] = q
    /\ \/ p \in Cancellers /\ pc[p] = "locktask"
       \/ p \in Resolvers /\ pc[p] = "resume"
       \/ p \in Runners /\ pc[p] \in {"suspend", "finalize"}
       \/ p = Sweeper /\ pc[p] = "failtasks"
OnAsk(p, q) ==
  \E a \in Asks :
    /\ alock[a] = q /\ astate[a] = "pending"
    /\ \/ p \in Cancellers /\ pc[p] \in {"sweep1", "sweep2"} /\ atask[a] = ptask[p]
       \/ p \in Resolvers /\ pc[p] = "begun"
       \/ p = Sweeper /\ pc[p] = "lockasks"

\* The eight waits of WaitsFor are of these two kinds; a cancel at its UPDATE
\* already has its row.
LEMMA WaitsAre ==
  ASSUME IInv, NEW p \in Procs, NEW q \in WaitsFor(p)
  PROVE  q # p /\ q # Nobody /\ (OnTask(p, q) \/ OnAsk(p, q))
<1>0. /\ p \in Runners \cup Resolvers \cup Cancellers \cup {Sweeper}
      /\ pasks \in [Procs -> SUBSET Asks] /\ todo \in SUBSET Asks /\ p \in Procs
      /\ Typed /\ TaskHolders
  BY DEF IInv, TypeInv, TypeOK, LockInv, Procs
<1> DEFINE t == ptask[p]
           Held(x) == {x} \ {p, Nobody}
<1>1. CASE p \in Cancellers
  <2>0. p \notin Resolvers /\ p \notin Runners /\ p # Sweeper
    BY <1>1, ConstantsAssumption
  <2>1. CASE pc[p] \in {"sweep1", "sweep2"}
    <3>1. PICK a \in PendingAsksOf(t) : q \in Held(alock[a])
      BY <1>1, <2>1 DEF WaitsFor
    <3> QED BY <1>1, <2>1, <3>1 DEF OnAsk, PendingAsksOf
  <2>2. CASE pc[p] = "locktask"
    <3>1. q \in Held(tlock[t])
      BY <1>1, <2>2 DEF WaitsFor
    <3>2. t \in Tasks BY <1>0, <1>1, <2>2 DEF Typed
    <3> QED BY <1>1, <2>2, <3>1, <3>2 DEF OnTask
  <2>3. CASE pc[p] = "update"
    <3>1. q \in Held(tlock[t])
      BY <1>1, <2>0, <2>3 DEF WaitsFor
    <3>2. tlock[t] = p BY <1>0, <1>1, <2>3 DEF TaskHolders, HoldsTask
    <3> QED BY <3>1, <3>2
  <2>4. CASE pc[p] \notin {"sweep1", "sweep2", "locktask", "update"}
    BY <1>1, <2>0, <2>4 DEF WaitsFor
  <2> QED BY <2>1, <2>2, <2>3, <2>4
<1>2. CASE p \in Resolvers
  <2>0. p \notin Cancellers /\ p \notin Runners /\ p # Sweeper
    BY <1>2, ConstantsAssumption
  <2>1. CASE pc[p] = "begun"
    <3>1. PICK a \in pasks[p] : resolvable(p, a) /\ q \in Held(alock[a])
      BY <1>2, <2>0, <2>1 DEF WaitsFor
    <3> QED BY <1>0, <1>2, <2>1, <3>1 DEF OnAsk, resolvable
  <2>2. CASE pc[p] = "resume"
    <3>1. q \in Held(tlock[t])
      BY <1>2, <2>0, <2>2 DEF WaitsFor
    <3>2. t \in Tasks BY <1>0, <1>2, <2>2 DEF Typed
    <3> QED BY <1>2, <2>2, <3>1, <3>2 DEF OnTask
  <2>3. CASE pc[p] \notin {"begun", "resume"}
    BY <1>2, <2>0, <2>3 DEF WaitsFor
  <2> QED BY <2>1, <2>2, <2>3
<1>3. CASE p \in Runners
  <2>0. p \notin Cancellers /\ p \notin Resolvers /\ p # Sweeper
    BY <1>3, ConstantsAssumption
  <2>1. pc[p] \in {"suspend", "finalize"} /\ q \in Held(tlock[t])
    BY <1>3, <2>0 DEF WaitsFor
  <2>2. t \in Tasks BY <1>0, <1>3, <2>1 DEF Typed
  <2> QED BY <1>3, <2>1, <2>2 DEF OnTask
<1>4. CASE p = Sweeper
  <2>0. p \notin Cancellers /\ p \notin Resolvers /\ p \notin Runners
    BY <1>4, ConstantsAssumption
  <2>1. CASE pc[p] = "lockasks"
    <3>1. PICK a \in todo : astate[a] = "pending" /\ q \in Held(alock[a])
      BY <1>4, <2>0, <2>1 DEF WaitsFor
    <3> QED BY <1>0, <1>4, <2>1, <3>1 DEF OnAsk
  <2>2. CASE pc[p] = "failtasks"
    <3>1. PICK a \in todo : q \in Held(tlock[atask[a]])
      BY <1>4, <2>0, <2>2 DEF WaitsFor
    <3>2. a \in Asks /\ astate[a] = "pending"
      BY <1>0, <1>4, <2>2, <3>1 DEF IInv, ProcInv, SweeperOK
    <3>3. atask[a] \in Tasks BY <3>2 DEF IInv, CoupledInv
    <3> QED BY <1>4, <2>2, <3>1, <3>3 DEF OnTask
  <2>3. CASE pc[p] \notin {"lockasks", "failtasks"}
    BY <1>4, <2>0, <2>3 DEF WaitsFor
  <2> QED BY <2>1, <2>2, <2>3
<1> QED BY <1>0, <1>1, <1>2, <1>3, <1>4

\* Whoever another transaction waits for has a row of that kind.
LEMMA Blockers ==
  ASSUME IInv, NEW p \in Procs, NEW q \in Procs
  PROVE  /\ OnTask(p, q) => HoldsTask(q) \/ (q = Sweeper /\ pc[q] = "failtasks")
         /\ OnAsk(p, q) => HoldsAsks(q)
  BY ConstantsAssumption DEF IInv, LockInv, TaskLocks, AskLocks, OnTask, OnAsk

\* A cancel waits in its second sweep only for an ask its first has not seen.
LEMMA ResweepIsNew ==
  ASSUME IInv, BeganInv, NEW c \in Cancellers, pc[c] = "sweep2", NEW q, q # c, OnAsk(c, q)
  PROVE  PendingAsksOf(ptask[c]) \cap began[c] = {}
<1>0. c \in Procs /\ c \notin Resolvers /\ c # Sweeper
  BY ConstantsAssumption DEF Procs
<1>1. PICK a \in Asks : alock[a] = q /\ astate[a] = "pending" /\ atask[a] = ptask[c]
  BY <1>0 DEF OnAsk
<1>2. a \notin pasks[c]
  BY <1>0, <1>1 DEF IInv, LockInv, AskHolders, HoldsAsks
<1>3. a \notin began[c]
  BY <1>1, <1>2 DEF BeganInv, BeganOK
<1>4. PendingAsksOf(ptask[c]) = {a}
  BY <1>1 DEF PendingAsksOf, IInv, CoupledInv
<1> QED BY <1>3, <1>4

\* mark_cancelled, asks::resolve, asks::raise and asks::expire_due wait for each
\* other in a cycle only where a cancel's second sweep finds an ask that was
\* raised after its first: the order asks before tasks rules out every other
\* cycle of two, for any number of processes, tasks and asks.
THEOREM CyclesNeedTheResweep == Spec => []CycleOnlyThroughResweep
<1>1. IInv /\ BeganInv => CycleOnlyThroughResweep
  <2> SUFFICES ASSUME IInv, BeganInv, NEW p \in Procs, NEW q \in Procs, LockCycle(p, q)
               PROVE  \E c \in {p, q} : /\ c \in Cancellers /\ pc[c] = "sweep2"
                                        /\ PendingAsksOf(ptask[c]) \cap began[c] = {}
    BY DEF CycleOnlyThroughResweep
  <2>1. p # q /\ (OnTask(p, q) \/ OnAsk(p, q)) /\ (OnTask(q, p) \/ OnAsk(q, p))
    BY WaitsAre DEF LockCycle
  <2>2. \E c \in {p, q} : c \in Cancellers /\ pc[c] = "sweep2"
    BY <2>1, Blockers, ConstantsAssumption DEF OnTask, OnAsk, HoldsTask, HoldsAsks
  <2>3. PICK c \in {p, q} : c \in Cancellers /\ pc[c] = "sweep2"
    BY <2>2
  <2>4. PICK d \in {p, q} : d # c /\ OnAsk(c, d)
    BY <2>1, <2>3, ConstantsAssumption DEF OnTask
  <2> QED BY <2>3, <2>4, ResweepIsNew
<1> QED BY <1>1, BeganAlways, PTL

(***************************************************************************)
(* One task.finalize row per task.  Four parties write it: the runner that *)
(* carried the task, the cancel that ended it, the ask sweep that timed it *)
(* out and the startup sweep that found it crashed.  Whoever still has to  *)
(* write the row of a task owes it; the invariant is that a task has one   *)
(* debtor at most, and none once its row is there.                         *)
(***************************************************************************)

Kinds == {"runner", "cancel", "sweep", "boot"}
Debtors == Procs \cup Asks \cup Tasks

\* x, as a writer of kind k, has still to write the row of t.
Owes(k, x, t) ==
  \/ k = "runner" /\ x \in Runners /\ pc[x] # "idle" /\ ptask[x] = t /\ t \notin L3Runs
  \/ k = "cancel" /\ x \in Cancellers /\ pc[x] = "audit" /\ ptask[x] = t /\ out[x] # "running"
  \/ k = "sweep" /\ pc[Sweeper] = "audit" /\ x \in todo /\ atask[x] = t
  \/ k = "boot" /\ x = t /\ t \in boot

RowsOK(t) ==
  /\ rows[t] \in {0, 1}
  /\ rows[t] = 1 => tstate[t] \in Terminal
  /\ \A k \in Kinds, x \in Debtors : Owes(k, x, t) => rows[t] = 0
  /\ \A k, l \in Kinds, x, y \in Debtors : Owes(k, x, t) /\ Owes(l, y, t) => k = l /\ x = y

\* A writer that is about to write its row writes it for a task that has ended.
EndedOK ==
  /\ \A r \in Runners : pc[r] = "audit" => ptask[r] \notin L3Runs /\ tstate[ptask[r]] \in Terminal
  /\ \A p \in Cancellers : pc[p] = "audit" => tstate[ptask[p]] \in Terminal
  /\ pc[Sweeper] = "audit" =>
       \A a \in todo : astate[a] # "absent" /\ atask[a] \in Tasks /\ tstate[atask[a]] \in Terminal
  /\ \A t \in boot : tstate[t] \in Terminal
\* The startup sweep and the lane runners are never there together.
BootOK ==
  /\ boot # {} => daemon = "booting"
  /\ daemon # "up" => \A r \in Runners : pc[r] = "idle"

RowsInv == (\A t \in Tasks : RowsOK(t)) /\ EndedOK /\ BootOK

\* A task that has not ended has no debtor but the runner that carries it.
LEMMA OnlyItsRunner ==
  ASSUME IInv, RowsInv, NEW t \in Tasks, tstate[t] \notin Terminal,
         NEW k \in Kinds, NEW x \in Debtors, Owes(k, x, t)
  PROVE  k = "runner" /\ tstate[t] = "running"
<1>1. k \notin {"cancel", "sweep", "boot"}
  BY DEF RowsInv, EndedOK, Owes
<1>2. x \in Runners /\ pc[x] # "idle" /\ ptask[x] = t
  BY <1>1 DEF Owes, Kinds
<1>3. Working(x)
  BY <1>2 DEF RowsInv, EndedOK, IInv, TypeInv, Typed, RunnerPCs, Working
<1> QED BY <1>1, <1>2, <1>3 DEF Kinds, IInv, ProcInv, RunnerOK

\* A step in which nobody comes to owe the row of t, and nobody writes it.
LEMMA RowUntouched ==
  ASSUME IInv, RowsInv, [Next]_vars, NEW t \in Tasks, rows'[t] = rows[t],
         \A k \in Kinds, x \in Debtors : Owes(k, x, t)' => Owes(k, x, t)
  PROVE  RowsOK(t)'
<1>1. tstate[t] \in Terminal => tstate'[t] \in Terminal BY RowsMoveOn
<1>2. RowsOK(t) BY DEF RowsInv
<1>3. \A k \in Kinds, x \in Debtors : Owes(k, x, t)' => rows'[t] = 0
  BY <1>2 DEF RowsOK
<1>4. \A k, l \in Kinds, x, y \in Debtors : Owes(k, x, t)' /\ Owes(l, y, t)' => k = l /\ x = y
  BY <1>2 DEF RowsOK
<1> HIDE DEF Owes
<1> QED BY <1>1, <1>2, <1>3, <1>4 DEF RowsOK

\* The debtor of t writes its row and is released.
LEMMA RowWritten ==
  ASSUME IInv, RowsInv, [Next]_vars, NEW t \in Tasks, rows'[t] = Bump(rows[t]),
         tstate[t] \in Terminal,
         NEW l \in Kinds, NEW y \in Debtors, Owes(l, y, t),
         \A k \in Kinds, x \in Debtors : Owes(k, x, t)' => Owes(k, x, t) /\ (k # l \/ x # y)
  PROVE  RowsOK(t)'
<1>1. tstate'[t] \in Terminal BY RowsMoveOn
<1>2. RowsOK(t) BY DEF RowsInv
<1>3. rows'[t] = 1
  BY <1>2 DEF RowsOK, Bump, RowCap
<1>4. \A k \in Kinds, x \in Debtors : ~Owes(k, x, t)'
  BY <1>2 DEF RowsOK
<1> QED BY <1>1, <1>3, <1>4 DEF RowsOK

\* A task that nobody owes a row, and that has none, gets one debtor.
LEMMA RowIncurred ==
  ASSUME IInv, RowsInv, NEW t \in Tasks, rows'[t] = rows[t],
         tstate[t] \notin Terminal \cup {"running"} \/ \A k \in Kinds, x \in Debtors : ~Owes(k, x, t),
         tstate[t] \notin Terminal,
         NEW l, NEW y,
         \A k \in Kinds, x \in Debtors : Owes(k, x, t)' => Owes(k, x, t) \/ (k = l /\ x = y)
  PROVE  RowsOK(t)'
<1>1. RowsOK(t) BY DEF RowsInv
<1>2. rows'[t] = 0 BY <1>1 DEF RowsOK
<1>3. \A k \in Kinds, x \in Debtors : ~Owes(k, x, t)
  BY OnlyItsRunner
<1>4. \A k \in Kinds, x \in Debtors : Owes(k, x, t)' => k = l /\ x = y
  BY <1>3
<1> QED BY <1>2, <1>4 DEF RowsOK

\* The runner: a claim makes it the debtor, its row or its suspension ends that.
LEMMA RunnerRows ==
  ASSUME IInv, RowsInv, [Next]_vars, NEW r \in Runners, RunnerStep(r)
  PROVE  RowsInv'
<1>0. /\ pc \in [Procs -> RunnerPCs \cup ResolverPCs \cup CancelPCs \cup SweeperPCs]
      /\ ptask \in [Procs -> Tasks \cup {NoTask}] /\ rows \in [Tasks -> 0..RowCap]
      /\ out \in [Procs -> TaskStates \cup Choices \cup {"none"}] /\ todo \in SUBSET Asks
      /\ r \in Procs /\ r \notin Cancellers /\ r # Sweeper /\ Sweeper \in Procs
      /\ pc[r] \in RunnerPCs /\ (pc[r] # "idle" => ptask[r] \in Tasks)
      /\ tstate \in [Tasks -> TaskStates]
      /\ (pc[r] = "finalize" => out[r] \in Terminal)
      /\ Runners \subseteq Procs /\ Cancellers \subseteq Procs
  BY ConstantsAssumption DEF IInv, TypeInv, TypeOK, Typed, Procs
<1>1. /\ todo' = todo /\ boot' = boot /\ daemon' = daemon
      /\ \A q \in Procs \ {r} : pc'[q] = pc[q] /\ ptask'[q] = ptask[q] /\ out'[q] = out[q]
  BY <1>0 DEF RunnerStep, claim_one, pre_plan, observe_cancelled, run_ends, escalate, raise_suspend,
     raise_insert, raise_commit, finalize, write_finalize_row, RaiseFails, AfterFinalize, Return, Goto
<1>2. \A a \in todo : pc[Sweeper] = "audit" =>
        astate'[a] # "absent" /\ atask'[a] = atask[a] /\ tstate'[atask[a]] \in Terminal
  BY <1>0, RowsMoveOn DEF RowsInv, EndedOK
<1>3. \A u \in Tasks : tstate[u] \in Terminal => tstate'[u] \in Terminal
  BY RowsMoveOn
<1>4. BootOK'
  <2>1. CASE claim_one(r)
    BY <1>1, <2>1 DEF claim_one, RowsInv, BootOK
  <2>2. CASE ~claim_one(r)
    <3>1. pc[r] # "idle"
      BY <2>2 DEF RunnerStep, pre_plan, observe_cancelled, run_ends, escalate, raise_suspend,
         raise_insert, raise_commit, finalize, write_finalize_row
    <3> QED BY <1>1, <3>1 DEF RowsInv, BootOK
  <2> QED BY <2>1, <2>2
<1>5. pc'[r] = "audit" => ptask'[r] \notin L3Runs /\ tstate'[ptask'[r]] \in Terminal
  <2>1. CASE finalize(r)
    <3>1. pc[r] = "finalize" /\ tstate[ptask[r]] \in {"running"} \cup Terminal
      BY <2>1 DEF finalize, IInv, ProcInv, RunnerOK, Working
    <3>2. CASE ptask[r] \in L3Runs
      BY <1>0, <2>1, <3>2 DEF finalize, AfterFinalize, Return, Goto
    <3>3. CASE ptask[r] \notin L3Runs
      BY <1>0, <2>1, <3>1, <3>3 DEF finalize, AfterFinalize, Goto
    <3> QED BY <3>2, <3>3
  <2>2. CASE ~finalize(r)
    BY <1>0, <2>2 DEF RunnerStep, claim_one, pre_plan, observe_cancelled, run_ends, escalate,
       raise_suspend, raise_insert, raise_commit, write_finalize_row, RaiseFails, Return, Goto
  <2> QED BY <2>1, <2>2
<1>6. EndedOK'
  <2>1. \A q \in Runners : pc'[q] = "audit" => ptask'[q] \notin L3Runs /\ tstate'[ptask'[q]] \in Terminal
    BY <1>0, <1>1, <1>3, <1>5 DEF RowsInv, EndedOK, IInv, TypeInv, Typed
  <2>2. \A q \in Cancellers : pc'[q] = "audit" => tstate'[ptask'[q]] \in Terminal
    BY <1>0, <1>1, <1>3 DEF RowsInv, EndedOK, IInv, TypeInv, Typed
  <2>3. pc'[Sweeper] = "audit" =>
          \A a \in todo' : astate'[a] # "absent" /\ atask'[a] \in Tasks /\ tstate'[atask'[a]] \in Terminal
    BY <1>0, <1>1, <1>2 DEF RowsInv, EndedOK
  <2>4. \A t \in boot' : tstate'[t] \in Terminal
    BY <1>0, <1>1, <1>3 DEF RowsInv, EndedOK, IInv, TypeInv, TypeOK
  <2> QED BY <2>1, <2>2, <2>3, <2>4 DEF EndedOK
<1>7. ASSUME NEW t \in Tasks PROVE RowsOK(t)'
  <2>1. \A k \in Kinds, x \in Debtors : Owes(k, x, t)' /\ ~(k = "runner" /\ x = r) => Owes(k, x, t)
    BY <1>0, <1>1, <1>2 DEF Owes
  <2>2. CASE claim_one(r)
    <3>1. PICK u \in Tasks : claimable(u) /\ ptask' = [ptask EXCEPT ![r] = u]
      BY <2>2 DEF claim_one
    <3>2. pc[r] = "idle" /\ ptask'[r] = u /\ rows' = rows /\ tstate[u] = "pending"
      BY <1>0, <2>2, <3>1 DEF claim_one, claimable
    <3>3. CASE u = t
      <4>1. \A k \in Kinds, x \in Debtors : Owes(k, x, t)' => Owes(k, x, t) \/ (k = "runner" /\ x = r)
        BY <2>1
      <4> QED BY <3>2, <3>3, <4>1, RowIncurred DEF Terminal
    <3>4. CASE u # t
      <4>1. ~Owes("runner", r, t)' BY <3>2, <3>4 DEF Owes
      <4>2. \A k \in Kinds, x \in Debtors : Owes(k, x, t)' => Owes(k, x, t)
        BY <2>1, <4>1
      <4> QED BY <3>2, <4>2, RowUntouched
    <3> QED BY <3>3, <3>4
  <2>3. CASE write_finalize_row(r)
    <3>1. pc[r] = "audit" /\ pc'[r] = "idle" /\ rows' = [rows EXCEPT ![ptask[r]] = Bump(@)]
      BY <1>0, <2>3 DEF write_finalize_row, Return, Goto
    <3>2. ~Owes("runner", r, t)' BY <3>1 DEF Owes
    <3>3. CASE ptask[r] = t
      <4>1. Owes("runner", r, t) /\ tstate[t] \in Terminal
        BY <3>1, <3>3 DEF RowsInv, EndedOK, Owes
      <4>2. rows'[t] = Bump(rows[t]) BY <1>0, <3>1, <3>3
      <4>3. "runner" \in Kinds /\ r \in Debtors BY <1>0 DEF Kinds, Debtors
      <4>4. \A k \in Kinds, x \in Debtors : Owes(k, x, t)' => Owes(k, x, t) /\ (k # "runner" \/ x # r)
        BY <2>1, <3>2
      <4> QED BY <4>1, <4>2, <4>3, <4>4, RowWritten
    <3>4. CASE ptask[r] # t
      <4>1. rows'[t] = rows[t] BY <1>0, <3>1, <3>4
      <4>2. \A k \in Kinds, x \in Debtors : Owes(k, x, t)' => Owes(k, x, t)
        BY <2>1, <3>2
      <4> QED BY <4>1, <4>2, RowUntouched
    <3> QED BY <3>3, <3>4
  <2>4. CASE ~claim_one(r) /\ ~write_finalize_row(r)
    <3>1. /\ rows' = rows /\ pc[r] # "idle"
          /\ pc'[r] = "idle" \/ ptask'[r] = ptask[r]
      BY <1>0, <2>4 DEF RunnerStep, pre_plan, observe_cancelled, run_ends, escalate, raise_suspend,
         raise_insert, raise_commit, finalize, RaiseFails, AfterFinalize, Return, Goto
    <3>2. Owes("runner", r, t)' => Owes("runner", r, t)
      BY <3>1 DEF Owes
    <3>3. \A k \in Kinds, x \in Debtors : Owes(k, x, t)' => Owes(k, x, t)
      BY <2>1, <3>2
    <3> QED BY <3>1, <3>3, RowUntouched
  <2> QED BY <2>2, <2>3, <2>4
<1> QED BY <1>4, <1>6, <1>7 DEF RowsInv

\* A step that gives nobody a new row to write.
Shrinks ==
  /\ boot' \subseteq boot
  /\ \A r \in Runners : pc'[r] = "idle" \/ (pc'[r] = pc[r] /\ ptask'[r] = ptask[r])
  /\ \A p \in Cancellers :
       pc'[p] # "audit" \/ (pc'[p] = pc[p] /\ ptask'[p] = ptask[p] /\ out'[p] = out[p])
  /\ pc'[Sweeper] # "audit" \/ (pc'[Sweeper] = pc[Sweeper] /\ todo' \subseteq todo)

LEMMA ShrinkingDebts ==
  ASSUME IInv, RowsInv, [Next]_vars, Shrinks
  PROVE  /\ EndedOK'
         /\ \A t \in Tasks, k \in Kinds, x \in Debtors : Owes(k, x, t)' => Owes(k, x, t)
<1>0. todo \in SUBSET Asks /\ boot \in SUBSET Tasks
      /\ (\A r \in Runners : pc[r] # "idle" => ptask[r] \in Tasks)
      /\ \A p \in Cancellers : pc[p] # "idle" => ptask[p] \in Tasks
  BY DEF IInv, TypeInv, TypeOK, Typed
<1>1. \A a \in todo : pc[Sweeper] = "audit" =>
        /\ astate'[a] # "absent" /\ atask'[a] = atask[a]
        /\ atask[a] \in Tasks /\ tstate'[atask[a]] \in Terminal
  BY <1>0, RowsMoveOn DEF RowsInv, EndedOK
<1>2. \A u \in Tasks : tstate[u] \in Terminal => tstate'[u] \in Terminal
  BY RowsMoveOn
<1>3. \A r \in Runners : pc'[r] = "audit" => ptask'[r] \notin L3Runs /\ tstate'[ptask'[r]] \in Terminal
  BY <1>0, <1>2 DEF Shrinks, RowsInv, EndedOK
<1>4. \A p \in Cancellers : pc'[p] = "audit" => tstate'[ptask'[p]] \in Terminal
  BY <1>0, <1>2 DEF Shrinks, RowsInv, EndedOK
<1>5. pc'[Sweeper] = "audit" =>
        \A a \in todo' : astate'[a] # "absent" /\ atask'[a] \in Tasks /\ tstate'[atask'[a]] \in Terminal
  BY <1>1 DEF Shrinks
<1>6. \A t \in boot' : tstate'[t] \in Terminal
  BY <1>0, <1>2 DEF Shrinks, RowsInv, EndedOK
<1>7. \A t \in Tasks, k \in Kinds, x \in Debtors : Owes(k, x, t)' => Owes(k, x, t)
  BY <1>1 DEF Shrinks, Owes
<1> QED BY <1>3, <1>4, <1>5, <1>6, <1>7 DEF EndedOK

\* ... and in which no row is written.
LEMMA QuietRows ==
  ASSUME IInv, RowsInv, [Next]_vars, Shrinks, rows' = rows, BootOK'
  PROVE  RowsInv'
  BY ShrinkingDebts, RowUntouched DEF RowsInv

\* The cancel: it becomes the debtor when it ends a task no runner carries.
LEMMA CancellerRows ==
  ASSUME IInv, RowsInv, [Next]_vars, NEW p \in Cancellers,
         cancel_begin(p) \/ cancel_if_pending(p) \/ CancellerStep(p)
  PROVE  RowsInv'
<1>0. /\ pc \in [Procs -> RunnerPCs \cup ResolverPCs \cup CancelPCs \cup SweeperPCs]
      /\ ptask \in [Procs -> Tasks \cup {NoTask}] /\ rows \in [Tasks -> 0..RowCap]
      /\ out \in [Procs -> TaskStates \cup Choices \cup {"none"}] /\ todo \in SUBSET Asks
      /\ p \in Procs /\ p \notin Runners /\ p # Sweeper /\ Sweeper \in Procs
      /\ pc[p] \in CancelPCs /\ (pc[p] # "idle" => ptask[p] \in Tasks)
      /\ tstate \in [Tasks -> TaskStates] /\ boot \in SUBSET Tasks
      /\ Runners \subseteq Procs /\ Cancellers \subseteq Procs
  BY ConstantsAssumption DEF IInv, TypeInv, TypeOK, Typed, Procs
<1>1. /\ todo' = todo /\ boot' = boot /\ daemon' = daemon
      /\ \A q \in Procs \ {p} : pc'[q] = pc[q] /\ ptask'[q] = ptask[q] /\ out'[q] = out[q]
  BY <1>0 DEF CancellerStep, cancel_begin, cancel_if_pending, cancel_sweep1, cancel_lock, cancel_update,
     cancel_sweep2, cancel_for_task, cancel_commit, emit_cancel_audit_rows, Rollback, Return, Goto
<1>2. BootOK'
  BY <1>0, <1>1 DEF RowsInv, BootOK
<1>3. CASE pc'[p] # "audit"
  <2>1. Shrinks
    BY <1>0, <1>1, <1>3 DEF Shrinks
  <2>2. CASE emit_cancel_audit_rows(p)
    <3>1. ASSUME NEW t \in Tasks PROVE RowsOK(t)'
      <4>1. \A k \in Kinds, x \in Debtors : Owes(k, x, t)' => Owes(k, x, t)
        BY <2>1, ShrinkingDebts
      <4>2. CASE ptask[p] = t /\ out[p] # "running"
        <5>1. pc[p] = "audit" /\ rows'[t] = Bump(rows[t])
          BY <1>0, <2>2, <4>2 DEF emit_cancel_audit_rows, scheduler_will_emit_finalize
        <5>2. Owes("cancel", p, t) /\ tstate[t] \in Terminal
          BY <4>2, <5>1 DEF Owes, RowsInv, EndedOK
        <5>3. ~Owes("cancel", p, t)'
          BY <1>3 DEF Owes
        <5>4. "cancel" \in Kinds /\ p \in Debtors BY <1>0 DEF Kinds, Debtors
        <5>5. \A k \in Kinds, x \in Debtors : Owes(k, x, t)' => Owes(k, x, t) /\ (k # "cancel" \/ x # p)
          BY <4>1, <5>3
        <5> QED BY <5>1, <5>2, <5>4, <5>5, RowWritten
      <4>3. CASE ~(ptask[p] = t /\ out[p] # "running")
        <5>1. rows'[t] = rows[t]
          BY <1>0, <2>2, <4>3 DEF emit_cancel_audit_rows, scheduler_will_emit_finalize
        <5> QED BY <4>1, <5>1, RowUntouched
      <4> QED BY <4>2, <4>3
    <3> QED BY <1>2, <2>1, <3>1, ShrinkingDebts DEF RowsInv
  <2>3. CASE ~emit_cancel_audit_rows(p)
    <3>1. rows' = rows
      BY <2>3 DEF CancellerStep, cancel_begin, cancel_if_pending, cancel_sweep1, cancel_lock,
         cancel_update, cancel_sweep2, cancel_for_task, cancel_commit, Rollback
    <3> QED BY <1>2, <2>1, <3>1, QuietRows
  <2> QED BY <2>2, <2>3
<1>4. CASE pc'[p] = "audit"
  <2>1. cancel_commit(p) \/ cancel_if_pending(p)
    BY <1>0, <1>4 DEF CancellerStep, cancel_begin, cancel_sweep1, cancel_lock, cancel_update,
       cancel_sweep2, cancel_for_task, emit_cancel_audit_rows, Rollback, Return, Goto
  <2>2. PICK u \in Tasks : /\ ptask'[p] = u /\ tstate'[u] \in Terminal /\ rows' = rows
                           /\ out'[p] = tstate[u] /\ tstate[u] \in Live
    <3>1. CASE cancel_commit(p)
      <4>1. /\ ptask' = ptask /\ out' = out /\ rows' = rows /\ pc[p] = "commit"
            /\ tstate' = [tstate EXCEPT ![ptask[p]] = "cancelled"]
        BY <3>1 DEF cancel_commit
      <4>2. out[p] = tstate[ptask[p]] /\ tstate[ptask[p]] \in Live
        BY <4>1 DEF IInv, ProcInv, CancellerOK
      <4> QED BY <1>0, <4>1, <4>2 DEF Terminal
    <3>2. CASE cancel_if_pending(p)
      BY <1>0, <3>2, ConstantsAssumption DEF cancel_if_pending, Terminal, Live
    <3> QED BY <2>1, <3>1, <3>2
  <2>3. \A v \in Tasks : tstate[v] \in Terminal => tstate'[v] \in Terminal
    BY RowsMoveOn
  <2>4. \A a \in todo : pc[Sweeper] = "audit" =>
          astate'[a] # "absent" /\ atask'[a] = atask[a] /\ tstate'[atask[a]] \in Terminal
    BY <1>0, RowsMoveOn DEF RowsInv, EndedOK
  <2>5. EndedOK'
    <3>1. \A q \in Runners : pc'[q] = "audit" => ptask'[q] \notin L3Runs /\ tstate'[ptask'[q]] \in Terminal
      BY <1>0, <1>1, <2>3 DEF RowsInv, EndedOK, IInv, TypeInv, Typed
    <3>2. \A q \in Cancellers : pc'[q] = "audit" => tstate'[ptask'[q]] \in Terminal
      BY <1>0, <1>1, <2>2, <2>3 DEF RowsInv, EndedOK, IInv, TypeInv, Typed
    <3>3. pc'[Sweeper] = "audit" =>
            \A a \in todo' : astate'[a] # "absent" /\ atask'[a] \in Tasks /\ tstate'[atask'[a]] \in Terminal
      BY <1>0, <1>1, <2>4 DEF RowsInv, EndedOK
    <3>4. \A t \in boot' : tstate'[t] \in Terminal
      BY <1>0, <1>1, <2>3 DEF RowsInv, EndedOK
    <3> QED BY <3>1, <3>2, <3>3, <3>4 DEF EndedOK
  <2>6. ASSUME NEW t \in Tasks PROVE RowsOK(t)'
    <3>1. \A k \in Kinds, x \in Debtors : Owes(k, x, t)' /\ ~(k = "cancel" /\ x = p) => Owes(k, x, t)
      BY <1>0, <1>1, <2>4 DEF Owes
    <3>2. CASE u = t /\ tstate[u] # "running"
      <4>1. tstate[t] \notin Terminal \cup {"running"}
        BY <2>2, <3>2 DEF Live, Terminal
      <4>2. \A k \in Kinds, x \in Debtors : Owes(k, x, t)' => Owes(k, x, t) \/ (k = "cancel" /\ x = p)
        BY <3>1
      <4> QED BY <2>2, <4>1, <4>2, RowIncurred
    <3>3. CASE ~(u = t /\ tstate[u] # "running")
      <4>1. ~Owes("cancel", p, t)' BY <2>2, <3>3 DEF Owes
      <4>2. \A k \in Kinds, x \in Debtors : Owes(k, x, t)' => Owes(k, x, t)
        BY <3>1, <4>1
      <4> QED BY <2>2, <4>2, RowUntouched
    <3> QED BY <3>2, <3>3
  <2> QED BY <1>2, <2>5, <2>6 DEF RowsInv
<1> QED BY <1>3, <1>4

\* The ask sweep: its commit makes it the debtor of every task it failed.
LEMMA ExpireRows ==
  ASSUME IInv, RowsInv, [Next]_vars, expire_commit
  PROVE  RowsInv'
<1>0. /\ pc \in [Procs -> RunnerPCs \cup ResolverPCs \cup CancelPCs \cup SweeperPCs]
      /\ Sweeper \in Procs /\ Sweeper \notin Runners /\ Sweeper \notin Cancellers
      /\ pasks \in [Procs -> SUBSET Asks] /\ boot \in SUBSET Tasks
      /\ Runners \subseteq Procs /\ Cancellers \subseteq Procs
      /\ (\A r \in Runners : pc[r] # "idle" => ptask[r] \in Tasks)
      /\ \A q \in Cancellers : pc[q] # "idle" => ptask[q] \in Tasks
  BY ConstantsAssumption DEF IInv, TypeInv, TypeOK, Typed, Procs
<1>1. /\ pc[Sweeper] = "failtasks" /\ pc'[Sweeper] = "audit" /\ todo' = expired_asks
      /\ boot' = boot /\ daemon' = daemon /\ rows' = rows /\ ptask' = ptask /\ out' = out
      /\ atask' = atask /\ tstate' = [t \in Tasks |-> expired_task_state(t)]
      /\ \A q \in Procs \ {Sweeper} : pc'[q] = pc[q]
  BY <1>0 DEF expire_commit, Goto
<1>2. \A a \in expired_asks :
        /\ a \in Asks /\ astate[a] = "pending" /\ atask[a] \in Tasks
        /\ tstate[atask[a]] = "awaiting_operator" /\ tlock[atask[a]] = Sweeper
  BY <1>0 DEF expired_asks, IInv, ProcInv, SweeperOK, CoupledInv
<1>3. \A a \in expired_asks : astate'[a] # "absent" /\ tstate'[atask[a]] \in Terminal
  BY <1>1, <1>2, RowsMoveOn DEF expired_task_state, Terminal
<1>4. \A v \in Tasks : tstate[v] \in Terminal => tstate'[v] \in Terminal
  BY RowsMoveOn
<1>5. BootOK' BY <1>0, <1>1 DEF RowsInv, BootOK
<1>6. EndedOK'
  BY <1>0, <1>1, <1>2, <1>3, <1>4 DEF RowsInv, EndedOK
<1>7. ASSUME NEW t \in Tasks PROVE RowsOK(t)'
  <2>1. \A k \in Kinds, x \in Debtors :
          Owes(k, x, t)' => Owes(k, x, t) \/ (k = "sweep" /\ x \in expired_asks /\ atask[x] = t)
    BY <1>0, <1>1 DEF Owes
  <2>2. CASE \E a \in expired_asks : atask[a] = t
    <3>1. PICK a \in expired_asks : atask[a] = t BY <2>2
    <3>2. \A x \in expired_asks : atask[x] = t => x = a
      BY <1>2, <3>1 DEF IInv, CoupledInv
    <3>3. \A k \in Kinds, x \in Debtors : Owes(k, x, t)' => Owes(k, x, t) \/ (k = "sweep" /\ x = a)
      BY <2>1, <3>2
    <3>4. tstate[t] \notin Terminal \cup {"running"} BY <1>2, <3>1 DEF Terminal
    <3>5. rows'[t] = rows[t] BY <1>1
    <3> QED BY <3>3, <3>4, <3>5, RowIncurred
  <2>3. CASE ~\E a \in expired_asks : atask[a] = t
    <3>1. \A k \in Kinds, x \in Debtors : Owes(k, x, t)' => Owes(k, x, t)
      BY <2>1, <2>3
    <3> QED BY <1>1, <3>1, RowUntouched
  <2> QED BY <2>2, <2>3
<1> QED BY <1>5, <1>6, <1>7 DEF RowsInv

\* ... which emit_expired_task_rows pays one after the other.
LEMMA SweeperRows ==
  ASSUME IInv, RowsInv, [Next]_vars, SweeperStep
  PROVE  RowsInv'
<1>0. /\ pc \in [Procs -> RunnerPCs \cup ResolverPCs \cup CancelPCs \cup SweeperPCs]
      /\ Sweeper \in Procs /\ Sweeper \notin Runners /\ Sweeper \notin Cancellers
      /\ Runners \subseteq Procs /\ Cancellers \subseteq Procs
      /\ rows \in [Tasks -> 0..RowCap] /\ todo \in SUBSET Asks
  BY ConstantsAssumption DEF IInv, TypeInv, TypeOK, Procs
<1>1. CASE expire_commit
  BY <1>1, ExpireRows
<1>2. CASE expire_begin \/ expire_lock \/ expire_updated \/ expire_fail
  <2>1. /\ pc'[Sweeper] # "audit" /\ UNCHANGED <<rows, boot, daemon, ptask, out>>
        /\ \A q \in Procs \ {Sweeper} : pc'[q] = pc[q]
    BY <1>0, <1>2 DEF expire_begin, expire_lock, expire_updated, expire_fail, Goto
  <2>2. Shrinks /\ BootOK'
    BY <1>0, <2>1 DEF Shrinks, RowsInv, BootOK
  <2> QED BY <2>1, <2>2, QuietRows
<1>3. CASE emit_expired_task_rows
  <2>1. /\ pc[Sweeper] = "audit" /\ UNCHANGED <<boot, daemon, ptask, out, atask>>
        /\ \A q \in Procs \ {Sweeper} : pc'[q] = pc[q]
        /\ todo' \subseteq todo /\ pc'[Sweeper] \in {"audit", "idle"}
    BY <1>0, <1>3 DEF emit_expired_task_rows, Goto, tables
  <2>2. Shrinks /\ BootOK'
    BY <1>0, <2>1 DEF Shrinks, RowsInv, BootOK
  <2>3. CASE rows' = rows
    BY <2>2, <2>3, QuietRows
  <2>4. CASE rows' # rows
    <3>1. PICK a \in todo : todo' = todo \ {a} /\ rows' = [rows EXCEPT ![atask[a]] = Bump(@)]
      BY <1>3, <2>4 DEF emit_expired_task_rows
    <3>2. ASSUME NEW t \in Tasks PROVE RowsOK(t)'
      <4>1. \A k \in Kinds, x \in Debtors : Owes(k, x, t)' => Owes(k, x, t)
        BY <2>2, ShrinkingDebts
      <4>2. CASE atask[a] = t
        <5>1. rows'[t] = Bump(rows[t]) BY <1>0, <3>1, <4>2
        <5>2. Owes("sweep", a, t) /\ tstate[t] \in Terminal
          BY <2>1, <4>2 DEF Owes, RowsInv, EndedOK
        <5>3. ~Owes("sweep", a, t)' BY <3>1 DEF Owes
        <5>4. "sweep" \in Kinds /\ a \in Debtors BY <1>0 DEF Kinds, Debtors
        <5>5. \A k \in Kinds, x \in Debtors : Owes(k, x, t)' => Owes(k, x, t) /\ (k # "sweep" \/ x # a)
          BY <4>1, <5>3
        <5> QED BY <5>1, <5>2, <5>4, <5>5, RowWritten
      <4>3. CASE atask[a] # t
        <5>1. rows'[t] = rows[t] BY <1>0, <3>1, <4>3
        <5> QED BY <4>1, <5>1, RowUntouched
      <4> QED BY <4>2, <4>3
    <3> QED BY <2>2, <3>2, ShrinkingDebts DEF RowsInv
  <2> QED BY <2>3, <2>4
<1> QED BY <1>1, <1>2, <1>3 DEF SweeperStep

\* The startup sweep: the runners are gone, so it is the only debtor.
LEMMA BootRows ==
  ASSUME IInv, RowsInv, [Next]_vars, sweep_crashed \/ boot_audit
  PROVE  RowsInv'
<1>0. /\ rows \in [Tasks -> 0..RowCap] /\ boot \in SUBSET Tasks /\ todo \in SUBSET Asks
      /\ (\A r \in Runners : pc[r] # "idle" => ptask[r] \in Tasks)
      /\ \A q \in Cancellers : pc[q] # "idle" => ptask[q] \in Tasks
  BY DEF IInv, TypeInv, TypeOK, Typed
<1>1. UNCHANGED <<pc, ptask, out, todo, atask, astate>>
  BY DEF sweep_crashed, boot_audit, procs, tables
<1>2. CASE sweep_crashed
  <2> DEFINE S == {t \in Tasks : tstate[t] = "running" /\ lease[t] = "expired"}
  <2>1. /\ daemon = "down" /\ daemon' = "booting" /\ boot' = S /\ rows' = rows
        /\ tstate' = [t \in Tasks |-> IF t \in S THEN "crashed" ELSE tstate[t]]
    BY <1>2 DEF sweep_crashed
  <2>2. (\A r \in Runners : pc[r] = "idle") /\ boot = {}
    BY <2>1 DEF RowsInv, BootOK
  <2>3. BootOK' BY <1>1, <2>1, <2>2 DEF BootOK
  <2>4. \A v \in Tasks : tstate[v] \in Terminal => tstate'[v] \in Terminal
    BY RowsMoveOn
  <2>5. \A v \in boot' : v \in Tasks /\ tstate'[v] \in Terminal
    BY <2>1 DEF Terminal
  <2>6. EndedOK' BY <1>0, <1>1, <2>2, <2>4, <2>5 DEF RowsInv, EndedOK
  <2>7. ASSUME NEW t \in Tasks PROVE RowsOK(t)'
    <3>1. \A k \in Kinds, x \in Debtors :
            Owes(k, x, t)' => Owes(k, x, t) \/ (k = "boot" /\ x = t /\ t \in S)
      BY <1>1, <2>1 DEF Owes
    <3>2. CASE t \in S
      <4>1. tstate[t] \notin Terminal BY <3>2 DEF Terminal
      <4>2. \A k \in Kinds, x \in Debtors : ~Owes(k, x, t)
        BY <2>2, <4>1, OnlyItsRunner DEF Owes
      <4>3. \A k \in Kinds, x \in Debtors : Owes(k, x, t)' => Owes(k, x, t) \/ (k = "boot" /\ x = t)
        BY <3>1
      <4>4. rows'[t] = rows[t] BY <2>1
      <4> QED BY <4>1, <4>2, <4>3, <4>4, RowIncurred
    <3>3. CASE t \notin S
      BY <2>1, <3>1, <3>3, RowUntouched
    <3> QED BY <3>2, <3>3
  <2> QED BY <2>3, <2>6, <2>7 DEF RowsInv
<1>3. CASE boot_audit
  <2>1. /\ daemon = "booting" /\ boot' \subseteq boot
        /\ (daemon' = "booting" \/ (boot' = {} /\ daemon' = "up"))
    BY <1>3 DEF boot_audit
  <2>2. Shrinks /\ BootOK'
    BY <1>1, <2>1 DEF Shrinks, RowsInv, BootOK
  <2>3. CASE rows' = rows
    BY <2>2, <2>3, QuietRows
  <2>4. CASE rows' # rows
    <3>1. PICK u \in boot : boot' = boot \ {u} /\ rows' = [rows EXCEPT ![u] = Bump(@)]
      BY <1>3, <2>4 DEF boot_audit
    <3>2. ASSUME NEW t \in Tasks PROVE RowsOK(t)'
      <4>1. \A k \in Kinds, x \in Debtors : Owes(k, x, t)' => Owes(k, x, t)
        BY <2>2, ShrinkingDebts
      <4>2. CASE u = t
        <5>1. rows'[t] = Bump(rows[t]) BY <1>0, <3>1, <4>2
        <5>2. Owes("boot", t, t) /\ tstate[t] \in Terminal
          BY <3>1, <4>2 DEF Owes, RowsInv, EndedOK
        <5>3. ~Owes("boot", t, t)' BY <3>1, <4>2 DEF Owes
        <5>4. "boot" \in Kinds /\ t \in Debtors BY DEF Kinds, Debtors
        <5>5. \A k \in Kinds, x \in Debtors : Owes(k, x, t)' => Owes(k, x, t) /\ (k # "boot" \/ x # t)
          BY <4>1, <5>3
        <5> QED BY <5>1, <5>2, <5>4, <5>5, RowWritten
      <4>3. CASE u # t
        <5>1. rows'[t] = rows[t] BY <1>0, <3>1, <4>3
        <5> QED BY <4>1, <5>1, RowUntouched
      <4> QED BY <4>2, <4>3
    <3> QED BY <2>2, <3>2, ShrinkingDebts DEF RowsInv
  <2> QED BY <2>3, <2>4
<1> QED BY <1>2, <1>3

LEMMA RowsNext == "dberr" \notin Faults /\ IInv /\ RowsInv /\ [Next]_vars => RowsInv'
<1> SUFFICES ASSUME "dberr" \notin Faults, IInv, RowsInv, [Next]_vars PROVE RowsInv'
  OBVIOUS
<1>0. /\ pc \in [Procs -> RunnerPCs \cup ResolverPCs \cup CancelPCs \cup SweeperPCs]
      /\ ptask \in [Procs -> Tasks \cup {NoTask}]
      /\ out \in [Procs -> TaskStates \cup Choices \cup {"none"}]
      /\ Sweeper \in Procs /\ Runners \subseteq Procs /\ Cancellers \subseteq Procs
  BY DEF IInv, TypeInv, TypeOK, Procs
<1>1. ASSUME UNCHANGED <<procs, rows, boot, daemon>> PROVE RowsInv'
  <2>1. Shrinks /\ BootOK' BY <1>1 DEF procs, Shrinks, RowsInv, BootOK
  <2> QED BY <1>1, <2>1, QuietRows
<1>2. ASSUME NEW p \in Procs, p \notin Runners, UNCHANGED <<rows, boot, daemon>>,
             pc'[p] # "audit", p = Sweeper \/ todo' = todo,
             \A q \in Procs \ {p} : pc'[q] = pc[q] /\ ptask'[q] = ptask[q] /\ out'[q] = out[q]
      PROVE  RowsInv'
  <2>1. Shrinks /\ BootOK' BY <1>0, <1>2 DEF Shrinks, RowsInv, BootOK
  <2> QED BY <1>2, <2>1, QuietRows
<1>3. ASSUME NEW p \in Resolvers, resolve_begin(p) \/ ResolverStep(p) PROVE RowsInv'
  <2>1. p \in Procs /\ p \notin Runners BY ConstantsAssumption DEF Procs
  <2>2. /\ UNCHANGED <<rows, boot, daemon>> /\ todo' = todo /\ pc'[p] # "audit"
        /\ \A q \in Procs \ {p} : pc'[q] = pc[q] /\ ptask'[q] = ptask[q] /\ out'[q] = out[q]
    BY <1>0, <1>3, <2>1 DEF resolve_begin, ResolverStep, resolve_update, resolve_resume, resolve_commit,
       Rollback, Return, Goto
  <2> QED BY <1>2, <2>1, <2>2
<1>4. ASSUME NEW p \in Procs, deadlock_victim(p) PROVE RowsInv'
  <2>1. /\ p \notin Runners /\ UNCHANGED <<rows, boot, daemon>> /\ pc'[p] = "idle"
        /\ p = Sweeper \/ todo' = todo
        /\ \A q \in Procs \ {p} : pc'[q] = pc[q] /\ ptask'[q] = ptask[q] /\ out'[q] = out[q]
    BY <1>0, <1>4 DEF deadlock_victim, Rollback, Return, Goto
  <2> QED BY <1>2, <2>1
<1>5. CASE daemon_crash
  <2>1. /\ boot' = {} /\ rows' = rows /\ pc'[Sweeper] = "idle"
        /\ \A r \in Runners : pc'[r] = "idle"
    BY <1>0, <1>5 DEF daemon_crash, DaemonProcs
  <2>2. \A p \in Cancellers : pc'[p] = pc[p] /\ ptask'[p] = ptask[p] /\ out'[p] = out[p]
    BY <1>0, <1>5, ConstantsAssumption DEF daemon_crash, DaemonProcs
  <2>3. Shrinks /\ BootOK' BY <2>1, <2>2 DEF Shrinks, BootOK
  <2> QED BY <2>1, <2>3, QuietRows
<1>6. CASE insert_pending \/ mark_failed_running \/ lease_passes \/ \E a \in Asks : deadline_passes(a)
  BY <1>1, <1>6 DEF insert_pending, mark_failed_running, lease_passes, deadline_passes
<1>7. CASE UNCHANGED vars
  BY <1>1, <1>7 DEF vars
<1>8. ASSUME NEW r \in Runners, RunnerStep(r) \/ raise_error(r) \/ finalize_error(r) PROVE RowsInv'
  BY <1>8, RunnerRows DEF raise_error, finalize_error
<1>9. ASSUME NEW p \in Procs PROVE ~abort(p)
  BY DEF abort
<1> QED BY <1>3, <1>4, <1>5, <1>6, <1>7, <1>8, <1>9, CancellerRows, SweeperRows, BootRows DEF Next

\* No interleaving of run_one's write_finalize_row, cancel_and_audit, the ask
\* sweep's emit_expired_task_rows and the startup sweep's rows, with crashes of
\* the daemon anywhere, writes two task.finalize rows for one task, as long as
\* the database answers every statement.
THEOREM OneRowPerTask == ("dberr" \notin Faults) => (Spec => []FinalizedOnce)
<1> SUFFICES ASSUME "dberr" \notin Faults PROVE Spec => []FinalizedOnce
  OBVIOUS
<1>1. Init => RowsInv
  <2> SUFFICES ASSUME Init PROVE RowsInv
    OBVIOUS
  <2>1. /\ \A p \in Procs : pc[p] = "idle"
        /\ boot = {} /\ daemon = "up" /\ \A t \in Tasks : rows[t] = 0
    BY DEF Init
  <2>2. \A k, x : \A t \in Tasks : ~Owes(k, x, t)
    BY <2>1 DEF Owes, Procs
  <2> QED BY <2>1, <2>2 DEF RowsInv, RowsOK, EndedOK, BootOK, Procs
<1>2. IInv /\ RowsInv /\ [Next]_vars => RowsInv'
  BY RowsNext
<1>3. RowsInv => FinalizedOnce
  BY DEF RowsInv, RowsOK, FinalizedOnce
<1> QED BY <1>1, <1>2, <1>3, IInvAlways, PTL DEF Spec
=============================================================================
