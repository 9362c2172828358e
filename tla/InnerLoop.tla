----------------------------- MODULE InnerLoop -----------------------------
(***************************************************************************)
(* One task through the planner's inner loop, over all the runs that       *)
(* suspensions on operator asks cut it into:                               *)
(* core/src/scheduler/inner_loop.rs (run_to_terminal), inner_loop/         *)
(* execute.rs, llm_failure.rs, ceiling.rs and floor.rs, runner/            *)
(* task_exec.rs (run_one) and asks/pure.rs.                                *)
(*                                                                         *)
(* The planner, the reviewer and the tools answer as they like; the        *)
(* operator cancels, fails, answers or lets a question time out between    *)
(* any two awaits of the loop.  The database is the committed state of the *)
(* task's row and its asks; TaskStore shows that its transitions are       *)
(* atomic.                                                                 *)
(*                                                                         *)
(* A plan is a record: what it is ("steps", "terminal" or "refused"), its  *)
(* number of steps, the class of their data, the ceiling it declares, the  *)
(* floor it requests and whether it invokes a skill.  A stored history is   *)
(* read back whole or, for whatever reason, not at all.                    *)
(***************************************************************************)
EXTENDS Integers, Sequences

CONSTANTS
  Plans,        \* the plans the planner can emit
  MaxPlans,     \* the lane's plan budget (or the payload's max_plans)
  MaxSteps,     \* MAX_STEPS_PER_PLAN
  SkillSizes,   \* the numbers of steps the pinned skills have
  PayloadFloor, \* the floor run_one starts from: the producer's, or what the
                \* conversation's earlier turns raise it to
  HasDeadline,  \* the fast lane has a time ceiling, the long lane none
  MaxFaults,    \* bound: how often the database answers with an error
  MaxAsks       \* bound: how often the reviewer may send a task to the operator

NoCeiling == -1   \* data_ceiling omitted
NoRequest == -1   \* floor_request absent
Classes == 0..3   \* DataClass::rank
NoPlan == [what |-> "none"]
NoAsk == [plan |-> NoPlan]

Shape == [what : {"steps", "terminal", "refused"}, n : Nat, cls : Classes,
          ceil : Classes \cup {NoCeiling}, req : Classes \cup {NoRequest},
          invoke : BOOLEAN]

ASSUME LoopAssumption ==
  /\ Plans \subseteq Shape /\ SkillSizes \subseteq Nat
  /\ MaxPlans \in Nat /\ MaxSteps \in Nat /\ MaxAsks \in Nat
  /\ PayloadFloor \in Classes /\ HasDeadline \in BOOLEAN /\ MaxFaults \in Nat

VARIABLES
  state,      \* tasks.state
  column,     \* tasks.plan_count
  answers,    \* the resolved asks, oldest first: plan digest, choice, history
  open,       \* the pending ask, or NoAsk
  pc,         \* where the run is
  count,      \* ctx.plan_count
  limit,      \* ctx.max_plans
  timeup,     \* the run's deadline is behind
  floor,      \* ctx.classification_floor
  history,    \* ctx.plans
  gathered,   \* st.gathered
  synth_turn, synth_attempted, force_synth,
  plan,       \* the plan under review, as it would execute
  verdict,    \* the reviewer's verdict on it
  idx,        \* its steps dispatched so far
  anyok,      \* one of them succeeded
  outcome,    \* the run's outcome
  after,      \* history: steps dispatched since the operator's cancel
  synths,     \* history: forced-synthesis turns of this run
  total,      \* history: plans formulated for this task, over all its runs
  executed,   \* history: plans executed for this task, over all its runs
  forgotten,  \* history: those executed when a resumed run last found a stored
              \* history it could not read
  faults      \* database errors so far

db    == <<state, column, answers, open>>
turn  == <<synth_turn, synth_attempted, force_synth>>
exec  == <<plan, verdict, idx, anyok>>
ctx   == <<count, limit, timeup, floor, history, gathered>>
ghost == <<after, synths, total, executed, forgotten, faults>>
vars  == <<db, pc, ctx, turn, exec, outcome, ghost>>

LiveStates == {"pending", "running", "awaiting_operator"}
\* The pc values at which run_one has the task.
Active == {"claimed", "top", "formulate", "review", "step", "dispatch", "finished"}

-----------------------------------------------------------------------------
(* Pure functions of the code. *)

\* resume_budget: a resumed run gets a fresh allowance on top of the column.
resume_budget(db_plan_count) == <<db_plan_count, db_plan_count + MaxPlans>>

\* TerminalCeilings::exhausted; and off by one.
exhausted_late == count > limit \/ timeup
exhausted == count >= limit \/ timeup

\* Whether this turn is the forced synthesis.
synthesis_due == (exhausted \/ force_synth) /\ gathered /\ ~synth_attempted

\* should_force_synthesis; and one that never gives up.
should_force_synthesis_always(timed_out) == timed_out /\ gathered
should_force_synthesis(timed_out) == timed_out /\ gathered /\ ~synth_attempted

resolve_data_ceiling(p, f) == IF p.ceil = NoCeiling THEN [p EXCEPT !.ceil = f] ELSE p

\* apply_floor_raise: never lowers.
raised_floor(p) == IF p.req > floor THEN p.req ELSE floor

\* screen_plan_for_classification_violations on a plan with its ceiling: I1, I2
\* and I3; and without I3.
floor_violation_only(p, f) == p.ceil < f \/ (p.n > 0 /\ p.cls < f)
classification_violation(p, f) ==
  \/ p.ceil < f
  \/ p.n > 0 /\ p.cls < f
  \/ p.n > 0 /\ p.cls > p.ceil

\* decide: an approval binds to the digest of the plan it was given for; the
\* digest covers every field that acts, so it is the plan itself here.
approves_anything(a, p) == a.choice = "approve"
decide(a, p) == a.choice = "approve" /\ a.plan = p
approved(p) == \E i \in DOMAIN answers : decide(answers[i], p)

\* pre_plan_outcome: a denial binds to the task, whichever plan it was for.
pre_plan_denied == \E i \in DOMAIN answers : answers[i].choice = "deny"

\* validate_invoke: a directive beside steps of the plan's own, or on a terminal
\* plan, is malformed.  (One beside an l3_skill is among invoke_refused's.)
validate_invoke(p) == p.n = 0 /\ p.what # "terminal"

\* What goes to review: a skill's steps replace the plan's, each stamped with the
\* plan's resolved ceiling.
expand_invoke_skill(p) ==
  IF ~p.invoke THEN {p}
  ELSE {[p EXCEPT !.n = k, !.cls = p.ceil] : k \in {j \in SkillSizes : validate_invoke(p)}}

\* The history of the newest resolved ask, all of it, or none when it is missing
\* or any entry of it does not decode; and one that keeps the entries before.
restored_partly(readable) ==
  IF answers = <<>> THEN <<>>
  ELSE LET h == answers[Len(answers)].history IN
       IF readable \/ h = <<>> THEN h ELSE SubSeq(h, 1, Len(h) - 1)
restore_resume_state(readable) ==
  IF answers = <<>> \/ ~readable THEN <<>> ELSE answers[Len(answers)].history

-----------------------------------------------------------------------------
Init ==
  /\ state = "pending" /\ column = 0 /\ answers = <<>> /\ open = NoAsk
  /\ pc = "queued"
  /\ count = 0 /\ limit = 0 /\ timeup = FALSE /\ floor = PayloadFloor
  /\ history = <<>> /\ gathered = FALSE
  /\ synth_turn = FALSE /\ synth_attempted = FALSE /\ force_synth = FALSE
  /\ plan = NoPlan /\ verdict = "none" /\ idx = 0 /\ anyok = FALSE
  /\ outcome = "none"
  /\ after = 0 /\ synths = 0 /\ total = 0 /\ executed = <<>> /\ forgotten = <<>>
  /\ faults = 0

Finish(o) ==
  /\ outcome' = o /\ pc' = "finished"

claim_one ==
  /\ pc = "queued" /\ state = "pending"
  /\ state' = "running" /\ pc' = "claimed"
  /\ UNCHANGED <<column, answers, open, ctx, turn, exec, outcome, ghost>>

\* run_one up to the loop: the resolved asks are read, a denial ends the run,
\* and the context is rebuilt from the payload, the column and the newest ask.
run_one ==
  /\ pc = "claimed"
  /\ IF pre_plan_denied
     THEN Finish("blocked") /\ UNCHANGED <<ctx, turn, exec, synths, forgotten>>
     ELSE /\ pc' = "top" /\ outcome' = "none"
          /\ count' = resume_budget(column)[1] /\ limit' = resume_budget(column)[2]
          /\ timeup' = FALSE /\ floor' = PayloadFloor
          /\ \E readable \in BOOLEAN :
               /\ history' = restore_resume_state(readable)
               /\ forgotten' = IF readable THEN forgotten ELSE executed
          /\ gathered' = FALSE
          /\ synth_turn' = FALSE /\ synth_attempted' = FALSE /\ force_synth' = FALSE
          /\ plan' = NoPlan /\ verdict' = "none" /\ idx' = 0 /\ anyok' = FALSE
          /\ synths' = 0
  /\ UNCHANGED <<db, after, total, executed, faults>>

\* resolved_for_task, an observe_state poll or an audit insert the loop waits
\* for fails: the run ends 'failed'.
db_error ==
  /\ faults < MaxFaults /\ faults' = faults + 1
  /\ pc \in {"claimed", "top", "review", "step"}
  /\ Finish("failed")
  /\ UNCHANGED <<db, ctx, turn, exec, after, synths, total, executed, forgotten>>

-----------------------------------------------------------------------------
(* run_to_terminal. *)

\* The top of the loop: the cancel poll, the two ceilings, and whether this
\* turn is the forced synthesis.
loop_top ==
  LET synth == synthesis_due IN
  /\ pc = "top"
  /\ IF state = "cancelled"
     THEN Finish("cancelled") /\ UNCHANGED <<turn, synths>>
     ELSE IF exhausted /\ ~synth
     THEN Finish("failed") /\ UNCHANGED <<turn, synths>>
     ELSE /\ pc' = "formulate" /\ outcome' = outcome
          /\ synth_turn' = synth
          /\ synth_attempted' = (synth_attempted \/ synth)
          /\ synths' = IF synth THEN synths + 1 ELSE synths
          /\ UNCHANGED force_synth
  /\ UNCHANGED <<db, ctx, exec, after, total, executed, forgotten, faults>>

\* formulate_turn returns a plan: it is counted, and mirrored to the column
\* (increment_plan_count) while the row is still running.  A mirror that fails
\* is only logged.
formulate_planned ==
  /\ pc = "formulate"
  /\ plan' \in Plans
  /\ count' = count + 1 /\ total' = total + 1
  /\ \/ column' = (IF state = "running" THEN count + 1 ELSE column) /\ faults' = faults
     \/ column' = column /\ faults < MaxFaults /\ faults' = faults + 1
  /\ pc' = "review"
  /\ UNCHANGED <<state, answers, open, limit, timeup, floor, history, gathered,
                 turn, verdict, idx, anyok, outcome, after, synths, executed, forgotten>>

\* It fails, after its one retry: out of time or tokens the run may spend its
\* synthesis turn; any other failure ends it.
formulate_failed ==
  /\ pc = "formulate"
  /\ \E timed_out \in BOOLEAN :
       IF should_force_synthesis(timed_out)
       THEN force_synth' = TRUE /\ pc' = "top" /\ outcome' = outcome
       ELSE Finish("failed") /\ UNCHANGED force_synth
  /\ UNCHANGED <<db, ctx, synth_turn, synth_attempted, exec, ghost>>

-----------------------------------------------------------------------------
(* review_and_dispatch. *)

\* What follows a verdict that lets the plan proceed.
proceed(p) ==
  \/ p.what = "refused" /\ Finish("refused") /\ UNCHANGED <<idx, anyok>>
  \/ p.what = "terminal" /\ Finish("completed") /\ UNCHANGED <<idx, anyok>>
  \/ /\ p.what = "steps" /\ (synth_turn \/ p.n > MaxSteps)
     /\ Finish("failed") /\ UNCHANGED <<idx, anyok>>
  \/ /\ p.what = "steps" /\ ~synth_turn /\ p.n <= MaxSteps
     /\ pc' = "step" /\ idx' = 0 /\ anyok' = FALSE /\ outcome' = outcome

\* raise_and_suspend: the ask carries the plan's digest and the history.
raise_and_suspend(p) ==
  IF state = "running"
  THEN /\ state' = "awaiting_operator"
       /\ open' = [plan |-> p, history |-> history]
       /\ pc' = "suspended" /\ outcome' = "awaiting_operator"
  ELSE Finish("failed") /\ UNCHANGED <<state, open>>

\* An invoke_skill directive that is malformed, names no pinned skill or is
\* refused by the trust gate sends the planner back.
invoke_refused ==
  /\ pc = "review" /\ plan.invoke
  /\ floor' = raised_floor(plan)
  /\ pc' = "top"
  /\ UNCHANGED <<db, count, limit, timeup, history, gathered, turn, exec, outcome,
                 ghost>>

review(v) ==
  LET f == raised_floor(plan) IN
  /\ pc = "review"
  /\ floor' = f
  /\ \E p \in expand_invoke_skill(resolve_data_ceiling(plan, f)) :
       LET stands == p.what = "refused" IN   \* a refusal survives Block and Escalate
       /\ classification_violation(p, f) => v \in {"block", "constitutional"}
       /\ plan' = p /\ verdict' = v
       /\ CASE v = "constitutional" ->
                 Finish("blocked") /\ UNCHANGED <<state, open, idx, anyok>>
            [] v = "block" /\ ~stands ->
                 pc' = "top" /\ outcome' = outcome /\ UNCHANGED <<state, open, idx, anyok>>
            [] v = "escalate" /\ ~stands /\ ~approved(p) ->
                 /\ Len(answers) < MaxAsks
                 /\ raise_and_suspend(p) /\ UNCHANGED <<idx, anyok>>
            [] OTHER -> proceed(p) /\ UNCHANGED <<state, open>>
  /\ UNCHANGED <<column, answers, count, limit, timeup, history, gathered, turn,
                 ghost>>

\* The poll before a step; and a loop that polls only before the first.
step_poll_first_only ==
  /\ pc = "step" /\ idx < plan.n
  /\ IF state = "cancelled" /\ idx = 0 THEN Finish("cancelled")
     ELSE pc' = "dispatch" /\ outcome' = outcome
  /\ UNCHANGED <<db, ctx, turn, exec, ghost>>
step_poll ==
  /\ pc = "step" /\ idx < plan.n
  /\ IF state = "cancelled" THEN Finish("cancelled")
     ELSE pc' = "dispatch" /\ outcome' = outcome
  /\ UNCHANGED <<db, ctx, turn, exec, ghost>>

\* dispatch_step: an error ends the plan's steps.
dispatch_step(ok) ==
  /\ pc = "dispatch"
  /\ idx' = IF ok THEN idx + 1 ELSE plan.n
  /\ anyok' = (anyok \/ ok)
  /\ after' = IF state = "cancelled" THEN after + 1 ELSE after
  /\ pc' = "step"
  /\ UNCHANGED <<db, ctx, turn, plan, verdict, outcome, synths, total, executed, forgotten,
                 faults>>

\* The plan's record joins the history and the loop goes on.
dispatched ==
  /\ pc = "step" /\ idx = plan.n
  /\ history' = Append(history, plan) /\ executed' = Append(executed, plan)
  /\ gathered' = (gathered \/ anyok)
  /\ pc' = "top"
  /\ UNCHANGED <<db, count, limit, timeup, floor, turn, exec, outcome, after, synths,
                 total, forgotten, faults>>

\* drain_lane: finalize, a no-op unless the row is still running.
finalize ==
  /\ pc = "finished"
  /\ state' = IF state = "running" THEN outcome ELSE state
  /\ pc' = "over"
  /\ UNCHANGED <<column, answers, open, ctx, turn, exec, outcome, ghost>>

-----------------------------------------------------------------------------
(* The operator and time. *)

\* mark_cancelled: from any live state, with the open ask.
mark_cancelled ==
  /\ state \in LiveStates
  /\ state' = "cancelled" /\ open' = NoAsk
  /\ pc' = IF pc \in {"queued", "suspended"} THEN "over" ELSE pc
  /\ UNCHANGED <<column, answers, ctx, turn, exec, outcome, ghost>>

\* mark_failed_running: the loop is not told.
mark_failed_running ==
  /\ state = "running"
  /\ state' = "crashed"
  /\ UNCHANGED <<column, answers, open, pc, ctx, turn, exec, outcome, ghost>>

\* resolve: the answer is recorded and the task queued again.
resolve(c) ==
  /\ state = "awaiting_operator"
  /\ answers' = Append(answers, [plan |-> open.plan, choice |-> c,
                                 history |-> open.history])
  /\ open' = NoAsk /\ state' = "pending" /\ pc' = "queued"
  /\ UNCHANGED <<column, ctx, turn, exec, outcome, ghost>>

expire_due ==
  /\ state = "awaiting_operator"
  /\ open' = NoAsk /\ state' = "failed" /\ pc' = "over"
  /\ UNCHANGED <<column, answers, ctx, turn, exec, outcome, ghost>>

deadline_passes ==
  /\ HasDeadline /\ pc \in Active /\ ~timeup
  /\ timeup' = TRUE
  /\ UNCHANGED <<db, pc, count, limit, floor, history, gathered, turn, exec, outcome, ghost>>

-----------------------------------------------------------------------------
\* An advisory verdict proceeds as an approval does, with a note for the planner.
Verdicts == {"approve", "block", "escalate", "constitutional"}

Run ==
  \/ claim_one \/ run_one \/ loop_top
  \/ formulate_planned \/ formulate_failed
  \/ invoke_refused \/ \E v \in Verdicts : review(v)
  \/ step_poll \/ \E ok \in BOOLEAN : dispatch_step(ok)
  \/ dispatched \/ finalize

Operator ==
  \/ mark_cancelled \/ mark_failed_running
  \/ \E c \in {"approve", "deny"} : resolve(c)

Next == Run \/ db_error \/ Operator \/ expire_due \/ deadline_passes

Spec == Init /\ [][Next]_vars

\* The loop runs on and an unanswered ask times out; the operator and the
\* clock of the time ceiling are under no obligation.
FairSpec == Spec /\ WF_vars(Run) /\ WF_vars(expire_due)

-----------------------------------------------------------------------------
(* Properties. *)

\* The types of every variable.
TypeOK ==
  /\ state \in LiveStates \cup {"completed", "failed", "cancelled", "blocked",
                                "refused", "crashed"}
  /\ column \in Nat /\ count \in Nat /\ limit \in Nat
  /\ \A i \in DOMAIN answers : answers[i].plan \in Shape
                            /\ answers[i].choice \in {"approve", "deny"}
  /\ open = NoAsk \/ open.plan \in Shape
  /\ pc \in Active \cup {"queued", "suspended", "over"}
  /\ timeup \in BOOLEAN /\ gathered \in BOOLEAN /\ anyok \in BOOLEAN
  /\ floor \in Classes
  /\ \A i \in DOMAIN history : history[i] \in Shape
  /\ {synth_turn, synth_attempted, force_synth} \subseteq BOOLEAN
  /\ plan \in Shape \cup {NoPlan} /\ verdict \in Verdicts \cup {"none"}
  /\ idx \in Nat /\ after \in Nat /\ synths \in Nat /\ total \in Nat

\* The approve-P-run-P' gap is closed: a step of a plan the reviewer escalated
\* runs only if the operator approved that very plan, in whatever run of the
\* task that was, and nothing of a task runs once the operator has denied it.
StepsAreSanctioned ==
  pc = "dispatch" =>
    /\ verdict = "escalate" => \E i \in DOMAIN answers :
         answers[i].choice = "approve" /\ answers[i].plan = plan
    /\ \A i \in DOMAIN answers : answers[i].choice # "deny"

\* A step whose data class lies outside [floor, ceiling] is never dispatched.
ClassesRespected ==
  pc = "dispatch" => floor <= plan.cls /\ plan.cls <= plan.ceil

\* After an operator's cancel at most the one step that had passed its poll is
\* still dispatched.
CancelStopsDispatch == after <= 1

\* Each further allowance of plans costs one human answer: a run is at most
\* MaxPlans plans and one synthesis turn, whatever was counted before it, and
\* that turn dispatches nothing.
BudgetPerAnswer ==
  /\ total <= (MaxPlans + 1) * (Len(answers) + 1)
  /\ synths <= 1 /\ (pc \in {"step", "dispatch"} => ~synth_turn)

\* A suspension keeps what the task was.  The state has its types.  The planner
\* is shown everything executed since a stored history last failed to read, in
\* order and without a gap, and so all that was ever executed if none did
\* (asks/pure.rs:192-201: all or nothing, at the price of a replay).  While the
\* task is live plan_count counts every plan of all its runs, a mirror lost to a
\* database error apart.
HistoryKept ==
  /\ TypeOK
  /\ pc \in {"top", "formulate", "review", "step", "dispatch"} =>
       executed = forgotten \o history
  /\ state \in LiveStates => column <= total /\ total <= column + faults

\* Every run ends by itself, in the long lane too, where no clock stops it.
EveryRunEnds == pc = "claimed" ~> pc \in {"over", "suspended"}
=============================================================================
