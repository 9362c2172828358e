--------------------------- MODULE InnerLoopProofs ---------------------------
(* What one task's inner loop may do over all its runs, for any plans, any     *)
(* budget, any number of asks and of database errors.                          *)
EXTENDS InnerLoop, TLAPS

(* The inductive invariant. *)

\* Inside run_to_terminal.
InRun == {"top", "formulate", "review", "step", "dispatch"}

Answer == [plan : Shape, choice : {"approve", "deny"}, history : Seq(Shape)]

Question == [plan : Shape, history : Seq(Shape)]

\* The types, those of the sequences and of the history variables included.
Typed ==
  /\ TypeOK
  /\ answers \in Seq(Answer) /\ history \in Seq(Shape) /\ executed \in Seq(Shape)
  /\ forgotten \in Seq(Shape) /\ open \in Question \cup {NoAsk} /\ faults \in Nat

\* The row's state and the place of the run: only a suspended task has an ask
\* to answer, so the answers stand still while a run goes on.
Phase ==
  /\ state = "pending" <=> pc = "queued"
  /\ state = "awaiting_operator" <=> pc = "suspended"
  /\ state = "running" => pc \in Active
  /\ pc = "suspended" => open \in Question
  /\ pc = "finished" => outcome \in {"completed", "failed", "cancelled", "blocked", "refused"}

\* What the review of the plan in hand left behind it.
Reviewed ==
  /\ pc = "review" => plan \in Shape
  /\ pc \in {"step", "dispatch"} =>
       /\ plan \in Shape
       /\ plan.n > 0 => floor <= plan.cls /\ plan.cls <= plan.ceil
       /\ verdict = "escalate" => approved(plan)
       /\ ~synth_turn
  /\ pc = "dispatch" => idx < plan.n
  /\ pc \in InRun => ~pre_plan_denied

\* A step that runs on after the cancel had passed its poll before it.
Cancelled ==
  /\ after \in {0, 1} /\ (after = 1 => state = "cancelled")
  /\ pc = "dispatch" => after = 0

\* The history that this run has, or the next one starts from if it can be read,
\* is what was executed since one last could not.
Remembered ==
  /\ pc \in InRun => executed = forgotten \o history
  /\ pc = "suspended" => executed = forgotten \o open.history
  /\ pc \in {"queued", "claimed"} => executed = forgotten \o restore_resume_state(TRUE)

\* The counter in memory lags behind the plans by the mirrors lost, and so
\* does the column while the row is live.
Counted ==
  /\ pc \in InRun => count <= total /\ total <= count + faults
  /\ state \in LiveStates \/ pc = "claimed" => column <= total /\ total <= column + faults

\* The plans of the earlier runs were paid for by their answers, and this run
\* has formulated at most MaxPlans and one more.
Allowance == MaxPlans + 1

Budgeted ==
  /\ synths \in {0, 1}
  /\ pc \in InRun =>
       /\ synths = 1 => synth_attempted
       /\ count <= limit + synths
       /\ pc = "formulate" => count < limit + synths
       /\ total + limit <= Allowance * Len(answers) + MaxPlans + count
  /\ pc \in {"queued", "claimed"} => total <= Allowance * Len(answers)
  /\ total <= Allowance * (Len(answers) + 1)

LoopInv == Typed /\ Phase /\ Reviewed /\ Cancelled /\ Remembered /\ Counted /\ Budgeted

-----------------------------------------------------------------------------
\* Nothing shown beside what is forgotten: all is forgotten.
LEMMA ConcatNone == ASSUME NEW S, NEW s \in Seq(S) PROVE s \o <<>> = s
OBVIOUS

\* What is executed next joins the history and not what is forgotten.
LEMMA ConcatAppend ==
  \A s, t \in Seq(Shape) : \A e \in Shape : Append(s \o t, e) = s \o Append(t, e)
OBVIOUS

\* The task is queued, with nothing counted, executed or asked.
LEMMA LoopInit == Init => LoopInv
<1> SUFFICES ASSUME Init PROVE LoopInv
  OBVIOUS
<1>1. Typed
  <2>1. {synth_turn, synth_attempted, force_synth} \subseteq BOOLEAN
    BY Zenon DEF Init
  <2>2. /\ answers = <<>> /\ history = <<>> /\ executed = <<>> /\ forgotten = <<>>
        /\ open = NoAsk
    BY DEF Init
  <2>3. /\ answers \in Seq(Answer) /\ history \in Seq(Shape) /\ executed \in Seq(Shape)
        /\ forgotten \in Seq(Shape)
        /\ DOMAIN answers = {} /\ DOMAIN history = {}
    BY <2>2
  <2>4. QED
    BY <2>1, <2>2, <2>3, LoopAssumption DEF Init, Typed, TypeOK, LiveStates, Active
<1>2. Phase /\ Reviewed /\ Cancelled /\ Counted
  BY DEF Init, Phase, Reviewed, Cancelled, Counted, InRun, Active
<1>3. Remembered
  <2>1. /\ pc = "queued" /\ executed = <<>> /\ forgotten = <<>>
        /\ restore_resume_state(TRUE) = <<>> /\ <<>> \in Seq(Shape)
    BY DEF Init, restore_resume_state
  <2>2. <<>> \o <<>> = <<>>
    BY ConcatNone
  <2>3. QED
    BY <2>1, <2>2 DEF Remembered, InRun
<1>4. Budgeted
  BY LoopAssumption DEF Init, Budgeted, InRun, Allowance
<1>5. QED
  BY <1>1, <1>2, <1>3, <1>4 DEF LoopInv

\* The plan as it would execute is a plan, its ceiling resolved and its skill
\* expanded.
LEMMA Resolved ==
  ASSUME Typed, NEW p \in Shape, NEW f \in Classes, f = raised_floor(p)
  PROVE  /\ resolve_data_ceiling(p, f) \in Shape
         /\ expand_invoke_skill(resolve_data_ceiling(p, f)) \subseteq Shape
<1> DEFINE q == resolve_data_ceiling(p, f)
<1>1. q \in Shape
  BY DEF resolve_data_ceiling, Shape
<1>2. q.ceil \in Classes
  <2>1. CASE p.ceil = NoCeiling
    BY <2>1 DEF resolve_data_ceiling, Shape
  <2>2. CASE p.ceil # NoCeiling
    BY <2>2 DEF resolve_data_ceiling, Shape
  <2>3. QED
    BY <2>1, <2>2
<1> HIDE DEF q
<1>3. ASSUME NEW k \in SkillSizes PROVE [q EXCEPT !.n = k, !.cls = q.ceil] \in Shape
  BY <1>1, <1>2, LoopAssumption DEF Shape
<1>4. ASSUME NEW e \in expand_invoke_skill(q) PROVE e \in Shape
  <2>1. CASE ~q.invoke
    BY <1>1, <1>4, <2>1 DEF expand_invoke_skill
  <2>2. CASE q.invoke
    <3>1. PICK k \in SkillSizes : e = [q EXCEPT !.n = k, !.cls = q.ceil]
      BY <1>4, <2>2 DEF expand_invoke_skill
    <3>2. QED
      BY <1>3, <3>1
  <2>3. QED
    BY <2>1, <2>2
<1>5. QED
  BY <1>1, <1>4 DEF q

\* The floor is only raised, and stays a class.
LEMMA Raised == ASSUME Typed, NEW p \in Shape PROVE raised_floor(p) \in Classes
  BY DEF Typed, TypeOK, raised_floor, Shape, NoRequest, Classes

\* What a review does with the plan in hand: it ends the run, sends the planner
\* back, suspends the task on a question about this plan, or lets the steps of
\* a plan pass that is within its classes, and approved if it was escalated.
ReviewLooked(p, v) ==
  /\ pc = "review" /\ plan' = p /\ verdict' = v /\ floor' \in Classes
  /\ UNCHANGED <<column, answers, count, limit, timeup, history, gathered,
                 synth_turn, synth_attempted, force_synth, after, synths, total, executed, forgotten, faults>>

ReviewEnds ==
  /\ pc' = "finished" /\ outcome' \in {"completed", "failed", "blocked", "refused"}
  /\ UNCHANGED <<state, open, idx, anyok>>

ReviewSendsBack == pc' = "top" /\ UNCHANGED <<state, open, idx, anyok, outcome>>

ReviewAsks(p) ==
  /\ pc' = "suspended" /\ state = "running" /\ state' = "awaiting_operator"
  /\ open' = [plan |-> p, history |-> history] /\ outcome' = "awaiting_operator"
  /\ UNCHANGED <<idx, anyok>>

ReviewPasses(p, v) ==
  /\ pc' = "step" /\ ~synth_turn /\ idx' = 0 /\ anyok' = FALSE
  /\ p.n > 0 => floor' <= p.cls /\ p.cls <= p.ceil
  /\ v = "escalate" => approved(p)
  /\ UNCHANGED <<state, open, outcome>>

LEMMA ReviewCases ==
  ASSUME LoopInv, NEW v \in Verdicts, review(v)
  PROVE  \E p \in Shape :
    ReviewLooked(p, v) /\ (ReviewEnds \/ ReviewSendsBack \/ ReviewAsks(p) \/ ReviewPasses(p, v))
<1> USE DEF ReviewLooked, ReviewEnds, ReviewSendsBack, ReviewAsks, ReviewPasses
<1>1. pc = "review" /\ plan \in Shape
  BY DEF review, LoopInv, Reviewed
<1>2. PICK f \in Classes : f = raised_floor(plan)
  BY <1>1, Raised DEF LoopInv
<1>3. PICK p \in expand_invoke_skill(resolve_data_ceiling(plan, f)) :
        /\ classification_violation(p, f) => v \in {"block", "constitutional"}
        /\ plan' = p /\ verdict' = v
        /\ CASE v = "constitutional" ->
                  Finish("blocked") /\ UNCHANGED <<state, open, idx, anyok>>
             [] v = "block" /\ ~(p.what = "refused") ->
                  pc' = "top" /\ outcome' = outcome /\ UNCHANGED <<state, open, idx, anyok>>
             [] v = "escalate" /\ ~(p.what = "refused") /\ ~approved(p) ->
                  /\ Len(answers) < MaxAsks
                  /\ raise_and_suspend(p) /\ UNCHANGED <<idx, anyok>>
             [] OTHER -> proceed(p) /\ UNCHANGED <<state, open>>
  BY <1>2 DEF review
<1>4. p \in Shape
  BY <1>1, <1>2, <1>3, Resolved DEF LoopInv
<1>5. /\ floor' = f
      /\ UNCHANGED <<column, answers, count, limit, timeup, history, gathered,
                     synth_turn, synth_attempted, force_synth, after, synths, total, executed, forgotten, faults>>
  BY <1>2 DEF review, turn, ghost
<1>6. CASE v = "constitutional"
  BY <1>1, <1>2, <1>3, <1>4, <1>5, <1>6 DEF Finish
<1>7. CASE v = "block" /\ p.what # "refused"
  BY <1>1, <1>2, <1>3, <1>4, <1>5, <1>7
<1>8. CASE v = "escalate" /\ p.what # "refused" /\ ~approved(p)
  <2>1. raise_and_suspend(p) /\ UNCHANGED <<idx, anyok>>
    BY <1>3, <1>8
  <2>2. QED
    BY <1>1, <1>2, <1>3, <1>4, <1>5, <2>1 DEF raise_and_suspend, Finish
<1>9. CASE /\ v # "constitutional" /\ (v = "block" => p.what = "refused")
           /\ v = "escalate" => p.what = "refused" \/ approved(p)
  <2>1. proceed(p) /\ UNCHANGED <<state, open>>
    BY <1>3, <1>9
  <2>2. CASE p.what # "steps" \/ synth_turn \/ ~(p.n <= MaxSteps)
    BY <1>1, <1>2, <1>3, <1>4, <1>5, <2>1, <2>2, LoopAssumption DEF proceed, Finish, Shape
  <2>3. CASE p.what = "steps" /\ ~synth_turn /\ p.n <= MaxSteps
    <3>1. pc' = "step" /\ idx' = 0 /\ anyok' = FALSE /\ outcome' = outcome
      BY <1>4, <2>1, <2>3, LoopAssumption DEF proceed, Shape
    <3>2. p.n > 0 => f <= p.cls /\ p.cls <= p.ceil
      BY <1>3, <1>4, <1>9, <2>3 DEF classification_violation, Shape, Classes, NoCeiling
    <3>3. QED
      BY <1>1, <1>2, <1>3, <1>4, <1>5, <1>9, <2>1, <2>3, <3>1, <3>2
  <2>4. QED
    BY <2>2, <2>3
<1>10. QED
  BY <1>6, <1>7, <1>8, <1>9

\* The row and the run stay in step.
LEMMA PhaseStep == ASSUME LoopInv, [Next]_vars PROVE Phase'
<1> USE LoopAssumption DEF LoopInv, Typed, TypeOK, Phase, Active, LiveStates, Question, db,
      ctx, turn, exec, ghost
<1>1. CASE claim_one
  BY <1>1 DEF claim_one
<1>2. CASE run_one
  BY <1>2 DEF run_one, Finish
<1>3. CASE db_error
  BY <1>3 DEF db_error, Finish
<1>4. CASE loop_top
  BY <1>4 DEF loop_top, Finish
<1>5. CASE formulate_planned
  BY <1>5 DEF formulate_planned
<1>6. CASE formulate_failed
  BY <1>6 DEF formulate_failed, Finish
<1>7. CASE invoke_refused
  BY <1>7 DEF invoke_refused
<1>8. ASSUME NEW v \in Verdicts, review(v) PROVE Phase'
  <2>1. PICK p \in Shape :
          ReviewLooked(p, v) /\ (ReviewEnds \/ ReviewSendsBack \/ ReviewAsks(p) \/ ReviewPasses(p, v))
    BY <1>8, ReviewCases
  <2>2. CASE ReviewEnds \/ ReviewSendsBack
    BY <2>1, <2>2 DEF ReviewLooked, ReviewEnds, ReviewSendsBack
  <2>3. CASE ReviewAsks(p)
    BY <2>1, <2>3 DEF ReviewLooked, ReviewAsks, Question
  <2>4. CASE ReviewPasses(p, v)
    BY <2>1, <2>4 DEF ReviewLooked, ReviewPasses
  <2>5. QED
    BY <2>1, <2>2, <2>3, <2>4
<1>9. CASE step_poll
  BY <1>9 DEF step_poll, Finish
<1>10. ASSUME NEW ok \in BOOLEAN, dispatch_step(ok) PROVE Phase'
  BY <1>10 DEF dispatch_step
<1>11. CASE dispatched
  BY <1>11 DEF dispatched
<1>12. CASE finalize
  BY <1>12 DEF finalize
<1>13. CASE mark_cancelled
  BY <1>13 DEF mark_cancelled
<1>14. CASE mark_failed_running
  BY <1>14 DEF mark_failed_running
<1>15. ASSUME NEW ch \in {"approve", "deny"}, resolve(ch) PROVE Phase'
  BY <1>15 DEF resolve
<1>16. CASE expire_due
  BY <1>16 DEF expire_due
<1>17. CASE deadline_passes
  BY <1>17 DEF deadline_passes
<1>18. CASE UNCHANGED vars
  BY <1>18 DEF vars
<1>19. QED
  BY <1>1, <1>2, <1>3, <1>4, <1>5, <1>6, <1>7, <1>8, <1>9, <1>10, <1>11, <1>12, <1>13,
     <1>14, <1>15, <1>16, <1>17, <1>18 DEF Next, Run, Operator

\* A cancel lets at most one step through.
LEMMA CancelledStep == ASSUME LoopInv, [Next]_vars PROVE Cancelled'
<1> USE LoopAssumption DEF LoopInv, Typed, TypeOK, Phase, Cancelled, Active, LiveStates, db,
      ctx, turn, exec, ghost
<1>1. CASE claim_one
  BY <1>1 DEF claim_one
<1>2. CASE run_one
  BY <1>2 DEF run_one, Finish
<1>3. CASE db_error
  BY <1>3 DEF db_error, Finish
<1>4. CASE loop_top
  BY <1>4 DEF loop_top, Finish
<1>5. CASE formulate_planned
  BY <1>5 DEF formulate_planned
<1>6. CASE formulate_failed
  BY <1>6 DEF formulate_failed, Finish
<1>7. CASE invoke_refused
  BY <1>7 DEF invoke_refused
<1>8. ASSUME NEW v \in Verdicts, review(v) PROVE Cancelled'
  <2>1. PICK p \in Shape :
          ReviewLooked(p, v) /\ (ReviewEnds \/ ReviewSendsBack \/ ReviewAsks(p) \/ ReviewPasses(p, v))
    BY <1>8, ReviewCases
  <2>2. CASE ReviewEnds \/ ReviewSendsBack
    BY <2>1, <2>2 DEF ReviewLooked, ReviewEnds, ReviewSendsBack
  <2>3. CASE ReviewAsks(p)
    BY <2>1, <2>3 DEF ReviewLooked, ReviewAsks
  <2>4. CASE ReviewPasses(p, v)
    BY <2>1, <2>4 DEF ReviewLooked, ReviewPasses
  <2>5. QED
    BY <2>1, <2>2, <2>3, <2>4
<1>9. CASE step_poll
  BY <1>9 DEF step_poll, Finish
<1>10. ASSUME NEW ok \in BOOLEAN, dispatch_step(ok) PROVE Cancelled'
  BY <1>10 DEF dispatch_step
<1>11. CASE dispatched
  BY <1>11 DEF dispatched
<1>12. CASE finalize
  BY <1>12 DEF finalize
<1>13. CASE mark_cancelled
  BY <1>13 DEF mark_cancelled
<1>14. CASE mark_failed_running
  BY <1>14 DEF mark_failed_running
<1>15. ASSUME NEW ch \in {"approve", "deny"}, resolve(ch) PROVE Cancelled'
  BY <1>15 DEF resolve
<1>16. CASE expire_due
  BY <1>16 DEF expire_due
<1>17. CASE deadline_passes
  BY <1>17 DEF deadline_passes
<1>18. CASE UNCHANGED vars
  BY <1>18 DEF vars
<1>19. QED
  BY <1>1, <1>2, <1>3, <1>4, <1>5, <1>6, <1>7, <1>8, <1>9, <1>10, <1>11, <1>12, <1>13,
     <1>14, <1>15, <1>16, <1>17, <1>18 DEF Next, Run, Operator

\* No plan goes uncounted but for a lost mirror.
LEMMA CountedStep == ASSUME LoopInv, [Next]_vars PROVE Counted'
<1> USE LoopAssumption DEF LoopInv, Typed, TypeOK, Phase, Counted, Active, LiveStates, InRun,
      resume_budget, db, ctx, turn, exec, ghost
<1>1. CASE claim_one
  BY <1>1 DEF claim_one
<1>2. CASE run_one
  BY <1>2 DEF run_one, Finish
<1>3. CASE db_error
  BY <1>3 DEF db_error, Finish
<1>4. CASE loop_top
  BY <1>4 DEF loop_top, Finish
<1>5. CASE formulate_planned
  BY <1>5 DEF formulate_planned
<1>6. CASE formulate_failed
  BY <1>6 DEF formulate_failed, Finish
<1>7. CASE invoke_refused
  BY <1>7 DEF invoke_refused
<1>8. ASSUME NEW v \in Verdicts, review(v) PROVE Counted'
  <2>1. PICK p \in Shape :
          ReviewLooked(p, v) /\ (ReviewEnds \/ ReviewSendsBack \/ ReviewAsks(p) \/ ReviewPasses(p, v))
    BY <1>8, ReviewCases
  <2>2. CASE ReviewEnds \/ ReviewSendsBack
    BY <2>1, <2>2 DEF ReviewLooked, ReviewEnds, ReviewSendsBack
  <2>3. CASE ReviewAsks(p)
    BY <2>1, <2>3 DEF ReviewLooked, ReviewAsks
  <2>4. CASE ReviewPasses(p, v)
    BY <2>1, <2>4 DEF ReviewLooked, ReviewPasses
  <2>5. QED
    BY <2>1, <2>2, <2>3, <2>4
<1>9. CASE step_poll
  BY <1>9 DEF step_poll, Finish
<1>10. ASSUME NEW ok \in BOOLEAN, dispatch_step(ok) PROVE Counted'
  BY <1>10 DEF dispatch_step
<1>11. CASE dispatched
  BY <1>11 DEF dispatched
<1>12. CASE finalize
  BY <1>12 DEF finalize
<1>13. CASE mark_cancelled
  BY <1>13 DEF mark_cancelled
<1>14. CASE mark_failed_running
  BY <1>14 DEF mark_failed_running
<1>15. ASSUME NEW ch \in {"approve", "deny"}, resolve(ch) PROVE Counted'
  BY <1>15 DEF resolve
<1>16. CASE expire_due
  BY <1>16 DEF expire_due
<1>17. CASE deadline_passes
  BY <1>17 DEF deadline_passes
<1>18. CASE UNCHANGED vars
  BY <1>18 DEF vars
<1>19. QED
  BY <1>1, <1>2, <1>3, <1>4, <1>5, <1>6, <1>7, <1>8, <1>9, <1>10, <1>11, <1>12, <1>13,
     <1>14, <1>15, <1>16, <1>17, <1>18 DEF Next, Run, Operator

\* Every executed plan stays in the history until one cannot be read.
LEMMA RememberedStep == ASSUME LoopInv, [Next]_vars PROVE Remembered'
<1> USE LoopAssumption DEF LoopInv, Typed, TypeOK, Phase, Remembered, Active, LiveStates,
      InRun, restore_resume_state, db, ctx, turn, exec, ghost
<1>1. CASE claim_one
  BY <1>1 DEF claim_one
<1>2. CASE run_one
  <2>1. CASE pre_plan_denied
    BY <1>2, <2>1 DEF run_one, Finish
  <2>2. CASE ~pre_plan_denied
    <3>1. /\ pc = "claimed" /\ pc' = "top" /\ executed' = executed
          /\ executed = forgotten \o restore_resume_state(TRUE)
      BY <1>2, <2>2 DEF run_one
    <3>2. PICK readable \in BOOLEAN :
            /\ history' = restore_resume_state(readable)
            /\ forgotten' = IF readable THEN forgotten ELSE executed
      BY <1>2, <2>2 DEF run_one
    <3>3. CASE readable
      BY <3>1, <3>2, <3>3
    <3>4. CASE ~readable
      <4>1. history' = <<>> /\ forgotten' = executed
        BY <3>2, <3>4
      <4>2. executed \o <<>> = executed
        BY ConcatNone
      <4>3. QED
        BY <3>1, <4>1, <4>2
    <3>5. QED
      BY <3>3, <3>4
  <2>3. QED
    BY <2>1, <2>2
<1>3. CASE db_error
  BY <1>3 DEF db_error, Finish
<1>4. CASE loop_top
  BY <1>4 DEF loop_top, Finish
<1>5. CASE formulate_planned
  BY <1>5 DEF formulate_planned
<1>6. CASE formulate_failed
  BY <1>6 DEF formulate_failed, Finish
<1>7. CASE invoke_refused
  BY <1>7 DEF invoke_refused
<1>8. ASSUME NEW v \in Verdicts, review(v) PROVE Remembered'
  <2>1. PICK p \in Shape :
          ReviewLooked(p, v) /\ (ReviewEnds \/ ReviewSendsBack \/ ReviewAsks(p) \/ ReviewPasses(p, v))
    BY <1>8, ReviewCases
  <2>2. CASE ReviewEnds \/ ReviewSendsBack
    BY <2>1, <2>2 DEF ReviewLooked, ReviewEnds, ReviewSendsBack
  <2>3. CASE ReviewAsks(p)
    BY <2>1, <2>3 DEF ReviewLooked, ReviewAsks
  <2>4. CASE ReviewPasses(p, v)
    BY <2>1, <2>4 DEF ReviewLooked, ReviewPasses
  <2>5. QED
    BY <2>1, <2>2, <2>3, <2>4
<1>9. CASE step_poll
  BY <1>9 DEF step_poll, Finish
<1>10. ASSUME NEW ok \in BOOLEAN, dispatch_step(ok) PROVE Remembered'
  BY <1>10 DEF dispatch_step
<1>11. CASE dispatched
  <2>1. /\ pc = "step" /\ pc' = "top" /\ plan \in Shape /\ forgotten' = forgotten
        /\ history' = Append(history, plan) /\ executed' = Append(executed, plan)
    BY <1>11 DEF dispatched, Reviewed
  <2>2. executed = forgotten \o history
    BY <2>1
  <2>3. Append(forgotten \o history, plan) = forgotten \o Append(history, plan)
    <3>1. forgotten \in Seq(Shape) /\ history \in Seq(Shape)
      BY DEF LoopInv, Typed
    <3>2. QED
      BY <2>1, <3>1, ConcatAppend, Zenon
  <2>4. QED
    BY <2>1, <2>2, <2>3
<1>12. CASE finalize
  BY <1>12 DEF finalize
<1>13. CASE mark_cancelled
  BY <1>13 DEF mark_cancelled
<1>14. CASE mark_failed_running
  BY <1>14 DEF mark_failed_running
<1>15. ASSUME NEW ch \in {"approve", "deny"}, resolve(ch) PROVE Remembered'
  <2>1. answers \in Seq(Answer) /\ pc = "suspended" /\ executed = forgotten \o open.history
    BY <1>15 DEF LoopInv, Typed, Phase, Remembered, resolve
  <2> DEFINE r == [plan |-> open.plan, choice |-> ch, history |-> open.history]
  <2>2. /\ answers' = Append(answers, r) /\ pc' = "queued" /\ UNCHANGED <<executed, forgotten>>
        /\ r.history = open.history
    BY <1>15, <2>1 DEF resolve, ghost
  <2> HIDE DEF r
  <2>3. answers' # <<>> /\ answers'[Len(answers')] = r
    BY <2>1, <2>2
  <2>4. QED
    BY <2>1, <2>2, <2>3 DEF Remembered, restore_resume_state, InRun
<1>16. CASE expire_due
  BY <1>16 DEF expire_due
<1>17. CASE deadline_passes
  BY <1>17 DEF deadline_passes
<1>18. CASE UNCHANGED vars
  BY <1>18 DEF vars
<1>19. QED
  BY <1>1, <1>2, <1>3, <1>4, <1>5, <1>6, <1>7, <1>8, <1>9, <1>10, <1>11, <1>12, <1>13,
     <1>14, <1>15, <1>16, <1>17, <1>18 DEF Next, Run, Operator

\* Each allowance is paid for.
LEMMA BudgetedStep == ASSUME LoopInv, [Next]_vars PROVE Budgeted'
<1> USE LoopAssumption DEF LoopInv, Typed, TypeOK, Phase, Budgeted, Allowance, Active,
      LiveStates, InRun, resume_budget, exhausted, synthesis_due, db, ctx, turn, exec, ghost
<1>1. CASE claim_one
  BY <1>1 DEF claim_one
<1>2. CASE run_one
  BY <1>2 DEF run_one, Finish
<1>3. CASE db_error
  BY <1>3 DEF db_error, Finish
<1>4. CASE loop_top
  BY <1>4 DEF loop_top, Finish
<1>5. CASE formulate_planned
  BY <1>5 DEF formulate_planned
<1>6. CASE formulate_failed
  BY <1>6 DEF formulate_failed, Finish
<1>7. CASE invoke_refused
  BY <1>7 DEF invoke_refused
<1>8. ASSUME NEW v \in Verdicts, review(v) PROVE Budgeted'
  <2>1. PICK p \in Shape :
          ReviewLooked(p, v) /\ (ReviewEnds \/ ReviewSendsBack \/ ReviewAsks(p) \/ ReviewPasses(p, v))
    BY <1>8, ReviewCases
  <2>2. CASE ReviewEnds \/ ReviewSendsBack
    BY <2>1, <2>2 DEF ReviewLooked, ReviewEnds, ReviewSendsBack
  <2>3. CASE ReviewAsks(p)
    BY <2>1, <2>3 DEF ReviewLooked, ReviewAsks
  <2>4. CASE ReviewPasses(p, v)
    BY <2>1, <2>4 DEF ReviewLooked, ReviewPasses
  <2>5. QED
    BY <2>1, <2>2, <2>3, <2>4
<1>9. CASE step_poll
  BY <1>9 DEF step_poll, Finish
<1>10. ASSUME NEW ok \in BOOLEAN, dispatch_step(ok) PROVE Budgeted'
  BY <1>10 DEF dispatch_step
<1>11. CASE dispatched
  BY <1>11 DEF dispatched
<1>12. CASE finalize
  BY <1>12 DEF finalize
<1>13. CASE mark_cancelled
  BY <1>13 DEF mark_cancelled
<1>14. CASE mark_failed_running
  BY <1>14 DEF mark_failed_running
<1>15. ASSUME NEW ch \in {"approve", "deny"}, resolve(ch) PROVE Budgeted'
  BY <1>15 DEF resolve
<1>16. CASE expire_due
  BY <1>16 DEF expire_due
<1>17. CASE deadline_passes
  BY <1>17 DEF deadline_passes
<1>18. CASE UNCHANGED vars
  BY <1>18 DEF vars
<1>19. QED
  BY <1>1, <1>2, <1>3, <1>4, <1>5, <1>6, <1>7, <1>8, <1>9, <1>10, <1>11, <1>12, <1>13,
     <1>14, <1>15, <1>16, <1>17, <1>18 DEF Next, Run, Operator

\* The review's promises last until the step runs.
LEMMA ReviewedStep == ASSUME LoopInv, [Next]_vars PROVE Reviewed'
<1> USE LoopAssumption DEF LoopInv, Typed, TypeOK, Phase, Reviewed, Active, LiveStates, InRun,
      approved, decide, pre_plan_denied, db, ctx, turn, exec, ghost
<1>1. CASE claim_one
  BY <1>1 DEF claim_one
<1>2. CASE run_one
  BY <1>2 DEF run_one, Finish
<1>3. CASE db_error
  BY <1>3 DEF db_error, Finish
<1>4. CASE loop_top
  BY <1>4 DEF loop_top, Finish
<1>5. CASE formulate_planned
  BY <1>5 DEF formulate_planned
<1>6. CASE formulate_failed
  BY <1>6 DEF formulate_failed, Finish
<1>7. CASE invoke_refused
  BY <1>7 DEF invoke_refused
<1>8. ASSUME NEW v \in Verdicts, review(v) PROVE Reviewed'
  <2>1. PICK p \in Shape :
          ReviewLooked(p, v) /\ (ReviewEnds \/ ReviewSendsBack \/ ReviewAsks(p) \/ ReviewPasses(p, v))
    BY <1>8, ReviewCases
  <2>2. CASE ReviewEnds \/ ReviewSendsBack
    BY <2>1, <2>2 DEF ReviewLooked, ReviewEnds, ReviewSendsBack
  <2>3. CASE ReviewAsks(p)
    BY <2>1, <2>3 DEF ReviewLooked, ReviewAsks
  <2>4. CASE ReviewPasses(p, v)
    BY <2>1, <2>4 DEF ReviewLooked, ReviewPasses
  <2>5. QED
    BY <2>1, <2>2, <2>3, <2>4
<1>9. CASE step_poll
  BY <1>9 DEF step_poll, Finish
<1>10. ASSUME NEW ok \in BOOLEAN, dispatch_step(ok) PROVE Reviewed'
  BY <1>10 DEF dispatch_step
<1>11. CASE dispatched
  BY <1>11 DEF dispatched
<1>12. CASE finalize
  BY <1>12 DEF finalize
<1>13. CASE mark_cancelled
  BY <1>13 DEF mark_cancelled
<1>14. CASE mark_failed_running
  BY <1>14 DEF mark_failed_running
<1>15. ASSUME NEW ch \in {"approve", "deny"}, resolve(ch) PROVE Reviewed'
  BY <1>15 DEF resolve
<1>16. CASE expire_due
  BY <1>16 DEF expire_due
<1>17. CASE deadline_passes
  BY <1>17 DEF deadline_passes
<1>18. CASE UNCHANGED vars
  BY <1>18 DEF vars
<1>19. QED
  BY <1>1, <1>2, <1>3, <1>4, <1>5, <1>6, <1>7, <1>8, <1>9, <1>10, <1>11, <1>12, <1>13,
     <1>14, <1>15, <1>16, <1>17, <1>18 DEF Next, Run, Operator

\* The types.
LEMMA TypedStep == ASSUME LoopInv, [Next]_vars PROVE Typed'
<1> USE LoopAssumption DEF LoopInv, Typed, TypeOK, Phase, Active, LiveStates, db, ctx, turn,
      exec, ghost
<1>1. CASE claim_one
  BY <1>1 DEF claim_one
<1>2. CASE run_one
  <2>1. CASE pre_plan_denied
    BY <1>2, <2>1 DEF LoopInv, Typed, TypeOK, Active, run_one, Finish, db, ctx, turn, exec
  <2>2. CASE ~pre_plan_denied
    <3>1. history' \in Seq(Shape) /\ \A i \in DOMAIN history' : history'[i] \in Shape
      <4>1. PICK readable \in BOOLEAN : history' = restore_resume_state(readable)
        BY <1>2, <2>2 DEF run_one
      <4>2. CASE answers = <<>> \/ ~readable
        BY <4>1, <4>2 DEF restore_resume_state
      <4>3. CASE answers # <<>> /\ readable
        <5>1. answers[Len(answers)] \in Answer
          BY <4>3 DEF LoopInv, Typed
        <5>2. QED
          BY <4>1, <4>3, <5>1 DEF restore_resume_state, Answer
      <4>4. QED
        BY <4>2, <4>3
    <3>2. synth_turn' = FALSE /\ synth_attempted' = FALSE /\ force_synth' = FALSE
      BY <1>2, <2>2 DEF run_one
    <3>3. {synth_turn', synth_attempted', force_synth'} \subseteq BOOLEAN
      BY <3>2
    <3>4. /\ count' \in Nat /\ limit' \in Nat /\ floor' \in Classes /\ plan' \in Shape \cup {NoPlan}
          /\ timeup' \in BOOLEAN /\ gathered' \in BOOLEAN /\ anyok' \in BOOLEAN
          /\ verdict' = "none" /\ idx' = 0 /\ synths' = 0 /\ pc' = "top"
      <4>1. /\ count' = column /\ limit' = column + MaxPlans /\ floor' = PayloadFloor
            /\ plan' = NoPlan /\ verdict' = "none" /\ idx' = 0 /\ synths' = 0 /\ pc' = "top"
        BY <1>2, <2>2 DEF run_one, resume_budget
      <4>2. timeup' = FALSE /\ gathered' = FALSE /\ anyok' = FALSE
        BY <1>2, <2>2 DEF run_one
      <4>3. column \in Nat
        BY DEF LoopInv, Typed, TypeOK
      <4>4. MaxPlans \in Nat /\ PayloadFloor \in Classes
        BY LoopAssumption
      <4>5. count' \in Nat /\ limit' \in Nat /\ floor' \in Classes
        BY <4>1, <4>3, <4>4
      <4>6. QED
        BY <4>1, <4>2, <4>5
    <3>5. UNCHANGED <<state, column, answers, open, after, total, executed, faults>>
      BY <1>2 DEF run_one, db
    <3>6. forgotten' \in Seq(Shape)
      BY <1>2, <2>2 DEF run_one, LoopInv, Typed
    <3>7. QED
      BY <3>1, <3>3, <3>4, <3>5, <3>6 DEF LoopInv, Typed, TypeOK, Active
  <2>3. QED
    BY <2>1, <2>2
<1>3. CASE db_error
  BY <1>3 DEF db_error, Finish
<1>4. CASE loop_top
  <2>1. {synth_turn', synth_attempted', force_synth'} \subseteq BOOLEAN
    <3>1. synth_turn \in BOOLEAN /\ synth_attempted \in BOOLEAN /\ force_synth \in BOOLEAN
      BY DEF LoopInv, Typed, TypeOK
    <3>2. synth_turn' \in BOOLEAN
      BY <1>4, <3>1 DEF loop_top, synthesis_due, turn
    <3>3. synth_attempted' \in BOOLEAN /\ force_synth' \in BOOLEAN
      BY <1>4, <3>1 DEF loop_top, turn
    <3>4. QED
      BY <3>2, <3>3
  <2>2. synths' \in Nat
    BY <1>4 DEF loop_top, LoopInv, Typed, TypeOK
  <2>3. QED
    BY <1>4, <2>1, <2>2 DEF LoopInv, Typed, TypeOK, Active, loop_top, Finish, db, ctx, exec
<1>5. CASE formulate_planned
  BY <1>5 DEF formulate_planned
<1>6. CASE formulate_failed
  <2>1. {synth_turn', synth_attempted', force_synth'} \subseteq BOOLEAN
    <3>1. synth_turn \in BOOLEAN /\ synth_attempted \in BOOLEAN /\ force_synth \in BOOLEAN
      BY DEF LoopInv, Typed, TypeOK
    <3>2. force_synth' = TRUE \/ force_synth' = force_synth
      BY <1>6 DEF formulate_failed
    <3>3. QED
      BY <1>6, <3>1, <3>2 DEF formulate_failed
  <2>2. QED
    BY <1>6, <2>1 DEF LoopInv, Typed, TypeOK, Active, formulate_failed, Finish, db, ctx, exec, ghost
<1>7. CASE invoke_refused
  BY <1>7, Raised DEF invoke_refused, Reviewed
<1>8. ASSUME NEW v \in Verdicts, review(v) PROVE Typed'
  <2>1. PICK p \in Shape :
          ReviewLooked(p, v) /\ (ReviewEnds \/ ReviewSendsBack \/ ReviewAsks(p) \/ ReviewPasses(p, v))
    BY <1>8, ReviewCases
  <2>2. CASE ReviewEnds \/ ReviewSendsBack
    BY <2>1, <2>2 DEF ReviewLooked, ReviewEnds, ReviewSendsBack
  <2>3. CASE ReviewAsks(p)
    BY <2>1, <2>3 DEF ReviewLooked, ReviewAsks, Question
  <2>4. CASE ReviewPasses(p, v)
    BY <2>1, <2>4 DEF ReviewLooked, ReviewPasses
  <2>5. QED
    BY <2>1, <2>2, <2>3, <2>4
<1>9. CASE step_poll
  BY <1>9 DEF step_poll, Finish
<1>10. ASSUME NEW ok \in BOOLEAN, dispatch_step(ok) PROVE Typed'
  BY <1>10 DEF dispatch_step, Reviewed, Shape
<1>11. CASE dispatched
  BY <1>11 DEF dispatched, Reviewed
<1>12. CASE finalize
  BY <1>12 DEF finalize
<1>13. CASE mark_cancelled
  BY <1>13 DEF mark_cancelled
<1>14. CASE mark_failed_running
  BY <1>14 DEF mark_failed_running
<1>15. ASSUME NEW ch \in {"approve", "deny"}, resolve(ch) PROVE Typed'
  <2>1. pc = "suspended" /\ open \in Question /\ answers \in Seq(Answer)
    BY <1>15 DEF LoopInv, Typed, Phase, resolve
  <2> DEFINE r == [plan |-> open.plan, choice |-> ch, history |-> open.history]
  <2>2. r \in Answer
    BY <2>1 DEF Question, Answer
  <2>3. answers' = Append(answers, r)
    BY <1>15 DEF resolve
  <2> HIDE DEF r
  <2>4. answers' \in Seq(Answer)
    BY <2>1, <2>2, <2>3
  <2>5. \A i \in DOMAIN answers' : answers'[i] \in Answer
    BY <2>4
  <2>6. QED
    BY <1>15, <2>4, <2>5 DEF LoopInv, Typed, TypeOK, LiveStates, resolve, Answer, ctx, turn, exec, ghost
<1>16. CASE expire_due
  BY <1>16 DEF expire_due
<1>17. CASE deadline_passes
  BY <1>17 DEF deadline_passes
<1>18. CASE UNCHANGED vars
  BY <1>18 DEF vars
<1>19. QED
  BY <1>1, <1>2, <1>3, <1>4, <1>5, <1>6, <1>7, <1>8, <1>9, <1>10, <1>11, <1>12, <1>13,
     <1>14, <1>15, <1>16, <1>17, <1>18 DEF Next, Run, Operator

\* Every step keeps the invariant.
LEMMA LoopStep == LoopInv /\ [Next]_vars => LoopInv'
  BY TypedStep, PhaseStep, ReviewedStep, CancelledStep, RememberedStep, CountedStep, BudgetedStep
     DEF LoopInv

-----------------------------------------------------------------------------
(* The results. *)

\* The runs of a task stay within the invariant, whatever the planner, the
\* reviewer, the tools, the operator and the database do (inner_loop.rs
\* `run_to_terminal', task_exec.rs `run_one').
THEOREM LoopInvariant == Spec => []LoopInv
<1>1. QED
  BY LoopInit, LoopStep, PTL DEF Spec

\* A step of an escalated plan runs only if the operator approved that very
\* plan, and nothing of a denied task runs (asks/pure.rs `decide',
\* `pre_plan_outcome').
THEOREM OnlySanctionedStepsRun == Spec => []StepsAreSanctioned
<1>1. LoopInv => StepsAreSanctioned
  BY DEF LoopInv, Typed, TypeOK, Reviewed, InRun, StepsAreSanctioned, approved, decide, pre_plan_denied
<1>2. QED
  BY <1>1, LoopInvariant, PTL

\* A step's data class lies between the floor and its plan's ceiling
\* (floor.rs `apply_floor_raise', ceiling.rs `resolve_data_ceiling').
THEOREM StepsStayInTheirClasses == Spec => []ClassesRespected
<1>1. LoopInv => ClassesRespected
  BY DEF LoopInv, Typed, TypeOK, Reviewed, ClassesRespected, Shape
<1>2. QED
  BY <1>1, LoopInvariant, PTL

\* After a cancel at most the one step past its poll is still dispatched
\* (inner_loop/execute.rs, the poll before each step).
THEOREM CancelLetsOneStepThrough == Spec => []CancelStopsDispatch
<1>1. LoopInv => CancelStopsDispatch
  BY DEF LoopInv, Cancelled, CancelStopsDispatch
<1>2. QED
  BY <1>1, LoopInvariant, PTL

\* A task formulates at most MaxPlans plans and one synthesis per answer it
\* was given, plus the first run's (asks/pure.rs `resume_budget').
THEOREM EveryAllowanceHasItsAnswer == Spec => []BudgetPerAnswer
<1>1. LoopInv => BudgetPerAnswer
  BY DEF LoopInv, Budgeted, Allowance, Reviewed, BudgetPerAnswer
<1>2. QED
  BY <1>1, LoopInvariant, PTL

\* A resumed run knows everything executed since a stored history last failed to
\* read, in order and without a gap, and all that was executed if none did; and
\* plan_count counts every plan but for the mirrors the database lost
\* (asks/pure.rs `restore_resume_state', inner_loop.rs `increment_plan_count').
THEOREM HistoryIsAllOrNothing == Spec => []HistoryKept
<1>1. LoopInv => HistoryKept
  BY DEF LoopInv, Typed, Remembered, Counted, HistoryKept, InRun
<1>2. QED
  BY <1>1, LoopInvariant, PTL
=============================================================================
