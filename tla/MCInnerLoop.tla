---------------------------- MODULE MCInnerLoop ----------------------------
(* Small instances of InnerLoop for TLC. *)
EXTENDS InnerLoop, TLC

P(w, n, c, ceil, req, inv) ==
  [what |-> w, n |-> n, cls |-> c, ceil |-> ceil, req |-> req, invoke |-> inv]

\* A step that is above the ceiling it leaves undeclared until the floor is
\* raised; a skill invocation that raises it and takes its ceiling from it; an
\* answer; a refusal, below a raised floor.
MCPlans == { P("steps", 1, 1, NoCeiling, NoRequest, FALSE),
             P("steps", 0, 0, NoCeiling, 1, TRUE),
             P("terminal", 0, 0, NoCeiling, NoRequest, FALSE),
             P("refused", 0, 0, 0, NoRequest, FALSE) }

\* A skill within MaxSteps and one beyond it.
MCSkillSizes == {2, 3}
=============================================================================
