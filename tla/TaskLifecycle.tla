--------------------------- MODULE TaskLifecycle ---------------------------
(***************************************************************************)
(* What the task queue promises, without transactions, locks or processes: *)
(* a task and the question it waits on change together, in one step, and   *)
(* only along these edges.  TaskStore is shown to implement it.            *)
(***************************************************************************)
CONSTANTS Tasks, Asks, NoTask

VARIABLES tstate, astate, atask, choice

lvars == <<tstate, astate, atask, choice>>

Ended == {"completed", "failed", "cancelled", "timed_out", "blocked",
          "refused", "crashed"}
Open(t) == {a \in Asks : astate[a] = "pending" /\ atask[a] = t}

LInit ==
  /\ tstate = [t \in Tasks |-> "absent"]
  /\ astate = [a \in Asks |-> "absent"]
  /\ atask = [a \in Asks |-> NoTask]
  /\ choice = [a \in Asks |-> "none"]

Submit(t) ==
  /\ tstate[t] = "absent"
  /\ tstate' = [tstate EXCEPT ![t] = "pending"]
  /\ UNCHANGED <<astate, atask, choice>>

Start(t) ==
  /\ tstate[t] = "pending"
  /\ tstate' = [tstate EXCEPT ![t] = "running"]
  /\ UNCHANGED <<astate, atask, choice>>

\* A running task ends; the startup sweep ends several at once.
End(S, s) ==
  /\ \A t \in S : tstate[t] = "running"
  /\ s \in Ended
  /\ tstate' = [t \in Tasks |-> IF t \in S THEN s ELSE tstate[t]]
  /\ UNCHANGED <<astate, atask, choice>>

\* A running task puts one new question and is suspended.
Suspend(t, a) ==
  /\ tstate[t] = "running" /\ Open(t) = {} /\ astate[a] = "absent"
  /\ tstate' = [tstate EXCEPT ![t] = "awaiting_operator"]
  /\ astate' = [astate EXCEPT ![a] = "pending"]
  /\ atask' = [atask EXCEPT ![a] = t]
  /\ UNCHANGED choice

\* The open question is answered with an option it offered: its task is
\* queued again.
Answer(a, c) ==
  /\ astate[a] = "pending" /\ tstate[atask[a]] = "awaiting_operator"
  /\ c \in {"approve", "deny"}
  /\ tstate' = [tstate EXCEPT ![atask[a]] = "pending"]
  /\ astate' = [astate EXCEPT ![a] = "resolved"]
  /\ choice' = [choice EXCEPT ![a] = c]
  /\ UNCHANGED atask

\* Questions time out together, and fail exactly the tasks that waited.
TimeOut(S) ==
  /\ \A a \in S : astate[a] = "pending" /\ tstate[atask[a]] = "awaiting_operator"
  /\ tstate' = [t \in Tasks |-> IF \E a \in S : atask[a] = t THEN "failed" ELSE tstate[t]]
  /\ astate' = [a \in Asks |-> IF a \in S THEN "expired" ELSE astate[a]]
  /\ UNCHANGED <<atask, choice>>

\* A live task is cancelled with every question it has open.
Cancel(t) ==
  /\ tstate[t] \in {"pending", "running", "awaiting_operator"}
  /\ tstate' = [tstate EXCEPT ![t] = "cancelled"]
  /\ astate' = [a \in Asks |-> IF a \in Open(t) THEN "cancelled" ELSE astate[a]]
  /\ UNCHANGED <<atask, choice>>

LNext ==
  \/ \E t \in Tasks : Submit(t) \/ Start(t) \/ Cancel(t)
  \/ \E S \in SUBSET Tasks, s \in Ended : End(S, s)
  \/ \E t \in Tasks, a \in Asks : Suspend(t, a)
  \/ \E a \in Asks, c \in {"approve", "deny"} : Answer(a, c)
  \/ \E S \in SUBSET Asks : TimeOut(S)

LSpec == LInit /\ [][LNext]_lvars
=============================================================================
