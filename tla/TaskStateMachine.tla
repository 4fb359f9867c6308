--------------------------- MODULE TaskStateMachine ---------------------------
(***************************************************************************)
(* What the task workflow promises: the transition table of                *)
(* task.state-machine.ts, taken one transition at a time by a user whose   *)
(* role allows it, with the assignee the transition sets or clears.        *)
(***************************************************************************)
CONSTANTS
  Users,
  RoleOf,    \* [Users -> {"admin", "reporter", "user"}]
  NoUser     \* assignedTo is null

VARIABLES status, assignee

TaskStatus == {"created", "assigned", "in_progress", "pending_review", "completed"}
TaskAction == {"assign", "unassign", "start", "request_review", "approve"}

Edge(from, action, to, role) ==
  [from |-> from, action |-> action, to |-> to, role |-> role]

\* Faulty variant: APPROVE is also open to a task that is in progress.
TransitionsSkippingReview ==
  { Edge("created",        "assign",         "assigned",       "reporter"),
    Edge("assigned",       "start",          "in_progress",    "user"),
    Edge("assigned",       "unassign",       "created",        "reporter"),
    Edge("in_progress",    "request_review", "pending_review", "user"),
    Edge("in_progress",    "approve",        "completed",      "reporter"),
    Edge("pending_review", "approve",        "completed",      "reporter") }

\* The table: (status, action) determines the target status and the role.
Transitions ==
  { Edge("created",        "assign",         "assigned",       "reporter"),
    Edge("assigned",       "start",          "in_progress",    "user"),
    Edge("assigned",       "unassign",       "created",        "reporter"),
    Edge("in_progress",    "request_review", "pending_review", "user"),
    Edge("pending_review", "approve",        "completed",      "reporter") }

\* What a transition makes of the assignee, given the requested one.
AssigneeAfter(to, target, old) ==
  CASE to = "assigned" -> target
    [] to = "created"  -> NoUser
    [] OTHER           -> old

\* The worker creates a task as created and unassigned; the demo data also
\* brings one that is assigned and one that is in progress.
Init ==
  \/ status = "created" /\ assignee = NoUser
  \/ status \in {"assigned", "in_progress"} /\ assignee \in Users

Transition ==
  \E t \in Transitions, u \in Users, target \in Users :
    /\ status = t.from
    /\ RoleOf[u] = t.role
    /\ status' = t.to
    /\ assignee' = AssigneeAfter(t.to, target, assignee)

Next == Transition

Spec == Init /\ [][Next]_<<status, assignee>>

\* A task that is being worked on, reviewed or done has an assignee, and one
\* that is open has none.
OwnedWork == (status = "created") <=> (assignee = NoUser)
=============================================================================
