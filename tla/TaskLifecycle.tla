----------------------------- MODULE TaskLifecycle -----------------------------
(***************************************************************************)
(* POST /task/action/:taskId/:action on one task, by requests that run     *)
(* concurrently in the API process.  TaskActionHandler.execute loads the   *)
(* task into the EntityManager of its request, decides on that copy, and   *)
(* flushes; the flush writes the columns that differ from the copy as it   *)
(* was loaded, with no version check.  Between the two it awaits the       *)
(* lookup of the assignee, and after them the mail's event.                *)
(***************************************************************************)
EXTENDS Naturals, FiniteSets

CONSTANTS
  Users, RoleOf, NoUser,
  Reporter,     \* task.reporter, set when the task is created
  Requests,     \* requests that can be in flight together
  Nothing

ASSUME LifecycleAssumption ==
  /\ NoUser \notin Users
  /\ Reporter \in Users

VARIABLES
  status,       \* the row's task_status
  assignee,     \* the row's assigned_to
  copy,         \* request -> the assignee and the edge it loaded, or Nothing
  owed,         \* request -> the mail it must still enqueue, or Nothing
  visited,      \* history: statuses the row has had, or was seeded beyond
  everAssigned, \* history: users the row has been assigned to
  mails         \* notifications enqueued

vars == <<status, assignee, copy, owed, visited, everAssigned, mails>>

Machine == INSTANCE TaskStateMachine WITH
  Users <- Users, RoleOf <- RoleOf, NoUser <- NoUser,
  status <- status, assignee <- assignee

TaskStatus == Machine!TaskStatus

\* The userId of the body is read for a transition to ASSIGNED only.
Targets(edge) == IF edge.to = "assigned" THEN Users ELSE {NoUser}

Copies == {c \in [assignee : Users \cup {NoUser}, edge : Machine!Transitions,
                  target : Users \cup {NoUser}] : c.target \in Targets(c.edge)}

Mail(kind, to) == [kind |-> kind, to |-> to]
Mails == [kind : {"assigned", "review"}, to : Users]

\* The stages behind a row that is created by the worker or by the seeder.
StagesUpTo(s) ==
  CASE s = "created"     -> {"created"}
    [] s = "assigned"    -> {"created", "assigned"}
    [] s = "in_progress" -> {"created", "assigned", "in_progress"}

Init ==
  /\ Machine!Init
  /\ copy = [r \in Requests |-> Nothing]
  /\ owed = [r \in Requests |-> Nothing]
  /\ visited = StagesUpTo(status)
  /\ everAssigned = {assignee} \ {NoUser}
  /\ mails = {}

\* The task is loaded; its transition exists and the caller's role allows it
\* (a request that fails either test answers 400 or 403 and changes nothing,
\* and so does ASSIGN without a userId or with an unknown one).
Load(r, user, target, edge) ==
  /\ copy[r] = Nothing
  /\ owed[r] = Nothing
  /\ edge.from = status
  /\ RoleOf[user] = edge.role
  /\ copy' = [copy EXCEPT ![r] = [assignee |-> assignee, edge |-> edge,
                                  target |-> target]]
  /\ UNCHANGED <<status, assignee, owed, visited, everAssigned, mails>>

\* Faulty variant: UNASSIGN sets the assignee to undefined.
NewAssigneeUndefined(c) ==
  IF c.edge.to = "created" THEN Nothing
  ELSE Machine!AssigneeAfter(c.edge.to, c.target, c.assignee)

\* The assignee in the request's copy after the transition.
NewAssignee(c) == Machine!AssigneeAfter(c.edge.to, c.target, c.assignee)

\* Faulty variant: UNASSIGN leaves the assignee alone.
FlushedAssigneeKept(c) ==
  IF c.edge.to = "assigned" THEN c.target ELSE assignee

\* Only a column that differs from the loaded copy is written.
FlushedAssignee(c) ==
  IF NewAssignee(c) # c.assignee THEN NewAssignee(c) ELSE assignee

\* Faulty variant: the mail goes to whoever was assigned when the task was
\* loaded.
NotificationStale(c) ==
  CASE c.edge.to = "assigned" /\ c.assignee # NoUser -> Mail("assigned", c.assignee)
    [] c.edge.to = "assigned" -> Mail("assigned", Reporter)
    [] c.edge.to = "pending_review" -> Mail("review", Reporter)
    [] OTHER -> Nothing

\* The mail notifyByEmail sends for the request's own copy of the task.
Notification(c) ==
  CASE c.edge.to = "assigned"       -> Mail("assigned", c.target)
    [] c.edge.to = "pending_review" -> Mail("review", Reporter)
    [] OTHER                        -> Nothing

Flush(r) ==
  /\ copy[r] # Nothing
  /\ status' = copy[r].edge.to
  /\ assignee' = FlushedAssignee(copy[r])
  /\ visited' = visited \cup {status'}
  /\ everAssigned' = everAssigned \cup ({assignee'} \ {NoUser})
  /\ owed' = [owed EXCEPT ![r] = Notification(copy[r])]
  /\ copy' = [copy EXCEPT ![r] = Nothing]
  /\ UNCHANGED mails

NotifyByEmail(r) ==
  /\ owed[r] # Nothing
  /\ mails' = mails \cup {owed[r]}
  /\ owed' = [owed EXCEPT ![r] = Nothing]
  /\ UNCHANGED <<status, assignee, copy, visited, everAssigned>>

\* A lookup, the flush or the mail's event fails, or the client's process is
\* gone: what was flushed stays, the rest does not happen.
Abort(r) ==
  /\ copy[r] # Nothing \/ owed[r] # Nothing
  /\ copy' = [copy EXCEPT ![r] = Nothing]
  /\ owed' = [owed EXCEPT ![r] = Nothing]
  /\ UNCHANGED <<status, assignee, visited, everAssigned, mails>>

Next ==
  \E r \in Requests :
    \/ \E edge \in Machine!Transitions :
         \E user \in Users, target \in Targets(edge) : Load(r, user, target, edge)
    \/ Flush(r)
    \/ NotifyByEmail(r)
    \/ Abort(r)

Spec == Init /\ [][Next]_vars

(***************************************************************************)
(* Properties.                                                             *)
(***************************************************************************)
\* The values the row, the requests and the histories can hold.
TypeOK ==
  /\ status \in TaskStatus
  /\ assignee \in Users \cup {NoUser}
  /\ copy \in [Requests -> Copies \cup {Nothing}]
  /\ owed \in [Requests -> Mails \cup {Nothing}]
  /\ visited \subseteq TaskStatus
  /\ everAssigned \subseteq Users
  /\ mails \subseteq Mails

\* However requests overlap, an open task has no assignee and an assigned one
\* has: status and assignee are written by two column updates decided on a
\* copy that may be stale, and still agree on these two statuses.
AssigneeMatchesStatus ==
  /\ status = "created" => assignee = NoUser
  /\ status = "assigned" => assignee # NoUser

\* However requests overlap, no stage is skipped: a task that was ever
\* completed was once under review, in progress and assigned.
NoStageSkipped ==
  /\ "completed" \in visited => "pending_review" \in visited
  /\ "pending_review" \in visited => "in_progress" \in visited
  /\ "in_progress" \in visited => "assigned" \in visited

\* Nobody is mailed "you have been assigned" who never was the assignee, or
\* "please review" before a review was asked for (task-action.command.ts:78-105
\* reads the request's copy of the task after the flush).
MailsAreTrue ==
  \A m \in mails :
    /\ m.kind = "assigned" => m.to \in everAssigned
    /\ m.kind = "review" => "pending_review" \in visited

\* A request that flushes after the row moved on.
StaleFlush == \E r \in Requests : Flush(r) /\ copy[r].edge.from # status

\* However requests overlap, a flush that finds the status it loaded takes the
\* task along the state machine, although the assignee, the caller's check and
\* the target of its copy may all be stale: the missing check of the status
\* (task-action.command.ts:57-70) is the only gap.
CurrentStatusSuffices ==
  [][\A r \in Requests :
       Flush(r) /\ copy[r].edge.from = status => Machine!Transition]_vars

\* The workflow of the state machine (task.state-machine.ts:10-43 and the
\* diagram of README.md:28-37).
ImplementsStateMachine == Machine!Spec

\* A task with work in it or behind it has an assignee, an open one has none.
OwnedWork == Machine!OwnedWork
=============================================================================
