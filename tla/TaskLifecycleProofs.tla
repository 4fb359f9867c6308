-------------------------- MODULE TaskLifecycleProofs --------------------------
(***************************************************************************)
(* What survives overlapping requests in TaskLifecycle, for any number of  *)
(* users and requests, and the refinement of the state machine by requests *)
(* that do not overlap.                                                    *)
(***************************************************************************)
EXTENDS TaskLifecycle, TLAPS

\* A loaded copy may be stale, but it was the row once: its status was visited,
\* and its assignee agreed with its status.
CopyOK(c) ==
  /\ c.edge.from \in visited
  /\ c.edge.from = "created" => c.assignee = NoUser
  /\ c.edge.from = "assigned" => c.assignee # NoUser

\* A mail that is owed may be sent.
MailOK(m) ==
  /\ m.kind = "assigned" => m.to \in everAssigned
  /\ m.kind = "review" => "pending_review" \in visited

CopiesOK == \A r \in Requests : copy[r] # Nothing => CopyOK(copy[r])
OwedOK   == \A r \in Requests : owed[r] # Nothing => MailOK(owed[r])
MailsOK  == \A m \in mails : MailOK(m)

IInv ==
  /\ TypeOK
  /\ status \in visited
  /\ AssigneeMatchesStatus
  /\ NoStageSkipped
  /\ CopiesOK
  /\ OwedOK
  /\ MailsOK

-----------------------------------------------------------------------------
\* The five edges of the table.
LEMMA EdgeForms ==
  ASSUME NEW t \in Machine!Transitions
  PROVE  /\ t.from \in TaskStatus /\ t.to \in TaskStatus
         /\ \/ t.from = "created" /\ t.to = "assigned"
            \/ t.from = "assigned" /\ t.to \in {"in_progress", "created"}
            \/ t.from = "in_progress" /\ t.to = "pending_review"
            \/ t.from = "pending_review" /\ t.to = "completed"
BY DEF Machine!Transitions, Machine!Edge, TaskStatus, Machine!TaskStatus

\* What a flush writes: an assignment writes its target and an unassignment
\* clears the assignee, although only changed columns are written; any other
\* transition leaves the column alone.
LEMMA FlushWrites ==
  ASSUME IInv, NEW r \in Requests, copy[r] # Nothing
  PROVE  LET c == copy[r] IN
         /\ c.edge \in Machine!Transitions
         /\ c.edge.to = "assigned" =>
              /\ c.target \in Users
              /\ FlushedAssignee(c) = c.target
         /\ c.edge.to = "created" => FlushedAssignee(c) = NoUser
         /\ c.edge.to \notin {"assigned", "created"} =>
              FlushedAssignee(c) = assignee
<1> DEFINE c == copy[r]
<1>1. c \in Copies /\ CopyOK(c)
  BY DEF IInv, TypeOK, CopiesOK
<1>2. c.edge \in Machine!Transitions /\ c.target \in Targets(c.edge)
  BY <1>1 DEF Copies
<1>3. CASE c.edge.to = "assigned"
  <2>1. c.assignee = NoUser /\ c.target \in Users
    BY <1>1, <1>2, <1>3, EdgeForms DEF CopyOK, Targets
  <2> QED
    BY <1>2, <1>3, <2>1, LifecycleAssumption
       DEF FlushedAssignee, NewAssignee, Machine!AssigneeAfter
<1>4. CASE c.edge.to = "created"
  <2>1. c.assignee # NoUser
    BY <1>1, <1>2, <1>4, EdgeForms DEF CopyOK
  <2> QED
    BY <1>2, <1>4, <2>1 DEF FlushedAssignee, NewAssignee, Machine!AssigneeAfter
<1>5. CASE c.edge.to \notin {"assigned", "created"}
  BY <1>2, <1>5 DEF FlushedAssignee, NewAssignee, Machine!AssigneeAfter
<1> QED
  BY <1>2, <1>3, <1>4, <1>5

\* The mail a request owes after its flush.
LEMMA NotificationForms ==
  ASSUME NEW c, c.edge.to = "assigned" => c.target \in Users,
         Notification(c) # Nothing
  PROVE  /\ Notification(c) \in Mails
         /\ Notification(c).kind = "assigned" =>
              c.edge.to = "assigned" /\ Notification(c).to = c.target
         /\ Notification(c).kind = "review" => c.edge.to = "pending_review"
BY LifecycleAssumption DEF Notification, Mail, Mails

-----------------------------------------------------------------------------
LEMMA InitIInv == Init => IInv
BY LifecycleAssumption
   DEF Init, Machine!Init, StagesUpTo, IInv, TypeOK, AssigneeMatchesStatus,
       NoStageSkipped, TaskStatus, Machine!TaskStatus, CopiesOK, OwedOK, MailsOK

LEMMA LoadStep ==
  ASSUME IInv, NEW r \in Requests, NEW user \in Users,
         NEW edge \in Machine!Transitions, NEW target \in Targets(edge),
         Load(r, user, target, edge)
  PROVE  IInv'
<1>1. PICK c : c = [assignee |-> assignee, edge |-> edge, target |-> target]
  OBVIOUS
<1>2. /\ copy' = [copy EXCEPT ![r] = c]
      /\ edge.from = status
      /\ UNCHANGED <<status, assignee, owed, visited, everAssigned, mails>>
  BY <1>1 DEF Load
<1>3. c \in Copies
  BY <1>1 DEF IInv, TypeOK, Copies, Targets
<1>4. CopyOK(c)
  BY <1>1, <1>2 DEF IInv, CopyOK, AssigneeMatchesStatus
<1>5. TypeOK'
  BY <1>2, <1>3 DEF IInv, TypeOK
<1>6. CopiesOK'
  BY <1>2, <1>4 DEF IInv, TypeOK, CopiesOK, CopyOK
<1>7. OwedOK' /\ MailsOK'
  BY <1>2 DEF IInv, OwedOK, MailsOK, MailOK
<1> QED
  BY <1>2, <1>5, <1>6, <1>7 DEF IInv, AssigneeMatchesStatus, NoStageSkipped

LEMMA FlushStep ==
  ASSUME IInv, NEW r \in Requests, Flush(r)
  PROVE  IInv'
<1>1. PICK c : c = copy[r]
  OBVIOUS
<1>2. PICK m : m = Notification(c)
  OBVIOUS
<1>3. /\ c # Nothing
      /\ status' = c.edge.to
      /\ assignee' = FlushedAssignee(c)
      /\ visited' = visited \cup {status'}
      /\ everAssigned' = everAssigned \cup ({assignee'} \ {NoUser})
      /\ owed' = [owed EXCEPT ![r] = m]
      /\ copy' = [copy EXCEPT ![r] = Nothing]
      /\ mails' = mails
  BY <1>1, <1>2 DEF Flush
<1>4. /\ c.edge \in Machine!Transitions
      /\ c.edge.to = "assigned" => c.target \in Users /\ assignee' = c.target
      /\ c.edge.to = "created" => assignee' = NoUser
      /\ c.edge.to \notin {"assigned", "created"} => assignee' = assignee
      /\ CopyOK(c)
  BY <1>1, <1>3, FlushWrites DEF IInv, CopiesOK
<1>5. assignee' \in Users \cup {NoUser} /\ status' \in TaskStatus
  BY <1>3, <1>4, EdgeForms DEF IInv, TypeOK
<1>6. m \in Mails \cup {Nothing}
  BY <1>2, <1>4, NotificationForms
<1>7. TypeOK'
  BY <1>3, <1>5, <1>6 DEF IInv, TypeOK
<1>8. AssigneeMatchesStatus'
  BY <1>3, <1>4, LifecycleAssumption DEF AssigneeMatchesStatus
<1>9. NoStageSkipped'
  BY <1>3, <1>4, EdgeForms DEF IInv, NoStageSkipped, CopyOK
<1>10. CopiesOK'
  BY <1>3 DEF IInv, TypeOK, CopiesOK, CopyOK
<1>11. \A n : MailOK(n) => MailOK(n)'
  BY <1>3 DEF MailOK
<1>12. m # Nothing => MailOK(m)'
  BY <1>2, <1>3, <1>4, NotificationForms, LifecycleAssumption DEF MailOK
<1>13. OwedOK'
  BY <1>3, <1>11, <1>12 DEF IInv, TypeOK, OwedOK
<1>14. MailsOK'
  BY <1>3, <1>11 DEF IInv, MailsOK
<1> QED
  BY <1>3, <1>7, <1>8, <1>9, <1>10, <1>13, <1>14 DEF IInv

LEMMA NotifyStep ==
  ASSUME IInv, NEW r \in Requests, NotifyByEmail(r)
  PROVE  IInv'
<1>1. PICK m : m = owed[r]
  OBVIOUS
<1>2. /\ m # Nothing
      /\ mails' = mails \cup {m}
      /\ owed' = [owed EXCEPT ![r] = Nothing]
      /\ UNCHANGED <<status, assignee, copy, visited, everAssigned>>
  BY <1>1 DEF NotifyByEmail
<1>3. m \in Mails /\ MailOK(m)
  BY <1>1, <1>2 DEF IInv, TypeOK, OwedOK
<1>4. TypeOK'
  BY <1>2, <1>3 DEF IInv, TypeOK
<1>5. MailsOK' /\ OwedOK'
  BY <1>2, <1>3 DEF IInv, TypeOK, OwedOK, MailsOK, MailOK
<1>6. CopiesOK'
  BY <1>2 DEF IInv, CopiesOK, CopyOK
<1> QED
  BY <1>2, <1>4, <1>5, <1>6 DEF IInv, AssigneeMatchesStatus, NoStageSkipped

LEMMA AbortStep ==
  ASSUME IInv, NEW r \in Requests, Abort(r)
  PROVE  IInv'
<1>1. TypeOK'
  BY DEF IInv, TypeOK, Abort
<1>2. CopiesOK' /\ OwedOK' /\ MailsOK'
  BY DEF IInv, TypeOK, Abort, CopiesOK, CopyOK, OwedOK, MailsOK, MailOK
<1> QED
  BY <1>1, <1>2 DEF IInv, Abort, AssigneeMatchesStatus, NoStageSkipped

LEMMA StutterStep == IInv /\ UNCHANGED vars => IInv'
BY DEF IInv, vars, TypeOK, AssigneeMatchesStatus, NoStageSkipped, CopiesOK,
       CopyOK, OwedOK, MailsOK, MailOK

\* IInv is inductive.
LEMMA StepIInv == IInv /\ [Next]_vars => IInv'
BY LoadStep, FlushStep, NotifyStep, AbortStep, StutterStep DEF Next

\* Every reachable state satisfies the inductive invariant.
THEOREM Invariance == Spec => []IInv
BY InitIInv, StepIInv, PTL DEF Spec

\* The row, the requests and the histories hold values of their types.
THEOREM TypeCorrect == Spec => []TypeOK
<1>1. IInv => TypeOK
  BY DEF IInv
<1> QED
  BY <1>1, Invariance, PTL

\* Overlapping requests never leave an open task with an assignee, or an
\* assigned one without.
THEOREM AssigneeAgrees == Spec => []AssigneeMatchesStatus
<1>1. IInv => AssigneeMatchesStatus
  BY DEF IInv
<1> QED
  BY <1>1, Invariance, PTL

\* Overlapping requests never skip a stage of the workflow.
THEOREM StagesInOrder == Spec => []NoStageSkipped
<1>1. IInv => NoStageSkipped
  BY DEF IInv
<1> QED
  BY <1>1, Invariance, PTL

\* Overlapping requests never send a mail about something that did not happen.
THEOREM MailsTellTheTruth == Spec => []MailsAreTrue
<1>1. IInv => MailsAreTrue
  BY DEF IInv, MailsAreTrue, MailsOK, MailOK
<1> QED
  BY <1>1, Invariance, PTL

-----------------------------------------------------------------------------
(***************************************************************************)
(* Flushes that find the status they loaded.                               *)
(***************************************************************************)
\* A loaded transition is open to somebody: its caller.
AllowedCopy(c) == \E u \in Users : RoleOf[u] = c.edge.role

CopiesAllowed == \A r \in Requests : copy[r] # Nothing => AllowedCopy(copy[r])

\* Only Load makes a copy.
LEMMA AllowedStep == IInv /\ CopiesAllowed /\ [Next]_vars => CopiesAllowed'
<1> SUFFICES ASSUME IInv, CopiesAllowed, [Next]_vars PROVE CopiesAllowed'
  OBVIOUS
<1>1. CASE UNCHANGED copy
  BY <1>1 DEF CopiesAllowed
<1>2. ASSUME NEW r \in Requests, NEW edge \in Machine!Transitions,
             NEW user \in Users, NEW target \in Targets(edge),
             Load(r, user, target, edge)
      PROVE  CopiesAllowed'
  <2>1. PICK c : c = [assignee |-> assignee, edge |-> edge, target |-> target]
    OBVIOUS
  <2>2. AllowedCopy(c) /\ copy' = [copy EXCEPT ![r] = c]
    BY <1>2, <2>1 DEF Load, AllowedCopy
  <2> QED
    BY <2>2 DEF IInv, TypeOK, CopiesAllowed
<1>3. ASSUME NEW r \in Requests, Flush(r) \/ Abort(r) PROVE CopiesAllowed'
  BY <1>3 DEF IInv, TypeOK, Flush, Abort, CopiesAllowed
<1> QED
  BY <1>1, <1>2, <1>3 DEF Next, vars, NotifyByEmail

\* A flush whose copy has the row's status is a transition of the state
\* machine, whatever else of the copy is stale.
LEMMA FlushIsTransition ==
  ASSUME IInv, CopiesAllowed, NEW r \in Requests, Flush(r),
         copy[r].edge.from = status
  PROVE  Machine!Transition
<1>1. PICK c : c = copy[r]
  OBVIOUS
<1>2. /\ c # Nothing
      /\ status' = c.edge.to
      /\ assignee' = FlushedAssignee(c)
  BY <1>1 DEF Flush
<1>3. c.edge \in Machine!Transitions /\ c.edge.from = status
  BY <1>1, <1>2, FlushWrites
<1>4. PICK u \in Users : RoleOf[u] = c.edge.role
  BY <1>1, <1>2 DEF CopiesAllowed, AllowedCopy
<1>5. CASE c.edge.to = "assigned"
  <2>1. c.target \in Users /\ assignee' = c.target
    BY <1>1, <1>2, <1>5, FlushWrites
  <2>2. assignee' = Machine!AssigneeAfter(c.edge.to, c.target, assignee)
    BY <1>5, <2>1 DEF Machine!AssigneeAfter
  <2> QED
    BY <1>2, <1>3, <1>4, <2>1, <2>2 DEF Machine!Transition
<1>6. CASE c.edge.to # "assigned"
  <2>1. assignee' = Machine!AssigneeAfter(c.edge.to, u, assignee)
    BY <1>1, <1>2, <1>6, FlushWrites DEF Machine!AssigneeAfter
  <2> QED
    BY <1>2, <1>3, <1>4, <2>1 DEF Machine!Transition
<1> QED
  BY <1>5, <1>6

\* With any number of overlapping requests, a flush departs from the state
\* machine only if the status it loaded is no longer the row's.
THEOREM StatusCheckWouldDo == Spec => CurrentStatusSuffices
<1>1. Init => CopiesAllowed
  BY DEF Init, CopiesAllowed
<1>2. IInv /\ CopiesAllowed /\ [Next]_vars =>
        [\A r \in Requests :
           Flush(r) /\ copy[r].edge.from = status => Machine!Transition]_vars
  BY FlushIsTransition
<1> QED
  BY <1>1, <1>2, AllowedStep, Invariance, PTL DEF Spec, CurrentStatusSuffices

\* A step that is no stale flush is a transition or leaves the row alone.
LEMMA CurrentStepIsTransition ==
  IInv /\ CopiesAllowed /\ [Next /\ ~StaleFlush]_vars =>
    [Machine!Next]_<<status, assignee>>
BY FlushIsTransition
   DEF Next, vars, Load, NotifyByEmail, Abort, StaleFlush, Machine!Next

\* A state machine that starts well owns its work for ever.
LEMMA MachineOwnsWork ==
  /\ Machine!Init => Machine!OwnedWork
  /\ Machine!OwnedWork /\ [Machine!Next]_<<status, assignee>> =>
       Machine!OwnedWork'
<1>1. Machine!Init => Machine!OwnedWork
  BY LifecycleAssumption DEF Machine!Init, Machine!OwnedWork
<1>2. Machine!OwnedWork /\ [Machine!Next]_<<status, assignee>> =>
        Machine!OwnedWork'
  <2> SUFFICES ASSUME Machine!OwnedWork, NEW t \in Machine!Transitions,
                      NEW target \in Users, status = t.from, status' = t.to,
                      assignee' = Machine!AssigneeAfter(t.to, target, assignee)
               PROVE  Machine!OwnedWork'
    BY DEF Machine!Next, Machine!Transition, Machine!OwnedWork
  <2> QED
    BY EdgeForms, LifecycleAssumption
       DEF Machine!OwnedWork, Machine!AssigneeAfter
<1> QED
  BY <1>1, <1>2

\* ImplementsStateMachine, which a run refutes, holds of every behaviour of
\* overlapping requests in which no flush is stale, and work has an owner in
\* all of them: a flush that checked the status it loaded would be enough.
THEOREM ImplementsUntilStaleFlush ==
  Init /\ [][Next /\ ~StaleFlush]_vars => ImplementsStateMachine /\ []OwnedWork
<1>1. Init => IInv /\ CopiesAllowed /\ Machine!Init
  BY InitIInv DEF Init, CopiesAllowed
<1>2. IInv /\ CopiesAllowed /\ [Next /\ ~StaleFlush]_vars =>
        IInv' /\ CopiesAllowed'
  BY StepIInv, AllowedStep
<1>3. Init /\ [][Next /\ ~StaleFlush]_vars => ImplementsStateMachine
  BY <1>1, <1>2, CurrentStepIsTransition, PTL
     DEF ImplementsStateMachine, Machine!Spec
<1> QED
  BY <1>3, MachineOwnsWork, PTL
     DEF ImplementsStateMachine, Machine!Spec, OwnedWork

-----------------------------------------------------------------------------
(***************************************************************************)
(* Requests that do not overlap.                                           *)
(***************************************************************************)
OneAtATime == \A q, r \in Requests : q = r

CopiesFresh ==
  \A r \in Requests : copy[r] # Nothing => copy[r].edge.from = status

\* When requests do not overlap, no copy is ever stale.
LEMMA FreshStep ==
  ASSUME OneAtATime, IInv, CopiesFresh, [Next]_vars
  PROVE  CopiesFresh'
<1>1. CASE UNCHANGED <<copy, status>>
  BY <1>1 DEF CopiesFresh
<1>2. ASSUME NEW r \in Requests, NEW edge \in Machine!Transitions,
             NEW user \in Users, NEW target \in Targets(edge),
             Load(r, user, target, edge)
      PROVE  CopiesFresh'
  <2>1. PICK c : c = [assignee |-> assignee, edge |-> edge, target |-> target]
    OBVIOUS
  <2>2. c.edge.from = status' /\ copy' = [copy EXCEPT ![r] = c]
    BY <1>2, <2>1 DEF Load
  <2> QED
    BY <2>2 DEF OneAtATime, IInv, TypeOK, CopiesFresh
<1>3. ASSUME NEW r \in Requests, Flush(r) \/ Abort(r)
      PROVE  CopiesFresh'
  BY <1>3 DEF OneAtATime, IInv, TypeOK, Flush, Abort, CopiesFresh
<1> QED
  BY <1>1, <1>2, <1>3 DEF Next, vars, NotifyByEmail

\* When requests do not overlap, the handler implements the state machine:
\* every step is one of its transitions or changes neither the status nor the
\* assignee.
THEOREM SerialImplementsStateMachine ==
  ASSUME OneAtATime
  PROVE  Spec => ImplementsStateMachine
<1>1. Init => IInv /\ CopiesAllowed /\ CopiesFresh /\ Machine!Init
  BY InitIInv DEF Init, CopiesAllowed, CopiesFresh
<1>2. IInv /\ CopiesAllowed /\ CopiesFresh /\ [Next]_vars =>
        CopiesAllowed' /\ CopiesFresh'
  BY OneAtATime, FreshStep, AllowedStep
<1>3. IInv /\ CopiesAllowed /\ CopiesFresh /\ [Next]_vars =>
        [Machine!Next]_<<status, assignee>>
  BY CurrentStepIsTransition DEF CopiesFresh, StaleFlush, Flush
<1> QED
  BY <1>1, <1>2, <1>3, Invariance, PTL
     DEF Spec, ImplementsStateMachine, Machine!Spec

\* When requests do not overlap, work that was started has an assignee and an
\* open task has none: an invariant of the state machine.
THEOREM SerialWorkIsOwned ==
  ASSUME OneAtATime
  PROVE  Spec => []OwnedWork
<1> QED
  BY SerialImplementsStateMachine, MachineOwnsWork, PTL
     DEF ImplementsStateMachine, Machine!Spec, OwnedWork
=============================================================================
