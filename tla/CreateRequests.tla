---------------------------- MODULE CreateRequests ----------------------------
(***************************************************************************)
(* What the requests to create a task come to, as a reporter sees it and   *)
(* whatever fails in between: a task, the mail that it was created and the *)
(* mail that it could not be.  A request makes one task at most, tells of  *)
(* it only when it is there, and does nothing more once it has told that   *)
(* it failed; of the requests for one title one makes its task.            *)
(***************************************************************************)
CONSTANTS
  Requests,
  TitleOf       \* [Requests -> titles]

VARIABLES
  created,      \* the requests whose task is there
  toldCreated,  \* the requests whose reporter is sent the success mail
  toldFailed    \* the requests whose reporter is sent the failure mail

Init == created = {} /\ toldCreated = {} /\ toldFailed = {}

Create(r) ==
  /\ r \notin toldFailed
  /\ \A t \in created : TitleOf[t] # TitleOf[r]
  /\ created' = created \cup {r}
  /\ UNCHANGED <<toldCreated, toldFailed>>

TellCreated(r) ==
  /\ r \in created \ (toldCreated \cup toldFailed)
  /\ toldCreated' = toldCreated \cup {r}
  /\ UNCHANGED <<created, toldFailed>>

\* The task may be there, and its reporter may have been told so: see
\* FailureMailMeansNoTask in EventPipeline.
TellFailed(r) ==
  /\ r \notin toldFailed
  /\ toldFailed' = toldFailed \cup {r}
  /\ UNCHANGED <<created, toldCreated>>

Next == \E r \in Requests : Create(r) \/ TellCreated(r) \/ TellFailed(r)

Spec == Init /\ [][Next]_<<created, toldCreated, toldFailed>>
=============================================================================
