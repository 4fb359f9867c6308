-------------------------- MODULE EventPipelineProofs --------------------------
(***************************************************************************)
(* The safety properties of EventPipeline hold for every set of events,    *)
(* every assignment of titles and every number of attempts and tolerated   *)
(* stalls.  The inductive invariant IInv has one conjunct per group of     *)
(* facts; none of the groups is inductive alone: the bound on the attempts *)
(* rests on no job being enqueued twice, which rests on the task table and *)
(* on the listeners in flight.                                             *)
(***************************************************************************)
EXTENDS EventPipeline, TLAPS

\* A job never runs ahead of its event row: processors and listeners update
\* and look up a row that is already flushed (event.service.ts:73 before 78).
EventBeforeJob ==
  \A j \in Jobs : jobState[j] # "absent" => event[j.event] # "absent"

\* "Your task has been created" is never enqueued, let alone sent, for a
\* task that is not in the database (task.processor.ts:67 before 69).
SuccessMailImpliesTask ==
  \A e \in CreateEvents : jobState[SuccessJob(e)] # "absent" => e \in tasks

\* However often the create job is retried or redelivered, its success mail
\* is enqueued at most once: a worker that is about to enqueue it is the
\* first one to get there.
OneSuccessMail ==
  \A e \in CreateEvents :
    pc[CreateJob(e)] = "inserted" => jobState[SuccessJob(e)] = "absent"

\* Where a job can be, given its counters: attempts are left unless it failed,
\* a job that runs is active, and a job that is not in Redis has no history.
JobOK(j) ==
  /\ jobState[j] # "failed" => attemptsMade[j] < MAX_ATTEMPTS
  /\ jobState[j] = "active" => stalledCount[j] <= MaxStalledCount
  /\ pc[j] # "idle" => jobState[j] = "active"
  /\ jobState[j] = "absent" =>
       attemptsMade[j] = 0 /\ stalledCount[j] = 0 /\ sent[j] = 0

JobInv == \A j \in Jobs : JobOK(j)

\* The API pushes each event once, after its row is flushed.
ServiceOK(e) ==
  /\ svc[e] \in {"idle", "called", "flushed"} => jobState[FirstJob(e)] = "absent"
  /\ svc[e] = "pushed" => jobState[FirstJob(e)] # "absent"
  /\ svc[e] \in {"flushed", "pushed"} => event[e] # "absent"
  /\ svc[e] \in {"idle", "called"} => event[e] = "absent"

ServiceInv == \A e \in Events : ServiceOK(e)

\* EventBeforeJob for one job.
EventThere(j) == jobState[j] # "absent" => event[j.event] # "absent"

\* The create job, its task and its success mail move in step.
TaskOK(e) ==
  /\ pc[CreateJob(e)] \in {"inserted", "enqueued", "finished"} => e \in tasks
  /\ pc[CreateJob(e)] \in {"enqueued", "finished"} =>
       jobState[SuccessJob(e)] # "absent"

TaskInv == \A e \in CreateEvents : TaskOK(e)

\* SuccessMailImpliesTask and OneSuccessMail for one event.
SuccessOK(e) ==
  /\ jobState[SuccessJob(e)] # "absent" => e \in tasks
  /\ pc[CreateJob(e)] = "inserted" => jobState[SuccessJob(e)] = "absent"

\* A listener belongs to an attempt that was made; there is one for each; the
\* one of the last attempt finds its job failed and its failure mail unsent,
\* and has logged the failure before it goes on.
HandlerOK(h) ==
  /\ h.attempt <= attemptsMade[h.job]
  /\ \A e \in CreateEvents :
       h.job = CreateJob(e) /\ h.attempt = MAX_ATTEMPTS =>
         jobState[FailureJob(e)] = "absent"
  /\ h.pc # "start" =>
       h.attempt = MAX_ATTEMPTS /\ <<h.job, MAX_ATTEMPTS>> \in logs
  /\ h.pc = "marked" => h.job \in CreateJobs

OneHandlerPerAttempt ==
  \A g, h \in handlers : g.job = h.job /\ g.attempt = h.attempt => g = h

HandlerInv == OneHandlerPerAttempt /\ \A h \in handlers : HandlerOK(h)

\* FailureMailAfterLastAttempt and CompletedTaskJob for one event.
OutcomeOK(e) ==
  /\ jobState[FailureJob(e)] # "absent" =>
       /\ jobState[CreateJob(e)] = "failed"
       /\ attemptsMade[CreateJob(e)] = MAX_ATTEMPTS
       /\ <<CreateJob(e), MAX_ATTEMPTS>> \in logs
  /\ jobState[CreateJob(e)] = "completed" =>
       /\ e \in tasks
       /\ jobState[SuccessJob(e)] # "absent"
       /\ jobState[FailureJob(e)] = "absent"

\* The job that made an event fail.
Culprit(j) ==
  /\ jobState[j] = "failed"
  /\ attemptsMade[j] = MAX_ATTEMPTS
  /\ <<j, MAX_ATTEMPTS>> \in logs

\* A job whose last status write is done, acknowledged or not.
Done(j) == pc[j] = "finished" \/ jobState[j] = "completed"

\* The row says "completed" when the jobs that write it are done.
AllDone(e) ==
  \/ e \in NotifyEvents /\ Done(NotifyJob(e))
  \/ e \in CreateEvents /\ Done(CreateJob(e)) /\ Done(SuccessJob(e))

DoneOK(e) == AllDone(e) => event[e] = "completed"

DoneInv == \A e \in Events : DoneOK(e)

\* The run of a job that may have sent a mail that no counter shows yet.
Unaccounted(j) ==
  IF \/ pc[j] \in {"sent", "finished"}
     \/ jobState[j] = "active" /\ pc[j] = "idle"
     \/ jobState[j] = "completed"
  THEN 1 ELSE 0

CopiesOK(j) == sent[j] <= attemptsMade[j] + stalledCount[j] + Unaccounted(j)

CopiesInv == \A j \in MailJobs : CopiesOK(j)

IInv ==
  /\ TypeOK
  /\ JobInv
  /\ ServiceInv
  /\ EventBeforeJob
  /\ TaskInv
  /\ SuccessMailImpliesTask
  /\ OneSuccessMail
  /\ HandlerInv
  /\ FailureMailAfterLastAttempt
  /\ CompletedTaskJob
  /\ FailedEventCause
  /\ DoneInv
  /\ CopiesInv
  /\ MailCopiesBounded

-----------------------------------------------------------------------------
(***************************************************************************)
(* Facts about jobs.                                                       *)
(***************************************************************************)
\* Every job is the create, success, failure or notify job of its event.
LEMMA JobForms ==
  /\ \A j \in CreateJobs : j.event \in CreateEvents /\ j = CreateJob(j.event)
  /\ \A j \in SuccessJobs : j.event \in CreateEvents /\ j = SuccessJob(j.event)
  /\ \A j \in FailureJobs : j.event \in CreateEvents /\ j = FailureJob(j.event)
  /\ \A j \in NotifyJobs : j.event \in NotifyEvents /\ j = NotifyJob(j.event)
BY DEF CreateJobs, SuccessJobs, FailureJobs, NotifyJobs,
       CreateJob, SuccessJob, FailureJob, NotifyJob

\* The four constructors yield jobs of their kind.
LEMMA JobsMade ==
  /\ \A e \in CreateEvents :
       /\ CreateJob(e) \in CreateJobs /\ CreateJob(e).event = e
       /\ SuccessJob(e) \in SuccessJobs /\ SuccessJob(e).event = e
       /\ FailureJob(e) \in FailureJobs /\ FailureJob(e).event = e
  /\ \A e \in NotifyEvents :
       NotifyJob(e) \in NotifyJobs /\ NotifyJob(e).event = e
BY DEF CreateJobs, SuccessJobs, FailureJobs, NotifyJobs,
       CreateJob, SuccessJob, FailureJob, NotifyJob

\* The kinds are disjoint, and every job belongs to an event.
LEMMA JobKinds ==
  /\ CreateJobs \cap SuccessJobs = {}
  /\ CreateJobs \cap FailureJobs = {}
  /\ CreateJobs \cap NotifyJobs = {}
  /\ SuccessJobs \cap FailureJobs = {}
  /\ SuccessJobs \cap NotifyJobs = {}
  /\ FailureJobs \cap NotifyJobs = {}
  /\ \A j \in Jobs : j.event \in Events
BY DEF CreateJobs, SuccessJobs, FailureJobs, NotifyJobs, MailJobs, Jobs, Events

\* A job is a create job or a mail job, not both.
LEMMA JobSets ==
  /\ Jobs = CreateJobs \cup MailJobs
  /\ CreateJobs \cap MailJobs = {}
  /\ \A e \in CreateEvents :
       /\ CreateJob(e) \in Jobs /\ CreateJob(e) \in CreateJobs
       /\ SuccessJob(e) \in Jobs /\ SuccessJob(e) \in MailJobs
       /\ FailureJob(e) \in Jobs /\ FailureJob(e) \in MailJobs
  /\ \A e \in NotifyEvents : NotifyJob(e) \in Jobs /\ NotifyJob(e) \in MailJobs
BY JobsMade, JobKinds DEF Jobs, MailJobs

\* Jobs of different kinds or events differ.
LEMMA JobsDistinct ==
  /\ \A e, f \in CreateEvents :
       /\ CreateJob(e) = CreateJob(f) => e = f
       /\ SuccessJob(e) = SuccessJob(f) => e = f
       /\ FailureJob(e) = FailureJob(f) => e = f
       /\ CreateJob(e) # SuccessJob(f)
       /\ CreateJob(e) # FailureJob(f)
       /\ SuccessJob(e) # FailureJob(f)
  /\ \A e \in CreateEvents, f \in NotifyEvents :
       /\ NotifyJob(f) # CreateJob(e)
       /\ NotifyJob(f) # SuccessJob(e)
       /\ NotifyJob(f) # FailureJob(e)
  /\ \A e, f \in NotifyEvents : NotifyJob(e) = NotifyJob(f) => e = f
BY DEF CreateJob, SuccessJob, FailureJob, NotifyJob

\* The first job of an event is a job of that event, and of no other.
LEMMA FirstJobs ==
  /\ \A e \in Events : FirstJob(e) \in Jobs /\ FirstJob(e).event = e
  /\ \A e \in CreateEvents : FirstJob(e) = CreateJob(e)
  /\ \A e \in NotifyEvents : FirstJob(e) = NotifyJob(e)
  /\ \A e, f \in Events : FirstJob(e) = FirstJob(f) => e = f
  /\ \A e \in Events, f \in CreateEvents :
       FirstJob(e) # SuccessJob(f) /\ FirstJob(e) # FailureJob(f)
<1>1. \A e \in Events : FirstJob(e) \in Jobs /\ FirstJob(e).event = e
  BY JobsMade DEF FirstJob, Events, Jobs, MailJobs
<1>2. /\ \A e \in CreateEvents : FirstJob(e) = CreateJob(e)
      /\ \A e \in NotifyEvents : FirstJob(e) = NotifyJob(e)
  BY EventsAssumption DEF FirstJob
<1>3. \A e \in Events, f \in CreateEvents :
        FirstJob(e) # SuccessJob(f) /\ FirstJob(e) # FailureJob(f)
  BY <1>2, JobsDistinct DEF Events
<1> QED
  BY <1>1, <1>2, <1>3

-----------------------------------------------------------------------------
(***************************************************************************)
(* The initial state.                                                      *)
(***************************************************************************)
LEMMA InitIInv == Init => IInv
<1> SUFFICES ASSUME Init PROVE IInv
  OBVIOUS
<1> USE DEF Init, Empty
<1>1. \A e \in Events : FirstJob(e) \in Jobs
  BY JobsMade DEF FirstJob, Events, Jobs, MailJobs
<1>2. TypeOK
  BY AttemptsAssumption, StalledAssumption DEF TypeOK, EventStatus
<1>3. JobInv
  BY AttemptsAssumption DEF JobInv, JobOK
<1>4. ServiceInv /\ EventBeforeJob
  BY <1>1, JobKinds DEF ServiceInv, ServiceOK, EventBeforeJob
<1>5. TaskInv /\ SuccessMailImpliesTask /\ OneSuccessMail
  BY JobsMade DEF TaskInv, TaskOK, SuccessMailImpliesTask, OneSuccessMail, Jobs, MailJobs
<1>6. HandlerInv
  BY DEF HandlerInv, HandlerOK, OneHandlerPerAttempt
<1>7. FailureMailAfterLastAttempt /\ CompletedTaskJob /\ FailedEventCause
  BY JobsMade DEF FailureMailAfterLastAttempt, CompletedTaskJob,
                  FailedEventCause, Jobs, MailJobs
<1>8. DoneInv
  BY JobSets DEF DoneInv, DoneOK, AllDone, Done
<1>9. CopiesInv /\ MailCopiesBounded
  BY AttemptsAssumption, StalledAssumption
     DEF CopiesInv, CopiesOK, MailCopiesBounded, Unaccounted, MailJobs, Jobs
<1> QED
  BY <1>2, <1>3, <1>4, <1>5, <1>6, <1>7, <1>8, <1>9 DEF IInv

-----------------------------------------------------------------------------
(***************************************************************************)
(* No job is enqueued twice: whoever adds one finds it absent.             *)
(***************************************************************************)
\* The API pushes the first job of an event once.
LEMMA FirstJobIsNew ==
  ASSUME IInv, NEW e \in Events, PushEventToQueue(e)
  PROVE  FirstJob(e) \in Jobs /\ jobState[FirstJob(e)] = "absent"
<1>1. FirstJob(e) \in Jobs
  BY JobsMade DEF FirstJob, Events, Jobs, MailJobs
<1> QED
  BY <1>1 DEF IInv, ServiceInv, ServiceOK, PushEventToQueue, CanPush

\* The task processor enqueues the success mail of a task once.
LEMMA SuccessJobIsNew ==
  ASSUME IInv, NEW j \in CreateJobs, NotifyReporter(j)
  PROVE  /\ j.event \in CreateEvents
         /\ j = CreateJob(j.event)
         /\ SuccessJob(j.event) \in Jobs
         /\ jobState[SuccessJob(j.event)] = "absent"
         /\ SuccessJob(j.event).event = j.event
         /\ j.event \in tasks
<1>1. j.event \in CreateEvents /\ j = CreateJob(j.event)
  BY JobForms
<1>2. SuccessJob(j.event) \in Jobs /\ SuccessJob(j.event).event = j.event
  BY <1>1, JobsMade, JobSets
<1> QED
  BY <1>1, <1>2 DEF IInv, OneSuccessMail, TaskInv, TaskOK, NotifyReporter, CanNotify

\* The listener of the task processor enqueues the failure mail once, and
\* only for a job that failed for good.
LEMMA FailureJobIsNew ==
  ASSUME IInv, NEW h \in handlers, NotifyTaskFailure(h)
  PROVE  /\ h.job \in CreateJobs
         /\ h.job.event \in CreateEvents
         /\ h.job = CreateJob(h.job.event)
         /\ h.attempt = MAX_ATTEMPTS
         /\ attemptsMade[h.job] = MAX_ATTEMPTS
         /\ jobState[h.job] = "failed"
         /\ <<h.job, MAX_ATTEMPTS>> \in logs
         /\ FailureJob(h.job.event) \in Jobs
         /\ FailureJob(h.job.event).event = h.job.event
         /\ jobState[FailureJob(h.job.event)] = "absent"
<1>1. /\ h.job \in CreateJobs
      /\ h.job \in Jobs
      /\ h.attempt = MAX_ATTEMPTS
      /\ <<h.job, MAX_ATTEMPTS>> \in logs
      /\ MAX_ATTEMPTS <= attemptsMade[h.job]
  BY DEF IInv, HandlerInv, HandlerOK, TypeOK, NotifyTaskFailure
<1>2. h.job.event \in CreateEvents /\ h.job = CreateJob(h.job.event)
  BY <1>1, JobForms
<1>3. /\ FailureJob(h.job.event) \in Jobs
      /\ FailureJob(h.job.event).event = h.job.event
  BY <1>2, JobsMade, JobSets
<1>4. attemptsMade[h.job] = MAX_ATTEMPTS /\ jobState[h.job] = "failed"
  BY <1>1, AttemptsAssumption DEF IInv, JobInv, JobOK, TypeOK
<1>5. jobState[FailureJob(h.job.event)] = "absent"
  BY <1>1, <1>2 DEF IInv, HandlerInv, HandlerOK
<1> QED
  BY <1>1, <1>2, <1>3, <1>4, <1>5

-----------------------------------------------------------------------------
(***************************************************************************)
(* Whose turn it is: what is known of the job a step is about.             *)
(***************************************************************************)
\* A job the worker runs is active, its row is there and its request pushed.
LEMMA RunningJob ==
  ASSUME IInv, NEW j \in Jobs, pc[j] # "idle"
  PROVE  /\ jobState[j] = "active"
         /\ j.event \in Events
         /\ event[j.event] # "absent"
         /\ svc[j.event] \notin {"idle", "called"}
<1>1. jobState[j] = "active"
  BY DEF IInv, JobInv, JobOK
<1>2. j.event \in Events
  BY JobKinds
<1>3. event[j.event] # "absent"
  BY <1>1 DEF IInv, EventBeforeJob
<1> QED
  BY <1>1, <1>2, <1>3 DEF IInv, ServiceInv, ServiceOK

\* A listener is about a job that is in Redis and whose row is there.
LEMMA HandledJob ==
  ASSUME IInv, NEW h \in handlers
  PROVE  /\ h.job \in Jobs
         /\ jobState[h.job] # "absent"
         /\ h.job.event \in Events
         /\ event[h.job.event] # "absent"
         /\ svc[h.job.event] \notin {"idle", "called"}
<1>1. h.job \in Jobs /\ h.attempt \in 1..MAX_ATTEMPTS
  BY DEF IInv, TypeOK
<1>2. HandlerOK(h) /\ attemptsMade[h.job] \in 0..MAX_ATTEMPTS
  BY <1>1 DEF IInv, TypeOK, HandlerInv
<1>3. jobState[h.job] # "absent"
  BY <1>1, <1>2, AttemptsAssumption DEF IInv, JobInv, JobOK, HandlerOK
<1>4. h.job.event \in Events
  BY <1>1, JobKinds
<1>5. event[h.job.event] # "absent"
  BY <1>1, <1>3 DEF IInv, EventBeforeJob
<1> QED
  BY <1>1, <1>3, <1>4, <1>5 DEF IInv, ServiceInv, ServiceOK

\* A listener that goes on after its log row belongs to a job that failed for
\* good.
LEMMA FinalHandler ==
  ASSUME IInv, NEW h \in handlers, h.attempt = MAX_ATTEMPTS
  PROVE  jobState[h.job] = "failed" /\ attemptsMade[h.job] = MAX_ATTEMPTS
<1>1. h.job \in Jobs /\ MAX_ATTEMPTS <= attemptsMade[h.job]
  BY DEF IInv, TypeOK, HandlerInv, HandlerOK
<1> QED
  BY <1>1, AttemptsAssumption DEF IInv, TypeOK, JobInv, JobOK

-----------------------------------------------------------------------------
(***************************************************************************)
(* The steps.  One lemma per group of conjuncts, one step per action.      *)
(***************************************************************************)
\* An insert that conflicts is an attempt that throws.
LEMMA ConflictIsError ==
  ASSUME NEW j \in CreateJobs, InsertConflict(j)
  PROVE  j \in Jobs /\ AttemptError(j)
BY DEF InsertConflict, AttemptError, Jobs

\* Every step keeps the types.
LEMMA TypeStep == IInv /\ PipelineStep => TypeOK'
<1> SUFFICES ASSUME IInv, PipelineStep PROVE TypeOK'
  OBVIOUS
<1> USE DEF IInv
<1>0. worker' \in {"up", "down"}
  BY DEF PipelineStep, Disturbance, ApiStep, WorkerStep, WorkerCrash, TypeOK
<1> USE <1>0
<1>1. ASSUME NEW e \in Events, Call(e) PROVE TypeOK'
  BY <1>1, AttemptsAssumption
     DEF TypeOK, EventStatus, JobInv, JobOK, Call, queue
<1>2. ASSUME NEW e \in Events, FlushEvent(e) PROVE TypeOK'
  BY <1>2, AttemptsAssumption
     DEF TypeOK, EventStatus, JobInv, JobOK, SetEvent, FlushEvent, queue
<1>3. ASSUME NEW e \in Events, PushEventToQueue(e) PROVE TypeOK'
  <2>1. svc' \in [Events -> {"idle", "called", "flushed", "pushed", "lost"}]
    BY <1>3 DEF TypeOK, PushEventToQueue
  <2>2. jobState' = [jobState EXCEPT ![FirstJob(e)] = "wait"]
    BY <1>3 DEF PushEventToQueue, Add
  <2>3. UNCHANGED <<event, tasks, attemptsMade, stalledCount, pc, handlers,
                    logs, sent>>
    BY <1>3 DEF PushEventToQueue
  <2> QED
    BY <2>1, <2>2, <2>3 DEF TypeOK
<1>4. ASSUME NEW e \in Events, Reject(e) PROVE TypeOK'
  BY <1>4, AttemptsAssumption
     DEF TypeOK, EventStatus, JobInv, JobOK, Reject, queue
<1>5. CASE ApiCrash
  BY <1>5, AttemptsAssumption
     DEF TypeOK, EventStatus, JobInv, JobOK, ApiCrash, queue
<1>6. ASSUME NEW j \in Jobs, Take(j) PROVE TypeOK'
  BY <1>6, AttemptsAssumption
     DEF TypeOK, EventStatus, JobInv, JobOK, Doomed, Take, queue
<1>7. ASSUME NEW j \in Jobs, TakeDoomed(j) PROVE TypeOK'
  BY <1>7, AttemptsAssumption
     DEF TypeOK, EventStatus, JobInv, JobOK, Doomed, Emit, TakeDoomed, queue
<1>8. ASSUME NEW j \in Jobs, Retry(j) PROVE TypeOK'
  BY <1>8, AttemptsAssumption
     DEF TypeOK, EventStatus, JobInv, JobOK, Add, Retry, queue
<1>9. ASSUME NEW j \in Jobs, RecoverStalled(j) PROVE TypeOK'
  BY <1>9, AttemptsAssumption, StalledAssumption
     DEF TypeOK, EventStatus, JobInv, JobOK, Add, RecoverStalled, queue
<1>10. ASSUME NEW j \in Jobs, Ack(j) PROVE TypeOK'
  BY <1>10, AttemptsAssumption
     DEF TypeOK, EventStatus, JobInv, JobOK, Ack, queue
<1>11. ASSUME NEW j \in Jobs, AttemptError(j) PROVE TypeOK'
  <2>1. attemptsMade[j] + 1 \in 1..MAX_ATTEMPTS
    BY <1>11, AttemptsAssumption DEF AttemptError, JobInv, JobOK, TypeOK
  <2>2. attemptsMade' \in [Jobs -> 0..MAX_ATTEMPTS]
    BY <1>11, <2>1 DEF AttemptError, Fail, TypeOK
  <2> QED
    BY <1>11, <2>1, <2>2 DEF TypeOK, AttemptError, Fail, Emit
<1>12. ASSUME NEW j \in CreateJobs, StartTask(j) PROVE TypeOK'
  BY <1>12, AttemptsAssumption
     DEF TypeOK, EventStatus, JobInv, JobOK, Goto, SetEvent, StartTask, queue
<1>13. ASSUME NEW j \in CreateJobs, InsertTask(j) PROVE TypeOK'
  BY <1>13, AttemptsAssumption, JobForms
     DEF TypeOK, EventStatus, JobInv, JobOK, Jobs, Goto, Clashes, InsertTask,
         queue
<1>14. ASSUME NEW j \in CreateJobs, NotifyReporter(j) PROVE TypeOK'
  BY <1>14, AttemptsAssumption, SuccessJobIsNew
     DEF TypeOK, EventStatus, JobInv, JobOK, CanNotify, Add, NotifyReporter,
         queue
<1>15. ASSUME NEW j \in CreateJobs, CompleteTask(j) PROVE TypeOK'
  BY <1>15, AttemptsAssumption
     DEF TypeOK, EventStatus, JobInv, JobOK, Goto, SetEvent, CompleteTask,
         queue
<1>16. ASSUME NEW j \in MailJobs, StartMail(j) PROVE TypeOK'
  BY <1>16, AttemptsAssumption
     DEF TypeOK, EventStatus, JobInv, JobOK, Goto, SetEvent, StartMail, queue
<1>17. ASSUME NEW j \in MailJobs, SendMail(j) PROVE TypeOK'
  BY <1>17, AttemptsAssumption, JobSets
     DEF TypeOK, EventStatus, JobInv, JobOK, Goto, SendMail, CopiesAfter, queue
<1>18. ASSUME NEW j \in MailJobs, CompleteMail(j) PROVE TypeOK'
  BY <1>18, AttemptsAssumption
     DEF TypeOK, EventStatus, JobInv, JobOK, Goto, SetEvent, CompleteMail,
         queue
<1>19. ASSUME NEW h \in handlers, LogFailure(h) PROVE TypeOK'
  BY <1>19, AttemptsAssumption
     DEF TypeOK, EventStatus, JobInv, JobOK, IsFinal, Advance, Finish,
         LogFailure, queue
<1>20. ASSUME NEW h \in handlers, FailTaskEvent(h) PROVE TypeOK'
  BY <1>20, AttemptsAssumption
     DEF TypeOK, EventStatus, JobInv, JobOK, SetEvent, Advance, FailTaskEvent,
         queue
<1>21. ASSUME NEW h \in handlers, NotifyTaskFailure(h) PROVE TypeOK'
  BY <1>21, AttemptsAssumption, FailureJobIsNew
     DEF TypeOK, EventStatus, JobInv, JobOK, Add, Finish, NotifyTaskFailure,
         queue
<1>22. ASSUME NEW h \in handlers, FailMailEvent(h) PROVE TypeOK'
  BY <1>22, AttemptsAssumption
     DEF TypeOK, EventStatus, JobInv, JobOK, SetEvent, Finish, FailMailEvent,
         queue
<1>23. CASE WorkerCrash
  BY <1>23, AttemptsAssumption
     DEF TypeOK, EventStatus, JobInv, JobOK, WorkerCrash, queue
<1> QED
  BY <1>1, <1>2, <1>3, <1>4, <1>5, <1>6, <1>7, <1>8, <1>9, <1>10, <1>11,
     <1>12, <1>13, <1>14, <1>15, <1>16, <1>17, <1>18, <1>19, <1>20, <1>21,
     <1>22, <1>23, ConflictIsError
     DEF PipelineStep, Disturbance, ApiStep, WorkerStep,
         QueueStep, TaskStep, MailStep,
         HandlerStep, LogTaskFailure, LogMailFailure

\* Every step keeps JobInv.
LEMMA JobStep == IInv /\ PipelineStep => JobInv'
<1> SUFFICES ASSUME IInv, PipelineStep, NEW k \in Jobs PROVE JobOK(k)'
  BY DEF JobInv
<1>1. /\ jobState = [j \in Jobs |-> jobState[j]]
      /\ attemptsMade \in [Jobs -> 0..MAX_ATTEMPTS]
      /\ stalledCount \in [Jobs -> 0..(MaxStalledCount + 1)]
      /\ pc = [j \in Jobs |-> pc[j]]
      /\ sent \in [Jobs -> Nat]
      /\ JobOK(k)
  BY DEF IInv, TypeOK, JobInv
<1>2. ASSUME NEW e \in Events, PushEventToQueue(e) PROVE JobOK(k)'
  BY <1>2, <1>1, AttemptsAssumption, StalledAssumption, FirstJobIsNew
     DEF JobOK, CanPush, Add, PushEventToQueue, queue
<1>3. ASSUME NEW j \in Jobs, Take(j) PROVE JobOK(k)'
  BY <1>3, <1>1, AttemptsAssumption, StalledAssumption
     DEF JobOK, Doomed, Take, queue
<1>4. ASSUME NEW j \in Jobs, TakeDoomed(j) PROVE JobOK(k)'
  BY <1>4, <1>1, AttemptsAssumption, StalledAssumption
     DEF JobOK, Doomed, Emit, TakeDoomed, queue
<1>5. ASSUME NEW j \in Jobs, Retry(j) PROVE JobOK(k)'
  BY <1>5, <1>1, AttemptsAssumption, StalledAssumption
     DEF JobOK, Add, Retry, queue
<1>6. ASSUME NEW j \in Jobs, RecoverStalled(j) PROVE JobOK(k)'
  BY <1>6, <1>1, AttemptsAssumption, StalledAssumption
     DEF JobOK, Add, RecoverStalled, queue
<1>7. ASSUME NEW j \in Jobs, Ack(j) PROVE JobOK(k)'
  BY <1>7, <1>1, AttemptsAssumption, StalledAssumption
     DEF JobOK, Ack, queue
<1>8. ASSUME NEW j \in Jobs, AttemptError(j) PROVE JobOK(k)'
  BY <1>8, <1>1, AttemptsAssumption, StalledAssumption
     DEF JobOK, Fail, Emit, Retryable, AttemptError, queue
<1>9. ASSUME NEW j \in CreateJobs, StartTask(j) PROVE JobOK(k)'
  BY <1>9, <1>1, AttemptsAssumption, StalledAssumption
     DEF JobOK, Goto, SetEvent, StartTask, queue
<1>10. ASSUME NEW j \in CreateJobs, InsertTask(j) PROVE JobOK(k)'
  BY <1>10, <1>1, AttemptsAssumption, StalledAssumption
     DEF JobOK, Goto, Clashes, InsertTask, queue
<1>11. ASSUME NEW j \in CreateJobs, NotifyReporter(j) PROVE JobOK(k)'
  BY <1>11, <1>1, AttemptsAssumption, StalledAssumption, SuccessJobIsNew
     DEF JobOK, CanNotify, Add, NotifyReporter, queue
<1>12. ASSUME NEW j \in CreateJobs, CompleteTask(j) PROVE JobOK(k)'
  BY <1>12, <1>1, AttemptsAssumption, StalledAssumption
     DEF JobOK, Goto, SetEvent, CompleteTask, queue
<1>13. ASSUME NEW j \in MailJobs, StartMail(j) PROVE JobOK(k)'
  BY <1>13, <1>1, AttemptsAssumption, StalledAssumption
     DEF JobOK, Goto, SetEvent, StartMail, queue
<1>14. ASSUME NEW j \in MailJobs, SendMail(j) PROVE JobOK(k)'
  BY <1>14, <1>1, AttemptsAssumption, StalledAssumption, JobSets
     DEF JobOK, Goto, SendMail, queue
<1>15. ASSUME NEW j \in MailJobs, CompleteMail(j) PROVE JobOK(k)'
  BY <1>15, <1>1, AttemptsAssumption, StalledAssumption
     DEF JobOK, Goto, SetEvent, CompleteMail, queue
<1>16. ASSUME NEW h \in handlers, NotifyTaskFailure(h) PROVE JobOK(k)'
  BY <1>16, <1>1, AttemptsAssumption, StalledAssumption, FailureJobIsNew
     DEF JobOK, Add, Finish, NotifyTaskFailure, queue
<1>17. CASE WorkerCrash
  BY <1>17, <1>1, AttemptsAssumption, StalledAssumption
     DEF JobOK, WorkerCrash, queue
<1>18. CASE UNCHANGED <<jobState, attemptsMade, stalledCount, pc, sent>>
  BY <1>18, <1>1
     DEF JobOK
<1> QED
  BY <1>2, <1>3, <1>4, <1>5, <1>6, <1>7, <1>8, <1>9, <1>10, <1>11, <1>12,
     <1>13, <1>14, <1>15, <1>16, <1>17, <1>18, ConflictIsError
     DEF PipelineStep, Disturbance, ApiStep, WorkerStep,
         QueueStep, TaskStep, MailStep,
         HandlerStep, SetEvent, IsFinal, Advance, Finish, Call, FlushEvent,
         Reject, ApiCrash, LogFailure, FailTaskEvent, FailMailEvent,
         LogTaskFailure, LogMailFailure, queue

\* Every step keeps ServiceInv.
LEMMA ServiceStep == IInv /\ PipelineStep => ServiceInv'
<1> SUFFICES ASSUME IInv, PipelineStep, NEW k \in Events PROVE ServiceOK(k)'
  BY DEF ServiceInv
<1>1. /\ svc = [e \in Events |-> svc[e]]
      /\ event = [e \in Events |-> event[e]]
      /\ jobState = [j \in Jobs |-> jobState[j]]
      /\ ServiceOK(k)
  BY DEF IInv, TypeOK, ServiceInv
<1>2. ASSUME NEW e \in Events, Call(e) PROVE ServiceOK(k)'
  BY <1>2, <1>1, FirstJobs
     DEF ServiceOK, Call, queue
<1>3. ASSUME NEW e \in Events, FlushEvent(e) PROVE ServiceOK(k)'
  BY <1>3, <1>1, FirstJobs
     DEF ServiceOK, SetEvent, FlushEvent, queue
<1>4. ASSUME NEW e \in Events, PushEventToQueue(e) PROVE ServiceOK(k)'
  BY <1>4, <1>1, FirstJobs, FirstJobIsNew
     DEF ServiceOK, CanPush, Add, PushEventToQueue, queue
<1>5. ASSUME NEW e \in Events, Reject(e) PROVE ServiceOK(k)'
  BY <1>5, <1>1, FirstJobs
     DEF ServiceOK, Reject, queue
<1>6. CASE ApiCrash
  BY <1>6, <1>1, FirstJobs
     DEF ServiceOK, ApiCrash, queue
<1>7. ASSUME NEW j \in Jobs, Take(j) PROVE ServiceOK(k)'
  BY <1>7, <1>1, FirstJobs
     DEF ServiceOK, Doomed, Take, queue
<1>8. ASSUME NEW j \in Jobs, TakeDoomed(j) PROVE ServiceOK(k)'
  BY <1>8, <1>1, FirstJobs
     DEF ServiceOK, Doomed, Emit, TakeDoomed, queue
<1>9. ASSUME NEW j \in Jobs, Retry(j) PROVE ServiceOK(k)'
  BY <1>9, <1>1, FirstJobs
     DEF ServiceOK, Add, Retry, queue
<1>10. ASSUME NEW j \in Jobs, RecoverStalled(j) PROVE ServiceOK(k)'
  BY <1>10, <1>1, FirstJobs
     DEF ServiceOK, Add, RecoverStalled, queue
<1>11. ASSUME NEW j \in Jobs, Ack(j) PROVE ServiceOK(k)'
  BY <1>11, <1>1, FirstJobs, RunningJob
     DEF ServiceOK, Ack, queue
<1>12. ASSUME NEW j \in Jobs, AttemptError(j) PROVE ServiceOK(k)'
  BY <1>12, <1>1, FirstJobs, RunningJob
     DEF ServiceOK, Fail, Emit, Retryable, AttemptError, queue
<1>13. ASSUME NEW j \in CreateJobs, StartTask(j) PROVE ServiceOK(k)'
  BY <1>13, <1>1, FirstJobs, RunningJob, JobSets
     DEF ServiceOK, Goto, SetEvent, StartTask, queue
<1>14. ASSUME NEW j \in CreateJobs, NotifyReporter(j) PROVE ServiceOK(k)'
  BY <1>14, <1>1, FirstJobs, RunningJob, JobSets, SuccessJobIsNew
     DEF ServiceOK, CanNotify, Add, NotifyReporter, queue
<1>15. ASSUME NEW j \in CreateJobs, CompleteTask(j) PROVE ServiceOK(k)'
  BY <1>15, <1>1, FirstJobs, RunningJob, JobSets
     DEF ServiceOK, Goto, SetEvent, CompleteTask, queue
<1>16. ASSUME NEW j \in MailJobs, StartMail(j) PROVE ServiceOK(k)'
  BY <1>16, <1>1, FirstJobs, RunningJob, JobSets
     DEF ServiceOK, Goto, SetEvent, StartMail, queue
<1>17. ASSUME NEW j \in MailJobs, CompleteMail(j) PROVE ServiceOK(k)'
  BY <1>17, <1>1, FirstJobs, RunningJob, JobSets
     DEF ServiceOK, Goto, SetEvent, CompleteMail, queue
<1>18. ASSUME NEW h \in handlers, FailTaskEvent(h) PROVE ServiceOK(k)'
  BY <1>18, <1>1, FirstJobs, HandledJob
     DEF ServiceOK, SetEvent, Advance, FailTaskEvent, queue
<1>19. ASSUME NEW h \in handlers, NotifyTaskFailure(h) PROVE ServiceOK(k)'
  BY <1>19, <1>1, FirstJobs, HandledJob, FailureJobIsNew
     DEF ServiceOK, Add, Finish, NotifyTaskFailure, queue
<1>20. ASSUME NEW h \in handlers, FailMailEvent(h) PROVE ServiceOK(k)'
  BY <1>20, <1>1, FirstJobs, HandledJob
     DEF ServiceOK, SetEvent, Finish, FailMailEvent, queue
<1>21. CASE UNCHANGED <<svc, event, jobState>>
  BY <1>21, <1>1
     DEF ServiceOK
<1> QED
  BY <1>2, <1>3, <1>4, <1>5, <1>6, <1>7, <1>8, <1>9, <1>10, <1>11, <1>12,
     <1>13, <1>14, <1>15, <1>16, <1>17, <1>18, <1>19, <1>20, <1>21,
     ConflictIsError
     DEF PipelineStep, Disturbance, ApiStep, WorkerStep,
         QueueStep, TaskStep, MailStep,
         HandlerStep, Goto, Clashes, IsFinal, Advance, Finish, InsertTask,
         SendMail, LogFailure, WorkerCrash, LogTaskFailure, LogMailFailure,
         queue

\* Every step keeps EventBeforeJob.
LEMMA RowStep == IInv /\ PipelineStep => EventBeforeJob'
<1> SUFFICES ASSUME IInv, PipelineStep, NEW k \in Jobs PROVE EventThere(k)'
  BY DEF EventBeforeJob, EventThere
<1>1. /\ event = [e \in Events |-> event[e]]
      /\ jobState = [j \in Jobs |-> jobState[j]]
      /\ EventThere(k)
      /\ k.event \in Events
  BY JobKinds
     DEF IInv, TypeOK, EventBeforeJob, EventThere
<1>2. ASSUME NEW e \in Events, FlushEvent(e) PROVE EventThere(k)'
  BY <1>2, <1>1
     DEF EventThere, SetEvent, FlushEvent, queue
<1>3. ASSUME NEW e \in Events, PushEventToQueue(e) PROVE EventThere(k)'
  <2>1. event[e] # "absent" /\ event' = event
    BY <1>3 DEF IInv, ServiceInv, ServiceOK, CanPush, PushEventToQueue
  <2>2. jobState' = [jobState EXCEPT ![FirstJob(e)] = "wait"]
    BY <1>3 DEF PushEventToQueue, Add
  <2> QED
    BY <1>1, <2>1, <2>2, FirstJobs DEF EventThere
<1>4. ASSUME NEW j \in Jobs, Take(j) PROVE EventThere(k)'
  BY <1>4, <1>1
     DEF EventThere, Doomed, Take, queue
<1>5. ASSUME NEW j \in Jobs, TakeDoomed(j) PROVE EventThere(k)'
  BY <1>5, <1>1
     DEF EventThere, Doomed, Emit, TakeDoomed, queue
<1>6. ASSUME NEW j \in Jobs, Retry(j) PROVE EventThere(k)'
  BY <1>6, <1>1
     DEF EventThere, Add, Retry, queue
<1>7. ASSUME NEW j \in Jobs, RecoverStalled(j) PROVE EventThere(k)'
  BY <1>7, <1>1
     DEF EventThere, Add, RecoverStalled, queue
<1>8. ASSUME NEW j \in Jobs, Ack(j) PROVE EventThere(k)'
  BY <1>8, <1>1, RunningJob
     DEF EventThere, Ack, queue
<1>9. ASSUME NEW j \in Jobs, AttemptError(j) PROVE EventThere(k)'
  BY <1>9, <1>1, RunningJob
     DEF EventThere, Fail, Emit, Retryable, AttemptError, queue
<1>10. ASSUME NEW j \in CreateJobs, StartTask(j) PROVE EventThere(k)'
  BY <1>10, <1>1, RunningJob, JobSets
     DEF EventThere, Goto, SetEvent, StartTask, queue
<1>11. ASSUME NEW j \in CreateJobs, NotifyReporter(j) PROVE EventThere(k)'
  <2>1. j \in Jobs /\ event[j.event] # "absent"
    BY <1>11, JobSets, RunningJob DEF NotifyReporter, CanNotify
  <2> QED
    BY <1>11, <1>1, <2>1, SuccessJobIsNew DEF EventThere, NotifyReporter, Add
<1>12. ASSUME NEW j \in CreateJobs, CompleteTask(j) PROVE EventThere(k)'
  BY <1>12, <1>1, RunningJob, JobSets
     DEF EventThere, Goto, SetEvent, CompleteTask, queue
<1>13. ASSUME NEW j \in MailJobs, StartMail(j) PROVE EventThere(k)'
  BY <1>13, <1>1, RunningJob, JobSets
     DEF EventThere, Goto, SetEvent, StartMail, queue
<1>14. ASSUME NEW j \in MailJobs, CompleteMail(j) PROVE EventThere(k)'
  BY <1>14, <1>1, RunningJob, JobSets
     DEF EventThere, Goto, SetEvent, CompleteMail, queue
<1>15. ASSUME NEW h \in handlers, FailTaskEvent(h) PROVE EventThere(k)'
  BY <1>15, <1>1, HandledJob
     DEF EventThere, SetEvent, Advance, FailTaskEvent, queue
<1>16. ASSUME NEW h \in handlers, NotifyTaskFailure(h) PROVE EventThere(k)'
  BY <1>16, <1>1, HandledJob, FailureJobIsNew
     DEF EventThere, Add, Finish, NotifyTaskFailure, queue
<1>17. ASSUME NEW h \in handlers, FailMailEvent(h) PROVE EventThere(k)'
  BY <1>17, <1>1, HandledJob
     DEF EventThere, SetEvent, Finish, FailMailEvent, queue
<1>18. CASE UNCHANGED <<event, jobState>>
  BY <1>18, <1>1
     DEF EventThere
<1> QED
  BY <1>2, <1>3, <1>4, <1>5, <1>6, <1>7, <1>8, <1>9, <1>10, <1>11, <1>12,
     <1>13, <1>14, <1>15, <1>16, <1>17, <1>18, ConflictIsError
     DEF PipelineStep, Disturbance, ApiStep, WorkerStep,
         QueueStep, TaskStep, MailStep,
         HandlerStep, Goto, Clashes, IsFinal, Advance, Finish, Call, Reject,
         ApiCrash, InsertTask, SendMail, LogFailure, WorkerCrash,
         LogTaskFailure, LogMailFailure, queue

\* Every step keeps TaskInv.
LEMMA TaskProgressStep == IInv /\ PipelineStep => TaskInv'
<1> SUFFICES ASSUME IInv, PipelineStep, NEW k \in CreateEvents PROVE TaskOK(k)'
  BY DEF TaskInv
<1>1. /\ pc = [j \in Jobs |-> pc[j]]
      /\ tasks \subseteq CreateEvents
      /\ jobState = [j \in Jobs |-> jobState[j]]
      /\ TaskOK(k)
      /\ jobState[SuccessJob(k)] # "absent" => k \in tasks
  BY DEF IInv, TypeOK, TaskInv, SuccessMailImpliesTask
<1>2. ASSUME NEW e \in Events, PushEventToQueue(e) PROVE TaskOK(k)'
  BY <1>2, <1>1, JobSets, FirstJobIsNew, FirstJobs
     DEF TaskOK, Events, CanPush, Add, PushEventToQueue, queue
<1>3. ASSUME NEW j \in Jobs, Take(j) PROVE TaskOK(k)'
  BY <1>3, <1>1, JobSets
     DEF TaskOK, Doomed, Take, queue
<1>4. ASSUME NEW j \in Jobs, TakeDoomed(j) PROVE TaskOK(k)'
  BY <1>4, <1>1, JobSets
     DEF TaskOK, Doomed, Emit, TakeDoomed, queue
<1>5. ASSUME NEW j \in Jobs, Retry(j) PROVE TaskOK(k)'
  BY <1>5, <1>1, JobSets
     DEF TaskOK, Add, Retry, queue
<1>6. ASSUME NEW j \in Jobs, RecoverStalled(j) PROVE TaskOK(k)'
  BY <1>6, <1>1, JobSets
     DEF TaskOK, Add, RecoverStalled, queue
<1>7. ASSUME NEW j \in Jobs, Ack(j) PROVE TaskOK(k)'
  BY <1>7, <1>1, JobSets, JobsDistinct
     DEF TaskOK, Ack, queue
<1>8. ASSUME NEW j \in Jobs, AttemptError(j) PROVE TaskOK(k)'
  BY <1>8, <1>1, JobSets, JobsDistinct
     DEF TaskOK, Fail, Emit, Retryable, AttemptError, queue
<1>9. ASSUME NEW j \in CreateJobs, StartTask(j) PROVE TaskOK(k)'
  BY <1>9, <1>1, JobSets, JobsDistinct
     DEF TaskOK, Goto, SetEvent, StartTask, queue
<1>10. ASSUME NEW j \in CreateJobs, InsertTask(j) PROVE TaskOK(k)'
  BY <1>10, <1>1, JobSets, JobsDistinct, JobForms
     DEF TaskOK, Goto, Clashes, InsertTask, queue
<1>11. ASSUME NEW j \in CreateJobs, NotifyReporter(j) PROVE TaskOK(k)'
  BY <1>11, <1>1, JobSets, JobsDistinct, SuccessJobIsNew
     DEF TaskOK, CanNotify, Add, NotifyReporter, queue
<1>12. ASSUME NEW j \in CreateJobs, CompleteTask(j) PROVE TaskOK(k)'
  BY <1>12, <1>1, JobSets, JobsDistinct
     DEF TaskOK, Goto, SetEvent, CompleteTask, queue
<1>13. ASSUME NEW j \in MailJobs, StartMail(j) PROVE TaskOK(k)'
  BY <1>13, <1>1, JobSets, JobsDistinct
     DEF TaskOK, Goto, SetEvent, StartMail, queue
<1>14. ASSUME NEW j \in MailJobs, SendMail(j) PROVE TaskOK(k)'
  BY <1>14, <1>1, JobSets, JobsDistinct
     DEF TaskOK, Goto, SendMail, queue
<1>15. ASSUME NEW j \in MailJobs, CompleteMail(j) PROVE TaskOK(k)'
  BY <1>15, <1>1, JobSets, JobsDistinct
     DEF TaskOK, Goto, SetEvent, CompleteMail, queue
<1>16. ASSUME NEW h \in handlers, NotifyTaskFailure(h) PROVE TaskOK(k)'
  BY <1>16, <1>1, JobSets, JobsDistinct, FailureJobIsNew
     DEF TaskOK, Add, Finish, NotifyTaskFailure, queue
<1>17. CASE WorkerCrash
  BY <1>17, <1>1, JobSets
     DEF TaskOK, WorkerCrash, queue
<1>18. CASE UNCHANGED <<pc, tasks, jobState>>
  BY <1>18, <1>1
     DEF TaskOK
<1> QED
  BY <1>2, <1>3, <1>4, <1>5, <1>6, <1>7, <1>8, <1>9, <1>10, <1>11, <1>12,
     <1>13, <1>14, <1>15, <1>16, <1>17, <1>18, ConflictIsError
     DEF PipelineStep, Disturbance, ApiStep, WorkerStep,
         QueueStep, TaskStep, MailStep,
         HandlerStep, SetEvent, IsFinal, Advance, Finish, Call, FlushEvent,
         Reject, ApiCrash, LogFailure, FailTaskEvent, FailMailEvent,
         LogTaskFailure, LogMailFailure, queue

\* Every step keeps SuccessMailImpliesTask and OneSuccessMail.
LEMMA SuccessStep == IInv /\ PipelineStep => SuccessMailImpliesTask' /\ OneSuccessMail'
<1> SUFFICES ASSUME IInv, PipelineStep, NEW k \in CreateEvents PROVE SuccessOK(k)'
  BY DEF SuccessOK, SuccessMailImpliesTask, OneSuccessMail
<1>1. /\ pc = [j \in Jobs |-> pc[j]]
      /\ tasks \subseteq CreateEvents
      /\ jobState = [j \in Jobs |-> jobState[j]]
      /\ SuccessOK(k)
  BY DEF IInv, TypeOK, SuccessOK, SuccessMailImpliesTask, OneSuccessMail
<1>2. ASSUME NEW e \in Events, PushEventToQueue(e) PROVE SuccessOK(k)'
  BY <1>2, <1>1, JobSets, FirstJobIsNew, FirstJobs
     DEF SuccessOK, CanPush, Add, PushEventToQueue, queue
<1>3. ASSUME NEW j \in Jobs, Take(j) PROVE SuccessOK(k)'
  BY <1>3, <1>1, JobSets
     DEF SuccessOK, Doomed, Take, queue
<1>4. ASSUME NEW j \in Jobs, TakeDoomed(j) PROVE SuccessOK(k)'
  BY <1>4, <1>1, JobSets
     DEF SuccessOK, Doomed, Emit, TakeDoomed, queue
<1>5. ASSUME NEW j \in Jobs, Retry(j) PROVE SuccessOK(k)'
  BY <1>5, <1>1, JobSets
     DEF SuccessOK, Add, Retry, queue
<1>6. ASSUME NEW j \in Jobs, RecoverStalled(j) PROVE SuccessOK(k)'
  BY <1>6, <1>1, JobSets
     DEF SuccessOK, Add, RecoverStalled, queue
<1>7. ASSUME NEW j \in Jobs, Ack(j) PROVE SuccessOK(k)'
  BY <1>7, <1>1, JobSets, JobsDistinct, RunningJob
     DEF SuccessOK, Ack, queue
<1>8. ASSUME NEW j \in Jobs, AttemptError(j) PROVE SuccessOK(k)'
  BY <1>8, <1>1, JobSets, JobsDistinct, RunningJob
     DEF SuccessOK, Fail, Emit, Retryable, AttemptError, queue
<1>9. ASSUME NEW j \in CreateJobs, StartTask(j) PROVE SuccessOK(k)'
  BY <1>9, <1>1, JobSets, JobsDistinct, RunningJob
     DEF SuccessOK, Goto, SetEvent, StartTask, queue
<1>10. ASSUME NEW j \in CreateJobs, InsertTask(j) PROVE SuccessOK(k)'
  BY <1>10, <1>1, JobSets, JobsDistinct, RunningJob, JobForms
     DEF SuccessOK, TaskOK, IInv, TaskInv, Goto, Clashes, InsertTask, queue
<1>11. ASSUME NEW j \in CreateJobs, NotifyReporter(j) PROVE SuccessOK(k)'
  <2>1. /\ j.event \in CreateEvents /\ j = CreateJob(j.event)
        /\ j.event \in tasks /\ SuccessJob(j.event) \in Jobs
        /\ jobState[SuccessJob(j.event)] = "absent"
    BY <1>11, SuccessJobIsNew
  <2>2. \A e \in CreateEvents :
          /\ CreateJob(e) # SuccessJob(j.event)
          /\ FailureJob(e) # SuccessJob(j.event)
          /\ SuccessJob(e) = SuccessJob(j.event) => e = j.event
          /\ CreateJob(e) = CreateJob(j.event) => e = j.event
    BY <2>1, JobsDistinct
  <2>3. /\ jobState' = [jobState EXCEPT ![SuccessJob(j.event)] = "wait"]
        /\ pc' = [pc EXCEPT ![j] = "enqueued"] /\ pc[j] = "inserted"
        /\ UNCHANGED <<event, attemptsMade, logs, tasks>>
    BY <1>11 DEF NotifyReporter, CanNotify, Add
  <2> QED
    BY <1>1, <2>1, <2>2, <2>3, JobSets DEF SuccessOK
<1>12. ASSUME NEW j \in CreateJobs, CompleteTask(j) PROVE SuccessOK(k)'
  BY <1>12, <1>1, JobSets, JobsDistinct, RunningJob
     DEF SuccessOK, Goto, SetEvent, CompleteTask, queue
<1>13. ASSUME NEW j \in MailJobs, StartMail(j) PROVE SuccessOK(k)'
  BY <1>13, <1>1, JobSets, JobsDistinct, RunningJob
     DEF SuccessOK, Goto, SetEvent, StartMail, queue
<1>14. ASSUME NEW j \in MailJobs, SendMail(j) PROVE SuccessOK(k)'
  BY <1>14, <1>1, JobSets, JobsDistinct, RunningJob
     DEF SuccessOK, Goto, SendMail, queue
<1>15. ASSUME NEW j \in MailJobs, CompleteMail(j) PROVE SuccessOK(k)'
  BY <1>15, <1>1, JobSets, JobsDistinct, RunningJob
     DEF SuccessOK, Goto, SetEvent, CompleteMail, queue
<1>16. ASSUME NEW h \in handlers, NotifyTaskFailure(h) PROVE SuccessOK(k)'
  BY <1>16, <1>1, JobSets, HandledJob, JobsDistinct, FailureJobIsNew
     DEF SuccessOK, Add, Finish, NotifyTaskFailure, queue
<1>17. CASE WorkerCrash
  BY <1>17, <1>1, JobSets
     DEF SuccessOK, WorkerCrash, queue
<1>18. CASE UNCHANGED <<pc, tasks, jobState>>
  BY <1>18, <1>1
     DEF SuccessOK
<1> QED
  BY <1>2, <1>3, <1>4, <1>5, <1>6, <1>7, <1>8, <1>9, <1>10, <1>11, <1>12,
     <1>13, <1>14, <1>15, <1>16, <1>17, <1>18, ConflictIsError
     DEF PipelineStep, Disturbance, ApiStep, WorkerStep,
         QueueStep, TaskStep, MailStep,
         HandlerStep, SetEvent, IsFinal, Advance, Finish, Call, FlushEvent,
         Reject, ApiCrash, LogFailure, FailTaskEvent, FailMailEvent,
         LogTaskFailure, LogMailFailure, queue

\* Every step keeps FailureMailAfterLastAttempt and CompletedTaskJob.
LEMMA OutcomeStep == IInv /\ PipelineStep => FailureMailAfterLastAttempt' /\ CompletedTaskJob'
<1> SUFFICES ASSUME IInv, PipelineStep, NEW k \in CreateEvents PROVE OutcomeOK(k)'
  BY DEF OutcomeOK, FailureMailAfterLastAttempt, CompletedTaskJob
<1>1. /\ jobState = [j \in Jobs |-> jobState[j]]
      /\ attemptsMade = [j \in Jobs |-> attemptsMade[j]]
      /\ OutcomeOK(k)
      /\ TaskOK(k)
  BY DEF IInv, TypeOK, OutcomeOK, FailureMailAfterLastAttempt,
         CompletedTaskJob, TaskInv
<1>2. ASSUME NEW e \in Events, PushEventToQueue(e) PROVE OutcomeOK(k)'
  BY <1>2, <1>1, JobSets, JobsDistinct, FirstJobIsNew, FirstJobs
     DEF OutcomeOK, CanPush, Add, PushEventToQueue, queue
<1>3. ASSUME NEW j \in Jobs, Take(j) PROVE OutcomeOK(k)'
  BY <1>3, <1>1, JobSets, JobsDistinct
     DEF OutcomeOK, Doomed, Take, queue
<1>4. ASSUME NEW j \in Jobs, TakeDoomed(j) PROVE OutcomeOK(k)'
  BY <1>4, <1>1, JobSets, JobsDistinct
     DEF OutcomeOK, Doomed, Emit, TakeDoomed, queue
<1>5. ASSUME NEW j \in Jobs, Retry(j) PROVE OutcomeOK(k)'
  BY <1>5, <1>1, JobSets, JobsDistinct
     DEF OutcomeOK, Add, Retry, queue
<1>6. ASSUME NEW j \in Jobs, RecoverStalled(j) PROVE OutcomeOK(k)'
  BY <1>6, <1>1, JobSets, JobsDistinct
     DEF OutcomeOK, Add, RecoverStalled, queue
<1>7. ASSUME NEW j \in Jobs, Ack(j) PROVE OutcomeOK(k)'
  BY <1>7, <1>1, JobSets, JobsDistinct, RunningJob
     DEF OutcomeOK, TaskOK, Ack, queue
<1>8. ASSUME NEW j \in Jobs, AttemptError(j) PROVE OutcomeOK(k)'
  BY <1>8, <1>1, JobSets, JobsDistinct, RunningJob
     DEF OutcomeOK, Fail, Emit, Retryable, AttemptError, queue
<1>9. ASSUME NEW j \in CreateJobs, InsertTask(j) PROVE OutcomeOK(k)'
  BY <1>9, <1>1, JobSets, JobsDistinct, RunningJob, JobForms
     DEF OutcomeOK, Goto, Clashes, InsertTask, queue
<1>10. ASSUME NEW j \in CreateJobs, NotifyReporter(j) PROVE OutcomeOK(k)'
  <2>1. /\ j.event \in CreateEvents /\ j = CreateJob(j.event)
        /\ j.event \in tasks /\ SuccessJob(j.event) \in Jobs
        /\ jobState[SuccessJob(j.event)] = "absent"
    BY <1>10, SuccessJobIsNew
  <2>2. \A e \in CreateEvents :
          /\ CreateJob(e) # SuccessJob(j.event)
          /\ FailureJob(e) # SuccessJob(j.event)
          /\ SuccessJob(e) = SuccessJob(j.event) => e = j.event
          /\ CreateJob(e) = CreateJob(j.event) => e = j.event
    BY <2>1, JobsDistinct
  <2>3. /\ jobState' = [jobState EXCEPT ![SuccessJob(j.event)] = "wait"]
        /\ pc' = [pc EXCEPT ![j] = "enqueued"] /\ pc[j] = "inserted"
        /\ UNCHANGED <<event, attemptsMade, logs, tasks>>
    BY <1>10 DEF NotifyReporter, CanNotify, Add
  <2> QED
    BY <1>1, <2>1, <2>2, <2>3, JobSets DEF OutcomeOK
<1>11. ASSUME NEW h \in handlers, LogFailure(h) PROVE OutcomeOK(k)'
  BY <1>11, <1>1, JobSets, JobsDistinct
     DEF OutcomeOK, IsFinal, Advance, Finish, LogFailure, queue
<1>12. ASSUME NEW h \in handlers, NotifyTaskFailure(h) PROVE OutcomeOK(k)'
  BY <1>12, <1>1, JobSets, JobsDistinct, FailureJobIsNew
     DEF OutcomeOK, Add, Finish, NotifyTaskFailure, queue
<1>13. CASE UNCHANGED <<jobState, attemptsMade, logs, tasks>>
  BY <1>13, <1>1
     DEF OutcomeOK
<1> QED
  BY <1>2, <1>3, <1>4, <1>5, <1>6, <1>7, <1>8, <1>9, <1>10, <1>11, <1>12,
     <1>13, ConflictIsError
     DEF PipelineStep, Disturbance, ApiStep, WorkerStep,
         QueueStep, TaskStep, MailStep,
         HandlerStep, SetEvent, Goto, Advance, Finish, Call, FlushEvent,
         Reject, ApiCrash, StartTask, CompleteTask, StartMail, SendMail,
         CompleteMail, FailTaskEvent, FailMailEvent, WorkerCrash,
         LogTaskFailure, LogMailFailure, queue

\* Every step keeps OneHandlerPerAttempt: the number of a failed attempt is new.
LEMMA OneHandlerStep == IInv /\ PipelineStep => OneHandlerPerAttempt'
<1> SUFFICES ASSUME IInv, PipelineStep PROVE OneHandlerPerAttempt'
  OBVIOUS
<1>1. /\ handlers \subseteq [job : Jobs, attempt : 1..MAX_ATTEMPTS,
                              pc : {"start", "logged", "marked"}]
      /\ attemptsMade \in [Jobs -> 0..MAX_ATTEMPTS]
      /\ \A h \in handlers : h.attempt <= attemptsMade[h.job]
      /\ OneHandlerPerAttempt
  BY AttemptsAssumption
     DEF IInv, TypeOK, HandlerInv, HandlerOK
<1>2. ASSUME NEW j \in Jobs, TakeDoomed(j) PROVE OneHandlerPerAttempt'
  BY <1>2, <1>1
     DEF OneHandlerPerAttempt, Doomed, Emit, TakeDoomed, queue
<1>3. ASSUME NEW j \in Jobs, AttemptError(j) PROVE OneHandlerPerAttempt'
  BY <1>3, <1>1
     DEF OneHandlerPerAttempt, Fail, Emit, Retryable, AttemptError, queue
<1>4. ASSUME NEW h \in handlers, LogFailure(h) PROVE OneHandlerPerAttempt'
  BY <1>4, <1>1
     DEF OneHandlerPerAttempt, IsFinal, Advance, Finish, LogFailure, queue
<1>5. ASSUME NEW h \in handlers, FailTaskEvent(h) PROVE OneHandlerPerAttempt'
  BY <1>5, <1>1
     DEF OneHandlerPerAttempt, SetEvent, Advance, FailTaskEvent, queue
<1>6. ASSUME NEW h \in handlers, NotifyTaskFailure(h) PROVE OneHandlerPerAttempt'
  BY <1>6, <1>1
     DEF OneHandlerPerAttempt, Add, Finish, NotifyTaskFailure, queue
<1>7. ASSUME NEW h \in handlers, FailMailEvent(h) PROVE OneHandlerPerAttempt'
  BY <1>7, <1>1
     DEF OneHandlerPerAttempt, SetEvent, Finish, FailMailEvent, queue
<1>8. CASE WorkerCrash
  BY <1>8, <1>1
     DEF OneHandlerPerAttempt, WorkerCrash, queue
<1>9. CASE UNCHANGED <<handlers>>
  BY <1>9, <1>1
     DEF OneHandlerPerAttempt
<1> QED
  BY <1>2, <1>3, <1>4, <1>5, <1>6, <1>7, <1>8, <1>9, ConflictIsError
     DEF PipelineStep, Disturbance, ApiStep, WorkerStep,
         QueueStep, TaskStep, MailStep,
         HandlerStep, SetEvent, CanPush, Add, Doomed, Goto, Clashes,
         CanNotify, Call, FlushEvent, PushEventToQueue, Reject, ApiCrash,
         Take, Retry, RecoverStalled, Ack, StartTask, InsertTask,
         NotifyReporter, CompleteTask, StartMail, SendMail, CompleteMail,
         LogTaskFailure, LogMailFailure, queue

\* A listener that has just been started is in order: its attempt is the last
\* one made, and a job that still had attempts has sent no failure mail.
LEMMA EmittedHandler ==
  ASSUME IInv, NEW j \in Jobs, jobState[j] \notin {"absent", "failed"},
         attemptsMade' = [attemptsMade EXCEPT ![j] = @ + 1],
         jobState' = [jobState EXCEPT ![j] = jobState'[j]],
         NEW k, k = [job |-> j, attempt |-> attemptsMade[j] + 1, pc |-> "start"]
  PROVE  HandlerOK(k)'
<1>1. attemptsMade'[j] = attemptsMade[j] + 1
  BY DEF IInv, TypeOK
<1>2. ASSUME NEW e \in CreateEvents, j = CreateJob(e)
      PROVE  jobState'[FailureJob(e)] = "absent"
  <2>1. jobState[FailureJob(e)] = "absent"
    BY <1>2 DEF IInv, FailureMailAfterLastAttempt
  <2>2. FailureJob(e) # j /\ FailureJob(e) \in Jobs
    BY <1>2, JobsDistinct, JobSets
  <2> QED
    BY <2>1, <2>2 DEF IInv, TypeOK
<1>3. attemptsMade[j] \in Nat
  BY AttemptsAssumption DEF IInv, TypeOK
<1> QED
  BY <1>1, <1>2, <1>3 DEF HandlerOK

\* A listener that makes no move stays in order as long as no failure mail of
\* its job is enqueued.
LEMMA IdleHandler ==
  ASSUME IInv, NEW k \in handlers,
         attemptsMade'[k.job] \in Nat,
         attemptsMade[k.job] <= attemptsMade'[k.job],
         logs \subseteq logs',
         \A e \in CreateEvents :
           /\ k.job = CreateJob(e) /\ k.attempt = MAX_ATTEMPTS
           /\ jobState[FailureJob(e)] = "absent"
           => jobState'[FailureJob(e)] = "absent"
  PROVE  HandlerOK(k)'
<1>1. /\ HandlerOK(k)
      /\ attemptsMade[k.job] \in Nat
      /\ k.attempt \in Nat
  BY AttemptsAssumption DEF IInv, TypeOK, HandlerInv
<1>2. k.attempt <= attemptsMade'[k.job]
  BY <1>1 DEF HandlerOK
<1> QED
  BY <1>1, <1>2 DEF HandlerOK

\* No step takes back an attempt.
LEMMA AttemptsGrow == IInv /\ PipelineStep =>
        \A j \in Jobs : attemptsMade[j] <= attemptsMade'[j]
<1> SUFFICES ASSUME IInv, PipelineStep, NEW k \in Jobs PROVE attemptsMade[k] <= attemptsMade'[k]
  OBVIOUS
<1>1. /\ attemptsMade \in [Jobs -> 0..MAX_ATTEMPTS]
  BY DEF IInv, TypeOK
<1>2. ASSUME NEW j \in Jobs, TakeDoomed(j) PROVE attemptsMade[k] <= attemptsMade'[k]
  BY <1>2, <1>1, AttemptsAssumption
     DEF Doomed, Emit, TakeDoomed, queue
<1>3. ASSUME NEW j \in Jobs, AttemptError(j) PROVE attemptsMade[k] <= attemptsMade'[k]
  BY <1>3, <1>1, AttemptsAssumption
     DEF Fail, Emit, Retryable, AttemptError, queue
<1>4. CASE UNCHANGED <<attemptsMade>>
  BY <1>4, <1>1
<1> QED
  BY <1>2, <1>3, <1>4, ConflictIsError
     DEF PipelineStep, Disturbance, ApiStep, WorkerStep,
         QueueStep, TaskStep, MailStep,
         HandlerStep, SetEvent, CanPush, Add, Doomed, Goto, Clashes,
         CanNotify, IsFinal, Advance, Finish, Call, FlushEvent,
         PushEventToQueue, Reject, ApiCrash, Take, Retry, RecoverStalled, Ack,
         StartTask, InsertTask, NotifyReporter, CompleteTask, StartMail,
         SendMail, CompleteMail, LogFailure, FailTaskEvent, NotifyTaskFailure,
         FailMailEvent, WorkerCrash, LogTaskFailure, LogMailFailure, queue

\* No failure log row is ever deleted.
LEMMA LogsGrow == IInv /\ PipelineStep => logs \subseteq logs'
<1> SUFFICES ASSUME IInv, PipelineStep, NEW k \in logs PROVE k \in logs'
  OBVIOUS
<1>1. ASSUME NEW h \in handlers, LogFailure(h) PROVE k \in logs'
  BY <1>1
     DEF IsFinal, Advance, Finish, LogFailure, queue
<1>2. CASE UNCHANGED <<logs>>
  BY <1>2
<1> QED
  BY <1>1, <1>2, ConflictIsError
     DEF PipelineStep, Disturbance, ApiStep, WorkerStep,
         QueueStep, TaskStep, MailStep,
         HandlerStep, SetEvent, CanPush, Add, Doomed, Emit, Fail, Retryable,
         Goto, Clashes, CanNotify, Advance, Finish, Call, FlushEvent,
         PushEventToQueue, Reject, ApiCrash, Take, TakeDoomed, Retry,
         RecoverStalled, Ack, AttemptError, StartTask, InsertTask,
         NotifyReporter, CompleteTask, StartMail, SendMail, CompleteMail,
         FailTaskEvent, NotifyTaskFailure, FailMailEvent, WorkerCrash,
         LogTaskFailure, LogMailFailure, queue

\* A failure mail is enqueued by the listener of its create job.
LEMMA FailureMailSender == IInv /\ PipelineStep =>
        \A e \in CreateEvents :
          \/ jobState[FailureJob(e)] = "absent" => jobState'[FailureJob(e)] = "absent"
          \/ \E h \in handlers : NotifyTaskFailure(h) /\ h.job = CreateJob(e)
<1> SUFFICES ASSUME IInv, PipelineStep, NEW k \in CreateEvents,
                    jobState[FailureJob(k)] = "absent"
             PROVE  \/ jobState'[FailureJob(k)] = "absent"
                    \/ \E h \in handlers : NotifyTaskFailure(h) /\ h.job = CreateJob(k)
  OBVIOUS
<1> DEFINE Unsent == \/ jobState'[FailureJob(k)] = "absent"
                     \/ \E h \in handlers : NotifyTaskFailure(h) /\ h.job = CreateJob(k)
<1>1. /\ jobState = [j \in Jobs |-> jobState[j]]
      /\ jobState[FailureJob(k)] = "absent"
  BY DEF IInv, TypeOK
<1>2. ASSUME NEW e \in Events, PushEventToQueue(e) PROVE Unsent
  BY <1>2, <1>1, JobSets, FirstJobIsNew, FirstJobs
     DEF CanPush, Add, PushEventToQueue, queue
<1>3. ASSUME NEW j \in Jobs, Take(j) PROVE Unsent
  BY <1>3, <1>1, JobSets
     DEF Doomed, Take, queue
<1>4. ASSUME NEW j \in Jobs, TakeDoomed(j) PROVE Unsent
  BY <1>4, <1>1, JobSets
     DEF Doomed, Emit, TakeDoomed, queue
<1>5. ASSUME NEW j \in Jobs, Retry(j) PROVE Unsent
  BY <1>5, <1>1, JobSets
     DEF Add, Retry, queue
<1>6. ASSUME NEW j \in Jobs, RecoverStalled(j) PROVE Unsent
  BY <1>6, <1>1, JobSets
     DEF Add, RecoverStalled, queue
<1>7. ASSUME NEW j \in Jobs, Ack(j) PROVE Unsent
  BY <1>7, <1>1, JobSets, RunningJob
     DEF Ack, queue
<1>8. ASSUME NEW j \in Jobs, AttemptError(j) PROVE Unsent
  BY <1>8, <1>1, JobSets, RunningJob
     DEF Fail, Emit, Retryable, AttemptError, queue
<1>9. ASSUME NEW j \in CreateJobs, NotifyReporter(j) PROVE Unsent
  <2>1. FailureJob(k) # SuccessJob(j.event)
    BY <1>9, SuccessJobIsNew, JobsDistinct
  <2> QED
    BY <1>9, <1>1, <2>1, SuccessJobIsNew, JobSets DEF NotifyReporter, Add
<1>10. ASSUME NEW h \in handlers, NotifyTaskFailure(h) PROVE Unsent
  BY <1>10, <1>1, JobSets, FailureJobIsNew, FailureJobIsNew, JobsDistinct
     DEF Add, Finish, NotifyTaskFailure, queue
<1>11. CASE UNCHANGED <<jobState>>
  BY <1>11, <1>1
<1> QED
  BY <1>2, <1>3, <1>4, <1>5, <1>6, <1>7, <1>8, <1>9, <1>10, <1>11,
     ConflictIsError
     DEF PipelineStep, Disturbance, ApiStep, WorkerStep,
         QueueStep, TaskStep, MailStep,
         HandlerStep, SetEvent, Goto, Clashes, IsFinal, Advance, Finish, Call,
         FlushEvent, Reject, ApiCrash, StartTask, InsertTask, CompleteTask,
         StartMail, SendMail, CompleteMail, LogFailure, FailTaskEvent,
         FailMailEvent, WorkerCrash, LogTaskFailure, LogMailFailure, queue

\* A listener that is started, or that goes on, is in order.
LEMMA NewHandler == IInv /\ PipelineStep =>
        \A h \in handlers' : h \notin handlers => HandlerOK(h)'
<1> SUFFICES ASSUME IInv, PipelineStep, NEW k \in handlers', k \notin handlers
             PROVE  HandlerOK(k)'
  OBVIOUS
<1>1. /\ handlers \subseteq [job : Jobs, attempt : 1..MAX_ATTEMPTS,
                              pc : {"start", "logged", "marked"}]
      /\ jobState = [j \in Jobs |-> jobState[j]]
      /\ attemptsMade \in [Jobs -> 0..MAX_ATTEMPTS]
      /\ \A h \in handlers : HandlerOK(h)
  BY DEF IInv, TypeOK, HandlerInv
<1>2. ASSUME NEW j \in Jobs, TakeDoomed(j) PROVE HandlerOK(k)'
  BY <1>2, <1>1, EmittedHandler
     DEF IInv, TypeOK, Doomed, Emit, TakeDoomed, queue
<1>3. ASSUME NEW j \in Jobs, AttemptError(j) PROVE HandlerOK(k)'
  BY <1>3, <1>1, EmittedHandler, RunningJob
     DEF IInv, TypeOK, Fail, Emit, Retryable, AttemptError, queue
<1>4. ASSUME NEW h \in handlers, LogFailure(h) PROVE HandlerOK(k)'
  BY <1>4, <1>1, AttemptsAssumption
     DEF HandlerOK, IsFinal, Advance, Finish, LogFailure, queue
<1>5. ASSUME NEW h \in handlers, FailTaskEvent(h) PROVE HandlerOK(k)'
  BY <1>5, <1>1
     DEF HandlerOK, SetEvent, Advance, FailTaskEvent, queue
<1>6. ASSUME NEW h \in handlers, NotifyTaskFailure(h) PROVE HandlerOK(k)'
  BY <1>6, <1>1, JobSets
     DEF Add, Finish, NotifyTaskFailure, queue
<1>7. ASSUME NEW h \in handlers, FailMailEvent(h) PROVE HandlerOK(k)'
  BY <1>7, <1>1, JobSets
     DEF SetEvent, Finish, FailMailEvent, queue
<1>8. CASE WorkerCrash
  BY <1>8, <1>1, JobSets
     DEF WorkerCrash, queue
<1>9. CASE UNCHANGED <<handlers>>
  BY <1>9, <1>1
<1> QED
  BY <1>2, <1>3, <1>4, <1>5, <1>6, <1>7, <1>8, <1>9, ConflictIsError
     DEF PipelineStep, Disturbance, ApiStep, WorkerStep,
         QueueStep, TaskStep, MailStep,
         HandlerStep, SetEvent, CanPush, Add, Doomed, Goto, Clashes,
         CanNotify, Call, FlushEvent, PushEventToQueue, Reject, ApiCrash,
         Take, Retry, RecoverStalled, Ack, StartTask, InsertTask,
         NotifyReporter, CompleteTask, StartMail, SendMail, CompleteMail,
         LogTaskFailure, LogMailFailure, queue

\* Every step keeps HandlerInv.
LEMMA ListenerStep == IInv /\ PipelineStep => HandlerInv'
<1> SUFFICES ASSUME IInv, PipelineStep, NEW k \in handlers' PROVE HandlerOK(k)'
  BY OneHandlerStep DEF HandlerInv
<1>1. CASE k \notin handlers
  BY <1>1, NewHandler
<1>2. CASE k \in handlers
  <2>1. k.job \in Jobs
    BY <1>2, HandledJob
  <2>2. attemptsMade'[k.job] \in Nat /\ attemptsMade[k.job] <= attemptsMade'[k.job]
    BY <2>1, TypeStep, AttemptsGrow, AttemptsAssumption DEF IInv, TypeOK
  <2>3. logs \subseteq logs'
    BY LogsGrow
  <2>4. ASSUME NEW e \in CreateEvents, k.job = CreateJob(e),
               k.attempt = MAX_ATTEMPTS, jobState[FailureJob(e)] = "absent"
        PROVE  jobState'[FailureJob(e)] = "absent"
    <3> SUFFICES ASSUME NEW h \in handlers, NotifyTaskFailure(h),
                        h.job = CreateJob(e)
                 PROVE  FALSE
      BY <2>4, FailureMailSender
    <3>1. h = k
      BY <1>2, <2>4, FailureJobIsNew DEF IInv, HandlerInv, OneHandlerPerAttempt
    <3> QED
      BY <3>1 DEF NotifyTaskFailure, Finish
  <2> QED
    BY <1>2, <2>2, <2>3, <2>4, IdleHandler
<1> QED
  BY <1>1, <1>2

\* A job that failed for good stays so, and so does its log row.
LEMMA CulpritStep == IInv /\ PipelineStep =>
        \A j \in Jobs : Culprit(j) => Culprit(j)'
<1> SUFFICES ASSUME IInv, PipelineStep, NEW k \in Jobs, Culprit(k) PROVE Culprit(k)'
  OBVIOUS
<1>1. /\ jobState = [j \in Jobs |-> jobState[j]]
      /\ attemptsMade = [j \in Jobs |-> attemptsMade[j]]
      /\ Culprit(k)
  BY DEF IInv, TypeOK
<1>2. ASSUME NEW e \in Events, PushEventToQueue(e) PROVE Culprit(k)'
  BY <1>2, <1>1, FirstJobIsNew
     DEF Culprit, CanPush, Add, PushEventToQueue, queue
<1>3. ASSUME NEW j \in Jobs, Take(j) PROVE Culprit(k)'
  BY <1>3, <1>1
     DEF Culprit, Doomed, Take, queue
<1>4. ASSUME NEW j \in Jobs, TakeDoomed(j) PROVE Culprit(k)'
  BY <1>4, <1>1
     DEF Culprit, Doomed, Emit, TakeDoomed, queue
<1>5. ASSUME NEW j \in Jobs, Retry(j) PROVE Culprit(k)'
  BY <1>5, <1>1
     DEF Culprit, Add, Retry, queue
<1>6. ASSUME NEW j \in Jobs, RecoverStalled(j) PROVE Culprit(k)'
  BY <1>6, <1>1
     DEF Culprit, Add, RecoverStalled, queue
<1>7. ASSUME NEW j \in Jobs, Ack(j) PROVE Culprit(k)'
  BY <1>7, <1>1, RunningJob
     DEF Culprit, Ack, queue
<1>8. ASSUME NEW j \in Jobs, AttemptError(j) PROVE Culprit(k)'
  BY <1>8, <1>1, RunningJob
     DEF Culprit, Fail, Emit, Retryable, AttemptError, queue
<1>9. ASSUME NEW j \in CreateJobs, NotifyReporter(j) PROVE Culprit(k)'
  BY <1>9, <1>1, RunningJob, JobSets, SuccessJobIsNew
     DEF Culprit, CanNotify, Add, NotifyReporter, queue
<1>10. ASSUME NEW h \in handlers, LogFailure(h) PROVE Culprit(k)'
  BY <1>10, <1>1
     DEF Culprit, IsFinal, Advance, Finish, LogFailure, queue
<1>11. ASSUME NEW h \in handlers, NotifyTaskFailure(h) PROVE Culprit(k)'
  BY <1>11, <1>1, FailureJobIsNew
     DEF Culprit, Add, Finish, NotifyTaskFailure, queue
<1>12. CASE UNCHANGED <<jobState, attemptsMade, logs>>
  BY <1>12, <1>1
     DEF Culprit
<1> QED
  BY <1>2, <1>3, <1>4, <1>5, <1>6, <1>7, <1>8, <1>9, <1>10, <1>11, <1>12,
     ConflictIsError
     DEF PipelineStep, Disturbance, ApiStep, WorkerStep,
         QueueStep, TaskStep, MailStep,
         HandlerStep, SetEvent, Goto, Clashes, Advance, Finish, Call,
         FlushEvent, Reject, ApiCrash, StartTask, InsertTask, CompleteTask,
         StartMail, SendMail, CompleteMail, FailTaskEvent, FailMailEvent,
         WorkerCrash, LogTaskFailure, LogMailFailure, queue

\* Only a listener of a last attempt writes "failed".
LEMMA WhoFails == IInv /\ PipelineStep =>
        \A e \in Events :
          event'[e] = "failed" =>
            \/ event[e] = "failed"
            \/ \E h \in handlers :
                 (FailTaskEvent(h) \/ FailMailEvent(h)) /\ h.job.event = e
<1> DEFINE Failer(e) ==
      \/ event[e] = "failed"
      \/ \E h \in handlers :
           (FailTaskEvent(h) \/ FailMailEvent(h)) /\ h.job.event = e
<1> SUFFICES ASSUME IInv, PipelineStep, NEW k \in Events, event'[k] = "failed"
             PROVE  Failer(k)
  OBVIOUS
<1>1. /\ event = [e \in Events |-> event[e]]
  BY DEF IInv, TypeOK
<1>2. ASSUME NEW e \in Events, FlushEvent(e) PROVE Failer(k)
  BY <1>2, <1>1
     DEF SetEvent, FlushEvent, queue
<1>3. ASSUME NEW j \in CreateJobs, StartTask(j) PROVE Failer(k)
  BY <1>3, <1>1
     DEF Goto, SetEvent, StartTask, queue
<1>4. ASSUME NEW j \in CreateJobs, CompleteTask(j) PROVE Failer(k)
  BY <1>4, <1>1
     DEF Goto, SetEvent, CompleteTask, queue
<1>5. ASSUME NEW j \in MailJobs, StartMail(j) PROVE Failer(k)
  BY <1>5, <1>1
     DEF Goto, SetEvent, StartMail, queue
<1>6. ASSUME NEW j \in MailJobs, CompleteMail(j) PROVE Failer(k)
  BY <1>6, <1>1
     DEF Goto, SetEvent, CompleteMail, queue
<1>7. ASSUME NEW h \in handlers, FailTaskEvent(h) PROVE Failer(k)
  BY <1>7, <1>1
     DEF SetEvent, Advance, FailTaskEvent, queue
<1>8. ASSUME NEW h \in handlers, FailMailEvent(h) PROVE Failer(k)
  BY <1>8, <1>1
     DEF SetEvent, Finish, FailMailEvent, queue
<1>9. CASE UNCHANGED <<event>>
  BY <1>9, <1>1
<1> QED
  BY <1>2, <1>3, <1>4, <1>5, <1>6, <1>7, <1>8, <1>9, ConflictIsError
     DEF PipelineStep, Disturbance, ApiStep, WorkerStep,
         QueueStep, TaskStep, MailStep,
         HandlerStep, CanPush, Add, Doomed, Emit, Fail, Retryable, Goto,
         Clashes, CanNotify, IsFinal, Advance, Finish, Call, PushEventToQueue,
         Reject, ApiCrash, Take, TakeDoomed, Retry, RecoverStalled, Ack,
         AttemptError, InsertTask, NotifyReporter, SendMail, LogFailure,
         NotifyTaskFailure, WorkerCrash, LogTaskFailure, LogMailFailure, queue

\* Every step keeps FailedEventCause.
LEMMA CauseStep == IInv /\ PipelineStep => FailedEventCause'
<1> SUFFICES ASSUME IInv, PipelineStep, NEW k \in Events, event'[k] = "failed"
             PROVE  \E j \in JobsOf(k) : Culprit(j)'
  BY DEF FailedEventCause, Culprit
<1>1. CASE event[k] = "failed"
  <2>1. PICK j \in JobsOf(k) : Culprit(j)
    BY <1>1 DEF IInv, FailedEventCause, Culprit
  <2> QED
    BY <2>1, CulpritStep DEF JobsOf
<1>2. ASSUME NEW h \in handlers, FailTaskEvent(h) \/ FailMailEvent(h),
             h.job.event = k
      PROVE  \E j \in JobsOf(k) : Culprit(j)'
  <2>1. HandlerOK(h) /\ h.pc = "logged"
    BY <1>2 DEF IInv, HandlerInv, FailTaskEvent, FailMailEvent
  <2>2. Culprit(h.job)
    BY <2>1, FinalHandler DEF HandlerOK, Culprit
  <2>3. h.job \in JobsOf(k)
    BY <1>2, HandledJob DEF JobsOf
  <2> QED
    BY <2>2, <2>3, CulpritStep DEF JobsOf
<1> QED
  BY <1>1, <1>2, WhoFails

\* While a job of an event is running, or once it failed, not all the jobs that
\* write its row are done.
LEMMA NotAllDone ==
  ASSUME IInv, NEW j \in Jobs, jobState[j] \in {"active", "failed"},
         pc[j] # "finished"
  PROVE  ~AllDone(j.event)
<1>1. ~Done(j)
  BY DEF Done
<1>2. CASE j \in CreateJobs
  BY <1>1, <1>2, JobForms, EventsAssumption DEF AllDone
<1>3. CASE j \in SuccessJobs
  BY <1>1, <1>3, JobForms, EventsAssumption DEF AllDone
<1>4. CASE j \in NotifyJobs
  BY <1>1, <1>4, JobForms, EventsAssumption DEF AllDone
<1>5. CASE j \in FailureJobs
  <2>1. j.event \in CreateEvents /\ j = FailureJob(j.event)
    BY <1>5, JobForms
  <2>2. jobState[CreateJob(j.event)] = "failed"
    BY <2>1 DEF IInv, FailureMailAfterLastAttempt
  <2>3. ~Done(CreateJob(j.event))
    BY <2>1, <2>2, JobSets DEF Done, IInv, JobInv, JobOK
  <2> QED
    BY <2>1, <2>3, EventsAssumption DEF AllDone
<1> QED
  BY <1>2, <1>3, <1>4, <1>5 DEF Jobs, MailJobs

\* Every step keeps DoneInv: of the jobs that write one row, the last to be done
\* says "completed".
LEMMA DoneStep == IInv /\ PipelineStep => DoneInv'
<1> SUFFICES ASSUME IInv, PipelineStep, NEW k \in Events PROVE DoneOK(k)'
  BY DEF DoneInv
<1>1. /\ pc = [j \in Jobs |-> pc[j]]
      /\ jobState = [j \in Jobs |-> jobState[j]]
      /\ event = [e \in Events |-> event[e]]
      /\ DoneOK(k)
  BY DEF IInv, TypeOK, DoneInv
<1>2. ASSUME NEW e \in Events, FlushEvent(e) PROVE DoneOK(k)'
  <2>1. ~AllDone(e)
    <3>1. jobState[FirstJob(e)] = "absent" /\ FirstJob(e) \in Jobs
      BY <1>2, FirstJobs DEF FlushEvent, IInv, ServiceInv, ServiceOK
    <3>2. pc[FirstJob(e)] = "idle"
      BY <3>1, RunningJob
    <3> QED
      BY <3>1, <3>2, FirstJobs DEF AllDone, Done
  <2>2. AllDone(k)' => AllDone(k)
    BY <1>2 DEF FlushEvent, AllDone, Done, queue
  <2> QED
    BY <1>2, <1>1, <2>1, <2>2 DEF FlushEvent, SetEvent, DoneOK
<1>3. ASSUME NEW e \in Events, PushEventToQueue(e) PROVE DoneOK(k)'
  BY <1>3, <1>1, JobSets, FirstJobIsNew, FirstJobs
     DEF DoneOK, AllDone, Done, CanPush, Add, PushEventToQueue, queue
<1>4. ASSUME NEW j \in Jobs, Take(j) PROVE DoneOK(k)'
  BY <1>4, <1>1, JobSets
     DEF DoneOK, AllDone, Done, Doomed, Take, queue
<1>5. ASSUME NEW j \in Jobs, TakeDoomed(j) PROVE DoneOK(k)'
  BY <1>5, <1>1, JobSets
     DEF DoneOK, AllDone, Done, Doomed, Emit, TakeDoomed, queue
<1>6. ASSUME NEW j \in Jobs, Retry(j) PROVE DoneOK(k)'
  BY <1>6, <1>1, JobSets
     DEF DoneOK, AllDone, Done, Add, Retry, queue
<1>7. ASSUME NEW j \in Jobs, RecoverStalled(j) PROVE DoneOK(k)'
  BY <1>7, <1>1, JobSets
     DEF DoneOK, AllDone, Done, Add, RecoverStalled, queue
<1>8. ASSUME NEW j \in Jobs, Ack(j) PROVE DoneOK(k)'
  BY <1>8, <1>1, JobSets, RunningJob
     DEF DoneOK, AllDone, Done, Ack, queue
<1>9. ASSUME NEW j \in Jobs, AttemptError(j) PROVE DoneOK(k)'
  BY <1>9, <1>1, JobSets, RunningJob
     DEF DoneOK, AllDone, Done, Fail, Emit, Retryable, AttemptError, queue
<1>10. ASSUME NEW j \in CreateJobs, StartTask(j) PROVE DoneOK(k)'
  <2>1. j \in Jobs /\ jobState[j] = "active" /\ ~AllDone(j.event)
    BY <1>10, JobSets, RunningJob, NotAllDone DEF StartTask, Goto
  <2>2. AllDone(k)' => AllDone(k)
    BY <1>10, <1>1, JobSets DEF StartTask, Goto, AllDone, Done, queue
  <2> QED
    BY <1>10, <1>1, <2>1, <2>2 DEF StartTask, SetEvent, DoneOK
<1>11. ASSUME NEW j \in CreateJobs, InsertTask(j) PROVE DoneOK(k)'
  BY <1>11, <1>1, JobSets, RunningJob
     DEF DoneOK, AllDone, Done, Goto, Clashes, InsertTask, queue
<1>12. ASSUME NEW j \in CreateJobs, NotifyReporter(j) PROVE DoneOK(k)'
  <2>1. /\ SuccessJob(j.event) \in Jobs /\ jobState[SuccessJob(j.event)] = "absent"
    BY <1>12, SuccessJobIsNew
  <2>2. AllDone(k)' => AllDone(k)
    BY <1>12, <1>1, <2>1, JobSets
       DEF NotifyReporter, CanNotify, Add, AllDone, Done
  <2> QED
    BY <1>12, <1>1, <2>2 DEF NotifyReporter, DoneOK
<1>13. ASSUME NEW j \in CreateJobs, CompleteTask(j) PROVE DoneOK(k)'
  <2>1. CASE j.event = k
    BY <1>13, <1>1, <2>1 DEF CompleteTask, SetEvent, DoneOK
  <2>2. CASE j.event # k
    <3>1. AllDone(k)' => AllDone(k)
      BY <1>13, <1>1, <2>2, JobsMade DEF CompleteTask, Goto, AllDone, Done, queue
    <3> QED
      BY <1>13, <1>1, <2>2, <3>1 DEF CompleteTask, SetEvent, DoneOK
  <2> QED
    BY <2>1, <2>2
<1>14. ASSUME NEW j \in MailJobs, StartMail(j) PROVE DoneOK(k)'
  <2>1. j \in Jobs /\ jobState[j] = "active" /\ ~AllDone(j.event)
    BY <1>14, JobSets, RunningJob, NotAllDone DEF StartMail, Goto
  <2>2. AllDone(k)' => AllDone(k)
    BY <1>14, <1>1, JobSets DEF StartMail, Goto, AllDone, Done, queue
  <2> QED
    BY <1>14, <1>1, <2>1, <2>2 DEF StartMail, SetEvent, DoneOK
<1>15. ASSUME NEW j \in MailJobs, SendMail(j) PROVE DoneOK(k)'
  BY <1>15, <1>1, JobSets, RunningJob
     DEF DoneOK, AllDone, Done, Goto, SendMail, queue
<1>16. ASSUME NEW j \in MailJobs, CompleteMail(j) PROVE DoneOK(k)'
  <2>1. CASE j.event = k
    BY <1>16, <1>1, <2>1 DEF CompleteMail, SetEvent, DoneOK
  <2>2. CASE j.event # k
    <3>1. AllDone(k)' => AllDone(k)
      BY <1>16, <1>1, <2>2, JobsMade DEF CompleteMail, Goto, AllDone, Done, queue
    <3> QED
      BY <1>16, <1>1, <2>2, <3>1 DEF CompleteMail, SetEvent, DoneOK
  <2> QED
    BY <2>1, <2>2
<1>17. ASSUME NEW h \in handlers, FailTaskEvent(h) PROVE DoneOK(k)'
  <2>1. HandlerOK(h) /\ h.job \in Jobs
    BY HandledJob DEF IInv, HandlerInv
  <2>2. jobState[h.job] = "failed"
    BY <1>17, <2>1, FinalHandler DEF FailTaskEvent, HandlerOK
  <2>3. pc[h.job] # "finished"
    BY <2>1, <2>2, RunningJob
  <2>4. ~AllDone(h.job.event)
    BY <2>1, <2>2, <2>3, NotAllDone
  <2>5. AllDone(k)' => AllDone(k)
    BY <1>17 DEF FailTaskEvent, AllDone, Done, queue
  <2> QED
    BY <1>17, <1>1, <2>4, <2>5 DEF FailTaskEvent, SetEvent, DoneOK
<1>18. ASSUME NEW h \in handlers, NotifyTaskFailure(h) PROVE DoneOK(k)'
  BY <1>18, <1>1, JobSets, FailureJobIsNew
     DEF DoneOK, AllDone, Done, Add, Finish, NotifyTaskFailure, queue
<1>19. ASSUME NEW h \in handlers, FailMailEvent(h) PROVE DoneOK(k)'
  <2>1. HandlerOK(h) /\ h.job \in Jobs
    BY HandledJob DEF IInv, HandlerInv
  <2>2. jobState[h.job] = "failed"
    BY <1>19, <2>1, FinalHandler DEF FailMailEvent, HandlerOK
  <2>3. pc[h.job] # "finished"
    BY <2>1, <2>2, RunningJob
  <2>4. ~AllDone(h.job.event)
    BY <2>1, <2>2, <2>3, NotAllDone
  <2>5. AllDone(k)' => AllDone(k)
    BY <1>19 DEF FailMailEvent, AllDone, Done, queue
  <2> QED
    BY <1>19, <1>1, <2>4, <2>5 DEF FailMailEvent, SetEvent, DoneOK
<1>20. CASE WorkerCrash
  BY <1>20, <1>1, JobSets
     DEF DoneOK, AllDone, Done, WorkerCrash, queue
<1>21. CASE UNCHANGED <<pc, jobState, event>>
  BY <1>21, <1>1
     DEF DoneOK, AllDone, Done
<1> QED
  BY <1>2, <1>3, <1>4, <1>5, <1>6, <1>7, <1>8, <1>9, <1>10, <1>11, <1>12,
     <1>13, <1>14, <1>15, <1>16, <1>17, <1>18, <1>19, <1>20, <1>21,
     ConflictIsError
     DEF PipelineStep, Disturbance, ApiStep, WorkerStep,
         QueueStep, TaskStep, MailStep,
         HandlerStep, IsFinal, Advance, Finish, Call, Reject, ApiCrash,
         LogFailure, LogTaskFailure, LogMailFailure, queue

\* Every step keeps CopiesInv.
LEMMA CopiesStep == IInv /\ PipelineStep => CopiesInv'
<1> SUFFICES ASSUME IInv, PipelineStep, NEW k \in MailJobs PROVE CopiesOK(k)'
  BY DEF CopiesInv
<1>1. /\ pc = [j \in Jobs |-> pc[j]]
      /\ jobState = [j \in Jobs |-> jobState[j]]
      /\ attemptsMade \in [Jobs -> 0..MAX_ATTEMPTS]
      /\ stalledCount \in [Jobs -> 0..(MaxStalledCount + 1)]
      /\ sent \in [Jobs -> Nat]
      /\ CopiesOK(k)
      /\ k \in Jobs
      /\ JobOK(k)
  BY JobSets
     DEF IInv, TypeOK, CopiesInv, JobInv
<1>2. ASSUME NEW e \in Events, PushEventToQueue(e) PROVE CopiesOK(k)'
  BY <1>2, <1>1, AttemptsAssumption, StalledAssumption, FirstJobIsNew,
     FirstJobs
     DEF CopiesOK, Unaccounted, JobOK, CanPush, Add, PushEventToQueue, queue
<1>3. ASSUME NEW j \in Jobs, Take(j) PROVE CopiesOK(k)'
  BY <1>3, <1>1, AttemptsAssumption, StalledAssumption
     DEF CopiesOK, Unaccounted, JobOK, Doomed, Take, queue
<1>4. ASSUME NEW j \in Jobs, TakeDoomed(j) PROVE CopiesOK(k)'
  BY <1>4, <1>1, AttemptsAssumption, StalledAssumption
     DEF CopiesOK, Unaccounted, JobOK, Doomed, Emit, TakeDoomed, queue
<1>5. ASSUME NEW j \in Jobs, Retry(j) PROVE CopiesOK(k)'
  BY <1>5, <1>1, AttemptsAssumption, StalledAssumption
     DEF CopiesOK, Unaccounted, JobOK, Add, Retry, queue
<1>6. ASSUME NEW j \in Jobs, RecoverStalled(j) PROVE CopiesOK(k)'
  BY <1>6, <1>1, AttemptsAssumption, StalledAssumption
     DEF CopiesOK, Unaccounted, JobOK, Add, RecoverStalled, queue
<1>7. ASSUME NEW j \in Jobs, Ack(j) PROVE CopiesOK(k)'
  BY <1>7, <1>1, AttemptsAssumption, StalledAssumption, RunningJob
     DEF CopiesOK, Unaccounted, JobOK, Ack, queue
<1>8. ASSUME NEW j \in Jobs, AttemptError(j) PROVE CopiesOK(k)'
  BY <1>8, <1>1, AttemptsAssumption, StalledAssumption, RunningJob
     DEF CopiesOK, Unaccounted, JobOK, Fail, Emit, Retryable, AttemptError,
         queue
<1>9. ASSUME NEW j \in CreateJobs, StartTask(j) PROVE CopiesOK(k)'
  BY <1>9, <1>1, AttemptsAssumption, StalledAssumption, RunningJob, JobSets
     DEF CopiesOK, Unaccounted, JobOK, Goto, SetEvent, StartTask, queue
<1>10. ASSUME NEW j \in CreateJobs, InsertTask(j) PROVE CopiesOK(k)'
  BY <1>10, <1>1, AttemptsAssumption, StalledAssumption, RunningJob, JobSets
     DEF CopiesOK, Unaccounted, JobOK, Goto, Clashes, InsertTask, queue
<1>11. ASSUME NEW j \in CreateJobs, NotifyReporter(j) PROVE CopiesOK(k)'
  BY <1>11, <1>1, AttemptsAssumption, StalledAssumption, RunningJob, JobSets,
     SuccessJobIsNew
     DEF CopiesOK, Unaccounted, JobOK, CanNotify, Add, NotifyReporter, queue
<1>12. ASSUME NEW j \in CreateJobs, CompleteTask(j) PROVE CopiesOK(k)'
  BY <1>12, <1>1, AttemptsAssumption, StalledAssumption, RunningJob, JobSets
     DEF CopiesOK, Unaccounted, JobOK, Goto, SetEvent, CompleteTask, queue
<1>13. ASSUME NEW j \in MailJobs, StartMail(j) PROVE CopiesOK(k)'
  BY <1>13, <1>1, AttemptsAssumption, StalledAssumption, RunningJob, JobSets
     DEF CopiesOK, Unaccounted, JobOK, Goto, SetEvent, StartMail, queue
<1>14. ASSUME NEW j \in MailJobs, SendMail(j) PROVE CopiesOK(k)'
  BY <1>14, <1>1, AttemptsAssumption, StalledAssumption, RunningJob, JobSets
     DEF CopiesOK, Unaccounted, JobOK, Goto, SendMail, CopiesAfter, queue
<1>15. ASSUME NEW j \in MailJobs, CompleteMail(j) PROVE CopiesOK(k)'
  BY <1>15, <1>1, AttemptsAssumption, StalledAssumption, RunningJob, JobSets
     DEF CopiesOK, Unaccounted, JobOK, Goto, SetEvent, CompleteMail, queue
<1>16. ASSUME NEW h \in handlers, NotifyTaskFailure(h) PROVE CopiesOK(k)'
  BY <1>16, <1>1, AttemptsAssumption, StalledAssumption, FailureJobIsNew
     DEF CopiesOK, Unaccounted, JobOK, Add, Finish, NotifyTaskFailure, queue
<1>17. CASE WorkerCrash
  BY <1>17, <1>1, AttemptsAssumption, StalledAssumption
     DEF CopiesOK, Unaccounted, JobOK, WorkerCrash, queue
<1>18. CASE UNCHANGED <<pc, jobState, attemptsMade, stalledCount, sent>>
  BY <1>18, <1>1
     DEF CopiesOK, Unaccounted, JobOK
<1> QED
  BY <1>2, <1>3, <1>4, <1>5, <1>6, <1>7, <1>8, <1>9, <1>10, <1>11, <1>12,
     <1>13, <1>14, <1>15, <1>16, <1>17, <1>18, ConflictIsError
     DEF PipelineStep, Disturbance, ApiStep, WorkerStep,
         QueueStep, TaskStep, MailStep,
         HandlerStep, SetEvent, IsFinal, Advance, Finish, Call, FlushEvent,
         Reject, ApiCrash, LogFailure, FailTaskEvent, FailMailEvent,
         LogTaskFailure, LogMailFailure, queue

\* Every step keeps MailCopiesBounded: a mail is only sent by a job that has an
\* attempt left and was not recovered too often, and CopiesInv counts the rest.
LEMMA CopiesBoundStep == IInv /\ PipelineStep => MailCopiesBounded'
<1> SUFFICES ASSUME IInv, PipelineStep, NEW k \in MailJobs
             PROVE  sent'[k] <= MAX_ATTEMPTS + MaxStalledCount
  BY DEF MailCopiesBounded
<1>1. /\ k \in Jobs
      /\ sent[k] \in Nat /\ sent[k] <= MAX_ATTEMPTS + MaxStalledCount
      /\ sent \in [Jobs -> Nat]
  BY JobSets DEF IInv, TypeOK, MailCopiesBounded
<1>2. CASE sent' = sent
  BY <1>1, <1>2
<1>3. ASSUME NEW j \in MailJobs, SendMail(j)
      PROVE  sent'[k] <= MAX_ATTEMPTS + MaxStalledCount
  <2>1. CASE j # k
    BY <1>1, <1>3, <2>1 DEF SendMail
  <2>2. CASE j = k
    <3>1. jobState[k] = "active" /\ pc[k] = "marked"
      BY <1>1, <1>3, <2>2, RunningJob DEF SendMail, Goto
    <3>2. /\ attemptsMade[k] \in Nat /\ attemptsMade[k] < MAX_ATTEMPTS
          /\ stalledCount[k] \in Nat /\ stalledCount[k] <= MaxStalledCount
      BY <1>1, <3>1, AttemptsAssumption, StalledAssumption
         DEF IInv, TypeOK, JobInv, JobOK
    <3>3. sent[k] <= attemptsMade[k] + stalledCount[k]
      BY <1>1, <3>1, <3>2 DEF IInv, CopiesInv, CopiesOK, Unaccounted
    <3>4. sent'[k] \in {sent[k], sent[k] + 1}
      BY <1>1, <1>3, <2>2 DEF SendMail, CopiesAfter
    <3> QED
      BY <1>1, <3>2, <3>3, <3>4, AttemptsAssumption, StalledAssumption
  <2> QED
    BY <2>1, <2>2
<1> QED
  BY <1>2, <1>3, ConflictIsError
     DEF PipelineStep, Disturbance, ApiStep, WorkerStep, QueueStep, TaskStep, MailStep, HandlerStep,
         Call, FlushEvent, PushEventToQueue, Reject, ApiCrash, Take, TakeDoomed,
         Retry, RecoverStalled, Ack, AttemptError, StartTask, InsertTask,
         NotifyReporter, CompleteTask, StartMail, CompleteMail, LogFailure,
         LogTaskFailure, LogMailFailure, FailTaskEvent, NotifyTaskFailure,
         FailMailEvent, WorkerCrash

-----------------------------------------------------------------------------
(***************************************************************************)
(* The theorems.                                                           *)
(***************************************************************************)
\* Whether the worker is up says nothing of the rows and the jobs.
LEMMA StepOrRestart == ASSUME [Next]_vars PROVE [PipelineStep]_pipeline
BY DEF Next, RestartWorker, vars

\* A step that changes neither rows nor jobs keeps IInv.
LEMMA StutterIInv == IInv /\ TypeOK' /\ UNCHANGED pipeline => IInv'
<1> SUFFICES ASSUME IInv, TypeOK', UNCHANGED pipeline PROVE IInv'
  OBVIOUS
<1> USE DEF pipeline
<1>1. JobInv' /\ ServiceInv' /\ EventBeforeJob'
  BY DEF IInv, JobInv, JobOK, ServiceInv, ServiceOK, EventBeforeJob
<1>2. TaskInv' /\ SuccessMailImpliesTask' /\ OneSuccessMail'
  BY DEF IInv, TaskInv, TaskOK, SuccessMailImpliesTask, OneSuccessMail
<1>3. HandlerInv'
  BY DEF IInv, HandlerInv, HandlerOK, OneHandlerPerAttempt
<1>4. FailureMailAfterLastAttempt' /\ CompletedTaskJob' /\ FailedEventCause'
  BY DEF IInv, FailureMailAfterLastAttempt, CompletedTaskJob, FailedEventCause
<1>5. DoneInv'
  BY DEF IInv, DoneInv, DoneOK, AllDone, Done
<1>6. CopiesInv' /\ MailCopiesBounded'
  BY DEF IInv, CopiesInv, CopiesOK, Unaccounted, MailCopiesBounded
<1> QED
  BY <1>1, <1>2, <1>3, <1>4, <1>5, <1>6 DEF IInv

\* IInv is inductive.
LEMMA StepIInv == IInv /\ [Next]_vars => IInv'
<1> SUFFICES ASSUME IInv, [Next]_vars PROVE IInv'
  OBVIOUS
<1>1. CASE PipelineStep
  BY <1>1, TypeStep, JobStep, ServiceStep, RowStep, TaskProgressStep,
     SuccessStep, OutcomeStep, ListenerStep, CauseStep, DoneStep, CopiesStep,
     CopiesBoundStep
     DEF IInv
<1>2. CASE UNCHANGED pipeline /\ worker' \in {"up", "down"}
  <2>1. TypeOK'
    BY <1>2 DEF IInv, TypeOK, pipeline
  <2> QED
    BY <1>2, <2>1, StutterIInv
<1>3. worker \in {"up", "down"}
  BY DEF IInv, TypeOK
<1> QED
  BY <1>1, <1>2, <1>3 DEF Next, RestartWorker, vars

\* Every reachable state satisfies the inductive invariant.
THEOREM Invariance == Spec => []IInv
<1> QED
  BY InitIInv, StepIInv, PTL DEF Spec

\* The rows, the jobs and the two processes hold values of their types; in
\* particular no job fails more than MAX_ATTEMPTS times.
THEOREM TypeCorrect == Spec => []TypeOK
<1>1. IInv => TypeOK
  BY DEF IInv
<1> QED
  BY <1>1, Invariance, PTL

\* A job is only ever in Redis when its event row is in the database.
THEOREM RowFirst == Spec => []EventBeforeJob
<1>1. IInv => EventBeforeJob
  BY DEF IInv
<1> QED
  BY <1>1, Invariance, PTL

\* A reporter is told only of a task that is in the database.
THEOREM SuccessMailIsTrue == Spec => []SuccessMailImpliesTask
<1>1. IInv => SuccessMailImpliesTask
  BY DEF IInv
<1> QED
  BY <1>1, Invariance, PTL

\* A request enqueues its success mail and its failure mail once each.
THEOREM MailsAreEnqueuedOnce == Spec => []EachMailEnqueuedOnce
<1>1. ASSUME IInv, NEW h \in handlers, h.pc = "marked"
      PROVE  jobState[FailureJob(h.job.event)] = "absent"
  <2>1. HandlerOK(h)
    BY <1>1 DEF IInv, HandlerInv
  <2>2. PICK e \in CreateEvents : h.job = CreateJob(e) /\ h.job.event = e
    BY <1>1, <2>1, JobForms, JobKinds DEF HandlerOK
  <2> QED
    BY <1>1, <2>1, <2>2 DEF HandlerOK
<1>2. IInv => EachMailEnqueuedOnce
  BY <1>1 DEF IInv, OneSuccessMail, EachMailEnqueuedOnce
<1> QED
  BY <1>2, Invariance, PTL

\* The failure mail is sent after the last attempt only, and never for a create
\* job that completed.
THEOREM FailureMailIsLast ==
  Spec => [](FailureMailAfterLastAttempt /\ CompletedTaskJob)
<1>1. IInv => FailureMailAfterLastAttempt /\ CompletedTaskJob
  BY DEF IInv
<1> QED
  BY <1>1, Invariance, PTL

\* A row that says "failed" has a job that used up its attempts.
THEOREM FailedHasCause == Spec => []FailedEventCause
<1>1. IInv => FailedEventCause
  BY DEF IInv
<1> QED
  BY <1>1, Invariance, PTL

\* Redelivery repeats a mail at most MAX_ATTEMPTS + MaxStalledCount times.
THEOREM CopiesAreBounded == Spec => []MailCopiesBounded
<1>1. IInv => MailCopiesBounded
  BY DEF IInv
<1> QED
  BY <1>1, Invariance, PTL

\* When all the jobs of an event completed, its row says so.
THEOREM CompletionIsRecorded == Spec => []CompletedJobsCompleteEvent
<1>1. ASSUME IInv, NEW e \in Events,
             jobState[FirstJob(e)] = "completed",
             \A j \in JobsOf(e) : jobState[j] \in {"absent", "completed"}
      PROVE  event[e] = "completed"
  <2>1. CASE e \in NotifyEvents
    BY <1>1, <2>1, FirstJobs DEF IInv, DoneInv, DoneOK, AllDone, Done
  <2>2. CASE e \in CreateEvents
    <3>1. jobState[CreateJob(e)] = "completed"
      BY <1>1, <2>2, FirstJobs
    <3>2. jobState[SuccessJob(e)] = "completed"
      BY <1>1, <2>2, <3>1, JobsMade, JobSets
         DEF IInv, CompletedTaskJob, JobsOf
    <3> QED
      BY <1>1, <2>2, <3>1, <3>2 DEF IInv, DoneInv, DoneOK, AllDone, Done
  <2> QED
    BY <2>1, <2>2 DEF Events
<1>2. IInv => CompletedJobsCompleteEvent
  BY <1>1 DEF CompletedJobsCompleteEvent
<1> QED
  BY <1>2, Invariance, PTL

\* Once a request is over, its row never changes again.
THEOREM SettledIsFinal == Spec => SettledEventFrozen
<1>1. ASSUME IInv, [PipelineStep]_pipeline, NEW e \in Events, Settled(e)
      PROVE  event'[e] = event[e]
  <2>1. event = [x \in Events |-> event[x]]
    BY <1>1 DEF IInv, TypeOK
  <2>2. \A j \in Jobs : j.event = e => pc[j] = "idle"
    BY <1>1, RunningJob DEF Settled, JobsOf
  <2>3. CASE UNCHANGED event
    BY <2>3
  <2>4. ASSUME NEW x \in Events, FlushEvent(x) PROVE event'[e] = event[e]
    BY <1>1, <2>1, <2>4 DEF FlushEvent, SetEvent, Settled
  <2>5. ASSUME NEW j \in CreateJobs, StartTask(j) \/ CompleteTask(j)
        PROVE  event'[e] = event[e]
    BY <2>1, <2>2, <2>5, JobSets DEF StartTask, CompleteTask, Goto, SetEvent
  <2>6. ASSUME NEW j \in MailJobs, StartMail(j) \/ CompleteMail(j)
        PROVE  event'[e] = event[e]
    BY <2>1, <2>2, <2>6, JobSets DEF StartMail, CompleteMail, Goto, SetEvent
  <2>7. ASSUME NEW h \in handlers, FailTaskEvent(h) \/ FailMailEvent(h)
        PROVE  event'[e] = event[e]
    BY <1>1, <2>1, <2>7 DEF FailTaskEvent, FailMailEvent, SetEvent, Settled
  <2> QED
    BY <1>1, <2>3, <2>4, <2>5, <2>6, <2>7, ConflictIsError
       DEF pipeline, PipelineStep, Disturbance, ApiStep, WorkerStep,
         QueueStep, TaskStep, MailStep,
           HandlerStep, Call, PushEventToQueue, Reject, ApiCrash, Take,
           TakeDoomed, Retry, RecoverStalled, Ack, AttemptError, InsertTask,
           NotifyReporter, SendMail, LogFailure, LogTaskFailure,
           LogMailFailure, NotifyTaskFailure, WorkerCrash
<1>2. IInv /\ [Next]_vars =>
        [\A e \in Events : Settled(e) => event'[e] = event[e]]_vars
  BY <1>1, StepOrRestart
<1> QED
  BY <1>2, Invariance, PTL DEF Spec, SettledEventFrozen

\* No two tasks have one title.
TitlesUnique == \A t, u \in tasks : TitleOf[t] = TitleOf[u] => t = u

\* Of two requests for one title at most one gets a success mail, because at
\* most one gets its row.
THEOREM TitleHasOneWinner == Spec => []OneWinnerPerTitle
<1>1. Init => TitlesUnique
  BY DEF Init, Empty, TitlesUnique
<1>2. ASSUME TitlesUnique, PipelineStep PROVE TitlesUnique'
  <2>1. CASE UNCHANGED tasks
    BY <1>2, <2>1 DEF TitlesUnique
  <2>2. ASSUME NEW j \in CreateJobs, InsertTask(j) PROVE TitlesUnique'
    BY <1>2, <2>2 DEF TitlesUnique, InsertTask, Clashes
  <2> QED
    BY <1>2, <2>1, <2>2, ConflictIsError
       DEF PipelineStep, Disturbance, ApiStep, WorkerStep,
         QueueStep, TaskStep, MailStep,
           HandlerStep, Call, FlushEvent, PushEventToQueue, Reject, ApiCrash,
           Take, TakeDoomed, Retry, RecoverStalled, Ack, AttemptError,
           StartTask, NotifyReporter, CompleteTask, StartMail, SendMail,
           CompleteMail, LogFailure, LogTaskFailure, LogMailFailure,
           FailTaskEvent, NotifyTaskFailure, FailMailEvent, WorkerCrash
<1>3. TitlesUnique /\ [Next]_vars => TitlesUnique'
  BY <1>2, StepOrRestart DEF TitlesUnique, pipeline
<1>4. IInv /\ TitlesUnique => OneWinnerPerTitle
  BY DEF IInv, TitlesUnique, SuccessMailImpliesTask, OneWinnerPerTitle
<1> QED
  BY <1>1, <1>2, <1>3, <1>4, Invariance, PTL DEF Spec

=============================================================================
