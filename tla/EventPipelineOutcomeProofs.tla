---------------------- MODULE EventPipelineOutcomeProofs ----------------------
(***************************************************************************)
(* What becomes of a request in EventPipeline, for every value of the      *)
(* constants: a request acts through its job only; a final status on its   *)
(* row has a cause; every step of a job uses up a bounded fuel; and the    *)
(* failure mail is true as long as no attempt fails after its insert.      *)
(***************************************************************************)
EXTENDS EventPipelineContractProofs

(***************************************************************************)
(* A request acts through its job only.                                    *)
(***************************************************************************)
\* Tasks, jobs and sent mails do not go away.
LEMMA OutcomesLast ==
  ASSUME IInv, [PipelineStep]_pipeline
  PROVE  /\ tasks \subseteq tasks'
         /\ \A j \in Jobs :
              /\ jobState[j] # "absent" => jobState'[j] # "absent"
              /\ sent[j] > 0 => sent'[j] > 0
<1> DEFINE Goal == /\ tasks \subseteq tasks'
                   /\ \A j \in Jobs :
                        /\ jobState[j] # "absent" => jobState'[j] # "absent"
                        /\ sent[j] > 0 => sent'[j] > 0
<1>1. /\ jobState = [j \in Jobs |-> jobState[j]]
      /\ sent \in [Jobs -> Nat]
  BY DEF IInv, TypeOK
<1>2. CASE UNCHANGED <<tasks, jobState, sent>>
  BY <1>2
<1>3. ASSUME NEW k \in Jobs, Add(k), UNCHANGED <<tasks, sent>> PROVE Goal
  BY <1>1, <1>3 DEF Add
<1>4. ASSUME NEW k \in Jobs, Take(k) \/ TakeDoomed(k) \/ Ack(k) \/ AttemptError(k)
      PROVE  Goal
  BY <1>1, <1>4 DEF Take, TakeDoomed, Ack, AttemptError, Fail
<1>5. ASSUME NEW k \in CreateJobs, InsertTask(k) PROVE Goal
  BY <1>5 DEF InsertTask, queue
<1>6. ASSUME NEW k \in MailJobs, SendMail(k) PROVE Goal
  <2>1. k \in Jobs /\ sent'[k] \in Nat /\ sent'[k] >= sent[k]
    BY <1>1, <1>6, JobSets DEF SendMail, CopiesAfter
  <2>2. \A j \in Jobs : j # k => sent'[j] = sent[j]
    BY <1>1, <1>6 DEF SendMail
  <2>3. UNCHANGED <<tasks, jobState>>
    BY <1>6 DEF SendMail, queue
  <2> QED
    BY <1>1, <2>1, <2>2, <2>3
<1>7. ASSUME NEW e \in Events, PushEventToQueue(e) PROVE Goal
  BY <1>3, <1>7, FirstJobs DEF PushEventToQueue
<1>8. ASSUME NEW k \in Jobs, Retry(k) \/ RecoverStalled(k) PROVE Goal
  BY <1>3, <1>8 DEF Retry, RecoverStalled
<1>9. ASSUME NEW k \in CreateJobs, NotifyReporter(k) PROVE Goal
  BY <1>3, <1>9, SuccessJobIsNew DEF NotifyReporter
<1>10. ASSUME NEW h \in handlers, NotifyTaskFailure(h) PROVE Goal
  BY <1>3, <1>10, FailureJobIsNew DEF NotifyTaskFailure
<1> QED
  BY <1>2, <1>4, <1>5, <1>6, <1>7, <1>8, <1>9, <1>10, ConflictIsError
     DEF pipeline, queue, PipelineStep, Disturbance, ApiStep, WorkerStep,
         QueueStep, TaskStep, MailStep,
         HandlerStep, Call, FlushEvent, Reject, ApiCrash, StartTask,
         CompleteTask, StartMail, CompleteMail, LogFailure, LogTaskFailure,
         LogMailFailure, FailTaskEvent, FailMailEvent, WorkerCrash

\* A request whose job is not in Redis has its pending row at most.
UnpushedOK(e) ==
  jobState[FirstJob(e)] = "absent" =>
    /\ event[e] \in {"absent", "pending"}
    /\ e \notin tasks
    /\ \A j \in JobsOf(e) : jobState[j] = "absent"

UnpushedInv == \A e \in Events : UnpushedOK(e)

\* Nothing of the worker is about a request whose job is not in Redis.
LEMMA UnpushedIsAlone ==
  ASSUME IInv, UnpushedInv, NEW e \in Events, jobState[FirstJob(e)] = "absent"
  PROVE  /\ \A j \in Jobs : j.event = e => jobState[j] = "absent" /\ pc[j] = "idle"
         /\ \A h \in handlers : h.job \in Jobs /\ h.job.event # e
<1>1. \A j \in Jobs : j.event = e => jobState[j] = "absent"
  BY DEF UnpushedInv, UnpushedOK, JobsOf
<1>2. \A j \in Jobs : j.event = e => pc[j] = "idle"
  BY <1>1 DEF IInv, JobInv, JobOK
<1> QED
  BY <1>1, <1>2, HandledJob

\* Every step keeps UnpushedInv.
LEMMA UnpushedStep == IInv /\ UnpushedInv /\ [Next]_vars => UnpushedInv'
<1> SUFFICES ASSUME IInv, UnpushedInv, [PipelineStep]_pipeline, NEW e \in Events,
                    jobState'[FirstJob(e)] = "absent"
             PROVE  /\ event'[e] \in {"absent", "pending"}
                    /\ e \notin tasks'
                    /\ \A j \in JobsOf(e) : jobState'[j] = "absent"
  BY StepOrRestart DEF UnpushedInv, UnpushedOK, JobsOf, FirstJob
<1> DEFINE Goal == /\ event'[e] \in {"absent", "pending"}
                   /\ e \notin tasks'
                   /\ \A j \in JobsOf(e) : jobState'[j] = "absent"
<1>1. jobState[FirstJob(e)] = "absent"
  BY OutcomesLast, FirstJobs
<1>2. /\ event[e] \in {"absent", "pending"}
      /\ e \notin tasks
      /\ \A j \in JobsOf(e) : j \in Jobs /\ j.event = e /\ jobState[j] = "absent"
  BY <1>1 DEF UnpushedInv, UnpushedOK, JobsOf
<1>3. /\ event = [x \in Events |-> event[x]]
      /\ jobState = [j \in Jobs |-> jobState[j]]
  BY DEF IInv, TypeOK
<1>4. /\ \A j \in Jobs : j.event = e => jobState[j] = "absent" /\ pc[j] = "idle"
      /\ \A h \in handlers : h.job \in Jobs /\ h.job.event # e
  BY <1>1, UnpushedIsAlone
<1>5. CASE UNCHANGED <<event, tasks, jobState>>
  BY <1>2, <1>5
<1>6. ASSUME NEW x \in Events, FlushEvent(x) PROVE Goal
  BY <1>2, <1>3, <1>6 DEF FlushEvent, SetEvent, queue
<1>7. ASSUME NEW x \in Events, PushEventToQueue(x) PROVE Goal
  <2>1. UNCHANGED <<event, tasks>> /\ Add(FirstJob(x))
    BY <1>7 DEF PushEventToQueue
  <2>2. x # e
    BY <1>3, <2>1, FirstJobs DEF Add
  <2> QED
    BY <1>2, <1>3, <2>1, <2>2, FirstJobs DEF Add
<1>8. ASSUME NEW j \in Jobs,
             Take(j) \/ TakeDoomed(j) \/ Retry(j) \/ RecoverStalled(j) \/ Ack(j)
               \/ AttemptError(j)
      PROVE  Goal
  <2>1. j.event # e
    BY <1>4, <1>8 DEF Take, TakeDoomed, Retry, RecoverStalled, Ack, AttemptError
  <2> QED
    BY <1>2, <1>3, <1>8, <2>1
       DEF Take, TakeDoomed, Retry, RecoverStalled, Ack, AttemptError, Fail, Add
<1>9. ASSUME NEW j \in CreateJobs, StartTask(j) \/ InsertTask(j) \/ CompleteTask(j)
      PROVE  Goal
  <2>1. j \in Jobs /\ j.event # e
    BY <1>4, <1>9, JobSets DEF StartTask, InsertTask, CompleteTask, Goto
  <2> QED
    BY <1>2, <1>3, <1>9, <2>1
       DEF StartTask, InsertTask, CompleteTask, SetEvent, queue
<1>10. ASSUME NEW j \in CreateJobs, NotifyReporter(j) PROVE Goal
  <2>1. j \in Jobs /\ j.event # e
    BY <1>4, <1>10, JobSets DEF NotifyReporter, CanNotify
  <2> QED
    BY <1>2, <1>3, <1>10, <2>1, SuccessJobIsNew DEF NotifyReporter, Add
<1>11. ASSUME NEW j \in MailJobs, StartMail(j) \/ SendMail(j) \/ CompleteMail(j)
       PROVE  Goal
  <2>1. j \in Jobs /\ j.event # e
    BY <1>4, <1>11, JobSets DEF StartMail, SendMail, CompleteMail, Goto
  <2> QED
    BY <1>2, <1>3, <1>11, <2>1
       DEF StartMail, SendMail, CompleteMail, SetEvent, queue
<1>12. ASSUME NEW h \in handlers, FailTaskEvent(h) \/ FailMailEvent(h) PROVE Goal
  BY <1>2, <1>3, <1>4, <1>12 DEF FailTaskEvent, FailMailEvent, SetEvent, queue
<1>13. ASSUME NEW h \in handlers, NotifyTaskFailure(h) PROVE Goal
  <2>1. /\ FailureJob(h.job.event) \in Jobs
        /\ FailureJob(h.job.event).event = h.job.event
    BY <1>13, FailureJobIsNew
  <2>2. \A j \in JobsOf(e) : j # FailureJob(h.job.event)
    BY <1>4, <1>13, <2>1 DEF JobsOf
  <2>3. UNCHANGED <<event, tasks>> /\ Add(FailureJob(h.job.event))
    BY <1>13 DEF NotifyTaskFailure
  <2> QED
    BY <1>2, <1>3, <2>2, <2>3 DEF Add
<1> QED
  BY <1>5, <1>6, <1>7, <1>8, <1>9, <1>10, <1>11, <1>12, <1>13, ConflictIsError
     DEF pipeline, queue, PipelineStep, Disturbance, ApiStep, WorkerStep,
         QueueStep, TaskStep, MailStep,
         HandlerStep, Call, Reject, ApiCrash, LogFailure, LogTaskFailure,
         LogMailFailure, WorkerCrash

\* A request acts through its job only: a call that was rejected or lost, even
\* with its job already in Redis, leaves that job and its row, or a pending row
\* at most.
THEOREM RequestsActThroughTheirJobs == Spec => []ActsThroughItsJob
<1>1. Init => UnpushedInv
  BY DEF Init, Empty, UnpushedInv, UnpushedOK, JobsOf
<1>2. IInv /\ UnpushedInv => ActsThroughItsJob
  BY FirstJobs
     DEF IInv, ServiceInv, ServiceOK, EventBeforeJob, UnpushedInv, UnpushedOK,
         ActsThroughItsJob
<1> QED
  BY <1>1, <1>2, UnpushedStep, Invariance, PTL DEF Spec

-----------------------------------------------------------------------------
(***************************************************************************)
(* A final status has a cause.                                             *)
(***************************************************************************)
\* Only a processor at its end writes "completed".
LEMMA WhoCompletes ==
  ASSUME IInv, [PipelineStep]_pipeline, NEW e \in Events,
         event[e] # "completed", event'[e] = "completed"
  PROVE  \/ \E j \in CreateJobs : CompleteTask(j) /\ j.event = e
         \/ \E j \in MailJobs : CompleteMail(j) /\ j.event = e
<1>1. event = [x \in Events |-> event[x]]
  BY DEF IInv, TypeOK
<1>2. event' # event
  OBVIOUS
<1>3. ASSUME NEW x \in Events, FlushEvent(x) PROVE FALSE
  BY <1>1, <1>3 DEF FlushEvent, SetEvent
<1>4. ASSUME NEW j \in Jobs, StartTask(j) \/ StartMail(j) PROVE FALSE
  BY <1>1, <1>4 DEF StartTask, StartMail, SetEvent
<1>5. ASSUME NEW h \in handlers, FailTaskEvent(h) \/ FailMailEvent(h) PROVE FALSE
  BY <1>1, <1>5 DEF FailTaskEvent, FailMailEvent, SetEvent
<1>6. ASSUME NEW j \in Jobs, CompleteTask(j) \/ CompleteMail(j) PROVE j.event = e
  BY <1>1, <1>2, <1>6, JobKinds DEF CompleteTask, CompleteMail, SetEvent
<1> QED
  BY <1>2, <1>3, <1>4, <1>5, <1>6, ConflictIsError, JobSets
     DEF pipeline, PipelineStep, Disturbance, ApiStep, WorkerStep,
         QueueStep, TaskStep, MailStep,
         HandlerStep, Call, PushEventToQueue, Reject, ApiCrash, Take,
         TakeDoomed, Retry, RecoverStalled, Ack, AttemptError, InsertTask,
         NotifyReporter, SendMail, LogFailure, LogTaskFailure,
         LogMailFailure, NotifyTaskFailure, WorkerCrash

\* What a requester has got of an event that is completed.
Outcome(e) ==
  \/ e \in tasks
  \/ \E j \in JobsOf(e) \ (CreateJobs \cup SuccessJobs) :
       /\ jobState[j] # "absent"
       /\ MailHostSet => sent[j] > 0

\* A processor that completes an event has an outcome to show.
LEMMA CompletionHasOutcome ==
  ASSUME IInv, SentInv, NEW j \in Jobs,
         \/ j \in CreateJobs /\ CompleteTask(j)
         \/ j \in MailJobs /\ CompleteMail(j)
  PROVE  Outcome(j.event)
<1>1. CASE j \in CreateJobs /\ CompleteTask(j)
  BY <1>1, JobForms
     DEF CompleteTask, Goto, IInv, TaskInv, TaskOK, Outcome
<1>2. CASE j \in MailJobs /\ CompleteMail(j)
  <2>1. jobState[j] = "active" /\ (MailHostSet => sent[j] > 0)
    BY <1>2, RunningJob DEF CompleteMail, Goto, SentInv, SentOK
  <2>2. CASE j \in SuccessJobs
    BY <2>1, <2>2, JobForms DEF IInv, SuccessMailImpliesTask, Outcome
  <2>3. CASE j \notin SuccessJobs
    <3>1. j \in JobsOf(j.event) \ (CreateJobs \cup SuccessJobs)
      BY <1>2, <2>3, JobSets DEF JobsOf
    <3> QED
      BY <2>1, <3>1 DEF Outcome
  <2> QED
    BY <2>2, <2>3
<1> QED
  BY <1>1, <1>2

\* Every step keeps CompletedEventCause.
LEMMA CompletedCauseStep ==
  IInv /\ SentInv /\ CompletedEventCause /\ [Next]_vars => CompletedEventCause'
<1> SUFFICES ASSUME IInv, SentInv, CompletedEventCause, [PipelineStep]_pipeline,
                    NEW e \in Events, event'[e] = "completed"
             PROVE  Outcome(e)'
  BY StepOrRestart DEF CompletedEventCause, Outcome, JobsOf
<1>1. Outcome(e)
  <2>1. CASE event[e] = "completed"
    BY <2>1 DEF CompletedEventCause, Outcome
  <2>2. CASE event[e] # "completed"
    BY <2>2, WhoCompletes, CompletionHasOutcome, JobSets
  <2> QED
    BY <2>1, <2>2
<1>2. CASE e \in tasks
  BY <1>2, OutcomesLast DEF Outcome
<1>3. ASSUME NEW j \in JobsOf(e) \ (CreateJobs \cup SuccessJobs),
             jobState[j] # "absent", MailHostSet => sent[j] > 0
      PROVE  Outcome(e)'
  <2>1. j \in Jobs /\ j \in JobsOf(e)' \ (CreateJobs \cup SuccessJobs)
    BY DEF JobsOf
  <2>2. jobState'[j] # "absent" /\ (MailHostSet => sent'[j] > 0)
    BY <1>3, <2>1, OutcomesLast
  <2> QED
    BY <2>1, <2>2 DEF Outcome
<1> QED
  BY <1>1, <1>2, <1>3 DEF Outcome

\* A row that says "failed" has a job that used up its attempts; a row that says
\* "completed" has its task, or a mail of it other than the success mail is out.
THEOREM StatusIsFounded == Spec => []StatusHasCause
<1>1. Init => SentInv /\ CompletedEventCause
  BY JobSets DEF Init, Empty, SentInv, SentOK, CompletedEventCause
<1>2. IInv /\ CompletedEventCause => StatusHasCause
  BY DEF IInv, StatusHasCause
<1> QED
  BY <1>1, <1>2, SentStep, CompletedCauseStep, Invariance, PTL DEF Spec

-----------------------------------------------------------------------------
(***************************************************************************)
(* Every change of a job uses fuel.                                        *)
(***************************************************************************)
\* What is known of the fuel of a job in Redis.
HasFuel(j) ==
  jobState[j] # "absent" =>
    /\ Distance[Place(j)] \in 0..8
    /\ attemptsMade[j] \in Nat /\ stalledCount[j] \in Nat
    /\ DeliveriesLeft(j) \in Nat
    /\ Fuel(j) \in Nat

\* The attempts and the recoveries stay within their limits.
LEMMA FuelIsNatural == IInv => \A j \in Jobs : HasFuel(j)
<1> SUFFICES ASSUME IInv, NEW j \in Jobs, jobState[j] # "absent"
             PROVE  HasFuel(j)
  BY DEF HasFuel
<1>1. /\ attemptsMade[j] \in 0..MAX_ATTEMPTS
      /\ stalledCount[j] \in 0..(MaxStalledCount + 1)
      /\ jobState[j] \in {"wait", "active", "delayed", "completed", "failed"}
      /\ pc[j] \in {"idle", "taken", "marked", "inserted", "enqueued", "sent",
                    "finished"}
  BY DEF IInv, TypeOK
<1>2. Distance[Place(j)] \in 0..8
  BY <1>1 DEF Distance, Place
<1>3. DeliveriesLeft(j) \in Nat
  BY <1>1, AttemptsAssumption, StalledAssumption DEF DeliveriesLeft
<1> QED
  BY <1>1, <1>2, <1>3, AttemptsAssumption, StalledAssumption DEF Fuel, HasFuel

\* The same of the next state.
LEMMA FuelStaysNatural == IInv' => \A j \in Jobs : HasFuel(j)'
<1>1. IInv' => (\A j \in Jobs : HasFuel(j))'
  BY FuelIsNatural, PTL
<1> QED
  BY <1>1

\* A job comes nearer to its end, or a delivery of it is used up.
Spends(j) ==
  \/ /\ attemptsMade'[j] + stalledCount'[j] = attemptsMade[j] + stalledCount[j]
     /\ Distance[Place(j)'] < Distance[Place(j)]
  \/ attemptsMade'[j] + stalledCount'[j] = attemptsMade[j] + stalledCount[j] + 1

\* A processor that moves on brings its job nearer to its end.
LEMMA ProcessorsAdvance ==
  ASSUME IInv, NEW j \in Jobs, NEW from, NEW to, Goto(j, from, to),
         UNCHANGED queue,
         <<from, to>> \in {<<"taken", "marked">>, <<"marked", "inserted">>,
                           <<"inserted", "enqueued">>, <<"enqueued", "finished">>,
                           <<"marked", "sent">>, <<"sent", "finished">>}
  PROVE  /\ \A k \in Jobs : k # j => UNCHANGED JobView(k)
         /\ Spends(j)
<1>1. pc = [k \in Jobs |-> pc[k]] /\ jobState[j] = "active" /\ pc[j] = from
  BY RunningJob DEF IInv, TypeOK, Goto
<1>2. pc'[j] = to /\ jobState'[j] = "active"
  BY <1>1 DEF Goto, queue
<1>3. Distance[to] < Distance[from]
  BY DEF Distance
<1>4. \A k \in Jobs : k # j => pc'[k] = pc[k]
  BY <1>1 DEF Goto
<1>5. \A k \in Jobs : k # j => UNCHANGED JobView(k)
  BY <1>4 DEF JobView, queue
<1>6. /\ Place(j) = from /\ Place(j)' = to
      /\ attemptsMade'[j] = attemptsMade[j] /\ stalledCount'[j] = stalledCount[j]
  BY <1>1, <1>2 DEF Place, queue
<1> QED
  BY <1>3, <1>5, <1>6 DEF Spends

\* The steps of the queues spend fuel of the job they are about.
LEMMA QueueSpends ==
  ASSUME IInv, NEW j \in Jobs,
         \/ Take(j) \/ TakeDoomed(j) \/ Retry(j) \/ RecoverStalled(j) \/ Ack(j)
         \/ AttemptError(j)
  PROVE  /\ \A k \in Jobs : k # j => UNCHANGED JobView(k)
         /\ Spends(j)
<1>1. /\ jobState = [k \in Jobs |-> jobState[k]]
      /\ pc = [k \in Jobs |-> pc[k]]
      /\ attemptsMade \in [Jobs -> 0..MAX_ATTEMPTS]
      /\ stalledCount \in [Jobs -> 0..(MaxStalledCount + 1)]
      /\ attemptsMade[j] \in Nat /\ stalledCount[j] \in Nat
  BY AttemptsAssumption, StalledAssumption DEF IInv, TypeOK
<1>2. CASE Take(j)
  BY <1>1, <1>2 DEF Take, JobView, Spends, Place, Distance
<1>3. CASE TakeDoomed(j)
  BY <1>1, <1>3 DEF TakeDoomed, JobView, Spends
<1>4. CASE Retry(j)
  BY <1>1, <1>4 DEF Retry, Add, JobView, Spends, Place, Distance
<1>5. CASE RecoverStalled(j)
  BY <1>1, <1>5 DEF RecoverStalled, Add, JobView, Spends
<1>6. CASE Ack(j)
  BY <1>1, <1>6, RunningJob DEF Ack, JobView, Spends, Place, Distance
<1>7. CASE AttemptError(j)
  BY <1>1, <1>7 DEF AttemptError, Fail, JobView, Spends
<1> QED
  BY <1>2, <1>3, <1>4, <1>5, <1>6, <1>7

\* A worker that dies loses the run of a job, not the job.
LEMMA CrashSpends ==
  ASSUME IInv, NEW j \in Jobs, WorkerCrash, JobView(j)' # JobView(j)
  PROVE  Spends(j)
<1>1. /\ jobState'[j] = jobState[j]
      /\ attemptsMade'[j] = attemptsMade[j] /\ stalledCount'[j] = stalledCount[j]
      /\ pc'[j] = "idle"
  BY DEF WorkerCrash, queue
<1>2. pc[j] \in {"taken", "marked", "inserted", "enqueued", "sent", "finished"}
  BY <1>1 DEF JobView, IInv, TypeOK
<1>3. jobState[j] = "active"
  BY <1>2, RunningJob
<1>4. Place(j) = pc[j] /\ Place(j)' = "idle"
  BY <1>1, <1>3 DEF Place
<1>5. Distance["idle"] < Distance[pc[j]]
  BY <1>2 DEF Distance
<1> QED
  BY <1>1, <1>4, <1>5 DEF Spends

\* Enqueueing a job changes no job that is in Redis already.
LEMMA AddSpendsNothing ==
  ASSUME IInv, NEW k \in Jobs, jobState[k] = "absent", Add(k),
         UNCHANGED <<attemptsMade, stalledCount>>
  PROVE  \A j \in Jobs :
           jobState[j] # "absent" =>
             /\ jobState'[j] = jobState[j]
             /\ attemptsMade'[j] = attemptsMade[j]
             /\ stalledCount'[j] = stalledCount[j]
BY DEF IInv, TypeOK, Add

\* Whatever changes a job that is in Redis spends fuel of it.
LEMMA ChangesSpend ==
  ASSUME IInv, [PipelineStep]_pipeline, NEW j \in Jobs, jobState[j] # "absent",
         JobView(j)' # JobView(j)
  PROVE  Spends(j)
<1>1. pc = [k \in Jobs |-> pc[k]]
  BY DEF IInv, TypeOK
<1>2. ~UNCHANGED <<queue, pc>>
  BY DEF JobView, queue
<1>3. ASSUME NEW k \in Jobs,
             \/ Take(k) \/ TakeDoomed(k) \/ Retry(k) \/ RecoverStalled(k)
             \/ Ack(k) \/ AttemptError(k)
      PROVE  Spends(j)
  BY <1>3, QueueSpends
<1>4. ASSUME NEW k \in CreateJobs, StartTask(k) \/ InsertTask(k) \/ CompleteTask(k)
      PROVE  Spends(j)
  BY <1>4, ProcessorsAdvance, JobSets DEF StartTask, InsertTask, CompleteTask
<1>5. ASSUME NEW k \in MailJobs, StartMail(k) \/ SendMail(k) \/ CompleteMail(k)
      PROVE  Spends(j)
  BY <1>5, ProcessorsAdvance, JobSets DEF StartMail, SendMail, CompleteMail
<1>6. ASSUME NEW e \in Events, PushEventToQueue(e) PROVE FALSE
  BY <1>6, FirstJobIsNew, AddSpendsNothing DEF PushEventToQueue, JobView
<1>7. ASSUME NEW h \in handlers, NotifyTaskFailure(h) PROVE FALSE
  BY <1>7, FailureJobIsNew, AddSpendsNothing DEF NotifyTaskFailure, JobView
<1>8. ASSUME NEW k \in CreateJobs, NotifyReporter(k) PROVE Spends(j)
  <2>1. /\ k \in Jobs /\ jobState[k] = "active" /\ pc[k] = "inserted"
        /\ pc' = [pc EXCEPT ![k] = "enqueued"]
    BY <1>8, JobSets, RunningJob DEF NotifyReporter, CanNotify
  <2>2. /\ jobState'[j] = jobState[j]
        /\ attemptsMade'[j] = attemptsMade[j]
        /\ stalledCount'[j] = stalledCount[j]
    BY <1>8, SuccessJobIsNew, AddSpendsNothing DEF NotifyReporter
  <2>3. pc'[j] # pc[j]
    BY <2>2 DEF JobView
  <2>4. j = k /\ pc'[j] = "enqueued"
    BY <1>1, <2>1, <2>3
  <2> QED
    BY <2>1, <2>2, <2>4 DEF Spends, Place, Distance
<1> QED
  BY <1>2, <1>3, <1>4, <1>5, <1>6, <1>7, <1>8, CrashSpends, ConflictIsError
     DEF pipeline, queue, PipelineStep, Disturbance, ApiStep, WorkerStep,
         QueueStep, TaskStep, MailStep,
         HandlerStep, Call, FlushEvent, Reject, ApiCrash, LogFailure,
         LogTaskFailure, LogMailFailure, FailTaskEvent, FailMailEvent

\* Every change of a job that is in Redis - errors, retries, crashes and
\* recoveries included - takes it to a smaller natural number of steps left.
THEOREM JobsRunDown == Spec => JobsUseFuel
<1>1. ASSUME IInv, IInv', [PipelineStep]_pipeline, NEW j \in Jobs, jobState[j] # "absent",
             JobView(j)' # JobView(j)
      PROVE  Fuel(j)' \in 0..(Fuel(j) - 1)
  <2>1. jobState'[j] # "absent"
    BY <1>1, OutcomesLast
  <2>2. /\ Distance[Place(j)'] \in 0..8 /\ Fuel(j)' \in Nat
        /\ DeliveriesLeft(j)' \in Nat
        /\ attemptsMade'[j] \in Nat /\ stalledCount'[j] \in Nat
    <3>1. HasFuel(j)'
      BY <1>1, FuelStaysNatural
    <3> QED
      BY <2>1, <3>1 DEF HasFuel, Distance
  <2>3. /\ Distance[Place(j)] \in 0..8 /\ Fuel(j) \in Nat
        /\ DeliveriesLeft(j) \in Nat
        /\ attemptsMade[j] \in Nat /\ stalledCount[j] \in Nat
    BY <1>1, FuelIsNatural DEF HasFuel
  <2>4. Spends(j)
    BY <1>1, ChangesSpend
  <2>5. CASE /\ attemptsMade'[j] + stalledCount'[j] = attemptsMade[j] + stalledCount[j]
             /\ Distance[Place(j)'] < Distance[Place(j)]
    <3>1. DeliveriesLeft(j)' = DeliveriesLeft(j)
      BY <2>3, <2>2, <2>5, AttemptsAssumption, StalledAssumption DEF DeliveriesLeft
    <3> QED
      BY <2>2, <2>3, <2>5, <3>1 DEF Fuel
  <2>6. CASE attemptsMade'[j] + stalledCount'[j] = attemptsMade[j] + stalledCount[j] + 1
    <3>1. DeliveriesLeft(j)' = DeliveriesLeft(j) - 1
      BY <2>2, <2>3, <2>6, AttemptsAssumption, StalledAssumption DEF DeliveriesLeft
    <3> QED
      BY <2>2, <2>3, <3>1 DEF Fuel
  <2> QED
    BY <2>4, <2>5, <2>6 DEF Spends
<1>2. IInv /\ IInv' /\ [Next]_vars =>
        [\A j \in Jobs : jobState[j] # "absent" /\ JobView(j)' # JobView(j) =>
           Fuel(j)' \in 0..(Fuel(j) - 1)]_vars
  BY <1>1, StepOrRestart
<1> QED
  BY <1>2, Invariance, PTL DEF Spec, JobsUseFuel

-----------------------------------------------------------------------------
(***************************************************************************)
(* How far the failure mail can be believed.                               *)
(***************************************************************************)
\* An attempt is lost after its insert: a later await throws, or the worker
\* dies there.  The row stays (task.processor.ts:67 flushes it alone), and
\* every retry runs into it.
LateFailure ==
  \E e \in CreateEvents :
    /\ pc[CreateJob(e)] \in {"inserted", "enqueued", "finished"}
    /\ pc'[CreateJob(e)] = "idle"
    /\ jobState'[CreateJob(e)] # "completed"

\* The attempt that inserted a task is still running, or its job is completed.
InserterOK(e) ==
  e \in tasks =>
    \/ pc[CreateJob(e)] \in {"inserted", "enqueued", "finished"}
    \/ jobState[CreateJob(e)] = "completed"

InserterInv == \A e \in CreateEvents : InserterOK(e)

\* A job that is completed stays so.
LEMMA CompletedStays ==
  ASSUME IInv, [PipelineStep]_pipeline, NEW j \in Jobs, jobState[j] = "completed"
  PROVE  jobState'[j] = "completed"
<1>1. jobState = [k \in Jobs |-> jobState[k]] /\ pc[j] = "idle"
  BY DEF IInv, TypeOK, JobInv, JobOK
<1>2. CASE UNCHANGED jobState
  BY <1>2
<1>3. ASSUME NEW k \in Jobs,
             \/ Take(k) \/ TakeDoomed(k) \/ Retry(k) \/ RecoverStalled(k)
             \/ Ack(k) \/ AttemptError(k)
      PROVE  jobState'[j] = "completed"
  BY <1>1, <1>3
     DEF Take, TakeDoomed, Retry, RecoverStalled, Ack, AttemptError, Fail, Add
<1>4. ASSUME NEW e \in Events, PushEventToQueue(e) PROVE jobState'[j] = "completed"
  BY <1>1, <1>4, FirstJobIsNew DEF PushEventToQueue, Add
<1>5. ASSUME NEW k \in CreateJobs, NotifyReporter(k) PROVE jobState'[j] = "completed"
  BY <1>1, <1>5, SuccessJobIsNew DEF NotifyReporter, Add
<1>6. ASSUME NEW h \in handlers, NotifyTaskFailure(h) PROVE jobState'[j] = "completed"
  BY <1>1, <1>6, FailureJobIsNew DEF NotifyTaskFailure, Add
<1> QED
  BY <1>2, <1>3, <1>4, <1>5, <1>6, ConflictIsError
     DEF pipeline, queue, PipelineStep, Disturbance, ApiStep, WorkerStep,
         QueueStep, TaskStep, MailStep,
         HandlerStep, Call, FlushEvent, Reject, ApiCrash, StartTask, InsertTask,
         CompleteTask, StartMail, SendMail, CompleteMail, LogFailure,
         LogTaskFailure, LogMailFailure, FailTaskEvent, FailMailEvent, WorkerCrash

\* A task is new when its create job has just inserted it.
LEMMA WhoInserts ==
  ASSUME IInv, [PipelineStep]_pipeline, NEW e \in CreateEvents, e \notin tasks, e \in tasks'
  PROVE  pc'[CreateJob(e)] = "inserted"
<1>1. pc = [j \in Jobs |-> pc[j]]
  BY DEF IInv, TypeOK
<1>2. ASSUME NEW j \in CreateJobs, InsertTask(j)
      PROVE  pc'[CreateJob(e)] = "inserted"
  <2>1. j = CreateJob(e) /\ j \in Jobs
    BY <1>2, JobForms, JobSets DEF InsertTask
  <2> QED
    BY <1>1, <1>2, <2>1 DEF InsertTask, Goto
<1> QED
  BY <1>2, ConflictIsError
     DEF pipeline, PipelineStep, Disturbance, ApiStep, WorkerStep,
         QueueStep, TaskStep, MailStep,
         HandlerStep, Call, FlushEvent, PushEventToQueue, Reject, ApiCrash,
         Take, TakeDoomed, Retry, RecoverStalled, Ack, AttemptError, StartTask,
         NotifyReporter, CompleteTask, StartMail, SendMail, CompleteMail,
         LogFailure, LogTaskFailure, LogMailFailure, FailTaskEvent,
         NotifyTaskFailure, FailMailEvent, WorkerCrash

\* A create job that got past its insert goes on, or leaves the worker.
LEMMA InserterMoves ==
  ASSUME IInv, [PipelineStep]_pipeline, NEW e \in CreateEvents,
         pc[CreateJob(e)] \in {"inserted", "enqueued", "finished"}
  PROVE  pc'[CreateJob(e)] \in {"inserted", "enqueued", "finished", "idle"}
<1>1. pc = [j \in Jobs |-> pc[j]] /\ CreateJob(e) \in Jobs
  BY JobSets DEF IInv, TypeOK
<1>2. CASE UNCHANGED pc
  BY <1>2
<1>3. ASSUME NEW j \in Jobs, Take(j) PROVE pc'[CreateJob(e)] = pc[CreateJob(e)]
  <2>1. j # CreateJob(e)
    BY <1>1, <1>3, RunningJob DEF Take
  <2> QED
    BY <1>1, <1>3, <2>1 DEF Take
<1>4. ASSUME NEW j \in Jobs, Ack(j) \/ AttemptError(j)
      PROVE  pc'[CreateJob(e)] \in {pc[CreateJob(e)], "idle"}
  BY <1>1, <1>4 DEF Ack, AttemptError, Fail
<1>5. ASSUME NEW j \in CreateJobs,
             StartTask(j) \/ InsertTask(j) \/ NotifyReporter(j) \/ CompleteTask(j)
      PROVE  pc'[CreateJob(e)] \in {"inserted", "enqueued", "finished"}
  BY <1>1, <1>5
     DEF StartTask, InsertTask, NotifyReporter, CanNotify, CompleteTask, Goto
<1>6. ASSUME NEW j \in MailJobs, StartMail(j) \/ SendMail(j) \/ CompleteMail(j)
      PROVE  pc'[CreateJob(e)] = pc[CreateJob(e)]
  <2>1. j # CreateJob(e)
    BY JobSets
  <2> QED
    BY <1>1, <1>6, <2>1 DEF StartMail, SendMail, CompleteMail, Goto
<1>7. CASE WorkerCrash
  BY <1>1, <1>7 DEF WorkerCrash
<1> QED
  BY <1>2, <1>3, <1>4, <1>5, <1>6, <1>7, ConflictIsError
     DEF pipeline, PipelineStep, Disturbance, ApiStep, WorkerStep,
         QueueStep, TaskStep, MailStep,
         HandlerStep, Call, FlushEvent, PushEventToQueue, Reject, ApiCrash,
         TakeDoomed, Retry, RecoverStalled, LogFailure, LogTaskFailure,
         LogMailFailure, FailTaskEvent, NotifyTaskFailure, FailMailEvent

\* A step that is no late failure keeps InserterInv.
LEMMA InserterStep ==
  IInv /\ InserterInv /\ [Next /\ ~LateFailure]_vars => InserterInv'
<1> SUFFICES ASSUME IInv, InserterInv, [Next /\ ~LateFailure]_vars,
                    NEW e \in CreateEvents, e \in tasks'
             PROVE  \/ pc'[CreateJob(e)] \in {"inserted", "enqueued", "finished"}
                    \/ jobState'[CreateJob(e)] = "completed"
  BY DEF InserterInv, InserterOK
<1>1. [PipelineStep]_pipeline /\ CreateJob(e) \in Jobs
  BY JobSets, StepOrRestart
<1>2. CASE e \notin tasks
  BY <1>1, <1>2, WhoInserts
<1>3. CASE jobState[CreateJob(e)] = "completed"
  BY <1>1, <1>3, CompletedStays
<1>4. CASE pc[CreateJob(e)] \in {"inserted", "enqueued", "finished"}
  <2>1. CASE UNCHANGED vars
    BY <1>4, <2>1 DEF vars, pipeline
  <2>2. CASE ~LateFailure
    BY <1>1, <1>4, <2>2, InserterMoves DEF LateFailure
  <2> QED
    BY <2>1, <2>2
<1> QED
  BY <1>2, <1>3, <1>4 DEF InserterInv, InserterOK

\* FailureMailMeansNoTask, which a run refutes, holds of every behaviour in
\* which no attempt fails after its insert: the conflict of a retry with its
\* own row is the only way to a failure mail for a task that exists.
THEOREM FailureMailHonestUntilLateFailure ==
  Init /\ [][Next /\ ~LateFailure]_vars => []FailureMailMeansNoTask
<1>1. Init => IInv /\ InserterInv
  BY InitIInv DEF Init, Empty, InserterInv, InserterOK
<1>2. IInv /\ InserterInv /\ [Next /\ ~LateFailure]_vars => IInv' /\ InserterInv'
  BY StepIInv, InserterStep
<1>3. ASSUME IInv, InserterInv, NEW e \in CreateEvents, e \in tasks
      PROVE  jobState[FailureJob(e)] = "absent"
  <2>1. jobState[CreateJob(e)] \in {"active", "completed"}
    BY <1>3, JobSets, RunningJob DEF InserterInv, InserterOK
  <2> QED
    BY <1>3, <2>1 DEF IInv, FailureMailAfterLastAttempt
<1>4. IInv /\ InserterInv => FailureMailMeansNoTask
  BY <1>3 DEF FailureMailMeansNoTask
<1> QED
  BY <1>1, <1>2, <1>4, PTL


-----------------------------------------------------------------------------
(***************************************************************************)
(* The create requests implement CreateRequests.                           *)
(***************************************************************************)
\* The requests whose success mail, and whose failure mail, is on its way.
ToldCreated == {e \in CreateEvents : jobState[SuccessJob(e)] # "absent"}
ToldFailed  == {e \in CreateEvents : jobState[FailureJob(e)] # "absent"}

\* A step that enqueues nothing tells nobody.
LEMMA NothingEnqueued ==
  ASSUME \A j \in Jobs : jobState'[j] = "absent" <=> jobState[j] = "absent"
  PROVE  UNCHANGED <<ToldCreated, ToldFailed>>
BY JobSets DEF ToldCreated, ToldFailed

\* A push enqueues a first job, which is no outcome.
LEMMA FirstJobTellsNobody ==
  ASSUME IInv, NEW e \in Events, PushEventToQueue(e)
  PROVE  UNCHANGED <<tasks, ToldCreated, ToldFailed>>
<1>1. jobState = [j \in Jobs |-> jobState[j]]
  BY DEF IInv, TypeOK
<1>2. \A f \in CreateEvents : /\ jobState'[SuccessJob(f)] = jobState[SuccessJob(f)]
                              /\ jobState'[FailureJob(f)] = jobState[FailureJob(f)]
  BY <1>1, FirstJobs, JobSets DEF PushEventToQueue, Add
<1> QED
  BY <1>2 DEF PushEventToQueue, ToldCreated, ToldFailed

\* An insert creates the task of a request that has not failed, under a title
\* that nobody has.
LEMMA InsertIsCreate ==
  ASSUME IInv, NEW j \in CreateJobs, InsertTask(j)
  PROVE  Outcomes!Next
<1>1. j.event \in CreateEvents /\ j = CreateJob(j.event) /\ j \in Jobs
  BY JobForms, JobSets
<1>2. jobState[j] = "active"
  BY <1>1, RunningJob DEF InsertTask, Goto
<1>3. jobState[FailureJob(j.event)] = "absent"
  BY <1>1, <1>2 DEF IInv, FailureMailAfterLastAttempt
<1>4. /\ \A t \in tasks : TitleOf[t] # TitleOf[j.event]
      /\ tasks' = tasks \cup {j.event}
      /\ UNCHANGED jobState
  BY DEF InsertTask, Clashes, queue
<1>5. Outcomes!Create(j.event)
  BY <1>3, <1>4 DEF Outcomes!Create
<1> QED
  BY <1>1, <1>5 DEF Outcomes!Next

\* The success mail is enqueued for a task that is there, for the first time
\* and before any failure mail.
LEMMA NotifyIsTellCreated ==
  ASSUME IInv, NEW j \in CreateJobs, NotifyReporter(j)
  PROVE  Outcomes!Next
<1> DEFINE e == j.event
<1>1. /\ e \in CreateEvents /\ j = CreateJob(e) /\ j \in Jobs /\ e \in tasks
      /\ jobState[SuccessJob(e)] = "absent"
  BY SuccessJobIsNew, JobSets
<1>2. jobState[FailureJob(e)] = "absent"
  <2>1. jobState[CreateJob(e)] = "active"
    BY <1>1, RunningJob DEF NotifyReporter, CanNotify
  <2> QED
    BY <1>1, <2>1 DEF IInv, FailureMailAfterLastAttempt
<1>3. /\ jobState = [k \in Jobs |-> jobState[k]]
      /\ jobState' = [jobState EXCEPT ![SuccessJob(e)] = "wait"]
      /\ UNCHANGED tasks
  BY DEF IInv, TypeOK, NotifyReporter, Add
<1>4. /\ jobState'[SuccessJob(e)] = "wait"
      /\ \A f \in CreateEvents : f # e => jobState'[SuccessJob(f)] = jobState[SuccessJob(f)]
      /\ \A f \in CreateEvents : jobState'[FailureJob(f)] = jobState[FailureJob(f)]
  BY <1>1, <1>3, JobSets, JobsDistinct
<1>5. Outcomes!TellCreated(e)
  BY <1>1, <1>2, <1>3, <1>4 DEF Outcomes!TellCreated
<1> QED
  BY <1>1, <1>5 DEF Outcomes!Next

\* The failure mail is enqueued for the first time.
LEMMA NotifyIsTellFailed ==
  ASSUME IInv, NEW h \in handlers, NotifyTaskFailure(h)
  PROVE  Outcomes!Next
<1> DEFINE e == h.job.event
<1>1. e \in CreateEvents /\ jobState[FailureJob(e)] = "absent"
  BY FailureJobIsNew
<1>2. /\ jobState = [k \in Jobs |-> jobState[k]]
      /\ jobState' = [jobState EXCEPT ![FailureJob(e)] = "wait"]
      /\ UNCHANGED tasks
  BY DEF IInv, TypeOK, NotifyTaskFailure, Add
<1>3. /\ jobState'[FailureJob(e)] = "wait"
      /\ \A f \in CreateEvents : f # e => jobState'[FailureJob(f)] = jobState[FailureJob(f)]
      /\ \A f \in CreateEvents : jobState'[SuccessJob(f)] = jobState[SuccessJob(f)]
  BY <1>1, <1>2, JobSets, JobsDistinct
<1>4. Outcomes!TellFailed(e)
  BY <1>1, <1>2, <1>3 DEF Outcomes!TellFailed
<1> QED
  BY <1>1, <1>4 DEF Outcomes!Next

\* Every step of the pipeline is a step of CreateRequests or none.
LEMMA StepImplementsCreateRequests ==
  IInv /\ [Next]_vars => [Outcomes!Next]_<<tasks, ToldCreated, ToldFailed>>
<1> SUFFICES ASSUME IInv, [PipelineStep]_pipeline
             PROVE  Outcomes!Next \/ UNCHANGED <<tasks, ToldCreated, ToldFailed>>
  BY StepOrRestart
<1>1. CASE UNCHANGED <<tasks, jobState>>
  BY <1>1 DEF ToldCreated, ToldFailed
<1>2. ASSUME NEW j \in Jobs,
             Take(j) \/ TakeDoomed(j) \/ Retry(j) \/ RecoverStalled(j) \/ Ack(j)
               \/ AttemptError(j)
      PROVE  UNCHANGED <<tasks, ToldCreated, ToldFailed>>
  <2>1. jobState = [k \in Jobs |-> jobState[k]] /\ jobState[j] # "absent"
    BY <1>2, RunningJob
       DEF IInv, TypeOK, Take, TakeDoomed, Retry, RecoverStalled, Ack, AttemptError
  <2>2. UNCHANGED tasks /\ \A k \in Jobs : jobState'[k] = "absent" <=> jobState[k] = "absent"
    BY <1>2, <2>1
       DEF Take, TakeDoomed, Retry, RecoverStalled, Ack, AttemptError, Fail, Add
  <2> QED
    BY <2>2, NothingEnqueued
<1>3. ASSUME NEW e \in Events, PushEventToQueue(e)
      PROVE  UNCHANGED <<tasks, ToldCreated, ToldFailed>>
  BY <1>3, FirstJobTellsNobody
<1>4. ASSUME NEW j \in CreateJobs, InsertTask(j) \/ NotifyReporter(j)
      PROVE  Outcomes!Next
  BY <1>4, InsertIsCreate, NotifyIsTellCreated
<1>5. ASSUME NEW h \in handlers, NotifyTaskFailure(h) PROVE Outcomes!Next
  BY <1>5, NotifyIsTellFailed
<1> QED
  BY <1>1, <1>2, <1>3, <1>4, <1>5, ConflictIsError
     DEF pipeline, queue, PipelineStep, Disturbance, ApiStep, WorkerStep,
         QueueStep, TaskStep, MailStep,
         HandlerStep, Call, FlushEvent, Reject, ApiCrash, StartTask,
         CompleteTask, StartMail, SendMail, CompleteMail, LogFailure,
         LogTaskFailure, LogMailFailure, FailTaskEvent, FailMailEvent,
         WorkerCrash

\* Whatever is retried, redelivered, lost in a crash or run side by side, the
\* create requests keep their contract: one request of a title makes its task,
\* its reporter is told of it only when it is there, and nothing more is made
\* or told of a request whose failure was told.
THEOREM RequestsKeepContract == Spec => ImplementsCreateRequests
<1>1. Init => Outcomes!Init
  BY JobSets DEF Init, Empty, Outcomes!Init
<1>2. IInv /\ [Next]_vars =>
        [Outcomes!Next]_<<tasks,
          {e \in CreateEvents : jobState[SuccessJob(e)] # "absent"},
          {e \in CreateEvents : jobState[FailureJob(e)] # "absent"}>>
  BY StepImplementsCreateRequests DEF ToldCreated, ToldFailed
<1> QED
  BY <1>1, <1>2, Invariance, PTL
     DEF Spec, ImplementsCreateRequests, Outcomes!Spec

\* CompletedMeansCreated, which a run refutes, holds of a request whose failure
\* mail was never enqueued: that mail is what overwrites "failed".
THEOREM CompletedWithoutTaskNeedsFailureMail ==
  Spec => [](\A e \in CreateEvents :
               event[e] = "completed" /\ jobState[FailureJob(e)] = "absent"
                 => e \in tasks)
<1>1. ASSUME StatusHasCause, NEW e \in CreateEvents,
             event[e] = "completed", jobState[FailureJob(e)] = "absent"
      PROVE  e \in tasks
  <2>1. ASSUME NEW j \in JobsOf(e) \ (CreateJobs \cup SuccessJobs)
        PROVE  j = FailureJob(e)
    <3>1. j \notin NotifyJobs
      BY JobForms, EventsAssumption DEF JobsOf
    <3>2. j \in FailureJobs /\ j.event = e
      BY <3>1 DEF JobsOf, Jobs, MailJobs
    <3> QED
      BY <3>2, JobForms
  <2> QED
    BY <1>1, <2>1 DEF StatusHasCause, CompletedEventCause, Events
<1>2. StatusHasCause =>
        \A e \in CreateEvents :
          event[e] = "completed" /\ jobState[FailureJob(e)] = "absent" => e \in tasks
  BY <1>1
<1> QED
  BY <1>2, StatusIsFounded, PTL

=============================================================================
