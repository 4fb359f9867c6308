---------------------- MODULE EventPipelineContractProofs ----------------------
(***************************************************************************)
(* EventPipeline implements JobQueue, for every value of the constants;    *)
(* and two invariants on top of IInv: what the mail counters and what the  *)
(* failure logs say is true.                                               *)
(***************************************************************************)
EXTENDS EventPipelineProofs

(***************************************************************************)
(* The refinement of JobQueue.                                             *)
(***************************************************************************)
\* A step that touches one job in Redis changes the contract of that job only.
LEMMA OneJob ==
  ASSUME IInv, NEW k \in Jobs,
         \A j \in Jobs : j # k =>
           /\ jobState'[j] = jobState[j]
           /\ attemptsMade'[j] = attemptsMade[j]
           /\ stalledCount'[j] = stalledCount[j]
  PROVE  /\ Contracts' = [Contracts EXCEPT ![k] = Contract(jobState'[k])]
         /\ Takings' = [Takings EXCEPT ![k] = TimesTaken(k)']
<1>1. ASSUME NEW j \in Jobs, j # k
      PROVE  /\ Contract(jobState'[j]) = Contract(jobState[j])
             /\ TimesTaken(j)' = TimesTaken(j)
  BY <1>1 DEF TimesTaken
<1>2. /\ Contracts' = [j \in Jobs |-> Contract(jobState'[j])]
      /\ Takings' = [j \in Jobs |-> TimesTaken(j)']
  BY DEF Contracts, Takings
<1> QED
  BY <1>1, <1>2 DEF Contracts, Takings

\* What the counters of a job are, by its state.
LEMMA JobFacts ==
  ASSUME IInv, NEW k \in Jobs
  PROVE  /\ Contracts[k] = Contract(jobState[k])
         /\ Takings[k] = TimesTaken(k)
         /\ attemptsMade[k] \in Nat /\ stalledCount[k] \in Nat
         /\ jobState \in [Jobs -> {"absent", "wait", "active", "delayed",
                                   "completed", "failed"}]
         /\ attemptsMade = [j \in Jobs |-> attemptsMade[j]]
         /\ stalledCount = [j \in Jobs |-> stalledCount[j]]
         /\ JobOK(k)
BY AttemptsAssumption, StalledAssumption
   DEF IInv, TypeOK, JobInv, Contracts, Takings

\* Adding a job that is absent is Enqueue.
LEMMA AddIsEnqueue ==
  ASSUME IInv, NEW k \in Jobs, jobState[k] = "absent", Add(k),
         UNCHANGED <<attemptsMade, stalledCount>>
  PROVE  Queue!Next
<1>1. jobState'[k] = "wait" /\ \A j \in Jobs : j # k => jobState'[j] = jobState[j]
  BY JobFacts DEF Add
<1>2. Contracts' = [Contracts EXCEPT ![k] = "queued"] /\ Contracts[k] = "absent"
  BY <1>1, OneJob, JobFacts DEF Contract
<1>3. TimesTaken(k)' = Takings[k]
  BY <1>1, JobFacts DEF TimesTaken
<1>4. Takings' = Takings
  BY <1>1, <1>3, OneJob DEF Takings
<1>5. Queue!Enqueue(k)
  BY <1>2, <1>4 DEF Queue!Enqueue, Queue!Goto
<1> QED
  BY <1>5 DEF Queue!Next

\* Taking a job is Deliver: an attempt is left and the stalls are tolerated.
LEMMA TakeIsDeliver ==
  ASSUME IInv, NEW k \in Jobs, Take(k)
  PROVE  Queue!Next
<1>1. /\ jobState[k] = "wait" /\ jobState'[k] = "active"
      /\ \A j \in Jobs : j # k => jobState'[j] = jobState[j]
      /\ UNCHANGED <<attemptsMade, stalledCount>>
  BY JobFacts DEF Take
<1>2. /\ Contracts[k] = "queued"
      /\ Contracts' = [Contracts EXCEPT ![k] = "running"]
  BY <1>1, OneJob, JobFacts DEF Contract
<1>3. /\ Takings[k] = attemptsMade[k] + stalledCount[k]
      /\ TimesTaken(k)' = attemptsMade[k] + stalledCount[k] + 1
  BY <1>1, JobFacts DEF TimesTaken
<1>4. Takings[k] < MAX_ATTEMPTS + MaxStalledCount
  BY <1>1, <1>3, JobFacts, AttemptsAssumption, StalledAssumption
     DEF JobOK, Take, Doomed
<1>5. Takings' = [Takings EXCEPT ![k] = Takings[k] + 1]
  BY <1>1, <1>3, OneJob
<1>6. Queue!Deliver(k)
  BY <1>2, <1>4, <1>5 DEF Queue!Deliver, Queue!Goto, Queue!Count
<1> QED
  BY <1>6 DEF Queue!Next

\* Failing a job that stalled too often is Discard.
LEMMA TakeDoomedIsDiscard ==
  ASSUME IInv, NEW k \in Jobs, TakeDoomed(k)
  PROVE  Queue!Next
<1>1. /\ jobState[k] = "wait" /\ jobState'[k] = "failed"
      /\ attemptsMade'[k] = attemptsMade[k] + 1
      /\ \A j \in Jobs : j # k => jobState'[j] = jobState[j]
      /\ \A j \in Jobs : j # k => attemptsMade'[j] = attemptsMade[j]
      /\ UNCHANGED stalledCount
  BY JobFacts DEF TakeDoomed
<1>2. /\ Contracts[k] = "queued"
      /\ Contracts' = [Contracts EXCEPT ![k] = "failed"]
  BY <1>1, OneJob, JobFacts DEF Contract
<1>3. /\ Takings[k] = attemptsMade[k] + stalledCount[k]
      /\ TimesTaken(k)' = attemptsMade[k] + 1 + stalledCount[k]
  BY <1>1, JobFacts DEF TimesTaken
<1>4. Takings' = [Takings EXCEPT ![k] = Takings[k] + 1]
  BY <1>1, <1>3, OneJob, JobFacts
<1>5. Queue!Discard(k)
  BY <1>2, <1>4 DEF Queue!Discard, Queue!Goto, Queue!Count
<1> QED
  BY <1>5 DEF Queue!Next

\* A retry whose delay is over was queued all along.
LEMMA RetryIsStutter ==
  ASSUME IInv, NEW k \in Jobs, Retry(k)
  PROVE  UNCHANGED <<Contracts, Takings>>
<1>1. /\ jobState[k] = "delayed" /\ jobState'[k] = "wait"
      /\ \A j \in Jobs : j # k => jobState'[j] = jobState[j]
      /\ UNCHANGED <<attemptsMade, stalledCount>>
  BY JobFacts DEF Retry, Add
<1>2. Contract(jobState'[k]) = Contracts[k] /\ TimesTaken(k)' = Takings[k]
  BY <1>1, JobFacts DEF Contract, TimesTaken
<1> QED
  BY <1>1, <1>2, OneJob DEF Contracts, Takings

\* A recovered job is requeued: its delivery is counted as a stall.
LEMMA RecoverIsRequeue ==
  ASSUME IInv, NEW k \in Jobs, RecoverStalled(k)
  PROVE  Queue!Next
<1>1. /\ jobState[k] = "active" /\ jobState'[k] = "wait"
      /\ stalledCount'[k] = stalledCount[k] + 1
      /\ \A j \in Jobs : j # k => jobState'[j] = jobState[j]
      /\ \A j \in Jobs : j # k => stalledCount'[j] = stalledCount[j]
      /\ UNCHANGED attemptsMade
  BY JobFacts DEF RecoverStalled, Add
<1>2. /\ Contracts[k] = "running"
      /\ Contracts' = [Contracts EXCEPT ![k] = "queued"]
  BY <1>1, OneJob, JobFacts DEF Contract
<1>3. TimesTaken(k)' = Takings[k]
  BY <1>1, JobFacts DEF TimesTaken
<1>4. Takings' = Takings
  BY <1>1, <1>3, OneJob DEF Takings
<1>5. Queue!Requeue(k)
  BY <1>2, <1>4 DEF Queue!Requeue, Queue!Goto
<1> QED
  BY <1>5 DEF Queue!Next

\* An acknowledged job is complete.
LEMMA AckIsComplete ==
  ASSUME IInv, NEW k \in Jobs, Ack(k)
  PROVE  Queue!Next
<1>1. /\ jobState[k] = "active" /\ jobState'[k] = "completed"
      /\ \A j \in Jobs : j # k => jobState'[j] = jobState[j]
      /\ UNCHANGED <<attemptsMade, stalledCount>>
  BY JobFacts, RunningJob DEF Ack
<1>2. /\ Contracts[k] = "running"
      /\ Contracts' = [Contracts EXCEPT ![k] = "completed"]
  BY <1>1, OneJob, JobFacts DEF Contract
<1>3. TimesTaken(k)' = Takings[k]
  BY <1>1, JobFacts DEF TimesTaken
<1>4. Takings' = Takings
  BY <1>1, <1>3, OneJob DEF Takings
<1>5. Queue!Complete(k)
  BY <1>2, <1>4 DEF Queue!Complete, Queue!Goto
<1> QED
  BY <1>5 DEF Queue!Next

\* An attempt that throws requeues the job or gives it up.
LEMMA ErrorIsRequeueOrGiveUp ==
  ASSUME IInv, NEW k \in Jobs, AttemptError(k)
  PROVE  Queue!Next
<1>1. /\ jobState[k] = "active" /\ jobState'[k] \in {"delayed", "failed"}
      /\ attemptsMade'[k] = attemptsMade[k] + 1
      /\ \A j \in Jobs : j # k => jobState'[j] = jobState[j]
      /\ \A j \in Jobs : j # k => attemptsMade'[j] = attemptsMade[j]
      /\ UNCHANGED stalledCount
  BY JobFacts, RunningJob DEF AttemptError, Fail
<1>2. /\ Contracts[k] = "running"
      /\ \/ Contracts' = [Contracts EXCEPT ![k] = "queued"]
         \/ Contracts' = [Contracts EXCEPT ![k] = "failed"]
  BY <1>1, OneJob, JobFacts DEF Contract
<1>3. TimesTaken(k)' = Takings[k]
  BY <1>1, JobFacts DEF TimesTaken
<1>4. Takings' = Takings
  BY <1>1, <1>3, OneJob, JobFacts DEF Takings
<1>5. Queue!Requeue(k) \/ Queue!GiveUp(k)
  BY <1>2, <1>4 DEF Queue!Requeue, Queue!GiveUp, Queue!Goto
<1> QED
  BY <1>5 DEF Queue!Next

\* Every step is a step of JobQueue or leaves its variables alone.
LEMMA StepImplementsJobQueue ==
  IInv /\ [Next]_vars => [Queue!Next]_<<Contracts, Takings>>
<1> SUFFICES ASSUME IInv, [PipelineStep]_pipeline
             PROVE  Queue!Next \/ UNCHANGED <<Contracts, Takings>>
  BY StepOrRestart
<1>1. CASE UNCHANGED queue
  BY <1>1 DEF queue, Contracts, Takings, TimesTaken
<1>2. ASSUME NEW e \in Events, PushEventToQueue(e) PROVE Queue!Next
  BY <1>2, FirstJobIsNew, AddIsEnqueue DEF PushEventToQueue
<1>3. ASSUME NEW j \in CreateJobs, NotifyReporter(j) PROVE Queue!Next
  BY <1>3, SuccessJobIsNew, AddIsEnqueue DEF NotifyReporter
<1>4. ASSUME NEW h \in handlers, NotifyTaskFailure(h) PROVE Queue!Next
  BY <1>4, FailureJobIsNew, AddIsEnqueue DEF NotifyTaskFailure
<1> QED
  BY <1>1, <1>2, <1>3, <1>4, TakeIsDeliver, TakeDoomedIsDiscard, RetryIsStutter,
     RecoverIsRequeue, AckIsComplete, ErrorIsRequeueOrGiveUp, ConflictIsError
     DEF pipeline, queue, PipelineStep, Disturbance, ApiStep, WorkerStep,
         QueueStep, TaskStep, MailStep,
         HandlerStep, Call, FlushEvent, Reject, ApiCrash, StartTask, InsertTask,
         CompleteTask, StartMail, SendMail, CompleteMail, LogFailure,
         LogTaskFailure, LogMailFailure, FailTaskEvent, FailMailEvent, WorkerCrash

\* The task queue and the mail queue implement JobQueue: no retry, crash,
\* recovery or repeated enqueue revives a job that is over or hands one out
\* more often than its attempts and tolerated stalls allow.
THEOREM QueuesKeepContract == Spec => ImplementsJobQueue
<1>1. Init => Queue!Init
  BY DEF Init, Empty, Queue!Init, Contracts, Takings, Contract, TimesTaken
<1> QED
  BY <1>1, StepImplementsJobQueue, Invariance, PTL
     DEF Spec, ImplementsJobQueue, Queue!Spec

\* The steps of JobQueue keep its bound on the deliveries.
LEMMA ContractBounds ==
  IInv /\ Queue!DeliveriesBounded /\ [Queue!Next]_<<Contracts, Takings>>
    => Queue!DeliveriesBounded'
<1> SUFFICES ASSUME IInv, Queue!DeliveriesBounded,
                    [Queue!Next]_<<Contracts, Takings>>, NEW k \in Jobs
             PROVE  /\ Takings'[k] <= MAX_ATTEMPTS + MaxStalledCount + 1
                    /\ Contracts'[k] # "failed" =>
                         Takings'[k] <= MAX_ATTEMPTS + MaxStalledCount
  BY DEF Queue!DeliveriesBounded
<1>1. /\ Takings[k] <= MAX_ATTEMPTS + MaxStalledCount + 1
      /\ Contracts[k] # "failed" => Takings[k] <= MAX_ATTEMPTS + MaxStalledCount
  BY DEF Queue!DeliveriesBounded
<1>2. /\ Takings = [j \in Jobs |-> Takings[j]]
      /\ Contracts = [j \in Jobs |-> Contracts[j]]
      /\ \A j \in Jobs : Takings[j] \in Nat
  BY JobFacts DEF Takings, Contracts, TimesTaken
<1>3. CASE UNCHANGED <<Contracts, Takings>>
  BY <1>1, <1>3
<1>4. ASSUME NEW j \in Jobs,
             Queue!Enqueue(j) \/ Queue!Requeue(j) \/ Queue!Complete(j)
               \/ Queue!GiveUp(j)
      PROVE  /\ Takings' = Takings
             /\ Contracts'[k] # "failed" => Contracts[k] # "failed"
  BY <1>2, <1>4
     DEF Queue!Enqueue, Queue!Requeue, Queue!Complete, Queue!GiveUp, Queue!Goto
<1>5. ASSUME NEW j \in Jobs, Queue!Deliver(j)
      PROVE  /\ Takings'[k] = IF k = j THEN Takings[k] + 1 ELSE Takings[k]
             /\ Takings[j] < MAX_ATTEMPTS + MaxStalledCount
             /\ Contracts'[k] # "failed" => Contracts[k] # "failed"
  BY <1>2, <1>5 DEF Queue!Deliver, Queue!Goto, Queue!Count
<1>6. ASSUME NEW j \in Jobs, Queue!Discard(j)
      PROVE  /\ Takings'[k] = IF k = j THEN Takings[k] + 1 ELSE Takings[k]
             /\ Contracts[j] = "queued" /\ Contracts'[j] = "failed"
             /\ k # j => Contracts'[k] = Contracts[k]
  BY <1>2, <1>6 DEF Queue!Discard, Queue!Goto, Queue!Count
<1> QED
  BY <1>1, <1>2, <1>3, <1>4, <1>5, <1>6, AttemptsAssumption, StalledAssumption
     DEF Queue!Next

\* What the contract is worth to the code around the queues: the outcome of a
\* job never changes once it is there, and a job is handed to a processor at
\* most MAX_ATTEMPTS + MaxStalledCount times.
THEOREM ContractConsequences ==
  Spec => Queue!OutcomeIsFinal /\ []Queue!DeliveriesBounded
<1>1. Init => Queue!DeliveriesBounded
  BY AttemptsAssumption, StalledAssumption
     DEF Init, Empty, Queue!DeliveriesBounded, Contracts, Takings, TimesTaken,
         Contract
<1>2. ASSUME NEW j \in Jobs, NEW k \in Jobs, Contracts[k] \in {"completed", "failed"},
             \/ Queue!Enqueue(j) \/ Queue!Deliver(j) \/ Queue!Discard(j)
             \/ Queue!Requeue(j) \/ Queue!Complete(j) \/ Queue!GiveUp(j)
      PROVE  Contracts'[k] = Contracts[k]
  <2>1. Contracts = [i \in Jobs |-> Contracts[i]]
    BY DEF Contracts
  <2> QED
    BY <1>2, <2>1
       DEF Queue!Enqueue, Queue!Deliver, Queue!Discard, Queue!Requeue,
           Queue!Complete, Queue!GiveUp, Queue!Goto
<1>3. [Queue!Next]_<<Contracts, Takings>> =>
        [Queue!OutcomesStay]_<<Contracts, Takings>>
  BY <1>2 DEF Queue!Next, Queue!OutcomesStay
<1>4. Spec => []Queue!DeliveriesBounded
  BY <1>1, StepImplementsJobQueue, ContractBounds, Invariance, PTL DEF Spec
<1>5. Spec => Queue!OutcomeIsFinal
  BY <1>3, StepImplementsJobQueue, Invariance, PTL DEF Spec, Queue!OutcomeIsFinal
<1> QED
  BY <1>4, <1>5

-----------------------------------------------------------------------------
(***************************************************************************)
(* Mails that are marked as completed were sent.                           *)
(***************************************************************************)
\* A mail job that got past its send has sent a copy.
SentOK(j) ==
  pc[j] \in {"sent", "finished"} \/ jobState[j] = "completed" => sent[j] > 0

SentInv == MailHostSet => \A j \in MailJobs : SentOK(j)

\* Every step keeps SentInv.
LEMMA SentStep == IInv /\ SentInv /\ [Next]_vars => SentInv'
<1> SUFFICES ASSUME IInv, SentInv, [PipelineStep]_pipeline, MailHostSet,
                    NEW k \in MailJobs
             PROVE  SentOK(k)'
  BY StepOrRestart DEF SentInv
<1>1. /\ k \in Jobs /\ k \notin CreateJobs /\ SentOK(k)
      /\ pc = [j \in Jobs |-> pc[j]]
      /\ jobState = [j \in Jobs |-> jobState[j]]
      /\ sent \in [Jobs -> Nat]
  BY JobSets DEF IInv, TypeOK, SentInv
<1>2. CASE UNCHANGED <<pc, jobState, sent>>
  BY <1>1, <1>2 DEF SentOK
<1>3. ASSUME NEW e \in Events, PushEventToQueue(e) PROVE SentOK(k)'
  BY <1>1, <1>3, FirstJobIsNew DEF SentOK, PushEventToQueue, Add
<1>4. ASSUME NEW j \in Jobs, Take(j) \/ TakeDoomed(j) \/ Retry(j) \/ RecoverStalled(j)
      PROVE  SentOK(k)'
  BY <1>1, <1>4 DEF SentOK, Take, TakeDoomed, Retry, RecoverStalled, Add
<1>5. ASSUME NEW j \in Jobs, Ack(j) PROVE SentOK(k)'
  BY <1>1, <1>5 DEF SentOK, Ack
<1>6. ASSUME NEW j \in Jobs, AttemptError(j) PROVE SentOK(k)'
  BY <1>1, <1>6 DEF SentOK, AttemptError, Fail
<1>7. ASSUME NEW j \in CreateJobs,
             StartTask(j) \/ InsertTask(j) \/ CompleteTask(j)
      PROVE  SentOK(k)'
  BY <1>1, <1>7 DEF SentOK, StartTask, InsertTask, CompleteTask, Goto, queue
<1>8. ASSUME NEW j \in CreateJobs, NotifyReporter(j) PROVE SentOK(k)'
  BY <1>1, <1>8, SuccessJobIsNew DEF SentOK, NotifyReporter, Add
<1>9. ASSUME NEW j \in MailJobs, StartMail(j) \/ SendMail(j) \/ CompleteMail(j)
      PROVE  SentOK(k)'
  <2>1. j \in Jobs /\ jobState[j] = "active" /\ jobState' = jobState
    BY <1>9, JobSets, RunningJob
       DEF StartMail, SendMail, CompleteMail, Goto, queue
  <2>2. CASE j # k
    BY <1>1, <1>9, <2>1, <2>2 DEF SentOK, StartMail, SendMail, CompleteMail, Goto
  <2>3. CASE StartMail(k) \/ CompleteMail(k)
    BY <1>1, <2>1, <2>3 DEF SentOK, StartMail, CompleteMail, Goto, queue
  <2>4. CASE SendMail(k)
    <3>1. sent'[k] = sent[k] + 1
      BY <1>1, <2>4 DEF SendMail, CopiesAfter
    <3> QED
      BY <1>1, <3>1 DEF SentOK
  <2> QED
    BY <1>9, <2>2, <2>3, <2>4
<1>10. ASSUME NEW h \in handlers, NotifyTaskFailure(h) PROVE SentOK(k)'
  BY <1>1, <1>10, FailureJobIsNew DEF SentOK, NotifyTaskFailure, Add
<1>11. CASE WorkerCrash
  BY <1>1, <1>11 DEF SentOK, WorkerCrash, queue
<1> QED
  BY <1>2, <1>3, <1>4, <1>5, <1>6, <1>7, <1>8, <1>9, <1>10, <1>11, ConflictIsError
     DEF pipeline, queue, PipelineStep, Disturbance, ApiStep, WorkerStep,
         QueueStep, TaskStep, MailStep,
         HandlerStep, Call, FlushEvent, Reject, ApiCrash, LogFailure,
         LogTaskFailure, LogMailFailure, FailTaskEvent, FailMailEvent

\* With a MAIL_HOST, a mail job that completed has sent its mail, however often
\* it was interrupted on the way.
THEOREM CompletedMailIsOut == Spec => []CompletedMailWasSent
<1>1. Init => SentInv
  BY JobSets DEF Init, Empty, SentInv, SentOK
<1>2. SentInv => CompletedMailWasSent
  BY DEF SentInv, SentOK, CompletedMailWasSent
<1> QED
  BY <1>1, <1>2, SentStep, Invariance, PTL DEF Spec

-----------------------------------------------------------------------------
(***************************************************************************)
(* The failure logs are true.                                              *)
(***************************************************************************)
LogsInv ==
  /\ \A l \in logs : l[2] <= attemptsMade[l[1]]
  /\ \A h \in handlers : h.pc = "start" => <<h.job, h.attempt>> \notin logs

\* A listener that has just been started reports an attempt nobody has logged.
LEMMA EmittedUnlogged ==
  ASSUME IInv, LogsInv, NEW j \in Jobs
  PROVE  <<j, attemptsMade[j] + 1>> \notin logs
BY AttemptsAssumption DEF IInv, TypeOK, LogsInv

\* Every step keeps LogsInv.
LEMMA LogsStep == IInv /\ LogsInv /\ [Next]_vars => LogsInv'
<1> SUFFICES ASSUME IInv, LogsInv, [PipelineStep]_pipeline PROVE LogsInv'
  BY StepOrRestart
<1>1. /\ attemptsMade \in [Jobs -> 0..MAX_ATTEMPTS]
      /\ logs \subseteq Jobs \X (1..MAX_ATTEMPTS)
      /\ handlers \subseteq [job : Jobs, attempt : 1..MAX_ATTEMPTS,
                              pc : {"start", "logged", "marked"}]
  BY DEF IInv, TypeOK
<1>2. CASE UNCHANGED <<handlers, logs, attemptsMade>>
  BY <1>2 DEF LogsInv
<1>3. ASSUME NEW j \in Jobs, AttemptError(j) \/ TakeDoomed(j) PROVE LogsInv'
  <2>1. /\ attemptsMade' = [attemptsMade EXCEPT ![j] = @ + 1]
        /\ handlers' = handlers \cup
             {[job |-> j, attempt |-> attemptsMade[j] + 1, pc |-> "start"]}
        /\ logs' = logs
    BY <1>3 DEF AttemptError, TakeDoomed, Fail, Emit
  <2>2. \A l \in logs : l[2] <= attemptsMade'[l[1]]
    <3> SUFFICES ASSUME NEW l \in logs PROVE l[2] <= attemptsMade'[l[1]]
      OBVIOUS
    <3>1. l[1] \in Jobs /\ l[2] \in Nat /\ l[2] <= attemptsMade[l[1]]
      BY <1>1 DEF LogsInv
    <3> QED
      BY <1>1, <2>1, <3>1, AttemptsAssumption
  <2> QED
    BY <2>1, <2>2, EmittedUnlogged DEF LogsInv
<1>4. ASSUME NEW h \in handlers, LogFailure(h) PROVE LogsInv'
  <2>1. /\ logs' = logs \cup {<<h.job, h.attempt>>}
        /\ attemptsMade' = attemptsMade
        /\ h.attempt <= attemptsMade[h.job]
    BY <1>4 DEF LogFailure, queue, IInv, HandlerInv, HandlerOK
  <2>2. \A l \in logs' : l[2] <= attemptsMade'[l[1]]
    BY <2>1 DEF LogsInv
  <2>3. ASSUME NEW g \in handlers', g.pc = "start" PROVE g \in handlers /\ g # h
    BY <1>1, <1>4, <2>3 DEF LogFailure, Advance, Finish
  <2>4. ASSUME NEW g \in handlers', g.pc = "start"
        PROVE  <<g.job, g.attempt>> \notin logs'
    BY <2>1, <2>3, <2>4 DEF LogsInv, IInv, HandlerInv, OneHandlerPerAttempt
  <2> QED
    BY <2>2, <2>4 DEF LogsInv
<1>5. ASSUME NEW h \in handlers,
             FailTaskEvent(h) \/ NotifyTaskFailure(h) \/ FailMailEvent(h)
      PROVE  LogsInv'
  <2>1. \A g \in handlers' : g.pc = "start" => g \in handlers
    BY <1>1, <1>5
       DEF FailTaskEvent, NotifyTaskFailure, FailMailEvent, Advance, Finish
  <2> QED
    BY <1>5, <2>1
       DEF LogsInv, FailTaskEvent, NotifyTaskFailure, FailMailEvent, queue
<1>6. CASE WorkerCrash
  BY <1>6 DEF LogsInv, WorkerCrash, queue
<1> QED
  BY <1>2, <1>3, <1>4, <1>5, <1>6, ConflictIsError
     DEF pipeline, queue, PipelineStep, Disturbance, ApiStep, WorkerStep,
         QueueStep, TaskStep, MailStep,
         HandlerStep, Call, FlushEvent, PushEventToQueue, Reject, ApiCrash, Take,
         Retry, RecoverStalled, Ack, StartTask, InsertTask, NotifyReporter,
         CompleteTask, StartMail, SendMail, CompleteMail, LogTaskFailure,
         LogMailFailure

\* A failure log row is an attempt that was made, no attempt has two rows, and
\* the row of a last attempt belongs to a job that failed for good.
THEOREM FailureLogsCanBeTrusted == Spec => []FailureLogsAreTrue
<1>1. Init => LogsInv
  BY DEF Init, Empty, LogsInv
<1>2. ASSUME IInv, LogsInv PROVE FailureLogsAreTrue
  <2>1. ASSUME NEW l \in logs, l[2] = MAX_ATTEMPTS PROVE jobState[l[1]] = "failed"
    <3>1. l[1] \in Jobs /\ MAX_ATTEMPTS <= attemptsMade[l[1]]
      BY <1>2, <2>1 DEF IInv, TypeOK, LogsInv
    <3> QED
      BY <1>2, <3>1, AttemptsAssumption DEF IInv, TypeOK, JobInv, JobOK
  <2> QED
    BY <1>2, <2>1 DEF FailureLogsAreTrue, LogsInv
<1> QED
  BY <1>1, <1>2, LogsStep, Invariance, PTL DEF Spec

\* A create job that completed has its task and its success mail, and no
\* failure mail.
THEOREM CompletionIsWhole == Spec => []CompletedTaskJob
<1>1. IInv => CompletedTaskJob
  BY DEF IInv
<1> QED
  BY <1>1, Invariance, PTL

=============================================================================
