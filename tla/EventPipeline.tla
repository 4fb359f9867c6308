---------------------------- MODULE EventPipeline ----------------------------
(***************************************************************************)
(* The asynchronous pipeline: the API process writes an event row and      *)
(* pushes a job; the worker process takes jobs from the task queue and the *)
(* mail queue, one at a time per queue, moves the event row through its    *)
(* statuses, creates the task and sends the mails.  An event of            *)
(* CreateEvents is a "create task" request: its job may enqueue a success  *)
(* mail or a failure mail, and both share its event row.  An event of      *)
(* NotifyEvents is the mail a task action sends.                           *)
(*                                                                         *)
(* A task is named by the event that asked for it (the request draws a     *)
(* fresh taskId, and an event row keeps it).  Redis, PostgreSQL and SMTP   *)
(* calls may fail at every await; either process may die between two       *)
(* awaits.                                                                 *)
(***************************************************************************)
EXTENDS Naturals, FiniteSets

CONSTANTS
  CreateEvents,     \* events of type task_create
  NotifyEvents,     \* events of type mail_notification
  TitleOf,          \* [CreateEvents -> titles]: task.title is UNIQUE
  MAX_ATTEMPTS,     \* attempts of a job (event.constant.ts)
  MaxStalledCount,  \* BullMQ's maxStalledCount, left at its default (1)
  MailHostSet       \* MAIL_HOST is in the environment

ASSUME EventsAssumption == CreateEvents \cap NotifyEvents = {}
ASSUME AttemptsAssumption == MAX_ATTEMPTS \in Nat \ {0}
ASSUME StalledAssumption == MaxStalledCount \in Nat
ASSUME MailAssumption == MailHostSet \in BOOLEAN

Events == CreateEvents \cup NotifyEvents

CreateJob(e)  == [event |-> e, kind |-> "create"]
SuccessJob(e) == [event |-> e, kind |-> "success"]
FailureJob(e) == [event |-> e, kind |-> "failure"]
NotifyJob(e)  == [event |-> e, kind |-> "notify"]

CreateJobs  == [event : CreateEvents, kind : {"create"}]
SuccessJobs == [event : CreateEvents, kind : {"success"}]
FailureJobs == [event : CreateEvents, kind : {"failure"}]
NotifyJobs  == [event : NotifyEvents, kind : {"notify"}]
MailJobs    == SuccessJobs \cup FailureJobs \cup NotifyJobs
Jobs        == CreateJobs \cup MailJobs

FirstJob(e) == IF e \in CreateEvents THEN CreateJob(e) ELSE NotifyJob(e)
JobsOf(e)   == {j \in Jobs : j.event = e}

EventStatus == {"pending", "processing", "completed", "failed"}

VARIABLES
  svc,           \* event -> where EventService.createTaskProcessingEvent is
  event,         \* event -> status of its row, or "absent"
  tasks,         \* the tasks in the database
  jobState,      \* job -> its state in Redis, or "absent"
  attemptsMade,  \* job -> failed attempts so far
  stalledCount,  \* job -> times it was found active without a lock
  pc,            \* job -> where the worker is in process(job)
  handlers,      \* the onFailed calls in flight in the worker
  logs,          \* event_failure_log rows: <<job, attempt>>
  sent,          \* mail job -> copies handed to SMTP
  worker         \* the worker process: "up" or "down"

pipeline == <<svc, event, tasks, jobState, attemptsMade, stalledCount, pc,
              handlers, logs, sent>>
vars == <<pipeline, worker>>
queue == <<jobState, attemptsMade, stalledCount>>

\* Nothing is in the database, in Redis or in the worker, which runs.
Empty ==
  /\ event = [e \in Events |-> "absent"]
  /\ tasks = {}
  /\ jobState = [j \in Jobs |-> "absent"]
  /\ attemptsMade = [j \in Jobs |-> 0]
  /\ stalledCount = [j \in Jobs |-> 0]
  /\ pc = [j \in Jobs |-> "idle"]
  /\ handlers = {}
  /\ logs = {}
  /\ sent = [j \in Jobs |-> 0]
  /\ worker = "up"

Init == svc = [e \in Events |-> "idle"] /\ Empty

(***************************************************************************)
(* The API process: createTaskProcessingEvent, called by CreateTaskHandler *)
(* without await (the response is already on its way) and by               *)
(* TaskActionHandler.notifyByEmail with await.                             *)
(***************************************************************************)
Add(j) == jobState' = [jobState EXCEPT ![j] = "wait"]

SetEvent(e, status) == event' = [event EXCEPT ![e] = status]

\* The command handler calls the service.
Call(e) ==
  /\ svc[e] = "idle"
  /\ svc' = [svc EXCEPT ![e] = "called"]
  /\ UNCHANGED <<event, tasks, queue, pc, handlers, logs, sent>>

\* Faulty variant: the job is pushed without waiting for the row.
CanPushBeforeFlush(e) == svc[e] \in {"called", "flushed"}
CanPush(e) == svc[e] = "flushed"

\* The row is created as pending and flushed.
FlushEvent(e) ==
  /\ svc[e] = "called"
  /\ svc' = [svc EXCEPT ![e] = "flushed"]
  /\ SetEvent(e, "pending")
  /\ UNCHANGED <<tasks, queue, pc, handlers, logs, sent>>

\* The job is added to the queue of the event's type: Redis has it.  The
\* reply comes back, or it is lost: the awaited add rejects after it took
\* effect, or the process dies first.  Nothing reads svc[e] later, so which of
\* the two is settled here.
PushEventToQueue(e) ==
  /\ CanPush(e)
  /\ \E reply \in {"pushed", "lost"} : svc' = [svc EXCEPT ![e] = reply]
  /\ Add(FirstJob(e))
  /\ UNCHANGED <<event, tasks, attemptsMade, stalledCount, pc, handlers,
                 logs, sent>>

\* An awaited call rejects: the flush, before or after its commit, or the add
\* before Redis has the job.  The request answers 500.
Reject(e) ==
  /\ e \in NotifyEvents
  /\ svc[e] \in {"called", "flushed"}
  /\ svc' = [svc EXCEPT ![e] = "lost"]
  /\ UNCHANGED <<event, tasks, queue, pc, handlers, logs, sent>>

\* The API process dies, by itself or because the call that nobody awaits
\* rejected; every call that Redis has no job of yet is gone.
ApiCrash ==
  /\ \E e \in Events : svc[e] \in {"called", "flushed"}
  /\ svc' = [e \in Events |->
               IF svc[e] \in {"called", "flushed"} THEN "lost" ELSE svc[e]]
  /\ UNCHANGED <<event, tasks, queue, pc, handlers, logs, sent>>

(***************************************************************************)
(* BullMQ, external to the repository.  One worker process hosts both      *)
(* processors, each with concurrency 1.  A job waiting in Redis is taken   *)
(* in any order (retries come back with a delay).  An attempt that throws  *)
(* is retried until MAX_ATTEMPTS; the 'failed' event is emitted after each *)
(* of them, carrying the attempt's number, and its async listener runs     *)
(* beside whatever the worker does next.                                   *)
(***************************************************************************)
QueueOf(j) == IF j.kind = "create" THEN "task" ELSE "mail"

WorkerFree(q) == \A j \in Jobs : QueueOf(j) = q => pc[j] = "idle"

\* Found stalled too often: the job must not run again.
Doomed(j) == stalledCount[j] > MaxStalledCount

Take(j) ==
  /\ jobState[j] = "wait"
  /\ WorkerFree(QueueOf(j))
  /\ ~Doomed(j)
  /\ jobState' = [jobState EXCEPT ![j] = "active"]
  /\ pc' = [pc EXCEPT ![j] = "taken"]
  /\ UNCHANGED <<svc, event, tasks, attemptsMade, stalledCount, handlers,
                 logs, sent>>

Emit(j, n) == handlers' = handlers \cup {[job |-> j, attempt |-> n, pc |-> "start"]}

\* A doomed job is failed as soon as it is taken, whatever attempts it has
\* left, without calling process.
TakeDoomed(j) ==
  /\ jobState[j] = "wait"
  /\ WorkerFree(QueueOf(j))
  /\ Doomed(j)
  /\ jobState' = [jobState EXCEPT ![j] = "failed"]
  /\ attemptsMade' = [attemptsMade EXCEPT ![j] = @ + 1]
  /\ Emit(j, attemptsMade[j] + 1)
  /\ UNCHANGED <<svc, event, tasks, stalledCount, pc, logs, sent>>

\* Faulty variant: one attempt too many.
RetryableOnceMore(n) == n <= MAX_ATTEMPTS
Retryable(n) == n < MAX_ATTEMPTS

\* The attempt that is running throws.
Fail(j) ==
  /\ jobState' = [jobState EXCEPT
       ![j] = IF Retryable(attemptsMade[j] + 1) THEN "delayed" ELSE "failed"]
  /\ attemptsMade' = [attemptsMade EXCEPT ![j] = @ + 1]
  /\ pc' = [pc EXCEPT ![j] = "idle"]
  /\ Emit(j, attemptsMade[j] + 1)

\* Faulty variant: nothing promotes delayed jobs.
RetryUnscheduled(j) ==
  /\ jobState[j] = "delayed"
  /\ UNCHANGED vars

\* The backoff delay is over.
Retry(j) ==
  /\ jobState[j] = "delayed"
  /\ Add(j)
  /\ UNCHANGED <<svc, event, tasks, attemptsMade, stalledCount, pc, handlers,
                 logs, sent>>

\* The stalled checker finds an active job whose worker is gone.
RecoverStalled(j) ==
  /\ jobState[j] = "active"
  /\ pc[j] = "idle"
  /\ Add(j)
  /\ stalledCount' = [stalledCount EXCEPT ![j] = @ + 1]
  /\ UNCHANGED <<svc, event, tasks, attemptsMade, pc, handlers, logs, sent>>

\* process resolved: the job is completed.
Ack(j) ==
  /\ pc[j] = "finished"
  /\ jobState' = [jobState EXCEPT ![j] = "completed"]
  /\ pc' = [pc EXCEPT ![j] = "idle"]
  /\ UNCHANGED <<svc, event, tasks, attemptsMade, stalledCount, handlers,
                 logs, sent>>

\* The worker process dies, by itself or because an onFailed call rejected.
\* The jobs it was running stay active in Redis, its listeners are gone, and
\* it stays down: docker-compose.yml:51-70 gives the worker no restart policy.
WorkerCrash ==
  /\ worker = "up"
  /\ worker' = "down"
  /\ pc' = [j \in Jobs |-> "idle"]
  /\ handlers' = {}
  /\ UNCHANGED <<svc, event, tasks, queue, logs, sent>>

\* The operator starts the worker again.
RestartWorker ==
  /\ worker = "down"
  /\ worker' = "up"
  /\ UNCHANGED pipeline

(***************************************************************************)
(* TaskProcessor.process, one action per awaited call.                     *)
(***************************************************************************)
Goto(j, from, to) == pc[j] = from /\ pc' = [pc EXCEPT ![j] = to]

\* Faulty variant: the catch block logs and does not rethrow.
AttemptErrorSwallowed(j) ==
  /\ pc[j] \in {"marked", "inserted"}
  /\ pc' = [pc EXCEPT ![j] = "enqueued"]
  /\ UNCHANGED <<svc, event, tasks, queue, handlers, logs, sent>>

\* Any awaited call of an attempt may throw, before or after it took effect.
AttemptError(j) ==
  /\ pc[j] # "idle"
  /\ Fail(j)
  /\ UNCHANGED <<svc, event, tasks, stalledCount, logs, sent>>

StartTask(j) ==
  /\ Goto(j, "taken", "marked")
  /\ SetEvent(j.event, "processing")
  /\ UNCHANGED <<svc, tasks, queue, handlers, logs, sent>>

\* Faulty variant: a task row left by an earlier attempt is no conflict.
ClashesWithOther(e) == \E t \in tasks \ {e} : TitleOf[t] = TitleOf[e]

\* Faulty variant: only the primary key is unique.
ClashesById(e) == e \in tasks

\* The title, or for a retry the id too, is already in the task table.
Clashes(e) == \E t \in tasks : TitleOf[t] = TitleOf[e]

InsertTask(j) ==
  /\ Goto(j, "marked", "inserted")
  /\ ~Clashes(j.event)
  /\ tasks' = tasks \cup {j.event}
  /\ UNCHANGED <<svc, event, queue, handlers, logs, sent>>

\* Faulty variant: the insert is tried again in place, for ever.
InsertConflictRetried(j) ==
  /\ pc[j] = "marked"
  /\ Clashes(j.event)
  /\ UNCHANGED vars

InsertConflict(j) ==
  /\ pc[j] = "marked"
  /\ Clashes(j.event)
  /\ Fail(j)
  /\ UNCHANGED <<svc, event, tasks, stalledCount, logs, sent>>

\* Faulty variant: the mail is enqueued before the task is flushed.
CanNotifyEarly(j) == pc[j] \in {"marked", "inserted"}
CanNotify(j) == pc[j] = "inserted"

NotifyReporter(j) ==
  /\ CanNotify(j)
  /\ pc' = [pc EXCEPT ![j] = "enqueued"]
  /\ Add(SuccessJob(j.event))
  /\ UNCHANGED <<svc, event, tasks, attemptsMade, stalledCount, handlers,
                 logs, sent>>

CompleteTask(j) ==
  /\ Goto(j, "enqueued", "finished")
  /\ SetEvent(j.event, "completed")
  /\ UNCHANGED <<svc, tasks, queue, handlers, logs, sent>>

(***************************************************************************)
(* MailProcessor.process.                                                  *)
(***************************************************************************)
\* Faulty variant: a mail whose row is being processed was sent already.
StartMailOnce(j) ==
  /\ Goto(j, "taken", IF event[j.event] = "processing" THEN "sent" ELSE "marked")
  /\ SetEvent(j.event, "processing")
  /\ UNCHANGED <<svc, tasks, queue, handlers, logs, sent>>

StartMail(j) ==
  /\ Goto(j, "taken", "marked")
  /\ SetEvent(j.event, "processing")
  /\ UNCHANGED <<svc, tasks, queue, handlers, logs, sent>>

\* The transport, or the sender that only logs.
CopiesAfter(n, hostSet) == IF hostSet THEN n + 1 ELSE n

SendMail(j) ==
  /\ Goto(j, "marked", "sent")
  /\ sent' = [sent EXCEPT ![j] = CopiesAfter(@, MailHostSet)]
  /\ UNCHANGED <<svc, event, tasks, queue, handlers, logs>>

\* Faulty variant: the row is not marked after the mail is sent.
CompleteMailUnmarked(j) ==
  /\ Goto(j, "sent", "finished")
  /\ UNCHANGED <<svc, event, tasks, queue, handlers, logs, sent>>

\* Faulty variant: the write is not awaited.
CompleteMailUnawaited(j) ==
  \/ /\ Goto(j, "sent", "finished")
     /\ UNCHANGED <<svc, event, tasks, queue, handlers, logs, sent>>
  \/ /\ jobState[j] = "completed"
     /\ event[j.event] = "processing"
     /\ SetEvent(j.event, "completed")
     /\ UNCHANGED <<svc, tasks, queue, pc, handlers, logs, sent>>

CompleteMail(j) ==
  /\ Goto(j, "sent", "finished")
  /\ SetEvent(j.event, "completed")
  /\ UNCHANGED <<svc, tasks, queue, handlers, logs, sent>>

(***************************************************************************)
(* The onFailed listeners of the two processors.  A handler h holds the    *)
(* job and the number of the attempt that failed.                          *)
(***************************************************************************)
\* Faulty variant: the comparison is off by one.
IsFinalEarly(n) == n + 1 >= MAX_ATTEMPTS
IsFinal(n) == n >= MAX_ATTEMPTS

Advance(h, to) == handlers' = (handlers \ {h}) \cup {[h EXCEPT !.pc = to]}
Finish(h) == handlers' = handlers \ {h}

\* The failure log row is inserted; a retry is left, or the handler goes on.
LogFailure(h) ==
  /\ h.pc = "start"
  /\ logs' = logs \cup {<<h.job, h.attempt>>}
  /\ IF IsFinal(h.attempt) THEN Advance(h, "logged") ELSE Finish(h)
  /\ UNCHANGED <<svc, event, tasks, queue, pc, sent>>

LogTaskFailure(h) == h.job \in CreateJobs /\ LogFailure(h)
LogMailFailure(h) == h.job \in MailJobs /\ LogFailure(h)

FailTaskEvent(h) ==
  /\ h.job \in CreateJobs
  /\ h.pc = "logged"
  /\ SetEvent(h.job.event, "failed")
  /\ Advance(h, "marked")
  /\ UNCHANGED <<svc, tasks, queue, pc, logs, sent>>

NotifyTaskFailure(h) ==
  /\ h.pc = "marked"
  /\ Add(FailureJob(h.job.event))
  /\ Finish(h)
  /\ UNCHANGED <<svc, event, tasks, attemptsMade, stalledCount, pc, logs, sent>>

FailMailEvent(h) ==
  /\ h.job \in MailJobs
  /\ h.pc = "logged"
  /\ SetEvent(h.job.event, "failed")
  /\ Finish(h)
  /\ UNCHANGED <<svc, tasks, queue, pc, logs, sent>>

(***************************************************************************)
(* The whole system.                                                       *)
(***************************************************************************)
ApiStep ==
  /\ \E e \in Events : FlushEvent(e) \/ PushEventToQueue(e)
  /\ UNCHANGED worker

QueueStep == \E j \in Jobs :
  Take(j) \/ TakeDoomed(j) \/ Retry(j) \/ RecoverStalled(j) \/ Ack(j)

TaskStep == \E j \in CreateJobs :
  \/ StartTask(j)
  \/ InsertTask(j)
  \/ InsertConflict(j)
  \/ NotifyReporter(j)
  \/ CompleteTask(j)

MailStep == \E j \in MailJobs : StartMail(j) \/ SendMail(j) \/ CompleteMail(j)

HandlerStep == \E h \in handlers :
  \/ LogTaskFailure(h)
  \/ FailTaskEvent(h)
  \/ NotifyTaskFailure(h)
  \/ LogMailFailure(h)
  \/ FailMailEvent(h)

\* What the worker does by itself while it is up.
WorkerStep ==
  /\ worker = "up"
  /\ QueueStep \/ TaskStep \/ MailStep \/ HandlerStep
  /\ UNCHANGED worker

\* What the environment does to the two processes while they are up.
Disturbance ==
  /\ \/ \E e \in Events : Call(e) \/ Reject(e)
     \/ ApiCrash
     \/ worker = "up" /\ \E j \in Jobs : AttemptError(j)
  /\ UNCHANGED worker

PipelineStep == ApiStep \/ WorkerStep \/ Disturbance \/ WorkerCrash

Next == PipelineStep \/ RestartWorker

Spec == Init /\ [][Next]_vars

\* What nothing in the repository provides and the operator is assumed to: a
\* worker that went down is started again, and one that goes down again and
\* again is up long enough to take a step in between.
OperatorKeepsWorker == WF_vars(RestartWorker) /\ SF_vars(WorkerStep)

\* Node runs every ready continuation, BullMQ every due job of a worker that
\* is up; requests, errors and crashes need never happen.
FairSpec == Spec /\ WF_vars(ApiStep) /\ OperatorKeepsWorker

(***************************************************************************)
(* Type invariant.                                                         *)
(***************************************************************************)
\* The values the rows, the jobs and the two processes can hold; a job fails
\* at most MAX_ATTEMPTS times and is recovered at most once more than
\* MaxStalledCount.
TypeOK ==
  /\ svc \in [Events -> {"idle", "called", "flushed", "pushed", "lost"}]
  /\ event \in [Events -> EventStatus \cup {"absent"}]
  /\ tasks \subseteq CreateEvents
  /\ jobState \in [Jobs -> {"absent", "wait", "active", "delayed",
                             "completed", "failed"}]
  /\ attemptsMade \in [Jobs -> 0..MAX_ATTEMPTS]
  /\ stalledCount \in [Jobs -> 0..(MaxStalledCount + 1)]
  /\ pc \in [Jobs -> {"idle", "taken", "marked", "inserted", "enqueued",
                       "sent", "finished"}]
  /\ handlers \subseteq [job : Jobs, attempt : 1..MAX_ATTEMPTS,
                          pc : {"start", "logged", "marked"}]
  /\ logs \subseteq Jobs \X (1..MAX_ATTEMPTS)
  /\ sent \in [Jobs -> Nat]
  /\ worker \in {"up", "down"}

(***************************************************************************)
(* Safety.                                                                 *)
(***************************************************************************)
\* A request acts through its job only, and the job comes after its row.  A
\* call that is rejected or that dies with the API process, which nobody may
\* have awaited (create-task.command.ts:31), leaves the one or the other: the
\* job, and the request takes its course although its caller was told that it
\* failed, or no job, no task, no mail and a pending row at most.
ActsThroughItsJob ==
  \A e \in Events :
    /\ svc[e] = "pushed" => jobState[FirstJob(e)] # "absent"
    /\ jobState[FirstJob(e)] # "absent" => event[e] # "absent"
    /\ jobState[FirstJob(e)] = "absent" =>
         /\ event[e] \in {"absent", "pending"}
         /\ e \notin tasks
         /\ \A j \in JobsOf(e) : jobState[j] = "absent"

\* However often its job is retried, redelivered or run beside another one, a
\* request enqueues each of its mails once: a worker that is about to enqueue
\* the success mail (task.processor.ts:69), or a listener about to enqueue the
\* failure mail (150), is the first one to get there.
EachMailEnqueuedOnce ==
  /\ \A e \in CreateEvents :
       pc[CreateJob(e)] = "inserted" => jobState[SuccessJob(e)] = "absent"
  /\ \A h \in handlers :
       h.pc = "marked" => jobState[FailureJob(h.job.event)] = "absent"

\* Of two requests for one title, at most one is told that its task was
\* created (task.entity.ts:9-11 makes the second insert throw).
OneWinnerPerTitle ==
  \A e, f \in CreateEvents :
    /\ TitleOf[e] = TitleOf[f]
    /\ jobState[SuccessJob(e)] # "absent"
    /\ jobState[SuccessJob(f)] # "absent"
    => e = f

\* The failure mail is the outcome of a job that is over, whose every attempt
\* failed and whose last failure is on record (task.processor.ts:126-150).
FailureMailAfterLastAttempt ==
  \A e \in CreateEvents :
    jobState[FailureJob(e)] # "absent" =>
      /\ jobState[CreateJob(e)] = "failed"
      /\ attemptsMade[CreateJob(e)] = MAX_ATTEMPTS
      /\ <<CreateJob(e), MAX_ATTEMPTS>> \in logs

\* A create job that completed did all its work and none of its failure's:
\* the task exists, its success mail is under way, no failure mail is.
CompletedTaskJob ==
  \A e \in CreateEvents :
    jobState[CreateJob(e)] = "completed" =>
      /\ e \in tasks
      /\ jobState[SuccessJob(e)] # "absent"
      /\ jobState[FailureJob(e)] = "absent"

\* An event row says "failed" only if a job of it used up its attempts, and
\* the log shows the last one.
FailedEventCause ==
  \A e \in Events :
    event[e] = "failed" =>
      \E j \in JobsOf(e) :
        /\ jobState[j] = "failed"
        /\ attemptsMade[j] = MAX_ATTEMPTS
        /\ <<j, MAX_ATTEMPTS>> \in logs

\* An event row says "completed" only if the requester got something: the task
\* is there, or a mail that is not the success mail (the failure mail, the
\* mail of a task action) is out.
CompletedEventCause ==
  \A e \in Events :
    event[e] = "completed" =>
      \/ e \in tasks
      \/ \E j \in JobsOf(e) \ (CreateJobs \cup SuccessJobs) :
           /\ jobState[j] # "absent"
           /\ MailHostSet => sent[j] > 0

\* A final status on an event row has its cause in the rest of the system,
\* whichever of the processors and listeners wrote it last.
StatusHasCause == FailedEventCause /\ CompletedEventCause

\* Redelivery repeats a mail, within a bound: one copy per failed attempt
\* and one per recovery of a job whose worker died.
MailCopiesBounded ==
  \A j \in MailJobs : sent[j] <= MAX_ATTEMPTS + MaxStalledCount

\* A mail job that completed has sent its mail: "completed" on a notification
\* row means that the mail went out (mail.processor.ts:53-62), unless the
\* service runs without a MAIL_HOST.
CompletedMailWasSent ==
  MailHostSet => \A j \in MailJobs : jobState[j] = "completed" => sent[j] > 0

\* The failure log can be trusted (README.md:275), whichever task's rows
\* GET /event/:taskId/failure-logs picks from it: a row is an attempt that was
\* made, no attempt is logged twice, and the last attempt only for a job that
\* failed for good.
FailureLogsAreTrue ==
  /\ \A l \in logs :
       /\ l[2] <= attemptsMade[l[1]]
       /\ l[2] = MAX_ATTEMPTS => jobState[l[1]] = "failed"
  /\ \A h \in handlers : h.pc = "start" => <<h.job, h.attempt>> \notin logs

\* When every job of an event has completed, its row says so, although up to
\* two jobs write "processing" and "completed" to it with no order between
\* them.
CompletedJobsCompleteEvent ==
  \A e \in Events :
    (/\ jobState[FirstJob(e)] = "completed"
     /\ \A j \in JobsOf(e) : jobState[j] \in {"absent", "completed"})
      => event[e] = "completed"

\* The request is over: nothing is left in the API, in Redis or in the worker.
Settled(e) ==
  /\ svc[e] \in {"pushed", "lost"}
  /\ \A j \in JobsOf(e) : jobState[j] \in {"absent", "completed", "failed"}
  /\ \A h \in handlers : h.job.event # e

\* Once a request is over its row is final: no late write of a processor or a
\* listener reaches it.
SettledEventFrozen ==
  [][\A e \in Events : Settled(e) => event'[e] = event[e]]_vars

(***************************************************************************)
(* The queues keep the contract of JobQueue: whatever the attempts, the    *)
(* retries, the crashes and the recoveries do, a job is added once, handed *)
(* out at most MAX_ATTEMPTS + MaxStalledCount times, and never leaves      *)
(* "completed" or "failed" again.                                          *)
(***************************************************************************)
Contract(state) ==
  IF state \in {"wait", "delayed"} THEN "queued"
  ELSE IF state = "active" THEN "running" ELSE state

\* The delivery under way, or the one that succeeded, is in no counter.
TimesTaken(j) ==
  attemptsMade[j] + stalledCount[j]
    + (IF jobState[j] \in {"active", "completed"} THEN 1 ELSE 0)

Contracts == [j \in Jobs |-> Contract(jobState[j])]
Takings   == [j \in Jobs |-> TimesTaken(j)]

Queue == INSTANCE JobQueue WITH
  Jobs <- Jobs,
  Deliveries <- MAX_ATTEMPTS + MaxStalledCount,
  job <- Contracts,
  taken <- Takings

\* Both queues implement JobQueue.
ImplementsJobQueue == Queue!Spec

(***************************************************************************)
(* The create requests keep the contract of CreateRequests: however often  *)
(* a job is retried, redelivered or run beside another one for its title,  *)
(* a reporter is told only of a task that is there (task.processor.ts:67   *)
(* before 69), nothing is made or told after the failure mail, and one     *)
(* request of a title makes its task.  The mapping does not see how often  *)
(* a mail is enqueued: EachMailEnqueuedOnce counts.                        *)
(***************************************************************************)
Outcomes == INSTANCE CreateRequests WITH
  Requests <- CreateEvents,
  TitleOf <- TitleOf,
  created <- tasks,
  toldCreated <- {e \in CreateEvents : jobState[SuccessJob(e)] # "absent"},
  toldFailed <- {e \in CreateEvents : jobState[FailureJob(e)] # "absent"}

ImplementsCreateRequests == Outcomes!Spec

(***************************************************************************)
(* Progress.  Place says where a job is, Distance how many steps of its    *)
(* own are left there before it is over or has used up a delivery, Fuel    *)
(* how many are left in all.                                               *)
(***************************************************************************)
Place(j) == IF jobState[j] = "active" THEN pc[j] ELSE jobState[j]

Distance ==
  [delayed |-> 8, wait |-> 7, taken |-> 6, marked |-> 5, inserted |-> 4,
   enqueued |-> 3, sent |-> 3, finished |-> 2, idle |-> 1,
   completed |-> 0, failed |-> 0]

DeliveriesLeft(j) ==
  MAX_ATTEMPTS + MaxStalledCount + 1 - attemptsMade[j] - stalledCount[j]

Fuel(j) == 9 * DeliveriesLeft(j) + Distance[Place(j)]

JobView(j) == <<jobState[j], attemptsMade[j], stalledCount[j], pc[j]>>

\* Whatever happens to a job that was pushed - an attempt, an error, a retry,
\* a crash, a recovery, another request - takes it strictly nearer to its end:
\* no order of failures keeps it going for ever, and nothing pushes it anew.
JobsUseFuel ==
  [][\A j \in Jobs :
       jobState[j] # "absent" /\ JobView(j)' # JobView(j) =>
         Fuel(j)' \in 0..(Fuel(j) - 1)]_vars

(***************************************************************************)
(* Liveness.                                                               *)
(***************************************************************************)
\* Every job that is pushed is eventually completed or failed, whatever the
\* errors, the conflicts and the crashes of the worker, provided the operator
\* keeps it running.
JobSettles ==
  \A j \in Jobs :
    jobState[j] # "absent" ~> jobState[j] \in {"completed", "failed"}

(***************************************************************************)
(* What the repository says of the pipeline, and the code does not do.     *)
(***************************************************************************)
\* README.md:265 and 11: an event that ends as "completed" is a success, the
\* task is there.  (An event of CreateEvents that is over.)
CompletedMeansCreated ==
  \A e \in CreateEvents : Settled(e) /\ event[e] = "completed" => e \in tasks

\* The failure mail says "we cannot create the task" (task.processor.ts:159).
FailureMailMeansNoTask ==
  \A e \in CreateEvents : jobState[FailureJob(e)] # "absent" => e \notin tasks

=============================================================================
