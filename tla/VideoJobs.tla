----------------------------- MODULE VideoJobs -----------------------------
(***************************************************************************)
(* A video generation job from POST /videos/generate to its outcome: the   *)
(* API process that creates the row and enqueues the task, the Celery      *)
(* broker and workers (not under src/: modelled from the configuration in  *)
(* workers/celery_app.py), the task and its LangGraph pipeline, the        *)
(* central failure handler with its dead-letter queue, and the SSE streams *)
(* that poll the row.  Every repository call is one transaction, hence one *)
(* step; between two calls any other process may run.                      *)
(***************************************************************************)
EXTENDS Naturals, FiniteSets

CONSTANTS Jobs,             \* jobs that clients submit
          Workers,          \* Celery worker processes (one child each: --concurrency=1)
          Streams,          \* SSE connections
          None,             \* no job, no stage: a NULL column
          MaxAttempts,      \* RetryPolicy.max_attempts of the retried nodes
          MaxRedeliveries   \* bound: how often the broker redelivers one job

ASSUME ConstantsAssumption ==
    /\ MaxAttempts \in Nat \ {0}
    /\ MaxRedeliveries \in Nat
    /\ None \notin Jobs

VARIABLES api,          \* progress of the POST request that submits the job
          row,          \* the job's row in Postgres
          queue,        \* copies of the job's task message waiting in the broker
          run,          \* the task execution in each worker's child process
          dlq,          \* entries of the job in the Redis dead-letter list
          stream,       \* the SSE generators of the API process
          renders,      \* history: how often the avatar node has run for the job
          redelivered,  \* history: how often the broker took the message back
          orphaned      \* history: an execution ended without recording an outcome

vars == <<api, row, queue, run, dlq, stream, renders, redelivered, orphaned>>

-----------------------------------------------------------------------------
(* Data *)

Produced == {"script", "tts", "avatar"}  \* the stages that produce an artefact
Stages == Produced \union {"store"}
Terminal == {"completed", "failed"}
Status == {"absent", "queued", "running"} \union Terminal

Rows == [status : Status,
         stage : Stages \union {None, "unknown"},
         outputs : SUBSET Produced,   \* script, audio and video columns
         error : BOOLEAN]             \* error_type is set

\* pc names the call the execution makes next; "have" is the pipeline state;
\* "recorded" says whether this execution has committed an outcome; "held"
\* whether the broker still counts its delivery as this worker's.
Pcs == {"idle", "mark", "load", "enter", "work", "report", "fail", "dlq", "ack"}
Runs == [job : Jobs \union {None}, pc : Pcs, stage : Stages, attempt : 1 .. MaxAttempts,
         have : SUBSET Produced, recorded : BOOLEAN, held : BOOLEAN]
Idle == [job |-> None, pc |-> "idle", stage |-> "script", attempt |-> 1,
         have |-> {}, recorded |-> FALSE, held |-> FALSE]

Active(w) == run[w].pc # "idle"
InWork(j) == {w \in Workers : run[w].job = j}

\* The job row as the outside sees it when nobody works on it any more.
AtRest(j) == api[j] = "accepted" /\ queue[j] = 0 /\ InWork(j) = {}
Settled(j) == row[j].status \in Terminal

-----------------------------------------------------------------------------
(* The pipeline graph *)

\* Faulty form: the tts -> avatar edge is missing.
NextStageNoAvatar(s) == IF s = "script" THEN "tts" ELSE "store"

NextStage(s) == CASE s = "script" -> "tts"
                  [] s = "tts" -> "avatar"
                  [] s = "avatar" -> "store"

Retried == {"tts", "avatar"}

-----------------------------------------------------------------------------
Init ==
    /\ api = [j \in Jobs |-> "none"]
    /\ row = [j \in Jobs |-> [status |-> "absent", stage |-> None,
                              outputs |-> {}, error |-> FALSE]]
    /\ queue = [j \in Jobs |-> 0]
    /\ run = [w \in Workers |-> Idle]
    /\ dlq = [j \in Jobs |-> 0]
    /\ stream = [s \in Streams |-> [job |-> None, phase |-> "idle", last |-> "absent"]]
    /\ renders = [j \in Jobs |-> 0]
    /\ redelivered = [j \in Jobs |-> 0]
    /\ orphaned = [j \in Jobs |-> FALSE]

-----------------------------------------------------------------------------
(* The API process: submit_video_job, _create_and_enqueue *)

\* Validation, engine resolution and the image upload precede the row; a
\* request that fails there leaves no trace in this state.
CreateJob(j) ==
    /\ api[j] = "none"
    /\ api' = [api EXCEPT ![j] = "created"]
    /\ row' = [row EXCEPT ![j].status = "queued"]
    /\ UNCHANGED <<queue, run, dlq, stream, renders, redelivered, orphaned>>

\* Faulty form: a publish that timed out is repeated although it had arrived.
EnqueueTwice(j) ==
    /\ api[j] = "created"
    /\ api' = [api EXCEPT ![j] = "accepted"]
    /\ queue' = [queue EXCEPT ![j] = @ + 2]
    /\ UNCHANGED <<row, run, dlq, stream, renders, redelivered, orphaned>>

\* The message reaches the broker, whether .delay then returns or raises: the
\* client that is told of an error has a job all the same.
EnqueueJob(j) ==
    /\ api[j] = "created"
    /\ api' = [api EXCEPT ![j] = "accepted"]
    /\ queue' = [queue EXCEPT ![j] = @ + 1]
    /\ UNCHANGED <<row, run, dlq, stream, renders, redelivered, orphaned>>

\* .delay raises before the message reaches the broker (broker down), or the
\* API process dies: the row stays queued.
EnqueueFails(j) ==
    /\ api[j] = "created"
    /\ api' = [api EXCEPT ![j] = "refused"]
    /\ orphaned' = [orphaned EXCEPT ![j] = TRUE]
    /\ UNCHANGED <<row, queue, run, dlq, stream, renders, redelivered>>

-----------------------------------------------------------------------------
(* The broker and the worker *)

Deliver(w, j) ==
    /\ ~Active(w)
    /\ queue[j] > 0
    /\ queue' = [queue EXCEPT ![j] = @ - 1]
    /\ run' = [run EXCEPT ![w] = [Idle EXCEPT !.job = j, !.pc = "mark", !.held = TRUE]]
    /\ UNCHANGED <<api, row, dlq, stream, renders, redelivered, orphaned>>

\* The child process has nothing left to do with the message.  task_acks_late
\* acknowledges it now, after success and after an exception alike
\* (acks_on_failure_or_timeout).
Leave(w) == run' = [run EXCEPT ![w] = Idle]

\* The execution ends and nothing will start it again.
CutShort(w) ==
    /\ Leave(w)
    /\ orphaned' = [orphaned EXCEPT ![run[w].job] = @ \/ ~run[w].recorded]

\* The broker puts the message back.
Redeliver(j) ==
    /\ redelivered[j] < MaxRedeliveries
    /\ redelivered' = [redelivered EXCEPT ![j] = @ + 1]
    /\ queue' = [queue EXCEPT ![j] = @ + 1]

\* The connection to the broker is lost, or the visibility timeout expires:
\* the message is redelivered while the child keeps running.
BrokerLost(w) ==
    /\ Active(w)
    /\ run[w].held
    /\ Redeliver(run[w].job)
    /\ run' = [run EXCEPT ![w].held = FALSE]
    /\ UNCHANGED <<api, row, dlq, stream, renders, orphaned>>

\* Faulty form: task_acks_late = False, the message was acknowledged on receipt.
WorkerCrashAckedEarly(w) ==
    /\ Active(w)
    /\ Leave(w)
    /\ UNCHANGED <<api, row, queue, dlq, stream, renders, redelivered, orphaned>>

\* The worker dies with its child.  A delivery it held was not acknowledged.
WorkerCrash(w) ==
    /\ Active(w)
    /\ IF run[w].held
       THEN Redeliver(run[w].job) /\ Leave(w) /\ UNCHANGED orphaned
       ELSE CutShort(w) /\ UNCHANGED <<queue, redelivered>>
    /\ UNCHANGED <<api, row, dlq, stream, renders>>

\* Faulty form: task_reject_on_worker_lost = True, the message is requeued.
ChildLostRequeued(w) ==
    /\ Active(w)
    /\ Leave(w)
    /\ queue' = [queue EXCEPT ![run[w].job] = @ + 1]
    /\ UNCHANGED <<api, row, dlq, stream, renders, redelivered, orphaned>>

\* The child is lost (out of memory, killed): task_reject_on_worker_lost is
\* False, so the parent acknowledges the message.
ChildLost(w) ==
    /\ Active(w)
    /\ CutShort(w)
    /\ UNCHANGED <<api, row, queue, dlq, stream, renders, redelivered>>

\* task_soft_time_limit: SoftTimeLimitExceeded is raised in the child's main
\* thread.  If pipeline code is running, run_pipeline's handler catches it like
\* any other Exception; if the event loop is waiting, it leaves asyncio.run,
\* which cancels the coroutine, and CancelledError passes the handler by.
SoftLimit(w) ==
    /\ Active(w)
    /\ \/ /\ run[w].pc \in {"enter", "work", "report"}
          /\ run' = [run EXCEPT ![w].pc = "fail"]
          /\ UNCHANGED orphaned
       \/ CutShort(w)
    /\ UNCHANGED <<api, row, queue, dlq, stream, renders, redelivered>>

\* task_time_limit: the parent kills the child and acknowledges the message.
HardLimit(w) ==
    /\ Active(w)
    /\ CutShort(w)
    /\ UNCHANGED <<api, row, queue, dlq, stream, renders, redelivered>>

-----------------------------------------------------------------------------
(* The task: generate_video_task and run_pipeline *)

Goto(w, pc) == run' = [run EXCEPT ![w].pc = pc]

\* Faulty form: the update of the row is forgotten.
MarkRunningForgotten(w) ==
    /\ run[w].pc = "mark"
    /\ Goto(w, "load")
    /\ UNCHANGED <<api, row, queue, dlq, stream, renders, redelivered, orphaned>>

\* JobRepository selects the row, assigns to it and commits, as do the other
\* writes of a row.  That is one step: a column that changed takes effect at
\* the commit; one that did not is not written, and the call might as well
\* have taken place when it selected.
\* mark_running looks at no status: it is the same for a first delivery and
\* for a redelivered message whose job already has an outcome.
MarkRunning(w) ==
    /\ run[w].pc = "mark"
    /\ row' = [row EXCEPT ![run[w].job].status = "running"]
    /\ Goto(w, "load")
    /\ UNCHANGED <<api, queue, dlq, stream, renders, redelivered, orphaned>>

LoadJob(w) ==
    /\ run[w].pc = "load"
    /\ Goto(w, "enter")
    /\ UNCHANGED <<api, row, queue, dlq, stream, renders, redelivered, orphaned>>

\* mark_running or repo.get raises: neither is inside run_pipeline's try.
StartFails(w) ==
    /\ run[w].pc \in {"mark", "load"}
    /\ CutShort(w)
    /\ UNCHANGED <<api, row, queue, dlq, stream, renders, redelivered>>

\* Each node but notify begins with set_stage.
EnterNode(w) ==
    LET j == run[w].job  s == run[w].stage IN
    /\ run[w].pc = "enter"
    /\ row' = [row EXCEPT ![j].stage = s]
    /\ renders' = [renders EXCEPT ![j] = IF s = "avatar" THEN @ + 1 ELSE @]
    /\ Goto(w, "work")
    /\ UNCHANGED <<api, queue, dlq, stream, redelivered, orphaned>>

\* script, tts or avatar returns what it produced, merged into the state.
NodeSucceeds(w) ==
    LET s == run[w].stage IN
    /\ run[w].pc = "work"
    /\ s \in Produced
    /\ run' = [run EXCEPT ![w].have = @ \union {s}, ![w].stage = NextStage(s),
                          ![w].attempt = 1, ![w].pc = "enter"]
    /\ UNCHANGED <<api, row, queue, dlq, stream, renders, redelivered, orphaned>>

\* The store node commits the outcome and every output in one transaction.
Complete(w) ==
    LET j == run[w].job IN
    /\ run[w].pc = "work"
    /\ run[w].stage = "store"
    /\ row' = [row EXCEPT ![j].status = "completed", ![j].stage = None,
                          ![j].outputs = run[w].have]
    /\ run' = [run EXCEPT ![w].pc = "report", ![w].recorded = TRUE]
    /\ UNCHANGED <<api, queue, dlq, stream, renders, redelivered, orphaned>>

\* Faulty form: max_attempts counts the retries, not the attempts.
NodeRaisesOneMore(w, transient) ==
    /\ run[w].pc \in {"enter", "work"}
    /\ IF transient /\ run[w].stage \in Retried /\ run[w].attempt <= MaxAttempts
       THEN run' = [run EXCEPT ![w].attempt = @ + 1, ![w].pc = "enter"]
       ELSE Goto(w, "fail")
    /\ UNCHANGED <<api, row, queue, dlq, stream, renders, redelivered, orphaned>>

\* Faulty form: the retry policy has no limit.
NodeRaisesForever(w, transient) ==
    /\ run[w].pc \in {"enter", "work"}
    /\ IF transient /\ run[w].stage \in Retried
       THEN Goto(w, "enter")
       ELSE Goto(w, "fail")
    /\ UNCHANGED <<api, row, queue, dlq, stream, renders, redelivered, orphaned>>

\* A node raises, in set_stage or in its own work.  The RetryPolicy re-runs the
\* whole node after a transient fault; everything else reaches the handler.
NodeRaises(w, transient) ==
    /\ run[w].pc \in {"enter", "work"}
    /\ IF transient /\ run[w].stage \in Retried /\ run[w].attempt < MaxAttempts
       THEN run' = [run EXCEPT ![w].attempt = @ + 1, ![w].pc = "enter"]
       ELSE Goto(w, "fail")
    /\ UNCHANGED <<api, row, queue, dlq, stream, renders, redelivered, orphaned>>

\* notify and the MLflow record: both swallow their own failures.
Report(w) ==
    /\ run[w].pc = "report"
    /\ Goto(w, "ack")
    /\ UNCHANGED <<api, row, queue, dlq, stream, renders, redelivered, orphaned>>

\* The central handler reads the row for the stage to blame and records the
\* failure; it looks at no status either, and clears no output.
RecordFailure(w) ==
    LET j == run[w].job IN
    /\ run[w].pc = "fail"
    /\ row' = [row EXCEPT ![j].status = "failed", ![j].error = TRUE,
                          ![j].stage = IF @ = None THEN "unknown" ELSE @]
    /\ run' = [run EXCEPT ![w].pc = "dlq", ![w].recorded = TRUE]
    /\ UNCHANGED <<api, queue, dlq, stream, renders, redelivered, orphaned>>

\* Faulty form: the handler swallows the failure of repo.fail and goes on.
RecordFailsSwallowed(w) ==
    /\ run[w].pc = "fail"
    /\ Goto(w, "dlq")
    /\ UNCHANGED <<api, row, queue, dlq, stream, renders, redelivered, orphaned>>

\* The handler's own repo.get or repo.fail raises: no record, no dead letter.
RecordFails(w) ==
    /\ run[w].pc = "fail"
    /\ CutShort(w)
    /\ UNCHANGED <<api, row, queue, dlq, stream, renders, redelivered>>

\* push_dead_letter is best effort.
PushDeadLetter(w) ==
    /\ run[w].pc = "dlq"
    /\ \/ dlq' = [dlq EXCEPT ![run[w].job] = @ + 1]
       \/ UNCHANGED dlq
    /\ Goto(w, "ack")
    /\ UNCHANGED <<api, row, queue, stream, renders, redelivered, orphaned>>

Acknowledge(w) ==
    /\ run[w].pc = "ack"
    /\ Leave(w)
    /\ UNCHANGED <<api, row, queue, dlq, stream, renders, redelivered, orphaned>>

-----------------------------------------------------------------------------
(* The SSE stream: job_events *)

OpenStream(s, j) ==
    /\ stream[s].phase = "idle"
    /\ row[j].status # "absent"
    /\ stream' = [stream EXCEPT ![s] = [job |-> j, phase |-> "open", last |-> "absent"]]
    /\ UNCHANGED <<api, row, queue, run, dlq, renders, redelivered, orphaned>>

\* Faulty form: the loop tests for a terminal status before it emits the row.
PollReturnsFirst(s) ==
    LET status == row[stream[s].job].status IN
    /\ stream[s].phase = "open"
    /\ stream' = IF status \in Terminal
                 THEN [stream EXCEPT ![s].phase = "closed"]
                 ELSE [stream EXCEPT ![s].last = status]
    /\ UNCHANGED <<api, row, queue, run, dlq, renders, redelivered, orphaned>>

\* Faulty form: only a completed job ends the loop.
PollUntilCompleted(s) ==
    LET status == row[stream[s].job].status IN
    /\ stream[s].phase = "open"
    /\ stream' = [stream EXCEPT
                     ![s].last = status,
                     ![s].phase = IF status = "completed" THEN "closed" ELSE "open"]
    /\ UNCHANGED <<api, row, queue, run, dlq, renders, redelivered, orphaned>>

\* One turn of the loop: read the row, emit it if status or stage changed,
\* return on a terminal status, else sleep.  "last" is the status emitted last.
Poll(s) ==
    LET status == row[stream[s].job].status IN
    /\ stream[s].phase = "open"
    /\ stream' = [stream EXCEPT
                     ![s].last = status,
                     ![s].phase = IF status \in Terminal THEN "closed" ELSE "open"]
    /\ UNCHANGED <<api, row, queue, run, dlq, renders, redelivered, orphaned>>

\* The client goes away, or the generator's read of the row raises.
DropStream(s) ==
    /\ stream[s].phase = "open"
    /\ stream' = [stream EXCEPT ![s].phase = "dropped"]
    /\ UNCHANGED <<api, row, queue, run, dlq, renders, redelivered, orphaned>>

-----------------------------------------------------------------------------
\* What a task execution does by itself; exactly one alternative of it is
\* enabled at each pc but for the choice of a call's result.
RunStep(w) ==
    \/ MarkRunning(w) \/ LoadJob(w) \/ StartFails(w)
    \/ EnterNode(w) \/ NodeSucceeds(w) \/ Complete(w)
    \/ \E transient \in BOOLEAN : NodeRaises(w, transient)
    \/ Report(w) \/ RecordFailure(w) \/ RecordFails(w)
    \/ PushDeadLetter(w) \/ Acknowledge(w)

Fault(w) ==
    BrokerLost(w) \/ WorkerCrash(w) \/ ChildLost(w) \/ SoftLimit(w) \/ HardLimit(w)

Next ==
    \/ \E j \in Jobs : CreateJob(j) \/ EnqueueJob(j) \/ EnqueueFails(j)
    \/ \E w \in Workers, j \in Jobs : Deliver(w, j)
    \/ \E w \in Workers : Fault(w) \/ RunStep(w)
    \/ \E s \in Streams, j \in Jobs : OpenStream(s, j)
    \/ \E s \in Streams : Poll(s) \/ DropStream(s)

Spec == Init /\ [][Next]_vars

\* The request handler finishes, an idle worker takes a waiting message, every
\* call of an execution returns (all clients have timeouts), the loop polls on.
Fairness ==
    /\ \A j \in Jobs : WF_vars(EnqueueJob(j) \/ EnqueueFails(j))
    /\ \A j \in Jobs : WF_vars(\E w \in Workers : Deliver(w, j))
    /\ \A w \in Workers : WF_vars(RunStep(w))
    /\ \A s \in Streams : WF_vars(Poll(s))

FairSpec == Spec /\ Fairness

-----------------------------------------------------------------------------
(* Properties *)

\* Every variable keeps its shape.
TypeOK ==
    /\ api \in [Jobs -> {"none", "created", "accepted", "refused"}]
    /\ row \in [Jobs -> Rows]
    /\ queue \in [Jobs -> Nat]
    /\ run \in [Workers -> Runs]
    /\ dlq \in [Jobs -> Nat]
    /\ stream \in [Streams -> [job : Jobs \union {None},
                               phase : {"idle", "open", "closed", "dropped"},
                               last : Status]]
    /\ renders \in [Jobs -> Nat]
    /\ redelivered \in [Jobs -> Nat]
    /\ orphaned \in [Jobs -> BOOLEAN]

\* A completed job has its script, its audio and its video, and no job has only
\* some of them, however executions overlap (store_node, JobRepository.complete).
CompletedHasOutputs ==
    \A j \in Jobs :
        /\ row[j].outputs \in {{}, Produced}
        /\ row[j].status = "completed" => row[j].outputs = Produced

\* An accepted job that is neither waiting in the broker nor being executed has
\* an outcome, unless an execution of it was cut short: no exception a node can
\* raise, and no redelivery, slips past the central handler.
AcceptedJobSettles ==
    \A j \in Jobs : AtRest(j) /\ ~orphaned[j] => Settled(j)

\* A job that was never redelivered has a video and is failed all the same: the
\* soft limit struck after the store node had committed.
LateFailure(j) == row[j].status = "failed" /\ row[j].outputs = Produced

\* What an SSE stream showed last before it closed is the outcome of the job,
\* for every job that was delivered once.
StreamReportsOutcome ==
    \A s \in Streams : stream[s].phase = "closed" =>
        LET j == stream[s].job IN
        /\ stream[s].last \in Terminal
        /\ redelivered[j] = 0 => stream[s].last = row[j].status \/ LateFailure(j)

\* A dead letter stands for a recorded failure; a job delivered once has at
\* most one, and is failed.
DeadLettersAreFailures ==
    \A j \in Jobs : dlq[j] > 0 =>
        /\ row[j].error
        /\ redelivered[j] = 0 => dlq[j] = 1 /\ row[j].status = "failed"

\* A delivery pays for at most MaxAttempts renders, and only the broker taking
\* the message back pays for more: losing the child never resubmits the render.
RenderBudget ==
    \A j \in Jobs : renders[j] <= MaxAttempts * (1 + redelivered[j])

\* Once a job that was delivered once has an outcome, it keeps it.
OutcomeIsFinal ==
    [][\A j \in Jobs :
          Settled(j) /\ redelivered'[j] = 0
             => row'[j].status = row[j].status \/ LateFailure(j)']_vars

\* Every accepted job comes to rest with an outcome for good, or was cut short,
\* once the broker stops redelivering it.
AcceptedJobRests ==
    \A j \in Jobs : api[j] = "accepted" ~> [](Settled(j) \/ orphaned[j])

\* Every SSE stream ends, unless its job was cut short.
StreamEnds ==
    \A s \in Streams :
        stream[s].phase = "open"
            ~> stream[s].phase # "open" \/ orphaned[stream[s].job]

\* The pipeline implements the life cycle the job table promises.
Opened(j) == {w \in InWork(j) : run[w].pc # "mark"}
Awaited(j) == queue[j] > 0 \/ \E w \in InWork(j) : run[w].pc = "mark"
Lifecycle == INSTANCE JobLifecycle WITH
    Executors <- Workers,
    status <- [j \in Jobs |-> row[j].status],
    due <- {j \in Jobs : Awaited(j)},
    open <- [j \in Jobs |-> Opened(j)],
    settled <- [j \in Jobs |-> {w \in Opened(j) : run[w].recorded}],
    abandoned <- orphaned
ImplementsLifecycle == Lifecycle!Spec

\* models/job.py: "Status lifecycle: queued -> running -> completed | failed".
TerminalIsFinal ==
    [][\A j \in Jobs : Settled(j) => row'[j].status = row[j].status]_vars

\* workers/celery_app.py: "Reject-on-lost marks it failed instead, so the
\* pipeline's own failure path + DLQ handle a retry deliberately": no job that
\* nobody works on any more still says that it is running.
LostJobIsNotRunning ==
    \A j \in Jobs : AtRest(j) => row[j].status # "running"
=============================================================================
