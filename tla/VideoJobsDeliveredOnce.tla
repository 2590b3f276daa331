---------------------- MODULE VideoJobsDeliveredOnce ----------------------
(***************************************************************************)
(* Theorems about a job whose message was never redelivered, for any       *)
(* instance: what is recorded of it is final, but for the soft limit that  *)
(* strikes after the outcome was committed, and its dead letters and its   *)
(* streams agree with its row.                                             *)
(***************************************************************************)
EXTENDS VideoJobsProofs

\* An execution works on the job.
On(v, j) == Active(v) /\ run[v].job = j

\* The job's message has not been published.
Unpublished(j) ==
    /\ queue[j] = 0
    /\ dlq[j] = 0
    /\ \A v \in Workers : ~On(v, j)
    /\ row[j].status = IF api[j] = "none" THEN "absent" ELSE "queued"

\* What the row and the dead-letter list say at each point of the one execution.
Expected(v, j) ==
    /\ run[v].pc = "mark" => row[j].status = "queued"
    /\ run[v].pc \in {"load", "enter", "work"} => row[j].status = "running" /\ ~run[v].recorded
    /\ run[v].pc = "fail" => IF run[v].recorded
                             THEN row[j].status = "completed" /\ row[j].outputs = Produced
                             ELSE row[j].status = "running"
    /\ run[v].pc = "report" => row[j].status = "completed" /\ row[j].outputs = Produced
    /\ run[v].pc = "dlq" => row[j].status = "failed"
    /\ run[v].pc = "ack" => Settled(j)
    /\ run[v].pc # "ack" => dlq[j] = 0

\* The message waits or one execution works on it, never both.
Once(j) ==
    /\ queue[j] \in {0, 1}
    /\ queue[j] = 1 => /\ row[j].status = "queued"
                       /\ dlq[j] = 0
                       /\ \A v \in Workers : ~On(v, j)
    /\ \A v \in Workers : On(v, j) => /\ Expected(v, j)
                                      /\ \A u \in Workers : On(u, j) => u = v
    /\ dlq[j] \in {0, 1}
    /\ dlq[j] = 1 => row[j].status = "failed"

\* The error columns are set before a dead letter is pushed.
Blamed(j) ==
    /\ dlq[j] > 0 => row[j].error
    /\ \A v \in Workers : On(v, j) /\ run[v].pc = "dlq" => row[j].error

Sound(j) ==
    /\ api[j] # "accepted" => Unpublished(j)
    /\ redelivered[j] = 0 => Once(j)
    /\ Blamed(j)

\* The inductive strengthening of OutcomeIsFinal and DeadLettersAreFailures.
Delivery == \A j \in Jobs : Sound(j)

\* Streams add what they showed last.
Showed(s, j) ==
    /\ stream[s].last \in Terminal
    /\ redelivered[j] = 0 => Settled(j) /\ (stream[s].last = row[j].status \/ LateFailure(j))

Shown ==
    \A s \in Streams, j \in Jobs :
        stream[s].phase = "closed" /\ stream[s].job = j => Showed(s, j)

-----------------------------------------------------------------------------
LEMMA DeliveryInit == Init => Delivery
  BY DEF Init, Delivery, Sound, Unpublished, Once, Blamed, On, Active, Idle

\* A step that leaves a job's columns and counters alone, and of its executions
\* changes none but ends some, leaves it sound.
LEMMA ElsewhereSound ==
  ASSUME NEW j \in Jobs, Sound(j),
         api'[j] = api[j], row'[j] = row[j], queue'[j] = queue[j], dlq'[j] = dlq[j],
         redelivered'[j] = redelivered[j],
         \A v \in Workers : On(v, j)' => On(v, j) /\ run'[v] = run[v]
  PROVE  Sound(j)'
<1>1. Unpublished(j) => Unpublished(j)'
  BY DEF Unpublished
<1>2. ASSUME NEW v \in Workers, run'[v] = run[v], Expected(v, j)  PROVE Expected(v, j)'
  BY <1>2 DEF Expected, Settled
<1>3. Once(j) => Once(j)'
  BY <1>2 DEF Once
<1>4. Blamed(j) => Blamed(j)'
  BY DEF Blamed
<1> QED
  BY <1>1, <1>3, <1>4 DEF Sound

\* Replacing an execution by one that does not work on the job.
LEMMA ElsewhereOn ==
  ASSUME Shape, NEW w \in Workers, NEW r, run' = [run EXCEPT ![w] = r],
         NEW j, r.pc = "idle" \/ r.job # j,
         NEW v \in Workers, On(v, j)'
  PROVE  On(v, j) /\ run'[v] = run[v]
  BY DEF On, Active, Shape, TypeOK

\* An execution ends and takes nothing with it.
LEMMA LeaveSound ==
  ASSUME Shape, Delivery, NEW w \in Workers, Leave(w),
         UNCHANGED <<api, row, queue, dlq, redelivered>>
  PROVE  Delivery'
<1>1. Idle.pc = "idle" /\ run' = [run EXCEPT ![w] = Idle]
  BY DEF Idle, Leave
<1>2. ASSUME NEW j \in Jobs  PROVE Sound(j)'
  <2>1. \A v \in Workers : On(v, j)' => On(v, j) /\ run'[v] = run[v]
    BY <1>1, ElsewhereOn
  <2>2. Sound(j)
    BY DEF Delivery
  <2> QED
    BY <2>1, <2>2, ElsewhereSound
<1> QED
  BY <1>2 DEF Delivery

\* An execution goes on: its job is sound again if what is expected of it holds.
LEMMA OwnSound ==
  ASSUME Shape, NEW w \in Workers, Active(w),
         NEW r, r.job = run[w].job, r.pc # "idle", run' = [run EXCEPT ![w] = r],
         NEW j \in Jobs, j = run[w].job, Sound(j),
         api'[j] = api[j], queue'[j] = queue[j], redelivered'[j] = redelivered[j],
         redelivered[j] = 0 => /\ Expected(w, j)'
                               /\ dlq'[j] \in {0, 1}
                               /\ dlq'[j] = 1 => row'[j].status = "failed",
         row[j].error => row'[j].error,
         dlq'[j] > 0 \/ r.pc = "dlq" => row'[j].error
  PROVE  Sound(j)'
<1>1. On(w, j) /\ run'[w] = r
  BY DEF On, Shape, TypeOK
<1>2. \A v \in Workers \ {w} : run'[v] = run[v] /\ (On(v, j)' <=> On(v, j))
  BY DEF On, Active, Shape, TypeOK
<1>3. api'[j] = "accepted"
  BY <1>1 DEF Sound, Unpublished
<1>4. ASSUME redelivered[j] = 0  PROVE Once(j)'
  <2>1. Once(j) /\ queue[j] # 1
    BY <1>1, <1>4 DEF Sound, Once
  <2>2. \A v \in Workers : On(v, j) => v = w
    BY <1>1, <2>1 DEF Once
  <2>3. \A v \in Workers : On(v, j)' => v = w
    BY <1>2, <2>2
  <2> QED
    BY <1>4, <2>1, <2>3 DEF Once
<1>5. Blamed(j)'
  BY <1>1, <1>2 DEF Blamed, Sound, On
<1> QED
  BY <1>3, <1>4, <1>5 DEF Sound

\* One execution goes on and only its own job's row and dead letters change.
LEMMA MovedSound ==
  ASSUME Shape, Delivery, NEW w \in Workers, Active(w),
         NEW r, r.job = run[w].job, r.pc # "idle", run' = [run EXCEPT ![w] = r],
         UNCHANGED <<api, queue, redelivered>>,
         NEW j, j = run[w].job, Sound(j)',
         \A k \in Jobs \ {j} : row'[k] = row[k] /\ dlq'[k] = dlq[k]
  PROVE  Delivery'
<1>1. ASSUME NEW k \in Jobs, k # j  PROVE Sound(k)'
  <2>1. r.job # k
    BY <1>1
  <2>2. \A v \in Workers : On(v, k)' => On(v, k) /\ run'[v] = run[v]
    BY <2>1 DEF On, Active, Shape, TypeOK
  <2>3. Sound(k)
    BY DEF Delivery
  <2> QED
    BY <1>1, <2>2, <2>3, ElsewhereSound
<1> QED
  BY <1>1 DEF Delivery

\* The step of one execution whose job is as expected of it afterwards.
LEMMA StepSound ==
  ASSUME Shape, Delivery, NEW w \in Workers, Active(w),
         NEW r, r.job = run[w].job, r.pc # "idle", run' = [run EXCEPT ![w] = r],
         UNCHANGED <<api, queue, redelivered>>,
         \A k \in Jobs \ {run[w].job} : row'[k] = row[k] /\ dlq'[k] = dlq[k],
         NEW j, j = run[w].job,
         redelivered[j] = 0 /\ Expected(w, j) =>
             /\ Expected(w, j)'
             /\ dlq'[j] \in {0, 1}
             /\ dlq'[j] = 1 => row'[j].status = "failed",
         row[j].error => row'[j].error,
         dlq'[j] > 0 \/ r.pc = "dlq" => row'[j].error
  PROVE  Delivery'
<1>1. j \in Jobs /\ Sound(j) /\ On(w, j)
  BY DEF Shape, Assigned, Delivery, On
<1>2. redelivered[j] = 0 => Expected(w, j)
  BY <1>1 DEF Sound, Once
<1>3. Sound(j)'
  BY <1>1, <1>2, OwnSound
<1> QED
  BY <1>3, MovedSound

\* Only pc changes, and the row and the dead letters stay.
LEMMA GotoSound ==
  ASSUME Shape, Delivery, NEW w \in Workers, Active(w),
         NEW p \in Pcs, p # "idle", p # "dlq", Goto(w, p),
         UNCHANGED <<api, row, queue, dlq, redelivered>>,
         NEW j, j = run[w].job,
         redelivered[j] = 0 /\ Expected(w, j) => Expected(w, j)'
  PROVE  Delivery'
<1> DEFINE r == [run[w] EXCEPT !.pc = p]
<1>1. run[w] \in Runs
  BY DEF Shape, TypeOK
<1>2. r.job = run[w].job /\ r.pc = p
  BY <1>1 DEF Runs
<1>3. run' = [run EXCEPT ![w] = r]
  BY DEF Goto, Shape, TypeOK
<1>4. j \in Jobs /\ Sound(j)
  BY DEF Shape, Assigned, Delivery
<1>5. redelivered[j] = 0 => dlq[j] \in {0, 1} /\ (dlq[j] = 1 => row[j].status = "failed")
  BY <1>4 DEF Sound, Once
<1>6. dlq[j] > 0 => row[j].error
  BY <1>4 DEF Sound, Blamed
<1> HIDE DEF r
<1> QED
  BY <1>2, <1>3, <1>5, <1>6, StepSound

\* A redelivered job owes nothing but its error columns.
LEMMA RedeliverySound ==
  ASSUME Shape, Delivery, NEW w \in Workers, Active(w), Redeliver(run[w].job),
         NEW r, run' = [run EXCEPT ![w] = r],
         r.pc # "idle" => r.job = run[w].job /\ r.pc = run[w].pc,
         UNCHANGED <<api, row, dlq>>
  PROVE  Delivery'
<1>1. PICK j \in Jobs : j = run[w].job
  BY DEF Shape, Assigned
<1>2. Sound(j) /\ On(w, j)
  BY <1>1 DEF Delivery, On
<1>3. api'[j] = "accepted" /\ redelivered'[j] # 0
  BY <1>1, <1>2 DEF Sound, Unpublished, Redeliver, Shape, TypeOK
<1>4. Blamed(j)'
  BY <1>1, <1>2 DEF Sound, Blamed, On, Active, Shape, TypeOK
<1>5. ASSUME NEW k \in Jobs, k # j  PROVE Sound(k)'
  <2>1. \A v \in Workers : On(v, k)' => On(v, k) /\ run'[v] = run[v]
    BY <1>1, <1>5 DEF On, Active, Shape, TypeOK
  <2>2. queue'[k] = queue[k] /\ redelivered'[k] = redelivered[k] /\ Sound(k)
    BY <1>1, <1>5 DEF Redeliver, Delivery, Shape, TypeOK
  <2> QED
    BY <2>1, <2>2, ElsewhereSound
<1> QED
  BY <1>3, <1>4, <1>5 DEF Delivery, Sound

LEMMA GotoFields ==
  ASSUME Shape, NEW w \in Workers, NEW p, Goto(w, p)
  PROVE  run'[w].pc = p /\ run'[w].recorded = run[w].recorded
<1> DEFINE r == [run[w] EXCEPT !.pc = p]
<1>1. run[w] \in Runs /\ run'[w] = r
  BY DEF Goto, Shape, TypeOK
<1>2. r.pc = p /\ r.recorded = run[w].recorded
  BY <1>1 DEF Runs
<1> HIDE DEF r
<1> QED
  BY <1>1, <1>2

LEMMA DeliveryStep == Shape /\ Settling /\ Outputs /\ Delivery /\ [Next]_vars => Delivery'
<1> SUFFICES ASSUME Shape, Settling, Outputs, Delivery, [Next]_vars  PROVE Delivery'
  OBVIOUS
<1>1. ASSUME NEW j \in Jobs, NEW k \in Jobs, k # j, UNCHANGED <<run, redelivered>>,
             api'[k] = api[k], row'[k] = row[k], queue'[k] = queue[k], dlq'[k] = dlq[k]
      PROVE  Sound(k)'
  BY <1>1, ElsewhereSound DEF Delivery, On, Active
<1>2. ASSUME NEW j \in Jobs, CreateJob(j)  PROVE Delivery'
  <2>1. Unpublished(j) /\ Sound(j)
    BY <1>2 DEF CreateJob, Delivery, Sound
  <2>2. Unpublished(j)' /\ Once(j)'
    BY <1>2, <2>1 DEF CreateJob, Unpublished, Once, On, Active, Shape, TypeOK, Rows
  <2>3. Blamed(j)'
    BY <2>2 DEF Unpublished, Blamed
  <2>4. \A k \in Jobs \ {j} : Sound(k)'
    BY <1>1, <1>2 DEF CreateJob, Shape, TypeOK
  <2> QED
    BY <2>2, <2>3, <2>4 DEF Delivery, Sound
<1>3. ASSUME NEW j \in Jobs, EnqueueJob(j)  PROVE Delivery'
  <2>1. Unpublished(j) /\ Sound(j)
    BY <1>3 DEF EnqueueJob, Delivery, Sound
  <2>2. api'[j] = "accepted" /\ Once(j)' /\ Blamed(j)'
    BY <1>3, <2>1 DEF EnqueueJob, Unpublished, Once, Blamed, On, Active, Shape, TypeOK
  <2>3. \A k \in Jobs \ {j} : Sound(k)'
    BY <1>1, <1>3 DEF EnqueueJob, Shape, TypeOK
  <2> QED
    BY <2>2, <2>3 DEF Delivery, Sound
<1>4. ASSUME NEW j \in Jobs, EnqueueFails(j)  PROVE Delivery'
  <2>1. Unpublished(j) /\ Sound(j)
    BY <1>4 DEF EnqueueFails, Delivery, Sound
  <2>2. Unpublished(j)' /\ Once(j)' /\ Blamed(j)'
    BY <1>4, <2>1 DEF EnqueueFails, Unpublished, Once, Blamed, On, Active, Shape, TypeOK
  <2>3. \A k \in Jobs \ {j} : Sound(k)'
    BY <1>1, <1>4 DEF EnqueueFails, Shape, TypeOK
  <2> QED
    BY <2>2, <2>3 DEF Delivery, Sound
<1>5. ASSUME NEW w \in Workers, NEW j \in Jobs, Deliver(w, j)  PROVE Delivery'
  <2> DEFINE r == [Idle EXCEPT !.job = j, !.pc = "mark", !.held = TRUE]
  <2>1. r.job = j /\ r.pc = "mark"
    BY DEF Idle
  <2>2. run' = [run EXCEPT ![w] = r]
    BY <1>5 DEF Deliver
  <2> HIDE DEF r
  <2>3. Sound(j) /\ api[j] = "accepted"
    BY <1>5 DEF Deliver, Delivery, Sound, Unpublished
  <2>4. On(w, j)' /\ run'[w] = r
    BY <2>1, <2>2 DEF On, Active, Shape, TypeOK
  <2>5. \A v \in Workers \ {w} : run'[v] = run[v] /\ (On(v, j)' <=> On(v, j))
    BY <2>2 DEF On, Active, Shape, TypeOK
  <2>6. ASSUME redelivered[j] = 0  PROVE Once(j)'
    <3>1. queue[j] = 1 /\ queue'[j] = 0 /\ Once(j)
      BY <1>5, <2>3, <2>6 DEF Deliver, Sound, Once, Shape, TypeOK
    <3>2. \A v \in Workers : On(v, j)' => v = w
      BY <2>5, <3>1 DEF Once
    <3>3. Expected(w, j)'
      BY <1>5, <2>1, <2>4, <3>1 DEF Deliver, Once, Expected
    <3>4. dlq'[j] = 0
      BY <1>5, <3>1 DEF Deliver, Once
    <3> QED
      BY <3>1, <3>2, <3>3, <3>4 DEF Once
  <2>7. Blamed(j)'
    BY <1>5, <2>1, <2>3, <2>4, <2>5 DEF Deliver, Sound, Blamed
  <2>8. ASSUME NEW k \in Jobs, k # j  PROVE Sound(k)'
    <3>1. \A v \in Workers : On(v, k)' => On(v, k) /\ run'[v] = run[v]
      BY <2>1, <2>2, <2>8, ElsewhereOn
    <3>2. queue'[k] = queue[k] /\ Sound(k)
      BY <1>5, <2>8 DEF Deliver, Delivery, Shape, TypeOK
    <3> QED
      BY <1>5, <3>1, <3>2, ElsewhereSound DEF Deliver
  <2> QED
    BY <1>5, <2>3, <2>6, <2>7, <2>8 DEF Deliver, Delivery, Sound
<1>6. ASSUME NEW w \in Workers, BrokerLost(w)  PROVE Delivery'
  <2> DEFINE r == [run[w] EXCEPT !.held = FALSE]
  <2>1. run[w] \in Runs
    BY DEF Shape, TypeOK
  <2>2. r.job = run[w].job /\ r.pc = run[w].pc
    BY <2>1 DEF Runs
  <2>3. run' = [run EXCEPT ![w] = r]
    BY <1>6 DEF BrokerLost, Shape, TypeOK
  <2> HIDE DEF r
  <2> QED
    BY <1>6, <2>2, <2>3, RedeliverySound DEF BrokerLost
<1>7. ASSUME NEW w \in Workers, WorkerCrash(w)  PROVE Delivery'
  <2>1. CASE run[w].held
    <3>1. run' = [run EXCEPT ![w] = Idle]
      BY <1>7, <2>1 DEF WorkerCrash, Leave
    <3>2. Idle.pc = "idle"
      BY DEF Idle
    <3>3. Active(w) /\ Redeliver(run[w].job) /\ UNCHANGED <<api, row, dlq>>
      BY <1>7, <2>1 DEF WorkerCrash
    <3> QED
      BY <3>1, <3>2, <3>3, RedeliverySound
  <2>2. CASE ~run[w].held
    BY <1>7, <2>2, LeaveSound DEF WorkerCrash, CutShort
  <2> QED
    BY <2>1, <2>2
<1>8. ASSUME NEW w \in Workers,
             \/ ChildLost(w) \/ HardLimit(w) \/ StartFails(w) \/ RecordFails(w)
             \/ Acknowledge(w)
      PROVE  Delivery'
  BY <1>8, LeaveSound DEF ChildLost, HardLimit, StartFails, RecordFails, Acknowledge, CutShort
<1>9. ASSUME NEW w \in Workers, SoftLimit(w)  PROVE Delivery'
  <2>1. CASE CutShort(w)
    BY <1>9, <2>1, LeaveSound DEF SoftLimit, CutShort
  <2>2. CASE run[w].pc \in {"enter", "work", "report"} /\ Goto(w, "fail")
    <3>1. PICK j \in Jobs : j = run[w].job
      BY <1>9 DEF SoftLimit, Shape, Assigned
    <3>2. run'[w].pc = "fail" /\ run'[w].recorded = run[w].recorded
      BY <2>2, GotoFields
    <3>3. run[w].pc = "report" => run[w].recorded
      BY DEF Settling, RecordsInOrder
    <3>4. Expected(w, j) => Expected(w, j)'
      BY <1>9, <2>2, <3>2, <3>3 DEF SoftLimit, Expected
    <3> QED
      BY <1>9, <2>2, <3>1, <3>4, GotoSound, Literals DEF SoftLimit
  <2> QED
    BY <1>9, <2>1, <2>2 DEF SoftLimit, Goto
<1>10. ASSUME NEW w \in Workers, MarkRunning(w)  PROVE Delivery'
  <2> DEFINE r == [run[w] EXCEPT !.pc = "load"]
  <2>1. run[w] \in Runs /\ Active(w)
    BY <1>10 DEF MarkRunning, Active, Shape, TypeOK
  <2>2. r.job = run[w].job /\ r.pc = "load" /\ r.pc # "idle" /\ r.recorded = run[w].recorded
    BY <2>1 DEF Runs
  <2>3. run' = [run EXCEPT ![w] = r] /\ run'[w] = r
    BY <1>10 DEF MarkRunning, Goto, Shape, TypeOK
  <2> HIDE DEF r
  <2>4. PICK j \in Jobs : j = run[w].job
    BY <2>1 DEF Shape, Assigned
  <2>5. row'[j].status = "running" /\ row'[j].error = row[j].error
    BY <1>10, <2>4 DEF MarkRunning, Shape, TypeOK, Rows
  <2>6. \A k \in Jobs \ {run[w].job} : row'[k] = row[k] /\ dlq'[k] = dlq[k]
    BY <1>10 DEF MarkRunning, Shape, TypeOK
  <2>7. run[w].recorded = FALSE
    BY <1>10 DEF MarkRunning, Settling, RecordsInOrder, Shape, TypeOK, Runs
  <2>8. dlq'[j] = dlq[j] /\ UNCHANGED <<api, queue, redelivered>>
    BY <1>10 DEF MarkRunning
  <2>9. redelivered[j] = 0 /\ Expected(w, j) =>
             /\ Expected(w, j)'
             /\ dlq'[j] \in {0, 1}
             /\ dlq'[j] = 1 => row'[j].status = "failed"
    BY <1>10, <2>2, <2>3, <2>5, <2>7, <2>8 DEF MarkRunning, Expected
  <2>10. /\ row[j].error => row'[j].error
         /\ dlq'[j] > 0 \/ r.pc = "dlq" => row'[j].error
    BY <2>2, <2>5, <2>8 DEF Delivery, Sound, Blamed
  <2> QED
    BY <2>1, <2>2, <2>3, <2>4, <2>6, <2>8, <2>9, <2>10, StepSound
<1>11. ASSUME NEW w \in Workers, LoadJob(w)  PROVE Delivery'
  <2>1. PICK j \in Jobs : j = run[w].job
    BY <1>11 DEF LoadJob, Active, Shape, Assigned
  <2>2. run'[w].pc = "enter" /\ run'[w].recorded = run[w].recorded
    BY <1>11, GotoFields DEF LoadJob
  <2>3. Expected(w, j) => Expected(w, j)'
    BY <1>11, <2>2 DEF LoadJob, Expected
  <2> QED
    BY <1>11, <2>1, <2>3, GotoSound, Literals DEF LoadJob, Active
<1>12. ASSUME NEW w \in Workers, EnterNode(w)  PROVE Delivery'
  <2> DEFINE r == [run[w] EXCEPT !.pc = "work"]
  <2>1. run[w] \in Runs /\ Active(w)
    BY <1>12 DEF EnterNode, Active, Shape, TypeOK
  <2>2. r.job = run[w].job /\ r.pc = "work" /\ r.pc # "idle" /\ r.recorded = run[w].recorded
    BY <2>1 DEF Runs
  <2>3. run' = [run EXCEPT ![w] = r] /\ run'[w] = r
    BY <1>12 DEF EnterNode, Goto, Shape, TypeOK
  <2> HIDE DEF r
  <2>4. PICK j \in Jobs : j = run[w].job
    BY <2>1 DEF Shape, Assigned
  <2>5. row'[j].status = row[j].status /\ row'[j].error = row[j].error
    BY <1>12, <2>4 DEF EnterNode, Shape, TypeOK, Rows
  <2>6. \A k \in Jobs \ {run[w].job} : row'[k] = row[k] /\ dlq'[k] = dlq[k]
    BY <1>12 DEF EnterNode, Shape, TypeOK
  <2>7. dlq'[j] = dlq[j] /\ UNCHANGED <<api, queue, redelivered>>
    BY <1>12 DEF EnterNode
  <2>8. redelivered[j] = 0 /\ Expected(w, j) =>
             /\ Expected(w, j)'
             /\ dlq'[j] \in {0, 1}
             /\ dlq'[j] = 1 => row'[j].status = "failed"
    BY <1>12, <2>2, <2>3, <2>5, <2>7 DEF EnterNode, Expected
  <2>9. /\ row[j].error => row'[j].error
        /\ dlq'[j] > 0 \/ r.pc = "dlq" => row'[j].error
    BY <2>2, <2>5, <2>7 DEF Delivery, Sound, Blamed
  <2> QED
    BY <2>1, <2>2, <2>3, <2>4, <2>6, <2>7, <2>8, <2>9, StepSound
\* A retry or the next node: the row and the dead letters stay.
<1>13. ASSUME NEW w \in Workers, run[w].pc \in {"enter", "work"},
              NEW r, r.job = run[w].job, r.pc = "enter", r.recorded = run[w].recorded,
              run' = [run EXCEPT ![w] = r],
              UNCHANGED <<api, row, queue, dlq, redelivered>>
       PROVE  Delivery'
  <2>1. Active(w) /\ run'[w] = r
    BY <1>13 DEF Active, Shape, TypeOK
  <2>2. PICK j \in Jobs : j = run[w].job
    BY <2>1 DEF Shape, Assigned
  <2>3. redelivered[j] = 0 /\ Expected(w, j) =>
             /\ Expected(w, j)'
             /\ dlq'[j] \in {0, 1}
             /\ dlq'[j] = 1 => row'[j].status = "failed"
    BY <1>13, <2>1 DEF Expected
  <2>4. /\ row[j].error => row'[j].error
        /\ dlq'[j] > 0 \/ r.pc = "dlq" => row'[j].error
    BY <1>13 DEF Delivery, Sound, Blamed
  <2>5. \A k \in Jobs \ {run[w].job} : row'[k] = row[k] /\ dlq'[k] = dlq[k]
    BY <1>13
  <2>6. r.pc # "idle" /\ UNCHANGED <<api, queue, redelivered>>
    BY <1>13
  <2> QED
    BY <2>5, <2>6, <1>13, <2>1, <2>2, <2>3, <2>4, StepSound
<1>14. ASSUME NEW w \in Workers, NodeSucceeds(w)  PROVE Delivery'
  <2> DEFINE s == run[w].stage
             r == [run[w] EXCEPT !.have = @ \union {s}, !.stage = NextStage(s),
                                 !.attempt = 1, !.pc = "enter"]
  <2>1. run[w] \in Runs
    BY DEF Shape, TypeOK
  <2>2. r.job = run[w].job /\ r.pc = "enter" /\ r.recorded = run[w].recorded
    BY <2>1 DEF Runs
  <2>3. run' = [run EXCEPT ![w] = r]
    BY <1>14 DEF NodeSucceeds, Shape, TypeOK
  <2> HIDE DEF r
  <2> QED
    BY <1>13, <1>14, <2>2, <2>3 DEF NodeSucceeds
<1>15. ASSUME NEW w \in Workers, NEW t \in BOOLEAN, NodeRaises(w, t)  PROVE Delivery'
  <2>1. CASE run' = [run EXCEPT ![w].attempt = @ + 1, ![w].pc = "enter"]
    <3> DEFINE r == [run[w] EXCEPT !.attempt = @ + 1, !.pc = "enter"]
    <3>1. run[w] \in Runs
      BY DEF Shape, TypeOK
    <3>2. r.job = run[w].job /\ r.pc = "enter" /\ r.recorded = run[w].recorded
      BY <3>1 DEF Runs
    <3>3. run' = [run EXCEPT ![w] = r]
      BY <2>1 DEF Shape, TypeOK
    <3> HIDE DEF r
    <3> QED
      BY <1>13, <1>15, <3>2, <3>3 DEF NodeRaises
  <2>2. CASE Goto(w, "fail")
    <3>1. PICK j \in Jobs : j = run[w].job
      BY <1>15 DEF NodeRaises, Active, Shape, Assigned
    <3>2. run'[w].pc = "fail" /\ run'[w].recorded = run[w].recorded
      BY <2>2, GotoFields
    <3>3. Expected(w, j) => Expected(w, j)'
      BY <1>15, <3>2 DEF NodeRaises, Expected
    <3> QED
      BY <1>15, <2>2, <3>1, <3>3, GotoSound, Literals DEF NodeRaises, Active
  <2> QED
    BY <1>15, <2>1, <2>2 DEF NodeRaises
<1>16. ASSUME NEW w \in Workers, Complete(w)  PROVE Delivery'
  <2> DEFINE r == [run[w] EXCEPT !.pc = "report", !.recorded = TRUE]
  <2>1. run[w] \in Runs /\ Active(w)
    BY <1>16 DEF Complete, Active, Shape, TypeOK
  <2>2. r.job = run[w].job /\ r.pc = "report" /\ r.pc # "idle"
    BY <2>1 DEF Runs
  <2>3. run' = [run EXCEPT ![w] = r] /\ run'[w] = r
    BY <1>16 DEF Complete, Shape, TypeOK
  <2> HIDE DEF r
  <2>4. PICK j \in Jobs : j = run[w].job
    BY <2>1 DEF Shape, Assigned
  <2>5. run[w].have = Produced
    BY <1>16 DEF Complete, Outputs, InStep, Made
  <2>6. /\ row'[j].status = "completed" /\ row'[j].outputs = Produced
        /\ row'[j].error = row[j].error
    BY <1>16, <2>4, <2>5 DEF Complete, Shape, TypeOK, Rows
  <2>7. \A k \in Jobs \ {run[w].job} : row'[k] = row[k] /\ dlq'[k] = dlq[k]
    BY <1>16 DEF Complete, Shape, TypeOK
  <2>8. dlq'[j] = dlq[j] /\ UNCHANGED <<api, queue, redelivered>>
    BY <1>16 DEF Complete
  <2>9. redelivered[j] = 0 /\ Expected(w, j) =>
             /\ Expected(w, j)'
             /\ dlq'[j] \in {0, 1}
             /\ dlq'[j] = 1 => row'[j].status = "failed"
    <3>1. Expected(w, j) => dlq'[j] = 0
      BY <1>16, <2>8 DEF Complete, Expected
    <3>2. run'[w].pc = "report"
      BY <2>2, <2>3
    <3>3. Expected(w, j) => Expected(w, j)'
      BY <2>6, <3>1, <3>2 DEF Expected
    <3> QED
      BY <3>1, <3>3
  <2>10. /\ row[j].error => row'[j].error
         /\ dlq'[j] > 0 \/ r.pc = "dlq" => row'[j].error
    BY <2>2, <2>6, <2>8 DEF Delivery, Sound, Blamed
  <2> QED
    BY <2>1, <2>2, <2>3, <2>4, <2>7, <2>8, <2>9, <2>10, StepSound
<1>17. ASSUME NEW w \in Workers, Report(w)  PROVE Delivery'
  <2>1. PICK j \in Jobs : j = run[w].job
    BY <1>17 DEF Report, Active, Shape, Assigned
  <2>2. run'[w].pc = "ack" /\ run'[w].recorded = run[w].recorded
    BY <1>17, GotoFields DEF Report
  <2>3. Expected(w, j) => Expected(w, j)'
    BY <1>17, <2>2 DEF Report, Expected, Settled, Terminal
  <2> QED
    BY <1>17, <2>1, <2>3, GotoSound, Literals DEF Report, Active
<1>18. ASSUME NEW w \in Workers, RecordFailure(w)  PROVE Delivery'
  <2> DEFINE r == [run[w] EXCEPT !.pc = "dlq", !.recorded = TRUE]
  <2>1. run[w] \in Runs /\ Active(w)
    BY <1>18 DEF RecordFailure, Active, Shape, TypeOK
  <2>2. r.job = run[w].job /\ r.pc = "dlq" /\ r.pc # "idle"
    BY <2>1 DEF Runs
  <2>3. run' = [run EXCEPT ![w] = r] /\ run'[w] = r
    BY <1>18 DEF RecordFailure, Shape, TypeOK
  <2> HIDE DEF r
  <2>4. PICK j \in Jobs : j = run[w].job
    BY <2>1 DEF Shape, Assigned
  <2>5. row'[j].status = "failed" /\ row'[j].error = TRUE
    BY <1>18, <2>4 DEF RecordFailure, Shape, TypeOK, Rows
  <2>6. \A k \in Jobs \ {run[w].job} : row'[k] = row[k] /\ dlq'[k] = dlq[k]
    BY <1>18 DEF RecordFailure, Shape, TypeOK
  <2>7. dlq'[j] = dlq[j] /\ UNCHANGED <<api, queue, redelivered>>
    BY <1>18 DEF RecordFailure
  <2>8. redelivered[j] = 0 /\ Expected(w, j) =>
             /\ Expected(w, j)'
             /\ dlq'[j] \in {0, 1}
             /\ dlq'[j] = 1 => row'[j].status = "failed"
    BY <1>18, <2>2, <2>3, <2>5, <2>7 DEF RecordFailure, Expected
  <2>9. /\ row[j].error => row'[j].error
        /\ dlq'[j] > 0 \/ r.pc = "dlq" => row'[j].error
    BY <2>5
  <2> QED
    BY <2>1, <2>2, <2>3, <2>4, <2>6, <2>7, <2>8, <2>9, StepSound
<1>19. ASSUME NEW w \in Workers, PushDeadLetter(w)  PROVE Delivery'
  <2> DEFINE r == [run[w] EXCEPT !.pc = "ack"]
  <2>1. run[w] \in Runs /\ Active(w)
    BY <1>19 DEF PushDeadLetter, Active, Shape, TypeOK
  <2>2. r.job = run[w].job /\ r.pc = "ack" /\ r.pc # "idle"
    BY <2>1 DEF Runs
  <2>3. run' = [run EXCEPT ![w] = r] /\ run'[w] = r
    BY <1>19 DEF PushDeadLetter, Goto, Shape, TypeOK
  <2> HIDE DEF r
  <2>4. PICK j \in Jobs : j = run[w].job
    BY <2>1 DEF Shape, Assigned
  <2>5. dlq'[j] \in {dlq[j], dlq[j] + 1} /\ row'[j] = row[j] /\ row[j].error
    BY <1>19, <2>1, <2>4 DEF PushDeadLetter, Delivery, Sound, Blamed, On, Shape, TypeOK
  <2>6. \A k \in Jobs \ {run[w].job} : row'[k] = row[k] /\ dlq'[k] = dlq[k]
    BY <1>19 DEF PushDeadLetter, Shape, TypeOK
  <2>7. UNCHANGED <<api, queue, redelivered>>
    BY <1>19 DEF PushDeadLetter
  <2>8. redelivered[j] = 0 /\ Expected(w, j) =>
             /\ Expected(w, j)'
             /\ dlq'[j] \in {0, 1}
             /\ dlq'[j] = 1 => row'[j].status = "failed"
    BY <1>19, <2>2, <2>3, <2>5 DEF PushDeadLetter, Expected, Settled, Terminal
  <2>9. /\ row[j].error => row'[j].error
        /\ dlq'[j] > 0 \/ r.pc = "dlq" => row'[j].error
    BY <2>5
  <2> QED
    BY <2>1, <2>2, <2>3, <2>4, <2>6, <2>7, <2>8, <2>9, StepSound
<1>20. ASSUME UNCHANGED <<api, row, queue, run, dlq, redelivered>>  PROVE Delivery'
  BY <1>20, ElsewhereSound DEF Delivery, On, Active
<1>21. CASE \E s \in Streams, j \in Jobs : OpenStream(s, j)
  BY <1>20, <1>21 DEF OpenStream
<1>22. CASE \E s \in Streams : Poll(s) \/ DropStream(s)
  BY <1>20, <1>22 DEF Poll, DropStream
<1>23. CASE UNCHANGED vars
  BY <1>20, <1>23 DEF vars
<1> QED
  BY <1>2, <1>3, <1>4, <1>5, <1>6, <1>7, <1>8, <1>9, <1>10, <1>11, <1>12, <1>14,
     <1>15, <1>16, <1>17, <1>18, <1>19, <1>21, <1>22, <1>23
     DEF Next, RunStep, Fault

-----------------------------------------------------------------------------
(* What was recorded stays *)

\* The invariant of all the theorems below.
IInv == Shape /\ Settling /\ Outputs /\ Delivery

LEMMA IInvInductive == (Init => IInv) /\ (IInv /\ [Next]_vars => IInv')
  BY ShapeInit, SettlingInit, OutputsInit, DeliveryInit,
     ShapeStep, SettlingStep, OutputsStep, DeliveryStep DEF IInv

\* The broker's count of redeliveries never falls.
LEMMA RedeliveriesGrow ==
  ASSUME Shape, [Next]_vars, NEW j \in Jobs, redelivered'[j] = 0
  PROVE  redelivered[j] = 0
<1>1. CASE UNCHANGED redelivered
  BY <1>1
<1>2. CASE \E k \in Jobs : Redeliver(k)
  BY <1>2 DEF Redeliver, Shape, TypeOK
<1>3. ASSUME NEW w \in Workers, BrokerLost(w) \/ WorkerCrash(w)
      PROVE  redelivered[j] = 0
  <2>1. run[w].job \in Jobs
    BY <1>3 DEF BrokerLost, WorkerCrash, Shape, Assigned
  <2> QED
    BY <1>1, <1>2, <1>3, <2>1 DEF BrokerLost, WorkerCrash
<1>4. ASSUME NEW w \in Workers, RunStep(w)  PROVE UNCHANGED redelivered
  BY <1>4 DEF RunStep, MarkRunning, LoadJob, StartFails, EnterNode, NodeSucceeds, Complete,
     NodeRaises, Report, RecordFailure, RecordFails, PushDeadLetter, Acknowledge
<1>5. ASSUME NEW w \in Workers, ChildLost(w) \/ SoftLimit(w) \/ HardLimit(w)
      PROVE  UNCHANGED redelivered
  BY <1>5 DEF ChildLost, SoftLimit, HardLimit
<1>6. ASSUME NEW k \in Jobs,
             \/ CreateJob(k) \/ EnqueueJob(k) \/ EnqueueFails(k)
             \/ \E w \in Workers : Deliver(w, k)
             \/ \E s \in Streams : OpenStream(s, k)
      PROVE  UNCHANGED redelivered
  BY <1>6 DEF CreateJob, EnqueueJob, EnqueueFails, Deliver, OpenStream
<1>7. CASE \E s \in Streams : Poll(s) \/ DropStream(s)
  BY <1>1, <1>7 DEF Poll, DropStream
<1>8. CASE UNCHANGED vars
  BY <1>1, <1>8 DEF vars
<1> QED
  BY <1>1, <1>3, <1>4, <1>5, <1>6, <1>7, <1>8 DEF Next, Fault

\* A job's status and outputs change only when it is created, marked running,
\* completed or failed.
Touched(j) ==
    \/ CreateJob(j)
    \/ \E w \in Workers : /\ run[w].job = j
                          /\ MarkRunning(w) \/ Complete(w) \/ RecordFailure(w)

Kept(j) == row'[j].status = row[j].status /\ row'[j].outputs = row[j].outputs

LEMMA OnlyTouched ==
  ASSUME Shape, [Next]_vars, NEW j \in Jobs  PROVE Kept(j) \/ Touched(j)
<1>1. CASE UNCHANGED row
  BY <1>1 DEF Kept
<1>2. ASSUME NEW k \in Jobs, CreateJob(k)  PROVE Kept(j) \/ Touched(j)
  BY <1>2 DEF CreateJob, Kept, Touched, Shape, TypeOK
<1>3. ASSUME NEW w \in Workers, MarkRunning(w) \/ Complete(w) \/ RecordFailure(w)
      PROVE  Kept(j) \/ Touched(j)
  <2>1. CASE run[w].job = j
    BY <1>3, <2>1 DEF Touched
  <2>2. CASE run[w].job # j
    BY <1>3, <2>2 DEF MarkRunning, Complete, RecordFailure, Kept, Shape, TypeOK
  <2> QED
    BY <2>1, <2>2
<1>4. ASSUME NEW w \in Workers, EnterNode(w)  PROVE Kept(j)
  BY <1>4 DEF EnterNode, Kept, Shape, TypeOK, Rows
<1>5. ASSUME NEW w \in Workers,
             \/ LoadJob(w) \/ StartFails(w) \/ NodeSucceeds(w)
             \/ \E t \in BOOLEAN : NodeRaises(w, t)
             \/ Report(w) \/ RecordFails(w) \/ PushDeadLetter(w) \/ Acknowledge(w)
             \/ Fault(w)
      PROVE  UNCHANGED row
  BY <1>5 DEF LoadJob, StartFails, NodeSucceeds, NodeRaises, Report, RecordFails,
     PushDeadLetter, Acknowledge, Fault, BrokerLost, WorkerCrash, ChildLost, SoftLimit, HardLimit
<1>6. ASSUME NEW k \in Jobs,
             \/ EnqueueJob(k) \/ EnqueueFails(k)
             \/ \E w \in Workers : Deliver(w, k)
             \/ \E s \in Streams : OpenStream(s, k)
      PROVE  UNCHANGED row
  BY <1>6 DEF EnqueueJob, EnqueueFails, Deliver, OpenStream
<1>7. CASE \E s \in Streams : Poll(s) \/ DropStream(s)
  BY <1>1, <1>7 DEF Poll, DropStream
<1>8. CASE UNCHANGED vars
  BY <1>1, <1>8 DEF vars
<1> QED
  BY <1>1, <1>2, <1>3, <1>4, <1>5, <1>6, <1>7, <1>8 DEF Next, RunStep

\* A job that was delivered once keeps its outcome, or fails late.
LEMMA Finality ==
  ASSUME IInv, [Next]_vars, NEW j \in Jobs, Settled(j), redelivered'[j] = 0
  PROVE  Kept(j) \/ (row[j].status = "completed" /\ LateFailure(j)')
<1>1. Sound(j) /\ Once(j)
  BY RedeliveriesGrow DEF IInv, Delivery, Sound
<1>2. CASE Kept(j)
  BY <1>2
<1>3. CASE CreateJob(j)
  BY <1>1, <1>3 DEF CreateJob, Sound, Unpublished, Settled, Terminal
<1>4. ASSUME NEW w \in Workers, run[w].job = j, MarkRunning(w) \/ Complete(w)
      PROVE  FALSE
  BY <1>1, <1>4
     DEF MarkRunning, Complete, Once, On, Active, Expected, Settled, Terminal
<1>5. ASSUME NEW w \in Workers, run[w].job = j, RecordFailure(w)
      PROVE  row[j].status = "completed" /\ LateFailure(j)'
  <2>1. row[j].status = "completed" /\ row[j].outputs = Produced
    BY <1>1, <1>5 DEF RecordFailure, Once, On, Active, Expected, Settled, Terminal
  <2>2. row'[j].status = "failed" /\ row'[j].outputs = row[j].outputs
    BY <1>5 DEF RecordFailure, IInv, Shape, TypeOK, Rows
  <2> QED
    BY <2>1, <2>2 DEF LateFailure
<1> QED
  BY <1>2, <1>3, <1>4, <1>5, OnlyTouched DEF Touched, IInv

\* Once a job that was delivered once has an outcome it keeps it, but for a soft
\* limit after the store node's commit (OutcomeIsFinal).
THEOREM OutcomeFinal == Spec => OutcomeIsFinal
<1>1. IInv /\ [Next]_vars =>
        [\A j \in Jobs :
            Settled(j) /\ redelivered'[j] = 0
               => row'[j].status = row[j].status \/ LateFailure(j)']_vars
  BY Finality DEF Kept
<1> QED
  BY <1>1, IInvInductive, PTL DEF Spec, OutcomeIsFinal

\* A dead letter stands for a recorded failure, and a job delivered once has at
\* most one and is failed (DeadLettersAreFailures: push_dead_letter after fail).
THEOREM DeadLettersFailed == Spec => []DeadLettersAreFailures
<1>1. IInv => DeadLettersAreFailures
  BY DEF IInv, Delivery, Sound, Blamed, Once, DeadLettersAreFailures, Shape, TypeOK
<1> QED
  BY <1>1, IInvInductive, PTL DEF Spec

LEMMA ShownStep == IInv /\ Shown /\ [Next]_vars => Shown'
<1> SUFFICES ASSUME IInv, Shown, [Next]_vars  PROVE Shown'
  OBVIOUS
<1>1. ASSUME NEW s \in Streams, stream[s].phase = "closed", stream'[s] = stream[s],
             NEW j \in Jobs, j = stream[s].job
      PROVE  /\ stream[s].last \in Terminal
             /\ redelivered'[j] = 0 =>
                   Settled(j)' /\ (stream[s].last = row'[j].status \/ LateFailure(j)')
  <2>1. stream[s].last \in Terminal
    BY <1>1 DEF Shown, Showed
  <2>2. ASSUME redelivered'[j] = 0
        PROVE  Settled(j)' /\ (stream[s].last = row'[j].status \/ LateFailure(j)')
    <3>1. Settled(j) /\ (stream[s].last = row[j].status \/ LateFailure(j))
      BY <1>1, <2>2, RedeliveriesGrow DEF Shown, Showed, IInv
    <3>2. Kept(j) \/ (row[j].status = "completed" /\ LateFailure(j)')
      BY <2>2, <3>1, Finality
    <3> QED
      BY <3>1, <3>2 DEF Kept, LateFailure, Settled, Terminal
  <2> QED
    BY <2>1, <2>2
<1>2. ASSUME NEW s \in Streams, stream'[s].phase = "closed", stream'[s] # stream[s],
             NEW j \in Jobs, j = stream'[s].job
      PROVE  /\ stream'[s].last \in Terminal
             /\ stream'[s].last = row'[j].status
  <2>1. PICK t \in Streams : Poll(t)
    <3>1. ASSUME NEW k \in Jobs, NEW t \in Streams, OpenStream(t, k)  PROVE FALSE
      BY <1>2, <3>1 DEF OpenStream, IInv, Shape, TypeOK
    <3>2. ASSUME NEW t \in Streams, DropStream(t)  PROVE FALSE
      BY <1>2, <3>2 DEF DropStream, IInv, Shape, TypeOK
    <3>3. stream' # stream
      BY <1>2
    <3>4. ASSUME NEW w \in Workers, RunStep(w) \/ Fault(w)  PROVE UNCHANGED stream
      BY <3>4 DEF RunStep, Fault, MarkRunning, LoadJob, StartFails, EnterNode, NodeSucceeds,
         Complete, NodeRaises, Report, RecordFailure, RecordFails, PushDeadLetter,
         Acknowledge, BrokerLost, WorkerCrash, ChildLost, SoftLimit, HardLimit
    <3>5. ASSUME NEW k \in Jobs,
                 \/ CreateJob(k) \/ EnqueueJob(k) \/ EnqueueFails(k)
                 \/ \E w \in Workers : Deliver(w, k)
          PROVE  UNCHANGED stream
      BY <3>5 DEF CreateJob, EnqueueJob, EnqueueFails, Deliver
    <3> QED
      BY <3>1, <3>2, <3>3, <3>4, <3>5 DEF Next, vars
  <2>2. t = s
    BY <1>2, <2>1 DEF Poll, IInv, Shape, TypeOK
  <2>3. /\ stream'[s].job = stream[s].job
        /\ stream'[s].last = row[j].status
        /\ row[j].status \in Terminal
        /\ row' = row
    BY <1>2, <2>1, <2>2 DEF Poll, IInv, Shape, TypeOK
  <2> QED
    BY <2>3
<1>3. ASSUME NEW s \in Streams, NEW j \in Jobs, stream'[s].phase = "closed",
             stream'[s].job = j
      PROVE  Showed(s, j)'
  <2>1. CASE stream'[s] = stream[s]
    BY <1>1, <1>3, <2>1 DEF Showed
  <2>2. CASE stream'[s] # stream[s]
    BY <1>2, <1>3, <2>2 DEF Showed, Settled
  <2> QED
    BY <2>1, <2>2
<1> QED
  BY <1>3 DEF Shown

\* The last thing a closed stream showed is the job's outcome, for a job that
\* was delivered once (StreamReportsOutcome: job_events).
THEOREM StreamsReport == Spec => []StreamReportsOutcome
<1>1. Init => Shown
  BY DEF Init, Shown
<1>2. IInv /\ Shown => StreamReportsOutcome
  <2> SUFFICES ASSUME IInv, Shown, NEW s \in Streams, stream[s].phase = "closed"
               PROVE  Showed(s, stream[s].job)
    BY DEF StreamReportsOutcome, Showed
  <2>1. stream[s].job \in Jobs
    BY DEF IInv, Shape, Assigned
  <2> QED
    BY <2>1 DEF Shown
<1> QED
  BY <1>1, <1>2, IInvInductive, ShownStep, PTL DEF Spec
=============================================================================
