------------------------ MODULE VideoJobsRefinement ------------------------
(***************************************************************************)
(* VideoJobs implements JobLifecycle, for any instance: an execution is    *)
(* open from mark_running until its child process is done with it.         *)
(***************************************************************************)
EXTENDS VideoJobsDeliveredOnce

\* Idle workers belong to no job, and a job that was created has a row.
Tracked ==
    /\ \A w \in Workers : ~Active(w) => run[w].job = None
    /\ \A j \in Jobs : api[j] # "none" => row[j].status # "absent"

RInv == IInv /\ Tracked

\* An execution changes, ends, or stays.
LEMMA RunChanges ==
  ASSUME Shape, [Next]_vars, NEW w \in Workers
  PROVE  run'[w] = run[w] \/ run'[w] = Idle \/ run'[w].pc # "idle"
<1> DEFINE Same == run'[w] = run[w] \/ run'[w] = Idle \/ run'[w].pc # "idle"
<1>1. CASE UNCHANGED run
  BY <1>1
<1>2. ASSUME NEW v \in Workers, Leave(v)  PROVE Same
  BY <1>2 DEF Leave, Shape, TypeOK
<1>3. ASSUME NEW v \in Workers, NEW p, p # "idle", Goto(v, p)  PROVE Same
  <2>1. CASE v = w
    BY <1>3, <2>1, GotoFields
  <2>2. CASE v # w
    BY <1>3, <2>2 DEF Goto, Shape, TypeOK
  <2> QED
    BY <2>1, <2>2
<1>4. ASSUME NEW v \in Workers, NEW r, r.pc # "idle", run' = [run EXCEPT ![v] = r]  PROVE Same
  BY <1>4 DEF Shape, TypeOK
<1>5. ASSUME NEW v \in Workers, NEW j \in Jobs, Deliver(v, j)  PROVE Same
  <2> DEFINE r == [Idle EXCEPT !.job = j, !.pc = "mark", !.held = TRUE]
  <2>1. r.pc # "idle" /\ run' = [run EXCEPT ![v] = r]
    BY <1>5 DEF Deliver, Idle
  <2> HIDE DEF r
  <2> QED
    BY <1>4, <2>1
<1>6. ASSUME NEW v \in Workers, BrokerLost(v)  PROVE Same
  <2> DEFINE r == [run[v] EXCEPT !.held = FALSE]
  <2>1. run[v] \in Runs
    BY DEF Shape, TypeOK
  <2>2. r.pc # "idle" /\ run' = [run EXCEPT ![v] = r]
    BY <1>6, <2>1 DEF BrokerLost, Active, Runs, Shape, TypeOK
  <2> HIDE DEF r
  <2> QED
    BY <1>4, <2>2
<1>7. ASSUME NEW v \in Workers,
             \/ WorkerCrash(v) \/ ChildLost(v) \/ HardLimit(v) \/ StartFails(v)
             \/ RecordFails(v) \/ Acknowledge(v)
      PROVE  Same
  <2>1. Leave(v)
    BY <1>7 DEF WorkerCrash, ChildLost, HardLimit, StartFails, RecordFails, Acknowledge, CutShort
  <2> QED
    BY <1>2, <2>1
<1>8. ASSUME NEW v \in Workers,
             \/ SoftLimit(v) \/ MarkRunning(v) \/ LoadJob(v) \/ EnterNode(v) \/ Report(v)
             \/ PushDeadLetter(v)
      PROVE  Same
  <2>1. Leave(v) \/ \E p : p # "idle" /\ Goto(v, p)
    BY <1>8 DEF SoftLimit, MarkRunning, LoadJob, EnterNode, Report, PushDeadLetter, CutShort, Goto
  <2> QED
    BY <1>2, <1>3, <2>1
<1>9. ASSUME NEW v \in Workers,
             NodeSucceeds(v) \/ Complete(v) \/ RecordFailure(v)
      PROVE  Same
  <2>1. CASE v = w
    <3>1. run[v] \in Runs
      BY DEF Shape, TypeOK
    <3>2. run'[v].pc \in {"enter", "report", "dlq"}
      BY <1>9, <3>1 DEF NodeSucceeds, Complete, RecordFailure, Shape, TypeOK, Runs
    <3> QED
      BY <2>1, <3>2
  <2>2. CASE v # w
    BY <1>9, <2>2 DEF NodeSucceeds, Complete, RecordFailure, Shape, TypeOK
  <2> QED
    BY <2>1, <2>2
<1>10. ASSUME NEW v \in Workers, NEW t \in BOOLEAN, NodeRaises(v, t)  PROVE Same
  <2>1. CASE run' = [run EXCEPT ![v].attempt = @ + 1, ![v].pc = "enter"]
    <3> DEFINE r == [run[v] EXCEPT !.attempt = @ + 1, !.pc = "enter"]
    <3>1. run[v] \in Runs
      BY DEF Shape, TypeOK
    <3>2. r.pc # "idle" /\ run' = [run EXCEPT ![v] = r]
      BY <2>1, <3>1 DEF Runs, Shape, TypeOK
    <3> HIDE DEF r
    <3> QED
      BY <1>4, <3>2
  <2>2. CASE Goto(v, "fail")
    BY <1>3, <2>2
  <2> QED
    BY <1>10, <2>1, <2>2 DEF NodeRaises
<1>11. ASSUME NEW j \in Jobs,
              CreateJob(j) \/ EnqueueJob(j) \/ EnqueueFails(j)
       PROVE  Same
  <2>1. UNCHANGED run
    BY <1>11 DEF CreateJob, EnqueueJob, EnqueueFails
  <2> QED
    BY <1>1, <2>1
<1>12. ASSUME NEW s \in Streams, Poll(s) \/ DropStream(s)  PROVE Same
  <2>1. UNCHANGED run
    BY <1>12 DEF Poll, DropStream
  <2> QED
    BY <1>1, <2>1
<1>13. ASSUME NEW s \in Streams, NEW j \in Jobs, OpenStream(s, j)  PROVE Same
  <2>1. UNCHANGED run
    BY <1>13 DEF OpenStream
  <2> QED
    BY <1>1, <2>1
<1>14. CASE UNCHANGED vars
  BY <1>1, <1>14 DEF vars
<1>15. ASSUME NEW v \in Workers, RunStep(v)  PROVE Same
  BY <1>7, <1>8, <1>9, <1>10, <1>15 DEF RunStep
<1>16. ASSUME NEW v \in Workers, Fault(v)  PROVE Same
  BY <1>6, <1>7, <1>8, <1>16 DEF Fault
<1> QED
  BY <1>5, <1>11, <1>12, <1>13, <1>14, <1>15, <1>16 DEF Next

LEMMA TrackedStep == IInv /\ Tracked /\ [Next]_vars => Tracked'
<1> SUFFICES ASSUME IInv, Tracked, [Next]_vars  PROVE Tracked'
  OBVIOUS
<1>1. ASSUME NEW w \in Workers, run'[w].pc = "idle"  PROVE run'[w].job = None
  BY <1>1, RunChanges DEF IInv, Tracked, Active, Idle
<1>2. ASSUME NEW j \in Jobs, api'[j] # "none"  PROVE row'[j].status # "absent"
  <2>1. CASE Kept(j)
    <3>1. api[j] # "none"
      <4>1. CASE CreateJob(j)
        BY <2>1, <4>1 DEF CreateJob, Kept, IInv, Delivery, Sound, Unpublished, Shape, TypeOK, Rows
      <4>2. CASE ~CreateJob(j) /\ api'[j] # api[j]
        <5>1. api' # api
          BY <4>2
        <5>2. PICK k \in Jobs : CreateJob(k) \/ EnqueueJob(k) \/ EnqueueFails(k)
          <6>1. \A v \in Workers : RunStep(v) => UNCHANGED api
            BY DEF RunStep, MarkRunning, LoadJob, StartFails, EnterNode, NodeSucceeds,
                   Complete, NodeRaises, Report, RecordFailure, RecordFails, PushDeadLetter,
                   Acknowledge
          <6>2. \A v \in Workers : Fault(v) => UNCHANGED api
            BY DEF Fault, BrokerLost, WorkerCrash, ChildLost, SoftLimit, HardLimit
          <6>3. \A v \in Workers, k \in Jobs : Deliver(v, k) => UNCHANGED api
            BY DEF Deliver
          <6>4. \A t \in Streams, k \in Jobs : OpenStream(t, k) => UNCHANGED api
            BY DEF OpenStream
          <6>5. UNCHANGED vars => UNCHANGED api
            BY DEF vars
          <6>6. \A t \in Streams : Poll(t) \/ DropStream(t) => UNCHANGED api
            BY DEF Poll, DropStream
          <6> QED
            BY <5>1, <6>1, <6>2, <6>3, <6>4, <6>5, <6>6 DEF Next
        <5>3. k = j
          BY <4>2, <5>2 DEF CreateJob, EnqueueJob, EnqueueFails, IInv, Shape, TypeOK
        <5> QED
          BY <4>2, <5>2, <5>3 DEF EnqueueJob, EnqueueFails
      <4>3. CASE api'[j] = api[j]
        BY <1>2, <4>3
      <4> QED
        BY <4>1, <4>2, <4>3
    <3> QED
      BY <2>1, <3>1 DEF Kept, Tracked
  <2>2. CASE CreateJob(j)
    BY <2>2 DEF CreateJob, IInv, Shape, TypeOK, Rows
  <2>3. ASSUME NEW w \in Workers, run[w].job = j,
               MarkRunning(w) \/ Complete(w) \/ RecordFailure(w)
        PROVE  row'[j].status # "absent"
    BY <2>3 DEF MarkRunning, Complete, RecordFailure, IInv, Shape, TypeOK, Rows
  <2> QED
    BY <2>1, <2>2, <2>3, OnlyTouched DEF Touched, IInv
<1> QED
  BY <1>1, <1>2 DEF Tracked, Active

LEMMA RInvInductive == (Init => RInv) /\ (RInv /\ [Next]_vars => RInv')
<1>1. Init => Tracked
  BY DEF Init, Tracked, Active, Idle
<1> QED
  BY <1>1, IInvInductive, TrackedStep DEF RInv

-----------------------------------------------------------------------------
(* The ways in which the executions that are due, open and settled change *)

Recorded(j) == {w \in Opened(j) : run[w].recorded}

\* The variables of the abstract specification.
status == [j \in Jobs |-> row[j].status]
due == {j \in Jobs : Awaited(j)}
open == [j \in Jobs |-> Opened(j)]
settled == [j \in Jobs |-> Recorded(j)]

LEMMA SameDue ==
  ASSUME Shape, NEW w \in Workers, NEW r, run' = [run EXCEPT ![w] = r], UNCHANGED queue,
         r.pc # "mark", run[w].pc # "mark"
  PROVE  due' = due
<1>1. ASSUME NEW j \in Jobs  PROVE Awaited(j)' <=> Awaited(j)
  <2>1. \A v \in Workers : (run'[v].job = j /\ run'[v].pc = "mark")
                             <=> (run[v].job = j /\ run[v].pc = "mark")
    BY DEF Shape, TypeOK
  <2> QED
    BY <2>1 DEF Awaited, InWork
<1> QED
  BY <1>1 DEF due

\* What a message in the broker, and an execution that opens, ends before it
\* opens, or is taken from the broker, do to the jobs that are due.
LEMMA Requeueing ==
  ASSUME Shape, NEW w \in Workers, NEW r, run' = [run EXCEPT ![w] = r],
         NEW j \in Jobs, run[w].job = j, queue' = [queue EXCEPT ![j] = @ + 1],
         r.pc = "mark" => r.job = j
  PROVE  due' = due \union {j}
<1>1. Awaited(j)'
  BY DEF Awaited, Shape, TypeOK
<1>2. ASSUME NEW k \in Jobs, k # j  PROVE Awaited(k)' <=> Awaited(k)
  <2>1. queue'[k] = queue[k]
    BY <1>2 DEF Shape, TypeOK
  <2>2. \A v \in Workers : (run'[v].job = k /\ run'[v].pc = "mark")
                             <=> (run[v].job = k /\ run[v].pc = "mark")
    BY <1>2 DEF Shape, TypeOK
  <2> QED
    BY <2>1, <2>2 DEF Awaited, InWork
<1> QED
  BY <1>1, <1>2 DEF due

LEMMA LostRequeues ==
  ASSUME Shape, NEW w \in Workers, NEW j \in Jobs, run[w].job = j, BrokerLost(w)
  PROVE  due' = due \union {j}
<1> DEFINE r == [run[w] EXCEPT !.held = FALSE]
<1>1. run[w] \in Runs /\ run' = [run EXCEPT ![w] = r]
  BY DEF BrokerLost, Shape, TypeOK
<1>2. r.pc = "mark" => r.job = j
  BY <1>1 DEF Runs
<1>3. queue' = [queue EXCEPT ![j] = @ + 1]
  BY DEF BrokerLost, Redeliver
<1> HIDE DEF r
<1> QED
  BY <1>1, <1>2, <1>3, Requeueing

LEMMA Undue ==
  ASSUME Shape, NEW w \in Workers, NEW r, run' = [run EXCEPT ![w] = r], UNCHANGED queue,
         NEW j \in Jobs, run[w].job = j, run[w].pc = "mark", r.pc # "mark"
  PROVE  j \in due /\ due' \in {due, due \ {j}}
<1>1. j \in due
  BY DEF due, Awaited, InWork
<1>2. ASSUME NEW k \in Jobs, k # j  PROVE Awaited(k)' <=> Awaited(k)
  <2>1. \A v \in Workers : (run'[v].job = k /\ run'[v].pc = "mark")
                             <=> (run[v].job = k /\ run[v].pc = "mark")
    BY <1>2 DEF Shape, TypeOK
  <2> QED
    BY <2>1 DEF Awaited, InWork
<1>3. CASE Awaited(j)'
  BY <1>1, <1>2, <1>3 DEF due
<1>4. CASE ~Awaited(j)'
  BY <1>1, <1>2, <1>4 DEF due
<1> QED
  BY <1>1, <1>3, <1>4

LEMMA Taking ==
  ASSUME Shape, NEW w \in Workers, NEW j \in Jobs, run[w].job \notin Jobs,
         NEW r, run' = [run EXCEPT ![w] = r], r.job = j, r.pc = "mark",
         queue[j] > 0, queue' = [queue EXCEPT ![j] = @ - 1]
  PROVE  due' = due
<1>1. Awaited(j) /\ Awaited(j)'
  BY DEF Awaited, InWork, Shape, TypeOK
<1>2. ASSUME NEW k \in Jobs, k # j  PROVE Awaited(k)' <=> Awaited(k)
  <2>1. queue'[k] = queue[k]
    BY <1>2 DEF Shape, TypeOK
  <2>2. \A v \in Workers : (run'[v].job = k /\ run'[v].pc = "mark")
                             <=> (run[v].job = k /\ run[v].pc = "mark")
    BY <1>2 DEF Shape, TypeOK
  <2> QED
    BY <2>1, <2>2 DEF Awaited, InWork
<1> QED
  BY <1>1, <1>2 DEF due

LEMMA SameOpen ==
  ASSUME Shape, NEW w \in Workers, NEW r, run' = [run EXCEPT ![w] = r],
         \A j \in Jobs : (r.job = j /\ r.pc # "mark") <=> (run[w].job = j /\ run[w].pc # "mark"),
         run[w].job \in Jobs /\ run[w].pc # "mark" => r.recorded = run[w].recorded
  PROVE  open' = open /\ settled' = settled
<1>1. ASSUME NEW j \in Jobs  PROVE Opened(j)' = Opened(j)
  BY DEF Opened, InWork, Shape, TypeOK
<1>2. ASSUME NEW j \in Jobs  PROVE Recorded(j)' = Recorded(j)
  BY <1>1 DEF Recorded, Opened, InWork, Shape, TypeOK
<1> QED
  BY <1>1, <1>2 DEF open, settled

\* A delivery opens nothing: the execution has yet to mark the job running.
LEMMA Delivering ==
  ASSUME Shape, NEW w \in Workers, run[w].job \notin Jobs,
         NEW r, run' = [run EXCEPT ![w] = r], r.pc = "mark"
  PROVE  open' = open /\ settled' = settled
<1>1. ASSUME NEW j \in Jobs  PROVE Opened(j)' = Opened(j)
  BY DEF Opened, InWork, Shape, TypeOK
<1>2. ASSUME NEW j \in Jobs  PROVE Recorded(j)' = Recorded(j)
  BY <1>1 DEF Recorded, Opened, InWork, Shape, TypeOK
<1> QED
  BY <1>1, <1>2 DEF open, settled

LEMMA Opening ==
  ASSUME Shape, NEW w \in Workers, NEW j \in Jobs, run[w].job = j, run[w].pc = "mark",
         NEW r, run' = [run EXCEPT ![w] = r],
         r.job = j, r.pc # "mark", r.recorded = FALSE
  PROVE  /\ w \notin open[j]
         /\ open' = [open EXCEPT ![j] = @ \union {w}]
         /\ settled' = settled
<1>1. Opened(j)' = Opened(j) \union {w} /\ w \notin Opened(j)
  BY DEF Opened, InWork, Shape, TypeOK
<1>2. ASSUME NEW k \in Jobs, k # j  PROVE Opened(k)' = Opened(k)
  BY <1>2 DEF Opened, InWork, Shape, TypeOK
<1>3. ASSUME NEW k \in Jobs  PROVE Recorded(k)' = Recorded(k)
  <2>1. CASE k = j
    BY <1>1, <2>1 DEF Recorded, Opened, InWork, Shape, TypeOK
  <2>2. CASE k # j
    BY <1>2, <2>2 DEF Recorded, Opened, InWork, Shape, TypeOK
  <2> QED
    BY <2>1, <2>2
<1> QED
  BY <1>1, <1>2, <1>3 DEF open, settled

LEMMA Recording ==
  ASSUME Shape, NEW w \in Workers, NEW j \in Jobs, run[w].job = j, run[w].pc # "mark",
         NEW r, run' = [run EXCEPT ![w] = r],
         r.job = j, r.pc # "mark", r.recorded = TRUE
  PROVE  /\ w \in open[j]
         /\ open' = open
         /\ settled' = [settled EXCEPT ![j] = @ \union {w}]
<1>1. \A k \in Jobs : Opened(k)' = Opened(k)
  BY DEF Opened, InWork, Shape, TypeOK
<1>2. w \in Opened(j)
  BY DEF Opened, InWork
<1>3. Recorded(j)' = Recorded(j) \union {w}
  BY <1>1, <1>2 DEF Recorded, Shape, TypeOK
<1>4. ASSUME NEW k \in Jobs, k # j  PROVE Recorded(k)' = Recorded(k)
  <2>1. w \notin Opened(k)
    BY <1>4 DEF Opened, InWork
  <2> QED
    BY <1>1, <2>1 DEF Recorded, Shape, TypeOK
<1> QED
  BY <1>1, <1>2, <1>3, <1>4 DEF open, settled

LEMMA Closing ==
  ASSUME Shape, NEW w \in Workers, NEW j \in Jobs, run[w].job = j, run[w].pc # "mark",
         Leave(w)
  PROVE  /\ w \in open[j]
         /\ (w \in settled[j]) <=> run[w].recorded
         /\ open' = [open EXCEPT ![j] = @ \ {w}]
         /\ settled' = [settled EXCEPT ![j] = @ \ {w}]
<1>1. run' = [run EXCEPT ![w] = Idle] /\ Idle.job = None
  BY DEF Leave, Idle
<1>2. w \in Opened(j)
  BY DEF Opened, InWork
<1>3. Opened(j)' = Opened(j) \ {w}
  BY <1>1, ConstantsAssumption DEF Opened, InWork, Shape, TypeOK
<1>4. ASSUME NEW k \in Jobs, k # j  PROVE Opened(k)' = Opened(k) /\ w \notin Opened(k)
  BY <1>1, <1>4, ConstantsAssumption DEF Opened, InWork, Shape, TypeOK
<1>5. Recorded(j)' = Recorded(j) \ {w}
  BY <1>1, <1>3 DEF Recorded, Shape, TypeOK
<1>6. ASSUME NEW k \in Jobs, k # j  PROVE Recorded(k)' = Recorded(k)
  BY <1>1, <1>4, <1>6 DEF Recorded, Shape, TypeOK
<1>7. (w \in Recorded(j)) <=> run[w].recorded
  BY <1>2 DEF Recorded
<1> QED
  BY <1>2, <1>3, <1>4, <1>5, <1>6, <1>7 DEF open, settled

\* An execution that ends before mark_running was never open.
LEMMA NeverOpened ==
  ASSUME Shape, NEW w \in Workers, run[w].pc = "mark", Leave(w)
  PROVE  open' = open /\ settled' = settled
<1>1. run' = [run EXCEPT ![w] = Idle] /\ Idle.job = None
  BY DEF Leave, Idle
<1>2. \A j \in Jobs : (Idle.job = j /\ Idle.pc # "mark") <=> (run[w].job = j /\ run[w].pc # "mark")
  BY <1>1, ConstantsAssumption
<1> QED
  BY <1>1, <1>2, SameOpen

-----------------------------------------------------------------------------
(* Every step maps to a step of the life cycle or to a stutter *)

LEMMA StutterMaps ==
  ASSUME UNCHANGED <<status, due, open, settled, orphaned>>
  PROVE  [Lifecycle!Next]_Lifecycle!vars
  BY DEF Lifecycle!vars, status, due, open, settled, Recorded

LEMMA PublishMaps ==
  ASSUME RInv, NEW j \in Jobs, api[j] # "none", due' = due \union {j},
         UNCHANGED <<status, open, settled, orphaned>>
  PROVE  Lifecycle!Next
<1>1. status[j] # "absent"
  BY DEF status, RInv, Tracked
<1>2. Lifecycle!Publish(j)
  BY <1>1 DEF Lifecycle!Publish, status, due, open, settled, Recorded
<1> QED
  BY <1>2 DEF Lifecycle!Next

\* A worker dies with an execution that it holds: the message is back.
LEMMA RequeueMaps ==
  ASSUME RInv, NEW w \in Workers, Active(w), Leave(w), Redeliver(run[w].job),
         UNCHANGED <<status, orphaned>>
  PROVE  Lifecycle!Next
<1>1. PICK j \in Jobs : j = run[w].job
  BY DEF RInv, IInv, Shape, Assigned
<1>2. Shape /\ api[j] # "none"
  <2>1. On(w, j)
    BY <1>1 DEF On
  <2> QED
    BY <2>1 DEF RInv, IInv, Delivery, Sound, Unpublished
<1>3. due' = due \union {j}
  <2>1. queue' = [queue EXCEPT ![j] = @ + 1] /\ run' = [run EXCEPT ![w] = Idle]
    BY <1>1 DEF Redeliver, Leave
  <2>2. Idle.pc # "mark"
    BY DEF Idle
  <2> QED
    BY <1>1, <1>2, <2>1, <2>2, Requeueing
<1>4. CASE run[w].pc = "mark"
  BY <1>2, <1>3, <1>4, NeverOpened, PublishMaps
<1>5. CASE run[w].pc # "mark"
  <2>1. /\ w \in open[j]
        /\ (w \in settled[j]) <=> run[w].recorded
        /\ open' = [open EXCEPT ![j] = @ \ {w}]
        /\ settled' = [settled EXCEPT ![j] = @ \ {w}]
    BY <1>1, <1>2, <1>5, Closing
  <2>2. CASE run[w].recorded
    <3>1. Lifecycle!Close(j, w)
      BY <1>3, <2>1, <2>2 DEF Lifecycle!Close, status, due, open, settled, Recorded
    <3> QED
      BY <3>1 DEF Lifecycle!Next
  <2>3. CASE ~run[w].recorded
    <3>1. settled' = settled
      <4>1. w \notin Recorded(j)
        BY <2>3 DEF Recorded
      <4> QED
        BY <2>1, <4>1 DEF settled
    <3>2. Lifecycle!CutShort(j, w)
      BY <1>3, <2>1, <2>3, <3>1 DEF Lifecycle!CutShort, status, due, open, settled, Recorded
    <3> QED
      BY <3>2 DEF Lifecycle!Next
  <2> QED
    BY <2>2, <2>3
<1> QED
  BY <1>4, <1>5

\* An execution ends and nothing is put back.
LEMMA LeaveMaps ==
  ASSUME RInv, NEW w \in Workers, Active(w), Leave(w), UNCHANGED <<status, queue>>,
         NEW b \in BOOLEAN, orphaned' = [orphaned EXCEPT ![run[w].job] = @ \/ b],
         run[w].recorded <=> ~b
  PROVE  Lifecycle!Next
<1>1. PICK j \in Jobs : j = run[w].job
  BY DEF RInv, IInv, Shape, Assigned
<1>2. orphaned \in [Jobs -> BOOLEAN] /\ Shape
  BY DEF RInv, IInv, Shape, TypeOK
<1>3. orphaned' = [orphaned EXCEPT ![j] = @ \/ b] /\ run' = [run EXCEPT ![w] = Idle]
  BY <1>1 DEF Leave
<1>4. b => orphaned' = [orphaned EXCEPT ![j] = TRUE]
  BY <1>2, <1>3
<1>5. ~b => UNCHANGED orphaned
  BY <1>2, <1>3
<1>6. CASE run[w].pc = "mark"
  <2>1. UNCHANGED <<status, open, settled>>
    BY <1>2, <1>6, NeverOpened
  <2>2. ~run[w].recorded
    <3>1. run[w] \in Runs
      BY DEF RInv, IInv, Shape, TypeOK
    <3> QED
      BY <1>6, <3>1 DEF RInv, IInv, Settling, RecordsInOrder, Runs
  <2>3. due' \in {due, due \ {j}}
    <3>1. Idle.pc # "mark"
      BY DEF Idle
    <3> QED
      BY <1>1, <1>2, <1>3, <1>6, <3>1, Undue
  <2>4. Lifecycle!GiveUp(j)
    BY <1>4, <2>1, <2>2, <2>3 DEF Lifecycle!GiveUp, status, due, open, settled, Recorded
  <2> QED
    BY <2>4 DEF Lifecycle!Next
<1>7. CASE run[w].pc # "mark"
  <2>1. /\ w \in open[j]
        /\ (w \in settled[j]) <=> run[w].recorded
        /\ open' = [open EXCEPT ![j] = @ \ {w}]
        /\ settled' = [settled EXCEPT ![j] = @ \ {w}]
    BY <1>1, <1>2, <1>7, Closing
  <2>2. UNCHANGED due
    <3>1. Idle.pc # "mark"
      BY DEF Idle
    <3> QED
      BY <1>2, <1>3, <1>7, <3>1, SameDue
  <2>3. CASE run[w].recorded
    <3>1. Lifecycle!Close(j, w)
      BY <1>5, <2>1, <2>2, <2>3 DEF Lifecycle!Close, status, due, open, settled, Recorded
    <3> QED
      BY <3>1 DEF Lifecycle!Next
  <2>4. CASE ~run[w].recorded
    <3>1. settled' = settled
      <4>1. w \notin Recorded(j)
        BY <2>4 DEF Recorded
      <4> QED
        BY <2>1, <4>1 DEF settled
    <3>2. Lifecycle!CutShort(j, w)
      BY <1>4, <2>1, <2>2, <2>4, <3>1 DEF Lifecycle!CutShort, status, due, open, settled, Recorded
    <3> QED
      BY <3>2 DEF Lifecycle!Next
  <2> QED
    BY <2>3, <2>4
<1> QED
  BY <1>6, <1>7

LEMMA CutShortMaps ==
  ASSUME RInv, NEW w \in Workers, Active(w), CutShort(w), UNCHANGED <<row, queue>>
  PROVE  Lifecycle!Next
<1> DEFINE b == ~run[w].recorded
<1>1. b \in BOOLEAN /\ (run[w].recorded <=> ~b)
  BY DEF RInv, IInv, Shape, TypeOK, Runs
<1>2. Leave(w) /\ orphaned' = [orphaned EXCEPT ![run[w].job] = @ \/ b]
  BY DEF CutShort
<1>3. UNCHANGED status
  BY DEF status
<1> HIDE DEF b
<1> QED
  BY <1>1, <1>2, <1>3, LeaveMaps

\* An execution that leaves its job and its record alone.
LEMMA MoveMaps ==
  ASSUME RInv, NEW w \in Workers, NEW r, run' = [run EXCEPT ![w] = r],
         r.job = run[w].job, r.recorded = run[w].recorded,
         r.pc # "mark", run[w].pc # "mark",
         UNCHANGED <<status, queue, orphaned>>
  PROVE  [Lifecycle!Next]_Lifecycle!vars
<1>1. Shape
  BY DEF RInv, IInv
<1>2. \A j \in Jobs : (r.job = j /\ r.pc # "mark") <=> (run[w].job = j /\ run[w].pc # "mark")
  OBVIOUS
<1>3. run[w].job \in Jobs /\ run[w].pc # "mark" => r.recorded = run[w].recorded
  OBVIOUS
<1>4. open' = open /\ settled' = settled
  BY <1>1, <1>2, <1>3, SameOpen
<1>5. due' = due
  BY <1>1, SameDue
<1> QED
  BY <1>4, <1>5, StutterMaps

LEMMA GotoMaps ==
  ASSUME RInv, NEW w \in Workers, NEW p, p # "mark", run[w].pc # "mark", Goto(w, p),
         UNCHANGED <<status, queue, orphaned>>
  PROVE  [Lifecycle!Next]_Lifecycle!vars
<1> DEFINE r == [run[w] EXCEPT !.pc = p]
<1>1. run[w] \in Runs
  BY DEF RInv, IInv, Shape, TypeOK
<1>2. r.job = run[w].job /\ r.recorded = run[w].recorded /\ r.pc = p
  BY <1>1 DEF Runs
<1>3. run' = [run EXCEPT ![w] = r]
  BY DEF Goto, RInv, IInv, Shape, TypeOK
<1> HIDE DEF r
<1> QED
  BY <1>2, <1>3, MoveMaps

LEMMA RecordMaps ==
  ASSUME RInv, NEW w \in Workers, Active(w), run[w].pc # "mark",
         NEW r, run' = [run EXCEPT ![w] = r], r.job = run[w].job, r.pc # "mark",
         r.recorded = TRUE,
         NEW o \in Lifecycle!Outcome, status' = [status EXCEPT ![run[w].job] = o],
         UNCHANGED <<queue, orphaned>>
  PROVE  [Lifecycle!Next]_Lifecycle!vars
<1>1. PICK j \in Jobs : j = run[w].job
  BY DEF RInv, IInv, Shape, Assigned
<1>2. /\ w \in open[j]
      /\ open' = open
      /\ settled' = [settled EXCEPT ![j] = @ \union {w}]
  BY <1>1, Recording DEF RInv, IInv
<1>3. status' = [status EXCEPT ![j] = o]
  BY <1>1
<1>4. due' = due
  BY SameDue DEF RInv, IInv
<1>5. Lifecycle!Record(j, w)
  BY <1>2, <1>3, <1>4 DEF Lifecycle!Record, status, due, open, settled, Recorded
<1> QED
  BY <1>5 DEF Lifecycle!Next

LEMMA StepMaps == RInv /\ [Next]_vars => [Lifecycle!Next]_Lifecycle!vars
<1> SUFFICES ASSUME RInv, [Next]_vars  PROVE [Lifecycle!Next]_Lifecycle!vars
  OBVIOUS
<1> USE DEF RInv, IInv
<1>1. ASSUME NEW j \in Jobs, CreateJob(j)  PROVE Lifecycle!Next
  <2>1. status[j] = "absent"
    BY <1>1 DEF CreateJob, status, Delivery, Sound, Unpublished
  <2>2. status' = [status EXCEPT ![j] = "queued"]
    <3>1. \A k \in Jobs : row'[k].status = IF k = j THEN "queued" ELSE row[k].status
      BY <1>1 DEF CreateJob, Shape, TypeOK, Rows
    <3> QED
      BY <3>1 DEF status
  <2>3. UNCHANGED <<due, open, settled, orphaned>>
    BY <1>1 DEF CreateJob, due, open, settled, Recorded, Opened, Awaited, InWork
  <2>4. Lifecycle!Create(j)
    BY <2>1, <2>2, <2>3 DEF Lifecycle!Create, status, due, open, settled, Recorded
  <2> QED
    BY <2>4 DEF Lifecycle!Next
<1>2. ASSUME NEW j \in Jobs, EnqueueFails(j)  PROVE Lifecycle!Next
  <2>1. UNCHANGED <<status, due, open, settled>>
    BY <1>2 DEF EnqueueFails, status, due, open, settled, Recorded, Opened, Awaited, InWork
  <2>2. Lifecycle!GiveUp(j)
    BY <1>2, <2>1 DEF EnqueueFails, Lifecycle!GiveUp, status, due, open, settled, Recorded
  <2> QED
    BY <2>2 DEF Lifecycle!Next
\* Steps that concern neither the row nor an execution.
<1>3. ASSUME UNCHANGED <<row, queue, run, orphaned>>  PROVE [Lifecycle!Next]_Lifecycle!vars
  <2>1. UNCHANGED <<status, due, open, settled>>
    BY <1>3 DEF status, due, open, settled, Recorded, Opened, Awaited, InWork
  <2> QED
    BY <1>3, <2>1, StutterMaps
<1>4. ASSUME NEW j \in Jobs, EnqueueJob(j)  PROVE Lifecycle!Next
  <2>1. UNCHANGED <<status, open, settled, orphaned>>
    BY <1>4 DEF EnqueueJob, status, open, settled, Recorded, Opened, InWork
  <2>2. due' = due \union {j}
    <3>1. Awaited(j)'
      BY <1>4 DEF EnqueueJob, Awaited, Shape, TypeOK
    <3>2. \A k \in Jobs : k # j => (Awaited(k)' <=> Awaited(k))
      BY <1>4 DEF EnqueueJob, Awaited, InWork, Shape, TypeOK
    <3> QED
      BY <3>1, <3>2 DEF due
  <2>3. api[j] # "none"
    BY <1>4 DEF EnqueueJob
  <2> QED
    BY <2>1, <2>2, <2>3, PublishMaps
<1>5. ASSUME NEW w \in Workers, NEW j \in Jobs, Deliver(w, j)
      PROVE  [Lifecycle!Next]_Lifecycle!vars
  <2> DEFINE r == [Idle EXCEPT !.job = j, !.pc = "mark", !.held = TRUE]
  <2>1. r.job = j /\ r.pc = "mark" /\ run' = [run EXCEPT ![w] = r]
    BY <1>5 DEF Deliver, Idle
  <2>2. run[w].job \notin Jobs
    BY <1>5, ConstantsAssumption DEF Deliver, Tracked
  <2> HIDE DEF r
  <2>4. UNCHANGED due
    BY <1>5, <2>1, <2>2, Taking DEF Deliver
  <2>5. UNCHANGED <<open, settled>>
    BY <2>1, <2>2, Delivering
  <2>6. UNCHANGED <<status, orphaned>>
    BY <1>5 DEF Deliver, status
  <2> QED
    BY <2>4, <2>5, <2>6, StutterMaps
<1>6. ASSUME NEW w \in Workers, BrokerLost(w)  PROVE Lifecycle!Next
  <2> DEFINE r == [run[w] EXCEPT !.held = FALSE]
  <2>1. run[w] \in Runs
    BY DEF Shape, TypeOK
  <2>2. r.job = run[w].job /\ r.pc = run[w].pc /\ r.recorded = run[w].recorded
    BY <2>1 DEF Runs
  <2>3. run' = [run EXCEPT ![w] = r]
    BY <1>6 DEF BrokerLost, Shape, TypeOK
  <2> HIDE DEF r
  <2>4. \A k \in Jobs : (r.job = k /\ r.pc # "mark") <=> (run[w].job = k /\ run[w].pc # "mark")
    BY <2>2
  <2>5. run[w].job \in Jobs /\ run[w].pc # "mark" => r.recorded = run[w].recorded
    BY <2>2
  <2>6. Shape
    OBVIOUS
  <2>7. open' = open /\ settled' = settled
    BY <2>3, <2>4, <2>5, <2>6, SameOpen
  <2>8. UNCHANGED <<status, orphaned>>
    BY <1>6 DEF BrokerLost, status
  <2>9. PICK j \in Jobs : j = run[w].job
    BY <1>6 DEF BrokerLost, Shape, Assigned
  <2>10. due' = due \union {j}
    BY <1>6, <2>6, <2>9, LostRequeues
  <2>11. api[j] # "none"
    <3>1. On(w, j)
      BY <1>6, <2>9 DEF BrokerLost, On
    <3> QED
      BY <3>1 DEF Delivery, Sound, Unpublished
  <2> QED
    BY <2>7, <2>8, <2>10, <2>11, PublishMaps
<1>8. ASSUME NEW w \in Workers, WorkerCrash(w)  PROVE Lifecycle!Next
  <2>1. CASE run[w].held
    <3>1. Redeliver(run[w].job) /\ Leave(w) /\ Active(w) /\ UNCHANGED <<row, orphaned>>
      BY <1>8, <2>1 DEF WorkerCrash
    <3>2. UNCHANGED status
      BY <3>1 DEF status
    <3> QED
      BY <3>1, <3>2, RequeueMaps
  <2>2. CASE ~run[w].held
    BY <1>8, <2>2, CutShortMaps DEF WorkerCrash
  <2> QED
    BY <2>1, <2>2
<1>9. ASSUME NEW w \in Workers,
             ChildLost(w) \/ HardLimit(w) \/ StartFails(w) \/ RecordFails(w)
      PROVE  Lifecycle!Next
  BY <1>9, CutShortMaps DEF ChildLost, HardLimit, StartFails, RecordFails, Active
<1>10. ASSUME NEW w \in Workers, Acknowledge(w)  PROVE Lifecycle!Next
  <2>1. Active(w) /\ Leave(w) /\ UNCHANGED <<status, queue, orphaned>>
    BY <1>10 DEF Acknowledge, Active, status
  <2>2. run[w].recorded = TRUE
    BY <1>10 DEF Acknowledge, Settling, RecordsInOrder, Shape, TypeOK, Runs
  <2>3. orphaned' = [orphaned EXCEPT ![run[w].job] = @ \/ FALSE]
    BY <2>1 DEF Shape, TypeOK
  <2> QED
    BY <2>1, <2>2, <2>3, LeaveMaps
<1>11. ASSUME NEW w \in Workers, NEW p, p # "mark", run[w].pc # "mark", Goto(w, p),
              UNCHANGED <<row, queue, orphaned>>
       PROVE  [Lifecycle!Next]_Lifecycle!vars
  <2>1. UNCHANGED status
    BY <1>11 DEF status
  <2> QED
    BY <1>11, <2>1, GotoMaps
<1>12. ASSUME NEW w \in Workers, SoftLimit(w)  PROVE [Lifecycle!Next]_Lifecycle!vars
  <2>1. CASE CutShort(w)
    BY <1>12, <2>1, CutShortMaps DEF SoftLimit
  <2>2. CASE run[w].pc \in {"enter", "work", "report"} /\ Goto(w, "fail") /\ UNCHANGED orphaned
    BY <1>11, <1>12, <2>2 DEF SoftLimit
  <2> QED
    BY <1>12, <2>1, <2>2 DEF SoftLimit, Goto
<1>13. ASSUME NEW w \in Workers, MarkRunning(w)  PROVE Lifecycle!Next
  <2> DEFINE r == [run[w] EXCEPT !.pc = "load"]
  <2>1. PICK j \in Jobs : j = run[w].job
    BY <1>13 DEF MarkRunning, Active, Shape, Assigned
  <2>2. run[w] \in Runs
    BY DEF Shape, TypeOK
  <2>3. run[w].recorded = FALSE
    BY <1>13, <2>2 DEF MarkRunning, Settling, RecordsInOrder, Runs
  <2>4. r.job = j /\ r.pc = "load" /\ r.recorded = FALSE
    BY <2>1, <2>2, <2>3 DEF Runs
  <2>5. run' = [run EXCEPT ![w] = r]
    BY <1>13 DEF MarkRunning, Goto, Shape, TypeOK
  <2> HIDE DEF r
  <2>6. /\ w \notin open[j]
        /\ open' = [open EXCEPT ![j] = @ \union {w}]
        /\ settled' = settled
    BY <1>13, <2>1, <2>4, <2>5, Opening DEF MarkRunning
  <2>7. status[j] # "absent"
    <3>1. On(w, j)
      BY <1>13, <2>1 DEF MarkRunning, On, Active
    <3>2. api[j] = "accepted"
      BY <3>1 DEF Delivery, Sound, Unpublished
    <3> QED
      BY <3>2 DEF status, Tracked
  <2>8. status' = [status EXCEPT ![j] = "running"] /\ UNCHANGED orphaned
    BY <1>13, <2>1 DEF MarkRunning, status, Shape, TypeOK, Rows
  <2>9. j \in due /\ due' \in {due, due \ {j}}
    BY <1>13, <2>1, <2>4, <2>5, Undue DEF MarkRunning
  <2>11. Lifecycle!Open(j, w)
    BY <2>6, <2>7, <2>8, <2>9 DEF Lifecycle!Open, status, due, open, settled, Recorded
  <2> QED
    BY <2>11 DEF Lifecycle!Next
<1>14. ASSUME NEW w \in Workers, LoadJob(w) \/ Report(w) \/ PushDeadLetter(w)
       PROVE  [Lifecycle!Next]_Lifecycle!vars
  <2>1. run[w].pc # "mark" /\ UNCHANGED <<row, queue, orphaned>>
    BY <1>14 DEF LoadJob, Report, PushDeadLetter
  <2>2. Goto(w, "enter") \/ Goto(w, "ack")
    BY <1>14 DEF LoadJob, Report, PushDeadLetter
  <2> QED
    BY <1>11, <2>1, <2>2
<1>15. ASSUME NEW w \in Workers, EnterNode(w)  PROVE [Lifecycle!Next]_Lifecycle!vars
  <2>1. run[w].pc # "mark" /\ Goto(w, "work") /\ UNCHANGED <<queue, orphaned>>
    BY <1>15 DEF EnterNode
  <2>2. UNCHANGED status
    BY <1>15 DEF EnterNode, status, Shape, TypeOK, Rows
  <2> QED
    BY <2>1, <2>2, GotoMaps
<1>16. ASSUME NEW w \in Workers, NodeSucceeds(w)  PROVE [Lifecycle!Next]_Lifecycle!vars
  <2> DEFINE s == run[w].stage
             r == [run[w] EXCEPT !.have = @ \union {s}, !.stage = NextStage(s),
                                 !.attempt = 1, !.pc = "enter"]
  <2>1. run[w] \in Runs
    BY DEF Shape, TypeOK
  <2>2. r.job = run[w].job /\ r.pc # "mark" /\ r.recorded = run[w].recorded
    BY <2>1 DEF Runs
  <2>3. run' = [run EXCEPT ![w] = r] /\ run[w].pc # "mark"
    BY <1>16 DEF NodeSucceeds, Shape, TypeOK
  <2>4. UNCHANGED <<status, queue, orphaned>>
    BY <1>16 DEF NodeSucceeds, status
  <2> HIDE DEF r
  <2> QED
    BY <2>2, <2>3, <2>4, MoveMaps
<1>17. ASSUME NEW w \in Workers, NEW t \in BOOLEAN, NodeRaises(w, t)
       PROVE  [Lifecycle!Next]_Lifecycle!vars
  <2>1. CASE run' = [run EXCEPT ![w].attempt = @ + 1, ![w].pc = "enter"]
    <3> DEFINE r == [run[w] EXCEPT !.attempt = @ + 1, !.pc = "enter"]
    <3>1. run[w] \in Runs
      BY DEF Shape, TypeOK
    <3>2. r.job = run[w].job /\ r.pc # "mark" /\ r.recorded = run[w].recorded
      BY <3>1 DEF Runs
    <3>3. run' = [run EXCEPT ![w] = r] /\ run[w].pc # "mark"
      BY <1>17, <2>1 DEF NodeRaises, Shape, TypeOK
    <3>4. UNCHANGED <<status, queue, orphaned>>
      BY <1>17 DEF NodeRaises, status
    <3> HIDE DEF r
    <3> QED
      BY <3>2, <3>3, <3>4, MoveMaps
  <2>2. CASE Goto(w, "fail")
    BY <1>11, <1>17, <2>2 DEF NodeRaises
  <2> QED
    BY <1>17, <2>1, <2>2 DEF NodeRaises
<1>18. ASSUME NEW w \in Workers, Complete(w)  PROVE [Lifecycle!Next]_Lifecycle!vars
  <2> DEFINE r == [run[w] EXCEPT !.pc = "report", !.recorded = TRUE]
  <2>1. run[w] \in Runs /\ Active(w) /\ run[w].pc # "mark"
    BY <1>18 DEF Complete, Active, Shape, TypeOK
  <2>2. r.job = run[w].job /\ r.pc # "mark" /\ r.recorded = TRUE
    BY <2>1 DEF Runs
  <2>3. run' = [run EXCEPT ![w] = r] /\ UNCHANGED <<queue, orphaned>>
    BY <1>18 DEF Complete, Shape, TypeOK
  <2>4. run[w].job \in Jobs
    BY <2>1 DEF Shape, Assigned
  <2>5. status' = [status EXCEPT ![run[w].job] = "completed"]
    <3>1. \A k \in Jobs : row'[k].status = IF k = run[w].job THEN "completed" ELSE row[k].status
      BY <1>18 DEF Complete, Shape, TypeOK, Rows
    <3> QED
      BY <2>4, <3>1 DEF status
  <2>6. "completed" \in Lifecycle!Outcome
    BY DEF Lifecycle!Outcome
  <2> HIDE DEF r
  <2> QED
    BY <2>1, <2>2, <2>3, <2>5, <2>6, RecordMaps
<1>19. ASSUME NEW w \in Workers, RecordFailure(w)  PROVE [Lifecycle!Next]_Lifecycle!vars
  <2> DEFINE r == [run[w] EXCEPT !.pc = "dlq", !.recorded = TRUE]
  <2>1. run[w] \in Runs /\ Active(w) /\ run[w].pc # "mark"
    BY <1>19 DEF RecordFailure, Active, Shape, TypeOK
  <2>2. r.job = run[w].job /\ r.pc # "mark" /\ r.recorded = TRUE
    BY <2>1 DEF Runs
  <2>3. run' = [run EXCEPT ![w] = r] /\ UNCHANGED <<queue, orphaned>>
    BY <1>19 DEF RecordFailure, Shape, TypeOK
  <2>4. run[w].job \in Jobs
    BY <2>1 DEF Shape, Assigned
  <2>5. status' = [status EXCEPT ![run[w].job] = "failed"]
    <3>1. \A k \in Jobs : row'[k].status = IF k = run[w].job THEN "failed" ELSE row[k].status
      BY <1>19 DEF RecordFailure, Shape, TypeOK, Rows
    <3> QED
      BY <2>4, <3>1 DEF status
  <2>6. "failed" \in Lifecycle!Outcome
    BY DEF Lifecycle!Outcome
  <2> HIDE DEF r
  <2> QED
    BY <2>1, <2>2, <2>3, <2>5, <2>6, RecordMaps
<1>20. ASSUME NEW s \in Streams, NEW j \in Jobs, OpenStream(s, j)
       PROVE  [Lifecycle!Next]_Lifecycle!vars
  BY <1>3, <1>20 DEF OpenStream
<1>21. ASSUME NEW s \in Streams, Poll(s) \/ DropStream(s)
       PROVE  [Lifecycle!Next]_Lifecycle!vars
  BY <1>3, <1>21 DEF Poll, DropStream
<1>22. CASE UNCHANGED vars
  BY <1>3, <1>22 DEF vars
<1> QED
  BY <1>1, <1>2, <1>4, <1>5, <1>6, <1>8, <1>9, <1>10, <1>12, <1>13, <1>14, <1>15,
     <1>16, <1>17, <1>18, <1>19, <1>20, <1>21, <1>22
     DEF Next, RunStep, Fault

\* The pipeline, the broker and the workers implement the life cycle that the
\* job table promises (ImplementsLifecycle).
THEOREM Refinement == Spec => ImplementsLifecycle
<1>1. Init => Lifecycle!Init
  <2> SUFFICES ASSUME Init  PROVE Lifecycle!Init
    OBVIOUS
  <2>1. \A j \in Jobs : Opened(j) = {} /\ ~Awaited(j)
    BY ConstantsAssumption DEF Init, Opened, Awaited, InWork, Idle
  <2> QED
    BY <2>1 DEF Init, Lifecycle!Init
<1> QED
  BY <1>1, RInvInductive, StepMaps, PTL DEF Spec, ImplementsLifecycle, Lifecycle!Spec

-----------------------------------------------------------------------------
(* What the life cycle promises of a running job *)

Running(j) == status[j] = "running" => j \in due \/ open[j] \ settled[j] # {} \/ orphaned[j]

LEMMA AccountedIsRunning == Lifecycle!RunningIsAccountedFor <=> \A j \in Jobs : Running(j)
  BY DEF Lifecycle!RunningIsAccountedFor, Running, status, due, open, settled, Recorded

LEMMA AccountedStep ==
  ASSUME Shape, \A j \in Jobs : Running(j), [Lifecycle!Next]_Lifecycle!vars
  PROVE  \A j \in Jobs : Running(j)'
<1> USE DEF status, due, open, settled, Recorded
<1>1. /\ \A j \in Jobs : settled[j] \subseteq open[j]
      /\ orphaned \in [Jobs -> BOOLEAN]
  BY DEF Shape, TypeOK
<1>2. ASSUME NEW j \in Jobs, Lifecycle!Create(j)
      PROVE  status' = [status EXCEPT ![j] = "queued"] /\ UNCHANGED <<due, open, settled, orphaned>>
  BY <1>2 DEF Lifecycle!Create
<1>3. ASSUME NEW j \in Jobs, Lifecycle!Publish(j)
      PROVE  due' = due \union {j} /\ UNCHANGED <<status, open, settled, orphaned>>
  BY <1>3 DEF Lifecycle!Publish
<1>4. ASSUME NEW j \in Jobs, Lifecycle!GiveUp(j)
      PROVE  /\ orphaned' = [orphaned EXCEPT ![j] = TRUE]
             /\ due \ {j} \subseteq due'
             /\ UNCHANGED <<status, open, settled>>
  BY <1>4 DEF Lifecycle!GiveUp
<1>5. ASSUME NEW j \in Jobs, NEW e \in Workers, Lifecycle!Open(j, e)
      PROVE  /\ due \ {j} \subseteq due' /\ e \notin open[j]
             /\ status' = [status EXCEPT ![j] = "running"]
             /\ open' = [open EXCEPT ![j] = @ \union {e}]
             /\ UNCHANGED <<settled, orphaned>>
  BY <1>5 DEF Lifecycle!Open
<1>6. ASSUME NEW j \in Jobs, NEW e \in Workers, Lifecycle!Record(j, e)
      PROVE  /\ \E o \in Lifecycle!Outcome : status' = [status EXCEPT ![j] = o]
             /\ settled' = [settled EXCEPT ![j] = @ \union {e}]
             /\ UNCHANGED <<due, open, orphaned>>
  BY <1>6 DEF Lifecycle!Record
<1>7. ASSUME NEW j \in Jobs, NEW e \in Workers, Lifecycle!Close(j, e)
      PROVE  /\ e \in settled[j] /\ due \subseteq due'
             /\ open' = [open EXCEPT ![j] = @ \ {e}]
             /\ settled' = [settled EXCEPT ![j] = @ \ {e}]
             /\ UNCHANGED <<status, orphaned>>
  BY <1>7 DEF Lifecycle!Close
<1>8. ASSUME NEW j \in Jobs, NEW e \in Workers, Lifecycle!CutShort(j, e)
      PROVE  /\ open' = [open EXCEPT ![j] = @ \ {e}]
             /\ \/ due' = due \union {j} /\ UNCHANGED orphaned
                \/ orphaned' = [orphaned EXCEPT ![j] = TRUE] /\ UNCHANGED due
             /\ UNCHANGED <<status, settled>>
  BY <1>8 DEF Lifecycle!CutShort
<1>9. Lifecycle!vars' = Lifecycle!vars => UNCHANGED <<status, due, open, settled, orphaned>>
  BY DEF Lifecycle!vars
<1>10. DOMAIN status = Jobs /\ DOMAIN open = Jobs /\ DOMAIN settled = Jobs
       /\ status = [j \in Jobs |-> status[j]] /\ open = [j \in Jobs |-> open[j]]
       /\ settled = [j \in Jobs |-> settled[j]]
  OBVIOUS
<1> HIDE DEF status, due, open, settled, Recorded
<1> SUFFICES ASSUME NEW k \in Jobs  PROVE Running(k)'
  OBVIOUS
<1>11. CASE Lifecycle!vars' = Lifecycle!vars
  BY <1>9, <1>11 DEF Running
<1>12. ASSUME NEW j \in Jobs, Lifecycle!Create(j) \/ Lifecycle!Publish(j) \/ Lifecycle!GiveUp(j)
       PROVE  Running(k)'
  BY <1>1, <1>2, <1>3, <1>4, <1>10, <1>12 DEF Running
<1>13. ASSUME NEW j \in Jobs, NEW e \in Workers, Lifecycle!Open(j, e)  PROVE Running(k)'
  BY <1>1, <1>5, <1>10, <1>13 DEF Running
<1>14. ASSUME NEW j \in Jobs, NEW e \in Workers, Lifecycle!Record(j, e)  PROVE Running(k)'
  BY <1>6, <1>10, <1>14 DEF Running, Lifecycle!Outcome
<1>15. ASSUME NEW j \in Jobs, NEW e \in Workers, Lifecycle!Close(j, e)  PROVE Running(k)'
  BY <1>7, <1>10, <1>15 DEF Running
<1>16. ASSUME NEW j \in Jobs, NEW e \in Workers, Lifecycle!CutShort(j, e)  PROVE Running(k)'
  BY <1>1, <1>8, <1>10, <1>16 DEF Running
<1> QED
  BY <1>11, <1>12, <1>13, <1>14, <1>15, <1>16 DEF Lifecycle!Next

\* A job whose row says that it is running is being worked on by an execution
\* without an outcome, waits for one that has still to mark it running, or had
\* one cut short: the row is never left behind by an execution that ended well
\* or by a redelivery (RunningIsAccountedFor of the life cycle).
THEOREM RunningAccounted == Spec => []Lifecycle!RunningIsAccountedFor
<1> DEFINE Acc == RInv /\ \A j \in Jobs : Running(j)
<1>1. Init => Acc
  <2>1. Init => \A j \in Jobs : Running(j)
    BY DEF Init, Running, status
  <2> QED
    BY <2>1, RInvInductive
<1>2. Acc /\ [Next]_vars => Acc'
  <2> SUFFICES ASSUME Acc, [Next]_vars  PROVE Acc'
    OBVIOUS
  <2>1. Shape /\ RInv'
    BY RInvInductive DEF RInv, IInv
  <2>2. [Lifecycle!Next]_Lifecycle!vars
    BY StepMaps
  <2>3. \A j \in Jobs : Running(j)'
    BY <2>1, <2>2, AccountedStep
  <2> QED
    BY <2>1, <2>3
<1>3. Acc => Lifecycle!RunningIsAccountedFor
  BY AccountedIsRunning
<1> QED
  BY <1>1, <1>2, <1>3, PTL DEF Spec
=============================================================================
