-------------------------- MODULE VideoJobsProofs --------------------------
(***************************************************************************)
(* Theorems about VideoJobs for any sets of jobs, workers and streams, any *)
(* retry limit and any bound on redeliveries.                              *)
(***************************************************************************)
EXTENDS VideoJobs, FiniteSetTheorems, TLAPS

\* A worker that is not idle works on a job, and a stream that was opened
\* follows one.
Assigned ==
    /\ \A w \in Workers : Active(w) => run[w].job \in Jobs
    /\ \A s \in Streams : stream[s].phase # "idle" => stream[s].job \in Jobs

Shape == TypeOK /\ Assigned

-----------------------------------------------------------------------------
\* The literals that the actions write belong to the sets they are typed by.
LEMMA Literals ==
    /\ {"absent", "queued", "running", "completed", "failed"} \subseteq Status
    /\ {"script", "tts", "avatar", "store"} \subseteq Stages
    /\ Produced \subseteq Stages
    /\ {"idle", "mark", "load", "enter", "work", "report", "fail", "dlq", "ack"} \subseteq Pcs
    /\ \A s \in Produced : NextStage(s) \in Stages
    /\ 1 \in 1 .. MaxAttempts
    /\ \A a \in 1 .. MaxAttempts : a < MaxAttempts => a + 1 \in 1 .. MaxAttempts
  BY ConstantsAssumption DEF Status, Terminal, Stages, Produced, Pcs, NextStage

LEMMA IdleIsRun == Idle \in Runs
  BY Literals DEF Idle, Runs

LEMMA ShapeInit == Init => Shape
<1> SUFFICES ASSUME Init  PROVE Shape
  OBVIOUS
<1>1. row \in [Jobs -> Rows]
  BY Literals DEF Init, Rows
<1>2. run \in [Workers -> Runs]
  BY IdleIsRun DEF Init
<1>3. stream \in [Streams -> [job : Jobs \union {None},
                             phase : {"idle", "open", "closed", "dropped"},
                             last : Status]]
  BY Literals DEF Init
<1>4. Assigned
  BY DEF Init, Assigned, Active, Idle
<1> QED
  BY <1>1, <1>2, <1>3, <1>4 DEF Init, Shape, TypeOK

\* Executions and streams keep their shape when one execution moves on ...
LEMMA MovedKeepsShape ==
  ASSUME Shape, NEW w \in Workers, Active(w),
         NEW r \in Runs, r.job = run[w].job,
         run' = [run EXCEPT ![w] = r],
         UNCHANGED stream
  PROVE  run' \in [Workers -> Runs] /\ Assigned'
  BY DEF Shape, TypeOK, Assigned, Active

LEMMA GotoKeepsShape ==
  ASSUME Shape, NEW w \in Workers, Active(w), NEW p \in Pcs, Goto(w, p),
         UNCHANGED stream
  PROVE  run' \in [Workers -> Runs] /\ Assigned'
<1> DEFINE r == [run[w] EXCEPT !.pc = p]
<1>1. r \in Runs /\ r.job = run[w].job
  BY DEF Shape, TypeOK, Runs
<1>2. run' = [run EXCEPT ![w] = r]
  BY DEF Goto, Shape, TypeOK
<1> QED
  BY <1>1, <1>2, MovedKeepsShape

\* ... or ends.
LEMMA LeaveKeepsShape ==
  ASSUME Shape, NEW w \in Workers, Leave(w), UNCHANGED stream
  PROVE  run' \in [Workers -> Runs] /\ Assigned'
  BY IdleIsRun DEF Shape, TypeOK, Assigned, Active, Leave, Idle

LEMMA CutShortKeepsShape ==
  ASSUME Shape, NEW w \in Workers, CutShort(w), UNCHANGED stream
  PROVE  run' \in [Workers -> Runs] /\ Assigned' /\ orphaned' \in [Jobs -> BOOLEAN]
<1>1. run' \in [Workers -> Runs] /\ Assigned'
  BY LeaveKeepsShape DEF CutShort
<1>2. run[w].recorded \in BOOLEAN
  BY DEF Shape, TypeOK, Runs
<1>3. orphaned' \in [Jobs -> BOOLEAN]
  BY <1>2 DEF CutShort, Shape, TypeOK
<1> QED
  BY <1>1, <1>3

LEMMA RedeliverKeepsCounts ==
  ASSUME Shape, NEW j \in Jobs, Redeliver(j)
  PROVE  queue' \in [Jobs -> Nat] /\ redelivered' \in [Jobs -> Nat]
  BY DEF Shape, TypeOK, Redeliver

\* The row of a job takes another value.
LEMMA RowKeepsShape ==
  ASSUME Shape, NEW j \in Jobs, NEW y \in Rows, row' = [row EXCEPT ![j] = y]
  PROVE  row' \in [Jobs -> Rows]
  BY DEF Shape, TypeOK

LEMMA ExecutionIsRun ==
  ASSUME Shape, NEW w \in Workers
  PROVE  run[w] \in Runs
  BY DEF Shape, TypeOK

LEMMA RowOfExecution ==
  ASSUME Shape, NEW w \in Workers, Active(w)
  PROVE  run[w].job \in Jobs /\ row[run[w].job] \in Rows
  BY DEF Shape, TypeOK, Assigned

LEMMA ShapeStep == Shape /\ [Next]_vars => Shape'
<1> SUFFICES ASSUME Shape, [Next]_vars  PROVE Shape'
  OBVIOUS
<1>1. ASSUME NEW j \in Jobs, CreateJob(j)  PROVE Shape'
  <2> DEFINE y == [row[j] EXCEPT !.status = "queued"]
  <2>1. row[j] \in Rows
    BY DEF Shape, TypeOK
  <2>2. y \in Rows
    BY <2>1, Literals DEF Rows
  <2>3. row' = [row EXCEPT ![j] = y]
    BY <1>1 DEF CreateJob, Shape, TypeOK
  <2> HIDE DEF y
  <2>4. row' \in [Jobs -> Rows]
    BY <2>2, <2>3, RowKeepsShape
  <2>5. api' \in [Jobs -> {"none", "created", "accepted", "refused"}]
    BY <1>1 DEF CreateJob, Shape, TypeOK
  <2> QED
    BY <1>1, <2>4, <2>5 DEF CreateJob, Shape, TypeOK, Assigned, Active
<1>2. ASSUME NEW j \in Jobs, EnqueueJob(j)  PROVE Shape'
  BY <1>2 DEF EnqueueJob, Shape, TypeOK, Assigned, Active
<1>3. ASSUME NEW j \in Jobs, EnqueueFails(j)  PROVE Shape'
  BY <1>3 DEF EnqueueFails, Shape, TypeOK, Assigned, Active
<1>4. ASSUME NEW w \in Workers, NEW j \in Jobs, Deliver(w, j)  PROVE Shape'
  <2> DEFINE r == [Idle EXCEPT !.job = j, !.pc = "mark", !.held = TRUE]
  <2>1. r \in Runs /\ r.job = j
    BY Literals DEF Runs, Idle
  <2>2. run' \in [Workers -> Runs] /\ Assigned'
    BY <1>4, <2>1 DEF Deliver, Shape, TypeOK, Assigned, Active
  <2>3. queue' \in [Jobs -> Nat]
    BY <1>4 DEF Deliver, Shape, TypeOK
  <2> QED
    BY <1>4, <2>2, <2>3 DEF Deliver, Shape, TypeOK
<1>5. ASSUME NEW w \in Workers, BrokerLost(w)  PROVE Shape'
  <2> DEFINE r == [run[w] EXCEPT !.held = FALSE]
  <2>1. r \in Runs /\ r.job = run[w].job
    BY ExecutionIsRun DEF Runs
  <2>2. run' = [run EXCEPT ![w] = r]
    BY <1>5 DEF BrokerLost, Shape, TypeOK
  <2>3. run' \in [Workers -> Runs] /\ Assigned'
    BY <1>5, <2>1, <2>2, MovedKeepsShape DEF BrokerLost
  <2>4. queue' \in [Jobs -> Nat] /\ redelivered' \in [Jobs -> Nat]
    BY <1>5, RedeliverKeepsCounts DEF BrokerLost, Shape, Assigned
  <2> QED
    BY <1>5, <2>3, <2>4 DEF BrokerLost, Shape, TypeOK
<1>6. ASSUME NEW w \in Workers, WorkerCrash(w)  PROVE Shape'
  <2>1. run[w].job \in Jobs
    BY <1>6 DEF WorkerCrash, Shape, Assigned
  <2>2. CASE run[w].held
    <3>1. run' \in [Workers -> Runs] /\ Assigned'
      BY <1>6, <2>2, LeaveKeepsShape DEF WorkerCrash
    <3>2. queue' \in [Jobs -> Nat] /\ redelivered' \in [Jobs -> Nat]
      BY <1>6, <2>1, <2>2, RedeliverKeepsCounts DEF WorkerCrash
    <3> QED
      BY <1>6, <2>2, <3>1, <3>2 DEF WorkerCrash, Shape, TypeOK
  <2>3. CASE ~run[w].held
    BY <1>6, <2>3, CutShortKeepsShape DEF WorkerCrash, Shape, TypeOK
  <2> QED
    BY <2>2, <2>3
<1>7. ASSUME NEW w \in Workers,
             ChildLost(w) \/ HardLimit(w) \/ StartFails(w) \/ RecordFails(w)
      PROVE Shape'
  BY <1>7, CutShortKeepsShape
     DEF ChildLost, HardLimit, StartFails, RecordFails, Shape, TypeOK
<1>8. ASSUME NEW w \in Workers, SoftLimit(w)  PROVE Shape'
  <2>1. CASE CutShort(w)
    BY <1>8, <2>1, CutShortKeepsShape DEF SoftLimit, Shape, TypeOK
  <2>2. CASE Goto(w, "fail") /\ UNCHANGED orphaned
    BY <1>8, <2>2, GotoKeepsShape, Literals DEF SoftLimit, Shape, TypeOK
  <2> QED
    BY <1>8, <2>1, <2>2 DEF SoftLimit, Goto
<1>9. ASSUME NEW w \in Workers, MarkRunning(w)  PROVE Shape'
  <2>1. run' \in [Workers -> Runs] /\ Assigned'
    BY <1>9, GotoKeepsShape, Literals DEF MarkRunning, Active
  <2>2. row' \in [Jobs -> Rows]
    <3> DEFINE y == [row[run[w].job] EXCEPT !.status = "running"]
    <3>1. run[w].job \in Jobs /\ row[run[w].job] \in Rows
      BY <1>9, RowOfExecution DEF MarkRunning, Active
    <3>2. y \in Rows
      BY <3>1, Literals DEF Rows
    <3>3. row' = [row EXCEPT ![run[w].job] = y]
      BY <1>9 DEF MarkRunning, Shape, TypeOK
    <3> HIDE DEF y
    <3> QED
      BY <3>1, <3>2, <3>3, RowKeepsShape
  <2> QED
    BY <1>9, <2>1, <2>2 DEF MarkRunning, Shape, TypeOK
<1>10. ASSUME NEW w \in Workers, LoadJob(w) \/ Report(w)  PROVE Shape'
  <2>1. run' \in [Workers -> Runs] /\ Assigned'
    BY <1>10, GotoKeepsShape, Literals DEF LoadJob, Report, Active
  <2> QED
    BY <1>10, <2>1 DEF LoadJob, Report, Shape, TypeOK
<1>11. ASSUME NEW w \in Workers, EnterNode(w)  PROVE Shape'
  <2>1. run' \in [Workers -> Runs] /\ Assigned'
    BY <1>11, GotoKeepsShape, Literals DEF EnterNode, Active
  <2>2. run[w].stage \in Stages
    BY DEF Shape, TypeOK, Runs
  <2>3. row' \in [Jobs -> Rows]
    <3> DEFINE y == [row[run[w].job] EXCEPT !.stage = run[w].stage]
    <3>1. run[w].job \in Jobs /\ row[run[w].job] \in Rows
      BY <1>11, RowOfExecution DEF EnterNode, Active
    <3>2. y \in Rows
      BY <2>2, <3>1 DEF Rows
    <3>3. row' = [row EXCEPT ![run[w].job] = y]
      BY <1>11 DEF EnterNode, Shape, TypeOK
    <3> HIDE DEF y
    <3> QED
      BY <3>1, <3>2, <3>3, RowKeepsShape
  <2>4. renders' \in [Jobs -> Nat]
    <3> DEFINE j == run[w].job
               n == IF run[w].stage = "avatar" THEN renders[j] + 1 ELSE renders[j]
    <3>1. n \in Nat
      BY <1>11 DEF EnterNode, Active, Shape, Assigned, TypeOK
    <3>2. renders' = [renders EXCEPT ![j] = n]
      BY <1>11 DEF EnterNode, Shape, TypeOK
    <3> QED
      BY <3>1, <3>2 DEF Shape, TypeOK
  <2> QED
    BY <1>11, <2>1, <2>3, <2>4 DEF EnterNode, Shape, TypeOK
<1>12. ASSUME NEW w \in Workers, NodeSucceeds(w)  PROVE Shape'
  <2> DEFINE s == run[w].stage
             r == [run[w] EXCEPT !.have = @ \union {s}, !.stage = NextStage(s),
                                 !.attempt = 1, !.pc = "enter"]
  <2>1. r \in Runs /\ r.job = run[w].job
    BY <1>12, Literals DEF NodeSucceeds, Shape, TypeOK, Runs
  <2>2. run' = [run EXCEPT ![w] = r]
    BY <1>12 DEF NodeSucceeds, Shape, TypeOK
  <2>3. run' \in [Workers -> Runs] /\ Assigned'
    BY <1>12, <2>1, <2>2, MovedKeepsShape DEF NodeSucceeds, Active
  <2> QED
    BY <1>12, <2>3 DEF NodeSucceeds, Shape, TypeOK
<1>13. ASSUME NEW w \in Workers, Complete(w)  PROVE Shape'
  <2> DEFINE r == [run[w] EXCEPT !.pc = "report", !.recorded = TRUE]
  <2>1. r \in Runs /\ r.job = run[w].job
    BY ExecutionIsRun, Literals DEF Runs
  <2>2. run' = [run EXCEPT ![w] = r]
    BY <1>13 DEF Complete, Shape, TypeOK
  <2>3. run' \in [Workers -> Runs] /\ Assigned'
    BY <1>13, <2>1, <2>2, MovedKeepsShape DEF Complete, Active
  <2>4. run[w].have \in SUBSET Produced
    BY DEF Shape, TypeOK, Runs
  <2>5. row' \in [Jobs -> Rows]
    <3> DEFINE x == row[run[w].job]
               y == [x EXCEPT !.status = "completed", !.stage = None, !.outputs = run[w].have]
    <3>1. x \in Rows
      BY <1>13 DEF Complete, Active, Shape, Assigned, TypeOK
    <3>2. y \in Rows
      BY <2>4, <3>1, Literals DEF Rows
    <3>3. row' = [row EXCEPT ![run[w].job] = y]
      BY <1>13 DEF Complete, Shape, TypeOK
    <3> QED
      BY <3>2, <3>3 DEF Shape, TypeOK
  <2> QED
    BY <1>13, <2>3, <2>5 DEF Complete, Shape, TypeOK
<1>14. ASSUME NEW w \in Workers, NEW t \in BOOLEAN, NodeRaises(w, t)  PROVE Shape'
  <2>1. CASE run' = [run EXCEPT ![w].attempt = @ + 1, ![w].pc = "enter"]
             /\ run[w].attempt < MaxAttempts
    <3> DEFINE r == [run[w] EXCEPT !.attempt = @ + 1, !.pc = "enter"]
    <3>1. r \in Runs /\ r.job = run[w].job
      BY <2>1, ExecutionIsRun, Literals DEF Runs
    <3>2. run' = [run EXCEPT ![w] = r]
      BY <2>1 DEF Shape, TypeOK
    <3>3. run' \in [Workers -> Runs] /\ Assigned'
      BY <1>14, <3>1, <3>2, MovedKeepsShape DEF NodeRaises, Active
    <3> QED
      BY <1>14, <3>3 DEF NodeRaises, Shape, TypeOK
  <2>2. CASE Goto(w, "fail")
    BY <1>14, <2>2, GotoKeepsShape, Literals DEF NodeRaises, Active, Shape, TypeOK
  <2> QED
    BY <1>14, <2>1, <2>2 DEF NodeRaises
<1>15. ASSUME NEW w \in Workers, RecordFailure(w)  PROVE Shape'
  <2> DEFINE r == [run[w] EXCEPT !.pc = "dlq", !.recorded = TRUE]
             x == row[run[w].job]
             y == [x EXCEPT !.status = "failed", !.error = TRUE,
                            !.stage = IF @ = None THEN "unknown" ELSE @]
  <2>1. r \in Runs /\ r.job = run[w].job
    BY ExecutionIsRun, Literals DEF Runs
  <2>2. run' = [run EXCEPT ![w] = r]
    BY <1>15 DEF RecordFailure, Shape, TypeOK
  <2>3. run' \in [Workers -> Runs] /\ Assigned'
    BY <1>15, <2>1, <2>2, MovedKeepsShape DEF RecordFailure, Active
  <2>4. x \in Rows
    BY <1>15 DEF RecordFailure, Active, Shape, Assigned, TypeOK
  <2>5. y \in Rows
    <3>1. x.stage \in Stages \union {None, "unknown"}
      BY <2>4 DEF Rows
    <3>2. (IF x.stage = None THEN "unknown" ELSE x.stage) \in Stages \union {None, "unknown"}
      BY <3>1
    <3>3. y = [x EXCEPT !.status = "failed", !.error = TRUE,
                        !.stage = IF x.stage = None THEN "unknown" ELSE x.stage]
      BY <2>4 DEF Rows
    <3> HIDE DEF x, y
    <3> QED
      BY <2>4, <3>2, <3>3, Literals DEF Rows
  <2>6. row' = [row EXCEPT ![run[w].job] = y]
    BY <1>15 DEF RecordFailure, Shape, TypeOK
  <2>7. row' \in [Jobs -> Rows]
    BY <2>5, <2>6 DEF Shape, TypeOK
  <2> QED
    BY <1>15, <2>3, <2>7 DEF RecordFailure, Shape, TypeOK
<1>16. ASSUME NEW w \in Workers, PushDeadLetter(w)  PROVE Shape'
  <2>1. run' \in [Workers -> Runs] /\ Assigned'
    BY <1>16, GotoKeepsShape, Literals DEF PushDeadLetter, Active
  <2>2. dlq' \in [Jobs -> Nat]
    BY <1>16 DEF PushDeadLetter, Shape, TypeOK
  <2> QED
    BY <1>16, <2>1, <2>2 DEF PushDeadLetter, Shape, TypeOK
<1>17. ASSUME NEW w \in Workers, Acknowledge(w)  PROVE Shape'
  BY <1>17, LeaveKeepsShape DEF Acknowledge, Shape, TypeOK
<1>18. ASSUME NEW s \in Streams, NEW j \in Jobs, OpenStream(s, j)  PROVE Shape'
  BY <1>18, Literals DEF OpenStream, Shape, TypeOK, Assigned, Active
<1>19. ASSUME NEW s \in Streams, Poll(s)  PROVE Shape'
  <2>1. row[stream[s].job].status \in Status
    BY <1>19 DEF Poll, Shape, Assigned, TypeOK, Rows
  <2>2. stream' \in [Streams -> [job : Jobs \union {None},
                                 phase : {"idle", "open", "closed", "dropped"},
                                 last : Status]]
    <3> DEFINE p == IF row[stream[s].job].status \in Terminal THEN "closed" ELSE "open"
               y == [stream[s] EXCEPT !.last = row[stream[s].job].status, !.phase = p]
    <3>1. stream[s] \in [job : Jobs \union {None},
                         phase : {"idle", "open", "closed", "dropped"},
                         last : Status]
      BY DEF Shape, TypeOK
    <3>2. p \in {"open", "closed"}
      OBVIOUS
    <3>3. stream' = [stream EXCEPT ![s] = y]
      BY <1>19 DEF Poll, Shape, TypeOK
    <3> HIDE DEF p
    <3>4. y \in [job : Jobs \union {None},
                 phase : {"idle", "open", "closed", "dropped"},
                 last : Status]
      BY <2>1, <3>1, <3>2
    <3> HIDE DEF y
    <3> QED
      BY <3>3, <3>4 DEF Shape, TypeOK
  <2>3. \A t \in Streams : stream'[t].job = stream[t].job
                            /\ (stream'[t].phase # "idle" => stream[t].phase # "idle")
    BY <1>19 DEF Poll, Shape, TypeOK
  <2>4. Assigned'
    BY <1>19, <2>3 DEF Poll, Shape, Assigned, Active
  <2> QED
    BY <1>19, <2>2, <2>4 DEF Poll, Shape, TypeOK
<1>20. ASSUME NEW s \in Streams, DropStream(s)  PROVE Shape'
  BY <1>20 DEF DropStream, Shape, TypeOK, Assigned, Active
<1>21. CASE UNCHANGED vars
  BY <1>21 DEF vars, Shape, TypeOK, Assigned, Active
<1> QED
  BY <1>1, <1>2, <1>3, <1>4, <1>5, <1>6, <1>7, <1>8, <1>9, <1>10, <1>11, <1>12,
     <1>13, <1>14, <1>15, <1>16, <1>17, <1>18, <1>19, <1>20, <1>21
     DEF Next, RunStep, Fault

\* Every variable keeps its shape (TypeOK), for any instance.
THEOREM TypeCorrect == Spec => []TypeOK
<1>1. Init => Shape
  BY ShapeInit
<1>2. Shape /\ [Next]_vars => Shape'
  BY ShapeStep
<1>3. Shape => TypeOK
  BY DEF Shape
<1> QED
  BY <1>1, <1>2, <1>3, PTL DEF Spec

-----------------------------------------------------------------------------
(* An accepted job without an outcome is still pursued *)

\* An execution works on the job and has recorded nothing yet.
Unrecorded(v, j) == Active(v) /\ run[v].job = j /\ ~run[v].recorded
Pursued(j) == \E v \in Workers : Unrecorded(v, j)

\* An execution begins unrecorded and ends its work recorded.
RecordsInOrder ==
    \A w \in Workers :
        /\ run[w].pc = "mark" => ~run[w].recorded
        /\ run[w].pc \in {"report", "dlq", "ack"} => run[w].recorded

Owed(j) == api[j] = "accepted" /\ ~Settled(j) /\ ~orphaned[j]

\* The inductive strengthening of AcceptedJobSettles: it says who owes the job
\* its outcome, the broker or an execution that has not recorded one.
Settling ==
    /\ RecordsInOrder
    /\ \A j \in Jobs : Owed(j) => queue[j] > 0 \/ Pursued(j)

\* One execution changes: the others go on pursuing their jobs.
LEMMA OthersPursue ==
  ASSUME Shape, NEW w \in Workers, NEW r, run' = [run EXCEPT ![w] = r],
         NEW j \in Jobs, ~Unrecorded(w, j), Pursued(j)
  PROVE  Pursued(j)'
  BY DEF Pursued, Unrecorded, Active, Shape, TypeOK

\* One execution moves on without recording: every job is pursued as before.
LEMMA MovedPursues ==
  ASSUME Shape, NEW w \in Workers, Active(w),
         NEW r, r.job = run[w].job, r.pc # "idle", r.recorded = run[w].recorded,
         run' = [run EXCEPT ![w] = r],
         NEW j \in Jobs, Pursued(j)
  PROVE  Pursued(j)'
  BY DEF Pursued, Unrecorded, Active, Shape, TypeOK

LEMMA GotoPursues ==
  ASSUME Shape, NEW w \in Workers, Active(w), NEW p \in Pcs, p # "idle", Goto(w, p),
         NEW j \in Jobs, Pursued(j)
  PROVE  Pursued(j)'
<1> DEFINE r == [run[w] EXCEPT !.pc = p]
<1>1. run[w] \in Runs
  BY DEF Shape, TypeOK
<1>2. r.job = run[w].job /\ r.pc # "idle" /\ r.recorded = run[w].recorded
  BY <1>1 DEF Runs
<1>3. run' = [run EXCEPT ![w] = r]
  BY DEF Goto, Shape, TypeOK
<1> HIDE DEF r
<1> QED
  BY <1>2, <1>3, MovedPursues

\* The order of recording survives when one execution is replaced by another
\* record that respects it.
LEMMA OrderKept ==
  ASSUME Shape, RecordsInOrder, NEW w \in Workers, NEW r,
         run' = [run EXCEPT ![w] = r],
         r.pc = "mark" => ~r.recorded,
         r.pc \in {"report", "dlq", "ack"} => r.recorded
  PROVE  RecordsInOrder'
  BY DEF RecordsInOrder, Shape, TypeOK

LEMMA GotoKeepsOrder ==
  ASSUME Shape, RecordsInOrder, NEW w \in Workers, NEW p, Goto(w, p),
         p = "mark" => ~run[w].recorded,
         p \in {"report", "dlq", "ack"} => run[w].recorded
  PROVE  RecordsInOrder'
<1> DEFINE r == [run[w] EXCEPT !.pc = p]
<1>1. run[w] \in Runs
  BY DEF Shape, TypeOK
<1>2. r.pc = p /\ r.recorded = run[w].recorded
  BY <1>1 DEF Runs
<1>3. run' = [run EXCEPT ![w] = r]
  BY DEF Goto, Shape, TypeOK
<1> HIDE DEF r
<1> QED
  BY <1>2, <1>3, OrderKept

LEMMA LeaveKeepsOrder ==
  ASSUME Shape, RecordsInOrder, NEW w \in Workers, Leave(w)
  PROVE  RecordsInOrder'
  BY OrderKept DEF Leave, Idle

\* Cutting an execution short orphans the job it had not recorded.
LEMMA CutShortSettles ==
  ASSUME Shape, Settling, NEW w \in Workers, CutShort(w), UNCHANGED <<api, row, queue>>
  PROVE  Settling'
<1>1. RecordsInOrder'
  BY LeaveKeepsOrder DEF CutShort, Settling
<1>2. ASSUME NEW j \in Jobs, Owed(j)'  PROVE (queue[j] > 0 \/ Pursued(j))'
  <2>1. orphaned'[j] = FALSE /\ orphaned[j] \in BOOLEAN /\ run[w].recorded \in BOOLEAN
    BY <1>2 DEF Owed, CutShort, Shape, TypeOK, Runs
  <2>2. ~orphaned[j] /\ ~Unrecorded(w, j)
    BY <2>1 DEF CutShort, Unrecorded, Shape, TypeOK
  <2>3. queue[j] > 0 \/ Pursued(j)
    BY <1>2, <2>2 DEF Owed, Settled, Settling
  <2>4. Pursued(j) => Pursued(j)'
    BY <2>2, OthersPursue DEF CutShort, Leave
  <2> QED
    BY <2>3, <2>4
<1> QED
  BY <1>1, <1>2 DEF Settling

\* An execution that moves on without touching statuses settles what it did.
LEMMA MovedSettles ==
  ASSUME Shape, Settling, NEW w \in Workers, Active(w),
         NEW r, r.job = run[w].job, r.pc \notin {"idle", "mark", "report", "dlq", "ack"},
         r.recorded = run[w].recorded,
         run' = [run EXCEPT ![w] = r],
         UNCHANGED <<api, queue, orphaned>>,
         \A j \in Jobs : row'[j].status = row[j].status
  PROVE  Settling'
<1>1. RecordsInOrder'
  BY OrderKept DEF Settling
<1>2. ASSUME NEW j \in Jobs, Owed(j)'  PROVE (queue[j] > 0 \/ Pursued(j))'
  <2>1. Owed(j)
    BY <1>2 DEF Owed, Settled
  <2> QED
    BY <2>1, MovedPursues DEF Settling
<1> QED
  BY <1>1, <1>2 DEF Settling

\* An execution that records an outcome settles its job.
LEMMA RecordingSettles ==
  ASSUME Shape, Settling, NEW w \in Workers, Active(w),
         NEW r \in Runs, r.pc \in {"report", "dlq"}, r.recorded,
         run' = [run EXCEPT ![w] = r],
         row'[run[w].job].status \in Terminal,
         \A j \in Jobs \ {run[w].job} : row'[j].status = row[j].status,
         UNCHANGED <<api, queue, orphaned>>
  PROVE  Settling'
<1>1. RecordsInOrder'
  BY OrderKept DEF Settling
<1>2. ASSUME NEW k \in Jobs, Owed(k)'  PROVE queue'[k] > 0 \/ Pursued(k)'
  <2>1. k # run[w].job
    BY <1>2 DEF Owed, Settled
  <2>2. queue[k] > 0 \/ Pursued(k)
    BY <1>2, <2>1 DEF Owed, Settled, Settling
  <2>3. ~Unrecorded(w, k)
    BY <2>1 DEF Unrecorded
  <2> QED
    BY <2>2, <2>3, OthersPursue
<1> QED
  BY <1>1, <1>2 DEF Settling

LEMMA SettlingInit == Init => Settling
  BY DEF Init, Settling, RecordsInOrder, Owed, Idle

LEMMA SettlingStep == Shape /\ Settling /\ [Next]_vars => Settling'
<1> SUFFICES ASSUME Shape, Settling, [Next]_vars  PROVE Settling'
  OBVIOUS
<1>1. ASSUME NEW j \in Jobs, CreateJob(j)  PROVE Settling'
  <2>1. ASSUME NEW k \in Jobs, Owed(k)'  PROVE Owed(k)
    BY <1>1, <2>1 DEF CreateJob, Owed, Settled, Shape, TypeOK
  <2> QED
    BY <1>1, <2>1 DEF CreateJob, Settling, RecordsInOrder, Pursued, Unrecorded, Active
<1>2. ASSUME NEW j \in Jobs, EnqueueJob(j)  PROVE Settling'
  <2>1. ASSUME NEW k \in Jobs, Owed(k)'  PROVE queue'[k] > 0 \/ Pursued(k)
    BY <1>2, <2>1 DEF EnqueueJob, Owed, Settled, Settling, Shape, TypeOK
  <2> QED
    BY <1>2, <2>1 DEF EnqueueJob, Settling, RecordsInOrder, Pursued, Unrecorded, Active
<1>3. ASSUME NEW j \in Jobs, EnqueueFails(j)  PROVE Settling'
  <2>1. ASSUME NEW k \in Jobs, Owed(k)'  PROVE Owed(k)
    BY <1>3, <2>1 DEF EnqueueFails, Owed, Settled, Shape, TypeOK
  <2> QED
    BY <1>3, <2>1 DEF EnqueueFails, Settling, RecordsInOrder, Pursued, Unrecorded, Active
<1>4. ASSUME NEW w \in Workers, NEW j \in Jobs, Deliver(w, j)  PROVE Settling'
  <2> DEFINE r == [Idle EXCEPT !.job = j, !.pc = "mark", !.held = TRUE]
  <2>1. r.job = j /\ r.pc = "mark" /\ r.recorded = FALSE
    BY DEF Idle
  <2>2. run' = [run EXCEPT ![w] = r]
    BY <1>4 DEF Deliver
  <2> HIDE DEF r
  <2>3. RecordsInOrder'
    BY <2>1, <2>2, OrderKept DEF Settling
  <2>4. Pursued(j)'
    BY <2>1, <2>2 DEF Pursued, Unrecorded, Active, Shape, TypeOK
  <2>5. ASSUME NEW k \in Jobs, Owed(k)', k # j  PROVE queue'[k] > 0 \/ Pursued(k)'
    <3>1. queue[k] > 0 \/ Pursued(k)
      BY <1>4, <2>5 DEF Deliver, Owed, Settled, Settling
    <3>2. ~Unrecorded(w, k)
      BY <1>4 DEF Deliver, Unrecorded
    <3>3. queue'[k] = queue[k]
      BY <1>4, <2>5 DEF Deliver, Shape, TypeOK
    <3> QED
      BY <2>2, <3>1, <3>2, <3>3, OthersPursue
  <2> QED
    BY <2>3, <2>4, <2>5 DEF Settling
<1>5. ASSUME NEW w \in Workers, BrokerLost(w)  PROVE Settling'
  <2> DEFINE r == [run[w] EXCEPT !.held = FALSE]
  <2>1. run[w] \in Runs
    BY DEF Shape, TypeOK
  <2>2. r.job = run[w].job /\ r.pc = run[w].pc /\ r.recorded = run[w].recorded
    BY <2>1 DEF Runs
  <2>3. run' = [run EXCEPT ![w] = r]
    BY <1>5 DEF BrokerLost, Shape, TypeOK
  <2> HIDE DEF r
  <2>4. RecordsInOrder'
    BY <2>2, <2>3, OrderKept DEF Settling, RecordsInOrder
  <2>5. ASSUME NEW k \in Jobs, Owed(k)'  PROVE queue'[k] > 0 \/ Pursued(k)'
    <3>1. queue[k] > 0 \/ Pursued(k)
      BY <1>5, <2>5 DEF BrokerLost, Owed, Settled, Settling
    <3>2. queue[k] \in Nat /\ queue'[k] \in Nat /\ queue'[k] >= queue[k]
      BY <1>5 DEF BrokerLost, Redeliver, Shape, TypeOK
    <3>3. Pursued(k) => Pursued(k)'
      BY <1>5, <2>2, <2>3, MovedPursues DEF BrokerLost, Active
    <3> QED
      BY <3>1, <3>2, <3>3
  <2> QED
    BY <2>4, <2>5 DEF Settling
<1>6. ASSUME NEW w \in Workers, WorkerCrash(w)  PROVE Settling'
  <2>1. CASE run[w].held
    <3>1. RecordsInOrder'
      BY <1>6, <2>1, LeaveKeepsOrder DEF WorkerCrash, Settling
    <3>2. ASSUME NEW k \in Jobs, Owed(k)'  PROVE queue'[k] > 0 \/ Pursued(k)'
      <4>1. queue[k] > 0 \/ Pursued(k)
        BY <1>6, <2>1, <3>2 DEF WorkerCrash, Owed, Settled, Settling
      <4>2. CASE k = run[w].job
        BY <1>6, <2>1, <4>2 DEF WorkerCrash, Redeliver, Shape, TypeOK
      <4>3. CASE k # run[w].job
        <5>1. ~Unrecorded(w, k) /\ queue'[k] = queue[k]
          BY <1>6, <2>1, <4>3 DEF WorkerCrash, Redeliver, Unrecorded, Shape, TypeOK
        <5> QED
          BY <1>6, <2>1, <4>1, <5>1, OthersPursue DEF WorkerCrash, Leave
      <4> QED
        BY <4>2, <4>3
    <3> QED
      BY <3>1, <3>2 DEF Settling
  <2>2. CASE ~run[w].held
    BY <1>6, <2>2, CutShortSettles DEF WorkerCrash
  <2> QED
    BY <2>1, <2>2
<1>7. ASSUME NEW w \in Workers,
             ChildLost(w) \/ HardLimit(w) \/ StartFails(w) \/ RecordFails(w)
      PROVE Settling'
  BY <1>7, CutShortSettles DEF ChildLost, HardLimit, StartFails, RecordFails
<1>8. ASSUME NEW w \in Workers, NEW p \in {"load", "enter", "work", "fail"},
             Active(w), Goto(w, p), UNCHANGED <<api, queue, orphaned>>,
             \A j \in Jobs : row'[j].status = row[j].status
      PROVE Settling'
  <2> DEFINE r == [run[w] EXCEPT !.pc = p]
  <2>1. run[w] \in Runs
    BY DEF Shape, TypeOK
  <2>2. r.job = run[w].job /\ r.pc = p /\ r.recorded = run[w].recorded
    BY <2>1 DEF Runs
  <2>3. run' = [run EXCEPT ![w] = r]
    BY <1>8 DEF Goto, Shape, TypeOK
  <2> HIDE DEF r
  <2> QED
    BY <1>8, <2>2, <2>3, MovedSettles
<1>9. ASSUME NEW w \in Workers, SoftLimit(w)  PROVE Settling'
  <2>1. CASE CutShort(w)
    BY <1>9, <2>1, CutShortSettles DEF SoftLimit
  <2>2. CASE Goto(w, "fail") /\ UNCHANGED orphaned
    BY <1>9, <1>8, <2>2 DEF SoftLimit
  <2> QED
    BY <1>9, <2>1, <2>2 DEF SoftLimit, Goto
<1>10. ASSUME NEW w \in Workers, MarkRunning(w)  PROVE Settling'
  <2>1. RecordsInOrder'
    BY <1>10, GotoKeepsOrder DEF MarkRunning, Settling
  <2>2. Active(w) /\ run[w].job \in Jobs /\ Unrecorded(w, run[w].job)
    BY <1>10 DEF MarkRunning, Active, Unrecorded, Settling, RecordsInOrder, Shape, Assigned
  <2>3. Pursued(run[w].job)
    BY <2>2 DEF Pursued
  <2>4. ASSUME NEW k \in Jobs, Owed(k)'  PROVE queue[k] > 0 \/ Pursued(k)
    <3>1. CASE k = run[w].job
      BY <2>3, <3>1
    <3>2. CASE k # run[w].job
      BY <1>10, <2>4, <3>2 DEF MarkRunning, Owed, Settled, Settling, Shape, TypeOK
    <3> QED
      BY <3>1, <3>2
  <2>5. \A k \in Jobs : Pursued(k) => Pursued(k)'
    BY <1>10, <2>2, Literals, GotoPursues DEF MarkRunning
  <2> QED
    BY <1>10, <2>1, <2>4, <2>5 DEF MarkRunning, Settling
<1>11. ASSUME NEW w \in Workers, LoadJob(w)  PROVE Settling'
  BY <1>11, <1>8 DEF LoadJob, Active
<1>12. ASSUME NEW w \in Workers, EnterNode(w)  PROVE Settling'
  <2>1. \A j \in Jobs : row'[j].status = row[j].status
    BY <1>12 DEF EnterNode, Shape, TypeOK, Rows
  <2> QED
    BY <1>12, <1>8, <2>1 DEF EnterNode, Active
<1>13. ASSUME NEW w \in Workers, NodeSucceeds(w)  PROVE Settling'
  <2> DEFINE s == run[w].stage
             r == [run[w] EXCEPT !.have = @ \union {s}, !.stage = NextStage(s),
                                 !.attempt = 1, !.pc = "enter"]
  <2>1. run[w] \in Runs
    BY DEF Shape, TypeOK
  <2>2. r.job = run[w].job /\ r.pc = "enter" /\ r.recorded = run[w].recorded
    BY <2>1 DEF Runs
  <2>3. run' = [run EXCEPT ![w] = r]
    BY <1>13 DEF NodeSucceeds, Shape, TypeOK
  <2> HIDE DEF r
  <2> QED
    BY <1>13, <2>2, <2>3, MovedSettles DEF NodeSucceeds, Active
<1>14. ASSUME NEW w \in Workers, NEW t \in BOOLEAN, NodeRaises(w, t)  PROVE Settling'
  <2>1. CASE run' = [run EXCEPT ![w].attempt = @ + 1, ![w].pc = "enter"]
    <3> DEFINE r == [run[w] EXCEPT !.attempt = @ + 1, !.pc = "enter"]
    <3>1. run[w] \in Runs
      BY DEF Shape, TypeOK
    <3>2. r.job = run[w].job /\ r.pc = "enter" /\ r.recorded = run[w].recorded
      BY <3>1 DEF Runs
    <3>3. run' = [run EXCEPT ![w] = r]
      BY <2>1 DEF Shape, TypeOK
    <3> HIDE DEF r
    <3> QED
      BY <1>14, <3>2, <3>3, MovedSettles DEF NodeRaises, Active
  <2>2. CASE Goto(w, "fail")
    BY <1>14, <1>8, <2>2 DEF NodeRaises, Active
  <2> QED
    BY <1>14, <2>1, <2>2 DEF NodeRaises
<1>15. ASSUME NEW w \in Workers, Complete(w)  PROVE Settling'
  <2> DEFINE r == [run[w] EXCEPT !.pc = "report", !.recorded = TRUE]
  <2>1. r \in Runs /\ r.pc \in {"report", "dlq"} /\ r.recorded /\ run' = [run EXCEPT ![w] = r]
    <3>1. r \in Runs /\ r.pc \in {"report", "dlq"} /\ r.recorded
      BY ExecutionIsRun, Literals DEF Runs
    <3>2. run' = [run EXCEPT ![w] = r]
      BY <1>15 DEF Complete, Shape, TypeOK
    <3> QED
      BY <3>1, <3>2
  <2>2. run[w].job \in Jobs /\ Active(w)
    BY <1>15 DEF Complete, Active, Shape, Assigned
  <2>3. /\ row'[run[w].job].status \in Terminal
        /\ \A j \in Jobs \ {run[w].job} : row'[j].status = row[j].status
    BY <1>15, <2>2 DEF Complete, Shape, TypeOK, Rows, Terminal
  <2>4. UNCHANGED <<api, queue, orphaned>>
    BY <1>15 DEF Complete
  <2> HIDE DEF r
  <2> QED
    BY RecordingSettles, <2>1, <2>2, <2>3, <2>4
<1>16. ASSUME NEW w \in Workers, RecordFailure(w)  PROVE Settling'
  <2> DEFINE r == [run[w] EXCEPT !.pc = "dlq", !.recorded = TRUE]
  <2>1. r \in Runs /\ r.pc \in {"report", "dlq"} /\ r.recorded /\ run' = [run EXCEPT ![w] = r]
    <3>1. r \in Runs /\ r.pc \in {"report", "dlq"} /\ r.recorded
      BY ExecutionIsRun, Literals DEF Runs
    <3>2. run' = [run EXCEPT ![w] = r]
      BY <1>16 DEF RecordFailure, Shape, TypeOK
    <3> QED
      BY <3>1, <3>2
  <2>2. run[w].job \in Jobs /\ Active(w)
    BY <1>16 DEF RecordFailure, Active, Shape, Assigned
  <2>3. /\ row'[run[w].job].status \in Terminal
        /\ \A j \in Jobs \ {run[w].job} : row'[j].status = row[j].status
    BY <1>16, <2>2 DEF RecordFailure, Shape, TypeOK, Rows, Terminal
  <2>4. UNCHANGED <<api, queue, orphaned>>
    BY <1>16 DEF RecordFailure
  <2> HIDE DEF r
  <2> QED
    BY RecordingSettles, <2>1, <2>2, <2>3, <2>4
<1>17. ASSUME NEW w \in Workers, Report(w) \/ PushDeadLetter(w)  PROVE Settling'
  <2>1. Active(w) /\ Goto(w, "ack") /\ run[w].recorded
    BY <1>17 DEF Report, PushDeadLetter, Active, Settling, RecordsInOrder
  <2>2. RecordsInOrder'
    BY <2>1, GotoKeepsOrder DEF Settling
  <2>3. \A k \in Jobs : Pursued(k) => Pursued(k)'
    BY <2>1, Literals, GotoPursues
  <2>4. \A k \in Jobs : Owed(k)' => Owed(k)
    BY <1>17 DEF Report, PushDeadLetter, Owed, Settled
  <2> QED
    BY <1>17, <2>2, <2>3, <2>4 DEF Report, PushDeadLetter, Settling
<1>18. ASSUME NEW w \in Workers, Acknowledge(w)  PROVE Settling'
  <2>1. RecordsInOrder'
    BY <1>18, LeaveKeepsOrder DEF Acknowledge, Settling
  <2>2. \A k \in Jobs : ~Unrecorded(w, k)
    BY <1>18 DEF Acknowledge, Unrecorded, Settling, RecordsInOrder
  <2>3. \A k \in Jobs : Pursued(k) => Pursued(k)'
    BY <1>18, <2>2, OthersPursue DEF Acknowledge, Leave
  <2>4. \A k \in Jobs : Owed(k)' => Owed(k)
    BY <1>18 DEF Acknowledge, Owed, Settled
  <2> QED
    BY <1>18, <2>1, <2>3, <2>4 DEF Acknowledge, Settling
<1>19. ASSUME UNCHANGED <<api, row, queue, run, orphaned>>  PROVE Settling'
  BY <1>19 DEF Settling, RecordsInOrder, Owed, Settled, Pursued, Unrecorded, Active
<1>20. CASE \E s \in Streams, j \in Jobs : OpenStream(s, j)
  BY <1>19, <1>20 DEF OpenStream
<1>21. CASE \E s \in Streams : Poll(s) \/ DropStream(s)
  BY <1>19, <1>21 DEF Poll, DropStream
<1>22. CASE UNCHANGED vars
  BY <1>19, <1>22 DEF vars
<1> QED
  BY <1>1, <1>2, <1>3, <1>4, <1>5, <1>6, <1>7, <1>9, <1>10, <1>11, <1>12, <1>13,
     <1>14, <1>15, <1>16, <1>17, <1>18, <1>20, <1>21, <1>22
     DEF Next, RunStep, Fault

\* An accepted job at rest has an outcome or was cut short (AcceptedJobSettles).
THEOREM AcceptedSettles == Spec => []AcceptedJobSettles
<1>1. Init => Shape /\ Settling
  BY ShapeInit, SettlingInit
<1>2. Shape /\ Settling /\ [Next]_vars => Shape' /\ Settling'
  BY ShapeStep, SettlingStep
<1>3. Shape /\ Settling => AcceptedJobSettles
  BY DEF Shape, TypeOK, Settling, AcceptedJobSettles, AtRest, InWork, Owed, Pursued,
         Unrecorded
<1> QED
  BY <1>1, <1>2, <1>3, PTL DEF Spec

-----------------------------------------------------------------------------
(* A completed job has all its outputs *)

\* What the pipeline state holds when a stage begins.
Made(s) == CASE s = "script" -> {}
             [] s = "tts" -> {"script"}
             [] s = "avatar" -> {"script", "tts"}
             [] s = "store" -> Produced

\* The inductive strengthening: an execution has what the stages before its own
\* produced, so the store node finds everything.
InStep == \A w \in Workers : run[w].have = Made(run[w].stage)
Outputs == InStep /\ CompletedHasOutputs

LEMMA MadeNext == \A s \in Produced : Made(NextStage(s)) = Made(s) \union {s}
  BY DEF Made, NextStage, Produced

LEMMA OutputsInit == Init => Outputs
  BY DEF Init, Outputs, InStep, CompletedHasOutputs, Idle, Made

LEMMA OutputsStep == Shape /\ Outputs /\ [Next]_vars => Outputs'
<1> SUFFICES ASSUME Shape, Outputs, [Next]_vars  PROVE Outputs'
  OBVIOUS
\* No action but Complete changes an output or makes a job completed.
<1>1. ASSUME InStep',
             \A j \in Jobs : /\ row'[j].outputs = row[j].outputs
                             /\ row'[j].status = "completed" => row[j].status = "completed"
      PROVE  Outputs'
  BY <1>1 DEF Outputs, CompletedHasOutputs
<1>2. ASSUME NEW w \in Workers, NEW r, run' = [run EXCEPT ![w] = r],
             r.have = Made(r.stage)
      PROVE  InStep'
  BY <1>2 DEF Outputs, InStep, Shape, TypeOK
<1>3. ASSUME NEW w \in Workers, NEW p, Goto(w, p)  PROVE InStep'
  <2> DEFINE r == [run[w] EXCEPT !.pc = p]
  <2>1. run[w] \in Runs
    BY DEF Shape, TypeOK
  <2>2. r.have = run[w].have /\ r.stage = run[w].stage
    BY <2>1 DEF Runs
  <2>3. run' = [run EXCEPT ![w] = r]
    BY <1>3 DEF Goto, Shape, TypeOK
  <2> HIDE DEF r
  <2> QED
    BY <1>2, <2>2, <2>3 DEF Outputs, InStep
<1>4. ASSUME NEW w \in Workers, Leave(w)  PROVE InStep'
  BY <1>2, <1>4 DEF Leave, Idle, Made
<1>5. ASSUME UNCHANGED <<run, row>>  PROVE Outputs'
  BY <1>5 DEF Outputs, InStep, CompletedHasOutputs
<1>6. ASSUME NEW j \in Jobs, CreateJob(j)  PROVE Outputs'
  <2>1. InStep'
    BY <1>6 DEF CreateJob, Outputs, InStep
  <2>2. \A k \in Jobs : /\ row'[k].outputs = row[k].outputs
                        /\ row'[k].status = "completed" => row[k].status = "completed"
    BY <1>6 DEF CreateJob, Shape, TypeOK, Rows
  <2> QED
    BY <1>1, <2>1, <2>2
<1>7. CASE \E j \in Jobs : EnqueueJob(j) \/ EnqueueFails(j)
  BY <1>5, <1>7 DEF EnqueueJob, EnqueueFails
<1>8. ASSUME NEW w \in Workers, NEW j \in Jobs, Deliver(w, j)  PROVE Outputs'
  <2> DEFINE r == [Idle EXCEPT !.job = j, !.pc = "mark", !.held = TRUE]
  <2>1. r.have = Made(r.stage)
    BY DEF Idle, Made
  <2>2. run' = [run EXCEPT ![w] = r] /\ UNCHANGED row
    BY <1>8 DEF Deliver
  <2> HIDE DEF r
  <2> QED
    BY <1>1, <1>2, <2>1, <2>2
<1>9. ASSUME NEW w \in Workers, BrokerLost(w)  PROVE Outputs'
  <2> DEFINE r == [run[w] EXCEPT !.held = FALSE]
  <2>1. run[w] \in Runs
    BY DEF Shape, TypeOK
  <2>2. r.have = Made(r.stage)
    BY <2>1 DEF Runs, Outputs, InStep
  <2>3. run' = [run EXCEPT ![w] = r] /\ UNCHANGED row
    BY <1>9 DEF BrokerLost, Shape, TypeOK
  <2> HIDE DEF r
  <2> QED
    BY <1>1, <1>2, <2>2, <2>3
<1>10. ASSUME NEW w \in Workers,
              \/ WorkerCrash(w) \/ ChildLost(w) \/ HardLimit(w) \/ StartFails(w)
              \/ RecordFails(w) \/ Acknowledge(w)
       PROVE Outputs'
  BY <1>1, <1>4, <1>10
     DEF WorkerCrash, ChildLost, HardLimit, StartFails, RecordFails, Acknowledge, CutShort
<1>11. ASSUME NEW w \in Workers,
              SoftLimit(w) \/ LoadJob(w) \/ Report(w) \/ PushDeadLetter(w)
       PROVE Outputs'
  <2>1. (Leave(w) \/ \E p \in Pcs : Goto(w, p)) /\ UNCHANGED row
    BY <1>11, Literals DEF SoftLimit, LoadJob, Report, PushDeadLetter, CutShort, Goto
  <2> QED
    BY <1>1, <1>3, <1>4, <2>1
<1>12. ASSUME NEW w \in Workers, MarkRunning(w) \/ EnterNode(w)  PROVE Outputs'
  <2>1. InStep'
    BY <1>3, <1>12 DEF MarkRunning, EnterNode
  <2>2. \A k \in Jobs : /\ row'[k].outputs = row[k].outputs
                        /\ row'[k].status = "completed" => row[k].status = "completed"
    <3>1. CASE MarkRunning(w)
      BY <3>1 DEF MarkRunning, Shape, TypeOK, Rows
    <3>2. CASE EnterNode(w)
      BY <3>2 DEF EnterNode, Shape, TypeOK, Rows
    <3> QED
      BY <1>12, <3>1, <3>2
  <2> QED
    BY <1>1, <2>1, <2>2
<1>13. ASSUME NEW w \in Workers, NodeSucceeds(w)  PROVE Outputs'
  <2> DEFINE s == run[w].stage
             r == [run[w] EXCEPT !.have = @ \union {s}, !.stage = NextStage(s),
                                 !.attempt = 1, !.pc = "enter"]
  <2>1. run[w] \in Runs
    BY DEF Shape, TypeOK
  <2>2. r.have = run[w].have \union {s} /\ r.stage = NextStage(s)
    BY <2>1 DEF Runs
  <2>3. s \in Produced /\ run[w].have = Made(s)
    BY <1>13 DEF NodeSucceeds, Outputs, InStep
  <2>4. run' = [run EXCEPT ![w] = r] /\ UNCHANGED row
    BY <1>13 DEF NodeSucceeds, Shape, TypeOK
  <2> HIDE DEF r, s
  <2>5. r.have = Made(r.stage)
    BY <2>2, <2>3, MadeNext
  <2> QED
    BY <1>1, <1>2, <2>4, <2>5
<1>14. ASSUME NEW w \in Workers, Complete(w)  PROVE Outputs'
  <2> DEFINE r == [run[w] EXCEPT !.pc = "report", !.recorded = TRUE]
  <2>1. run[w] \in Runs
    BY DEF Shape, TypeOK
  <2>2. r.have = Made(r.stage)
    BY <2>1 DEF Runs, Outputs, InStep
  <2>3. run' = [run EXCEPT ![w] = r]
    BY <1>14 DEF Complete, Shape, TypeOK
  <2> HIDE DEF r
  <2>4. InStep'
    BY <1>2, <2>2, <2>3
  <2>5. run[w].have = Produced
    BY <1>14 DEF Complete, Outputs, InStep, Made
  <2>6. ASSUME NEW j \in Jobs
        PROVE  /\ row'[j].outputs \in {{}, Produced}
               /\ row'[j].status = "completed" => row'[j].outputs = Produced
    <3>1. CASE j = run[w].job
      BY <1>14, <2>5, <3>1 DEF Complete, Shape, TypeOK, Rows
    <3>2. CASE j # run[w].job
      BY <1>14, <3>2 DEF Complete, Outputs, CompletedHasOutputs, Shape, TypeOK
    <3> QED
      BY <3>1, <3>2
  <2> QED
    BY <2>4, <2>6 DEF Outputs, CompletedHasOutputs
<1>15. ASSUME NEW w \in Workers, NEW t \in BOOLEAN, NodeRaises(w, t)  PROVE Outputs'
  <2>1. CASE run' = [run EXCEPT ![w].attempt = @ + 1, ![w].pc = "enter"]
    <3> DEFINE r == [run[w] EXCEPT !.attempt = @ + 1, !.pc = "enter"]
    <3>1. run[w] \in Runs
      BY DEF Shape, TypeOK
    <3>2. r.have = Made(r.stage)
      BY <3>1 DEF Runs, Outputs, InStep
    <3>3. run' = [run EXCEPT ![w] = r] /\ UNCHANGED row
      BY <1>15, <2>1 DEF NodeRaises, Shape, TypeOK
    <3> HIDE DEF r
    <3> QED
      BY <1>1, <1>2, <3>2, <3>3
  <2>2. CASE Goto(w, "fail")
    BY <1>1, <1>3, <1>15, <2>2 DEF NodeRaises
  <2> QED
    BY <1>15, <2>1, <2>2 DEF NodeRaises
<1>16. ASSUME NEW w \in Workers, RecordFailure(w)  PROVE Outputs'
  <2> DEFINE r == [run[w] EXCEPT !.pc = "dlq", !.recorded = TRUE]
  <2>1. run[w] \in Runs
    BY DEF Shape, TypeOK
  <2>2. r.have = Made(r.stage)
    BY <2>1 DEF Runs, Outputs, InStep
  <2>3. run' = [run EXCEPT ![w] = r]
    BY <1>16 DEF RecordFailure, Shape, TypeOK
  <2>4. \A j \in Jobs : /\ row'[j].outputs = row[j].outputs
                        /\ row'[j].status = "completed" => row[j].status = "completed"
    BY <1>16 DEF RecordFailure, Shape, TypeOK, Rows
  <2> HIDE DEF r
  <2> QED
    BY <1>1, <1>2, <2>2, <2>3, <2>4
<1>17. CASE \E s \in Streams, j \in Jobs : OpenStream(s, j)
  BY <1>5, <1>17 DEF OpenStream
<1>18. CASE \E s \in Streams : Poll(s) \/ DropStream(s)
  BY <1>5, <1>18 DEF Poll, DropStream
<1>19. CASE UNCHANGED vars
  BY <1>5, <1>19 DEF vars
<1> QED
  BY <1>6, <1>7, <1>8, <1>9, <1>10, <1>11, <1>12, <1>13, <1>14, <1>15, <1>16, <1>17,
     <1>18, <1>19 DEF Next, RunStep, Fault

\* A completed job has its script, audio and video, however executions overlap
\* (CompletedHasOutputs: store_node, JobRepository.complete).
THEOREM OutputsTogether == Spec => []CompletedHasOutputs
<1>1. Init => Shape /\ Outputs
  BY ShapeInit, OutputsInit
<1>2. Shape /\ Outputs /\ [Next]_vars => Shape' /\ Outputs'
  BY ShapeStep, OutputsStep
<1>3. Outputs => CompletedHasOutputs
  BY DEF Outputs
<1> QED
  BY <1>1, <1>2, <1>3, PTL DEF Spec

-----------------------------------------------------------------------------
(* What an execution may still do *)

\* The renders an execution may still pay for.
Left(r) ==
    IF r.pc \in {"mark", "load"} \/ (r.pc \in {"enter", "work"} /\ r.stage \in {"script", "tts"})
    THEN MaxAttempts
    ELSE IF r.pc \in {"enter", "work"} /\ r.stage = "avatar"
    THEN MaxAttempts - r.attempt + (IF r.pc = "enter" THEN 1 ELSE 0)
    ELSE 0

\* The steps it may still take: a stage has two for each attempt, and the soft
\* limit may send a report to the failure handler.
Later(s) == CASE s = "script" -> 6 * MaxAttempts
              [] s = "tts" -> 4 * MaxAttempts
              [] s = "avatar" -> 2 * MaxAttempts
              [] s = "store" -> 0
Rest(p) == CASE p = "mark" -> 8 * MaxAttempts + 6
             [] p = "load" -> 8 * MaxAttempts + 5
             [] p = "enter" -> 6
             [] p = "work" -> 5
             [] p = "report" -> 4
             [] p = "fail" -> 3
             [] p = "dlq" -> 2
             [] p = "ack" -> 1
             [] p = "idle" -> 0
Togo(r) ==
    Rest(r.pc) + IF r.pc \in {"enter", "work"}
                 THEN Later(r.stage) + 2 * (MaxAttempts - r.attempt)
                 ELSE 0

\* A step makes q of the execution r: q has no more ahead of it than r.
Onward(r, q) ==
    /\ q \in Runs
    /\ q.job = r.job \/ q.job = None
    /\ Left(q) <= Left(r)
    /\ Togo(q) <= Togo(r)
\* ... and less, if the execution moves by itself.
Down(r, q) == Onward(r, q) /\ Togo(q) < Togo(r)

LEMMA LeftBounds == \A r \in Runs : Left(r) \in 0 .. MaxAttempts
  BY ConstantsAssumption DEF Left, Runs

LEMMA RestValues ==
    /\ Rest("mark") = 8 * MaxAttempts + 6 /\ Rest("load") = 8 * MaxAttempts + 5
    /\ Rest("enter") = 6 /\ Rest("work") = 5 /\ Rest("report") = 4 /\ Rest("fail") = 3
    /\ Rest("dlq") = 2 /\ Rest("ack") = 1 /\ Rest("idle") = 0
  BY DEF Rest

LEMMA TogoBounds ==
  ASSUME NEW r \in Runs
  PROVE  Togo(r) \in 0 .. 8 * MaxAttempts + 6 /\ (r.pc # "idle" => Togo(r) > 0)
<1>1. r.pc \in Pcs /\ r.stage \in Stages /\ r.attempt \in 1 .. MaxAttempts
  BY DEF Runs
<1>2. Later(r.stage) \in 0 .. 6 * MaxAttempts
  BY <1>1, ConstantsAssumption DEF Later, Stages, Produced
<1>3. /\ Rest(r.pc) \in 0 .. 8 * MaxAttempts + 6
      /\ r.pc \in {"enter", "work"} => Rest(r.pc) <= 6
      /\ r.pc # "idle" => Rest(r.pc) > 0
  BY <1>1, RestValues, ConstantsAssumption DEF Pcs
<1> QED
  BY <1>1, <1>2, <1>3, ConstantsAssumption DEF Togo

\* An execution that ends has nothing ahead of it.
LEMMA IdleIsOver == \A r \in Runs : Onward(r, Idle) /\ (r.pc # "idle" => Down(r, Idle))
<1>1. Left(Idle) = 0 /\ Togo(Idle) = 0 /\ Idle.job = None
  BY RestValues DEF Left, Togo, Idle
<1> QED
  BY <1>1, IdleIsRun, LeftBounds, TogoBounds, ConstantsAssumption DEF Onward, Down

\* The next call of the same attempt.
Follows(p, q) ==
    \/ p = "mark" /\ q = "load"
    \/ p = "load" /\ q = "enter"
    \/ p = "enter" /\ q = "work"
    \/ p \in {"enter", "work", "report"} /\ q = "fail"
    \/ p = "work" /\ q = "report"
    \/ p = "fail" /\ q = "dlq"
    \/ p \in {"report", "dlq"} /\ q = "ack"

LEMMA FollowsDown ==
  ASSUME NEW r \in Runs, NEW q \in Runs, Follows(r.pc, q.pc),
         q.job = r.job, q.stage = r.stage, q.attempt = r.attempt
  PROVE  /\ Down(r, q)
         /\ q.pc = "work" /\ q.stage = "avatar" => Left(r) = Left(q) + 1
<1>1. /\ r.stage \in Stages /\ r.attempt \in 1 .. MaxAttempts
      /\ r.pc \in Pcs /\ q.pc \in Pcs
  BY DEF Runs
<1>2. Later(r.stage) \in 0 .. 6 * MaxAttempts
  BY <1>1, ConstantsAssumption DEF Later, Stages, Produced
<1>3. Togo(q) < Togo(r) /\ Togo(r) \in Int /\ Togo(q) \in Int
  BY <1>1, <1>2, RestValues, ConstantsAssumption DEF Follows, Togo
<1>4. /\ Left(q) <= Left(r)
      /\ q.pc = "work" /\ q.stage = "avatar" => Left(r) = Left(q) + 1
  BY <1>1, ConstantsAssumption DEF Follows, Left
<1> QED
  BY <1>3, <1>4 DEF Down, Onward

LEMMA GotoDown ==
  ASSUME Shape, NEW w \in Workers, NEW p \in Pcs, Follows(run[w].pc, p), Goto(w, p)
  PROVE  \E q \in Runs :
            /\ run' = [run EXCEPT ![w] = q]
            /\ Down(run[w], q)
            /\ p = "work" /\ run[w].stage = "avatar" => Left(run[w]) = Left(q) + 1
<1> DEFINE q == [run[w] EXCEPT !.pc = p]
<1>1. q \in Runs /\ q.pc = p /\ q.job = run[w].job /\ q.stage = run[w].stage
      /\ q.attempt = run[w].attempt
  BY ExecutionIsRun DEF Runs
<1>2. run' = [run EXCEPT ![w] = q]
  BY DEF Goto, Shape, TypeOK
<1>3. run[w] \in Runs
  BY ExecutionIsRun
<1> HIDE DEF q
<1> QED
  BY <1>1, <1>2, <1>3, FollowsDown

LEMMA LeaveDown ==
  ASSUME Shape, NEW w \in Workers, Active(w), Leave(w)
  PROVE  \E q \in Runs : run' = [run EXCEPT ![w] = q] /\ Down(run[w], q)
  BY ExecutionIsRun, IdleIsRun, IdleIsOver DEF Leave, Active

\* Every step of an execution brings it nearer to its end.
LEMMA RunStepDown ==
  ASSUME Shape, NEW w \in Workers, RunStep(w)
  PROVE  \E q \in Runs : run' = [run EXCEPT ![w] = q] /\ Down(run[w], q)
<1> DEFINE Moves == \E q \in Runs : run' = [run EXCEPT ![w] = q] /\ Down(run[w], q)
<1>1. CASE MarkRunning(w)
  BY <1>1, GotoDown, Literals DEF MarkRunning, Follows
<1>2. CASE LoadJob(w)
  BY <1>2, GotoDown, Literals DEF LoadJob, Follows
<1>3. CASE StartFails(w) \/ RecordFails(w) \/ Acknowledge(w)
  BY <1>3, LeaveDown DEF StartFails, RecordFails, Acknowledge, CutShort, Active
<1>4. CASE EnterNode(w)
  BY <1>4, GotoDown, Literals DEF EnterNode, Follows
<1>5. CASE NodeSucceeds(w)
  <2> DEFINE r == run[w]
             q == [r EXCEPT !.have = @ \union {r.stage}, !.stage = NextStage(r.stage),
                            !.attempt = 1, !.pc = "enter"]
  <2>1. r \in Runs /\ r.pc = "work" /\ r.stage \in Produced
    BY <1>5, ExecutionIsRun DEF NodeSucceeds
  <2>2. q \in Runs /\ q.job = r.job /\ q.stage = NextStage(r.stage) /\ q.attempt = 1
        /\ q.pc = "enter"
    BY <2>1, Literals DEF Runs
  <2>3. run' = [run EXCEPT ![w] = q]
    BY <1>5 DEF NodeSucceeds, Shape, TypeOK
  <2>4. r.attempt \in 1 .. MaxAttempts
    BY <2>1 DEF Runs
  <2> HIDE DEF r, q
  <2>5. Left(q) <= Left(r)
    BY <2>1, <2>2, <2>4, ConstantsAssumption DEF Left, NextStage, Produced
  <2>6. Togo(q) < Togo(r) /\ Togo(r) \in Int /\ Togo(q) \in Int
    BY <2>1, <2>2, <2>4, RestValues, ConstantsAssumption DEF Togo, Later, NextStage, Produced
  <2>7. Down(r, q)
    BY <2>2, <2>5, <2>6 DEF Down, Onward
  <2> QED
    BY <2>2, <2>3, <2>7 DEF r
<1>6. CASE Complete(w)
  <2> DEFINE q == [run[w] EXCEPT !.pc = "report", !.recorded = TRUE]
  <2>1. q \in Runs /\ q.pc = "report" /\ q.job = run[w].job /\ q.stage = run[w].stage
        /\ q.attempt = run[w].attempt
    BY ExecutionIsRun, Literals DEF Runs
  <2>2. run' = [run EXCEPT ![w] = q] /\ run[w].pc = "work" /\ run[w] \in Runs
    BY <1>6, ExecutionIsRun DEF Complete, Shape, TypeOK
  <2> HIDE DEF q
  <2> QED
    BY <2>1, <2>2, FollowsDown DEF Follows
<1>7. ASSUME NEW t \in BOOLEAN, NodeRaises(w, t)  PROVE Moves
  <2>1. CASE run[w].attempt < MaxAttempts
             /\ run' = [run EXCEPT ![w].attempt = @ + 1, ![w].pc = "enter"]
    <3> DEFINE r == run[w]
               q == [r EXCEPT !.attempt = @ + 1, !.pc = "enter"]
    <3>1. r \in Runs /\ r.pc \in {"enter", "work"}
      BY <1>7, ExecutionIsRun DEF NodeRaises
    <3>2. r.attempt \in 1 .. MaxAttempts /\ r.stage \in Stages /\ r.attempt < MaxAttempts
      BY <2>1, <3>1 DEF Runs
    <3>3. q \in Runs /\ q.job = r.job /\ q.stage = r.stage /\ q.attempt = r.attempt + 1
          /\ q.pc = "enter"
      BY <3>1, <3>2, Literals DEF Runs
    <3>4. run' = [run EXCEPT ![w] = q]
      BY <2>1 DEF Shape, TypeOK
    <3> HIDE DEF r, q
    <3>5. Left(q) <= Left(r)
      BY <3>1, <3>2, <3>3, ConstantsAssumption DEF Left
    <3>6. Later(r.stage) \in Int
      BY <3>2, ConstantsAssumption DEF Later, Stages, Produced
    <3>7. Togo(q) < Togo(r) /\ Togo(r) \in Int /\ Togo(q) \in Int
      BY <3>1, <3>2, <3>3, <3>6, RestValues, ConstantsAssumption DEF Togo
    <3>8. Down(r, q)
      BY <3>3, <3>5, <3>7 DEF Down, Onward
    <3> QED
      BY <3>3, <3>4, <3>8 DEF r
  <2>2. CASE Goto(w, "fail")
    BY <1>7, <2>2, GotoDown, Literals DEF NodeRaises, Follows
  <2> QED
    BY <1>7, <2>1, <2>2 DEF NodeRaises
<1>8. CASE Report(w)
  BY <1>8, GotoDown, Literals DEF Report, Follows
<1>9. CASE RecordFailure(w)
  <2> DEFINE q == [run[w] EXCEPT !.pc = "dlq", !.recorded = TRUE]
  <2>1. q \in Runs /\ q.pc = "dlq" /\ q.job = run[w].job /\ q.stage = run[w].stage
        /\ q.attempt = run[w].attempt
    BY ExecutionIsRun, Literals DEF Runs
  <2>2. run' = [run EXCEPT ![w] = q] /\ run[w].pc = "fail" /\ run[w] \in Runs
    BY <1>9, ExecutionIsRun DEF RecordFailure, Shape, TypeOK
  <2> HIDE DEF q
  <2> QED
    BY <2>1, <2>2, FollowsDown DEF Follows
<1>10. CASE PushDeadLetter(w)
  BY <1>10, GotoDown, Literals DEF PushDeadLetter, Follows
<1> QED
  BY <1>1, <1>2, <1>3, <1>4, <1>5, <1>6, <1>7, <1>8, <1>9, <1>10 DEF RunStep

\* No fault gives an execution more to do.
LEMMA FaultOnward ==
  ASSUME Shape, NEW w \in Workers, Fault(w)
  PROVE  \E q \in Runs : run' = [run EXCEPT ![w] = q] /\ Onward(run[w], q)
<1>1. CASE BrokerLost(w)
  <2> DEFINE q == [run[w] EXCEPT !.held = FALSE]
  <2>1. q \in Runs /\ run[w] \in Runs /\ q.pc = run[w].pc /\ q.job = run[w].job
        /\ q.stage = run[w].stage /\ q.attempt = run[w].attempt
    BY ExecutionIsRun DEF Runs
  <2>2. run' = [run EXCEPT ![w] = q]
    BY <1>1 DEF BrokerLost, Shape, TypeOK
  <2> HIDE DEF q
  <2>3. Left(q) = Left(run[w])
    BY <2>1 DEF Left
  <2>5. Togo(q) = Togo(run[w])
    BY <2>1 DEF Togo
  <2>4. Left(q) \in Int /\ Togo(q) \in Int
    BY <2>1, LeftBounds, TogoBounds, ConstantsAssumption
  <2>6. Onward(run[w], q)
    BY <2>1, <2>3, <2>4, <2>5 DEF Onward
  <2> QED
    BY <2>1, <2>2, <2>6
<1>2. CASE WorkerCrash(w) \/ ChildLost(w) \/ HardLimit(w)
  BY <1>2, LeaveDown DEF WorkerCrash, ChildLost, HardLimit, CutShort, Down
<1>3. CASE SoftLimit(w)
  <2>1. CASE CutShort(w)
    BY <1>3, <2>1, LeaveDown DEF SoftLimit, CutShort, Down
  <2>2. CASE run[w].pc \in {"enter", "work", "report"} /\ Goto(w, "fail")
    BY <2>2, GotoDown, Literals DEF Follows, Down
  <2> QED
    BY <1>3, <2>1, <2>2 DEF SoftLimit, Goto
<1> QED
  BY <1>1, <1>2, <1>3 DEF Fault

-----------------------------------------------------------------------------
(* The renders a job can be charged for *)

\* The renders ahead of the executions of the job, one element each.
Future(j) == {p \in InWork(j) \X (1 .. MaxAttempts) : p[2] <= Left(run[p[1]])}

\* How often the job's message was put in the queue.
Published(j) == redelivered[j] + IF api[j] = "accepted" THEN 1 ELSE 0

\* The inductive invariant: the renders made, those the executions may still
\* make and those of the messages that wait are paid for by the messages.
Spent ==
    \A j \in Jobs :
        /\ IsFiniteSet(Future(j))
        /\ renders[j] + Cardinality(Future(j)) + MaxAttempts * queue[j]
              <= MaxAttempts * Published(j)

LEMMA Times ==
  ASSUME NEW a \in Nat, NEW b \in Nat
  PROVE  /\ MaxAttempts * a \in Nat
         /\ MaxAttempts * (a + 1) = MaxAttempts * a + MaxAttempts
         /\ a <= b => MaxAttempts * a <= MaxAttempts * b
  BY ConstantsAssumption

LEMMA Counts ==
  ASSUME Shape, NEW j \in Jobs
  PROVE  /\ renders[j] \in Nat /\ queue[j] \in Nat /\ redelivered[j] \in Nat
         /\ Published(j) \in Nat
  BY DEF Shape, TypeOK, Published

LEMMA SpentInit == Init => Spent
<1> SUFFICES ASSUME Init, NEW j \in Jobs
             PROVE  /\ IsFiniteSet(Future(j))
                    /\ renders[j] + Cardinality(Future(j)) + MaxAttempts * queue[j]
                          <= MaxAttempts * Published(j)
  BY DEF Spent
<1>1. InWork(j) = {}
  BY ConstantsAssumption DEF Init, InWork, Idle
<1>2. Future(j) = {}
  BY <1>1 DEF Future
<1>3. IsFiniteSet(Future(j)) /\ Cardinality(Future(j)) = 0
  BY <1>2, FS_EmptySet
<1>4. renders[j] = 0 /\ queue[j] = 0 /\ Published(j) = 0
  BY DEF Init, Published
<1> QED
  BY <1>3, <1>4, ConstantsAssumption

\* An execution that moves onward adds no render.
LEMMA FutureShrinks ==
  ASSUME Shape, NEW w \in Workers, NEW q \in Runs, run' = [run EXCEPT ![w] = q],
         Onward(run[w], q), NEW j \in Jobs
  PROVE  Future(j)' \subseteq Future(j)
<1> SUFFICES ASSUME NEW p \in Future(j)'  PROVE p \in Future(j)
  OBVIOUS
<1>1. /\ p \in InWork(j)' \X (1 .. MaxAttempts) /\ p[2] <= Left(run'[p[1]])
      /\ p[1] \in Workers /\ run'[p[1]].job = j /\ p[2] \in Int
  BY ConstantsAssumption DEF Future, InWork
<1>2. CASE p[1] # w
  <2>1. run'[p[1]] = run[p[1]]
    BY <1>1, <1>2 DEF Shape, TypeOK
  <2> QED
    BY <1>1, <2>1 DEF Future, InWork
<1>3. CASE p[1] = w
  <2>1. run'[p[1]] = q
    BY <1>3 DEF Shape, TypeOK
  <2>2. run[w].job = j
    BY <1>1, <2>1, ConstantsAssumption DEF Onward
  <2>3. Left(q) \in Int /\ Left(run[w]) \in Int
    BY LeftBounds, ExecutionIsRun
  <2>4. p[2] <= Left(run[w])
    BY <1>1, <2>1, <2>3 DEF Onward
  <2> QED
    BY <1>1, <1>3, <2>2, <2>4 DEF Future, InWork
<1> QED
  BY <1>2, <1>3

\* A step that renders nothing, and puts a message in the queue only if it
\* counts it, leaves the budget balanced.
LEMMA NothingSpent ==
  ASSUME Shape, Shape', Spent, renders' = renders,
         \A j \in Jobs :
            /\ Future(j)' \subseteq Future(j)
            /\ \/ queue'[j] = queue[j] /\ Published(j)' >= Published(j)
               \/ queue'[j] = queue[j] + 1 /\ Published(j)' = Published(j) + 1
  PROVE  Spent'
<1> SUFFICES ASSUME NEW j \in Jobs
             PROVE  /\ IsFiniteSet(Future(j)')
                    /\ renders'[j] + Cardinality(Future(j)') + MaxAttempts * queue'[j]
                          <= MaxAttempts * Published(j)'
  BY DEF Spent
<1> DEFINE F == Cardinality(Future(j))  G == Cardinality(Future(j)')
           P == Published(j)            Q == Published(j)'
<1>1. IsFiniteSet(Future(j)) /\ renders[j] + F + MaxAttempts * queue[j] <= MaxAttempts * P
  BY DEF Spent
<1>2. IsFiniteSet(Future(j)') /\ G <= F /\ F \in Nat /\ G \in Nat
  <2>1. Future(j)' \subseteq Future(j)
    OBVIOUS
  <2>2. IsFiniteSet(Future(j)') /\ G <= F
    BY <1>1, <2>1, FS_Subset
  <2> QED
    BY <1>1, <2>2, FS_CardinalityType
<1>3. renders[j] \in Nat /\ queue[j] \in Nat /\ P \in Nat /\ queue'[j] \in Nat /\ Q \in Nat
  <2>1. queue'[j] \in Nat /\ Q \in Nat
    BY DEF Shape, TypeOK, Published
  <2> QED
    BY <2>1, Counts
<1>4. \/ queue'[j] = queue[j] /\ P <= Q
      \/ queue'[j] = queue[j] + 1 /\ Q = P + 1
  BY <1>3
<1> HIDE DEF F, G, P, Q
<1>5. /\ MaxAttempts * queue[j] \in Nat /\ MaxAttempts * P \in Nat /\ MaxAttempts * Q \in Nat
      /\ \/ MaxAttempts * queue'[j] = MaxAttempts * queue[j]
            /\ MaxAttempts * P <= MaxAttempts * Q
         \/ MaxAttempts * queue'[j] = MaxAttempts * queue[j] + MaxAttempts
            /\ MaxAttempts * Q = MaxAttempts * P + MaxAttempts
  BY <1>3, <1>4, Times
<1> DEFINE a == MaxAttempts * queue[j]  b == MaxAttempts * queue'[j]
           c == MaxAttempts * P         d == MaxAttempts * Q
<1>6. /\ a \in Nat /\ c \in Nat /\ d \in Nat
      /\ \/ b = a /\ c <= d
         \/ b = a + MaxAttempts /\ d = c + MaxAttempts
      /\ renders[j] + F + a <= c
  BY <1>1, <1>5
<1> HIDE DEF a, b, c, d
<1>7. renders[j] + G + b <= d
  BY <1>2, <1>3, <1>6, ConstantsAssumption
<1> QED
  BY <1>2, <1>7 DEF G, Q, b, d

\* A delivery opens MaxAttempts renders, the share of the message it takes.
LEMMA DeliverySpends ==
  ASSUME Shape, Shape', Spent, NEW w \in Workers, NEW k \in Jobs, Deliver(w, k)
  PROVE  Spent'
<1> DEFINE r == [Idle EXCEPT !.job = k, !.pc = "mark", !.held = TRUE]
<1>1. run'[w] = r /\ \A v \in Workers \ {w} : run'[v] = run[v]
  BY DEF Deliver, Shape, TypeOK
<1>2. r.job = k
  BY DEF Idle
<1> HIDE DEF r
<1> SUFFICES ASSUME NEW j \in Jobs
             PROVE  /\ IsFiniteSet(Future(j)')
                    /\ renders'[j] + Cardinality(Future(j)') + MaxAttempts * queue'[j]
                          <= MaxAttempts * Published(j)'
  BY DEF Spent
<1> DEFINE F == Cardinality(Future(j))  G == Cardinality(Future(j)')
<1>3. IsFiniteSet(Future(j))
      /\ renders[j] + F + MaxAttempts * queue[j] <= MaxAttempts * Published(j)
  BY DEF Spent
<1>4. renders'[j] = renders[j] /\ Published(j)' = Published(j)
  BY DEF Deliver, Published
<1>5. renders[j] \in Nat /\ queue[j] \in Nat /\ Published(j) \in Nat /\ F \in Nat
  BY <1>3, Counts, FS_CardinalityType
<1>6. CASE j # k
  <2>1. Future(j)' \subseteq Future(j)
    <3> SUFFICES ASSUME NEW p \in Future(j)'  PROVE p \in Future(j)
      OBVIOUS
    <3>1. /\ p \in InWork(j)' \X (1 .. MaxAttempts) /\ p[2] <= Left(run'[p[1]])
          /\ p[1] \in Workers /\ run'[p[1]].job = j
      BY DEF Future, InWork
    <3>2. run'[p[1]] = run[p[1]]
      BY <1>1, <1>2, <1>6, <3>1
    <3> QED
      BY <3>1, <3>2 DEF Future, InWork
  <2>2. IsFiniteSet(Future(j)') /\ G <= F
    BY <1>3, <2>1, FS_Subset
  <2>3. G \in Nat
    BY <2>2, FS_CardinalityType
  <2>4. queue'[j] = queue[j]
    BY <1>6 DEF Deliver, Shape, TypeOK
  <2> DEFINE a == MaxAttempts * queue[j]  c == MaxAttempts * Published(j)
  <2>5. a \in Nat /\ c \in Nat /\ renders[j] + F + a <= c
    BY <1>3, <1>5, Times
  <2> HIDE DEF a, c, F, G
  <2>6. renders[j] + G + a <= c
    BY <1>5, <2>2, <2>3, <2>5
  <2> QED
    BY <1>4, <2>2, <2>4, <2>6 DEF a, c, G
<1>7. CASE j = k
  <2> DEFINE New == {w} \X (1 .. MaxAttempts)
  <2>1. IsFiniteSet(New) /\ Cardinality(New) = MaxAttempts
    <3>1. IsFiniteSet({w}) /\ Cardinality({w}) = 1
      BY FS_Singleton
    <3>2. IsFiniteSet(1 .. MaxAttempts) /\ Cardinality(1 .. MaxAttempts) = MaxAttempts
      BY FS_Interval, ConstantsAssumption
    <3>3. IsFiniteSet(New) /\ Cardinality(New) = Cardinality({w}) * Cardinality(1 .. MaxAttempts)
      BY <3>1, <3>2, FS_Product
    <3> QED
      BY <3>1, <3>2, <3>3, ConstantsAssumption
  <2>2. Future(j)' \subseteq Future(j) \union New
    <3> SUFFICES ASSUME NEW p \in Future(j)'  PROVE p \in Future(j) \union New
      OBVIOUS
    <3>1. /\ p \in InWork(j)' \X (1 .. MaxAttempts) /\ p[2] <= Left(run'[p[1]])
          /\ p[1] \in Workers /\ run'[p[1]].job = j
      BY DEF Future, InWork
    <3>2. CASE p[1] = w
      BY <3>1, <3>2
    <3>3. CASE p[1] # w
      <4>1. run'[p[1]] = run[p[1]]
        BY <1>1, <3>1, <3>3
      <4> QED
        BY <3>1, <4>1 DEF Future, InWork
    <3> QED
      BY <3>2, <3>3
  <2> HIDE DEF New
  <2>3. /\ IsFiniteSet(Future(j) \union New)
        /\ Cardinality(Future(j) \union New) = F + MaxAttempts - Cardinality(Future(j) \cap New)
    BY <1>3, <2>1, FS_Union
  <2>4. Cardinality(Future(j) \cap New) \in Nat
    <3>1. Future(j) \cap New \subseteq New
      OBVIOUS
    <3>2. IsFiniteSet(Future(j) \cap New)
      BY <2>1, <3>1, FS_Subset
    <3> QED
      BY <3>2, FS_CardinalityType
  <2>5. IsFiniteSet(Future(j)') /\ G <= Cardinality(Future(j) \union New)
    BY <2>2, <2>3, FS_Subset
  <2>6. G \in Nat
    BY <2>5, FS_CardinalityType
  <2> DEFINE n == queue'[j]
             a == MaxAttempts * queue[j]
             b == MaxAttempts * n
             c == MaxAttempts * Published(j)
  <2>7. n \in Nat /\ queue[j] = n + 1
    BY <1>5, <1>7 DEF Deliver, Shape, TypeOK
  <2>8. a = b + MaxAttempts /\ b \in Nat /\ c \in Nat
    BY <1>5, <2>7, Times
  <2>9. renders[j] + F + a <= c
    BY <1>3
  <2> HIDE DEF a, b, c, n, F, G
  <2>10. renders[j] + G + b <= c
    <3>1. G <= F + MaxAttempts
      BY <1>5, <2>3, <2>4, <2>5, <2>6, ConstantsAssumption DEF F
    <3> QED
      BY <1>5, <2>6, <2>8, <2>9, <3>1, ConstantsAssumption
  <2> QED
    BY <1>4, <2>5, <2>10 DEF b, c, n, G
<1> QED
  BY <1>6, <1>7

\* A node that is entered changes the count of its own job only; the render it
\* makes is no longer ahead.
LEMMA EnteringSpends ==
  ASSUME Shape, Shape', Spent, NEW w \in Workers, EnterNode(w)
  PROVE  Spent'
<1> DEFINE k == run[w].job
<1>1. Active(w) /\ k \in Jobs /\ run[w] \in Runs
  BY ExecutionIsRun, RowOfExecution DEF EnterNode, Active
<1>2. PICK q \in Runs :
         /\ run' = [run EXCEPT ![w] = q]
         /\ Down(run[w], q)
         /\ run[w].stage = "avatar" => Left(run[w]) = Left(q) + 1
  BY GotoDown, Literals DEF EnterNode, Follows
<1>3. \A j \in Jobs : Future(j)' \subseteq Future(j)
  BY <1>2, FutureShrinks DEF Down
<1>4. queue' = queue /\ \A j \in Jobs : Published(j)' = Published(j)
  BY DEF EnterNode, Published
<1>5. CASE run[w].stage # "avatar"
  <2>1. renders' = renders
    BY <1>5 DEF EnterNode, Shape, TypeOK
  <2>2. \A j \in Jobs : Published(j)' >= Published(j)
    BY <1>4, Counts
  <2> QED
    BY <1>3, <1>4, <2>1, <2>2, NothingSpent
<1>6. CASE run[w].stage = "avatar"
  <2> SUFFICES ASSUME NEW j \in Jobs
               PROVE  /\ IsFiniteSet(Future(j)')
                      /\ renders'[j] + Cardinality(Future(j)') + MaxAttempts * queue'[j]
                            <= MaxAttempts * Published(j)'
    BY DEF Spent
  <2> DEFINE F == Cardinality(Future(j))  G == Cardinality(Future(j)')
             a == MaxAttempts * queue[j]  c == MaxAttempts * Published(j)
             n == renders[j]              m == renders'[j]
  <2>1. IsFiniteSet(Future(j)) /\ n + F + a <= c
    BY DEF Spent
  <2>2. n \in Nat /\ a \in Nat /\ c \in Nat /\ F \in Nat
    BY <2>1, Counts, Times, FS_CardinalityType
  <2>3. IsFiniteSet(Future(j)') /\ G \in Nat /\ G <= F
    BY <1>3, <2>1, FS_Subset, FS_CardinalityType
  <2>4. m + G <= n + F
    <3>1. CASE j # k
      <4>1. m = n
        BY <3>1 DEF EnterNode, Shape, TypeOK
      <4> QED
        BY <2>2, <2>3, <4>1
    <3>2. CASE j = k
      <4> DEFINE e == <<w, Left(run[w])>>
      <4>1. m = n + 1
        BY <1>6, <3>2 DEF EnterNode, Shape, TypeOK
      <4>2. Left(run[w]) \in 1 .. MaxAttempts /\ Left(q) \in Int
        BY <1>1, <1>2, <1>6, LeftBounds, ConstantsAssumption
      <4>3. e \in Future(j)
        BY <1>1, <3>2, <4>2 DEF Future, InWork
      <4>4. e \notin Future(j)'
        <5>1. run'[w] = q
          BY <1>2 DEF Shape, TypeOK
        <5>2. ~(Left(run[w]) <= Left(q))
          BY <1>2, <1>6, <4>2
        <5> QED
          BY <5>1, <5>2 DEF Future
      <4> HIDE DEF e
      <4>5. Future(j)' \subseteq Future(j) \ {e}
        BY <1>3, <4>4
      <4>6. IsFiniteSet(Future(j) \ {e}) /\ Cardinality(Future(j) \ {e}) = F - 1
        BY <2>1, <4>3, FS_RemoveElement
      <4>7. G <= F - 1
        BY <4>5, <4>6, FS_Subset
      <4> QED
        BY <2>2, <2>3, <4>1, <4>7
    <3> QED
      BY <3>1, <3>2
  <2> HIDE DEF F, G, a, c, n
  <2>5. m \in Nat
    BY DEF Shape, TypeOK
  <2> HIDE DEF m
  <2>6. m + G + a <= c
    BY <2>1, <2>2, <2>3, <2>4, <2>5
  <2> QED
    BY <1>4, <2>3, <2>6 DEF F, G, a, c, n, m
<1> QED
  BY <1>5, <1>6

LEMMA SpentStep == Shape /\ Shape' /\ Spent /\ [Next]_vars => Spent'
<1> SUFFICES ASSUME Shape, Shape', Spent, [Next]_vars  PROVE Spent'
  OBVIOUS
\* A step that leaves the executions alone.
<1>1. ASSUME UNCHANGED <<run, renders, redelivered>>,
             \A j \in Jobs :
                \/ queue'[j] = queue[j]
                   /\ (api[j] = "accepted" => api'[j] = "accepted")
                \/ queue'[j] = queue[j] + 1 /\ api[j] # "accepted" /\ api'[j] = "accepted"
      PROVE  Spent'
  <2>1. \A j \in Jobs : Future(j)' = Future(j)
    BY <1>1 DEF Future, InWork
  <2>2. ASSUME NEW j \in Jobs
        PROVE  \/ queue'[j] = queue[j] /\ Published(j)' >= Published(j)
               \/ queue'[j] = queue[j] + 1 /\ Published(j)' = Published(j) + 1
    BY <1>1, Counts DEF Published
  <2> QED
    BY <1>1, <2>1, <2>2, NothingSpent
<1>2. ASSUME NEW w \in Workers, NEW q \in Runs, run' = [run EXCEPT ![w] = q],
             Onward(run[w], q), UNCHANGED <<api, renders>>,
             \/ UNCHANGED <<queue, redelivered>>
             \/ \E k \in Jobs : Redeliver(k)
      PROVE  Spent'
  <2>1. \A j \in Jobs : Future(j)' \subseteq Future(j)
    BY <1>2, FutureShrinks
  <2>2. ASSUME NEW j \in Jobs
        PROVE  \/ queue'[j] = queue[j] /\ Published(j)' >= Published(j)
               \/ queue'[j] = queue[j] + 1 /\ Published(j)' = Published(j) + 1
    <3>1. CASE UNCHANGED <<queue, redelivered>>
      BY <1>2, <3>1, Counts DEF Published
    <3>2. ASSUME NEW k \in Jobs, Redeliver(k)  PROVE <2>2!2
      <4>1. CASE j = k
        BY <1>2, <3>2, <4>1, Counts DEF Redeliver, Published, Shape, TypeOK
      <4>2. CASE j # k
        BY <1>2, <3>2, <4>2, Counts DEF Redeliver, Published, Shape, TypeOK
      <4> QED
        BY <4>1, <4>2
    <3> QED
      BY <1>2, <3>1, <3>2
  <2> QED
    BY <1>2, <2>1, <2>2, NothingSpent
<1>3. CASE \E j \in Jobs : CreateJob(j) \/ EnqueueJob(j) \/ EnqueueFails(j)
  <2> PICK j \in Jobs : CreateJob(j) \/ EnqueueJob(j) \/ EnqueueFails(j)
    BY <1>3
  <2>1. CASE CreateJob(j)
    BY <1>1, <2>1 DEF CreateJob, Shape, TypeOK
  <2>2. CASE EnqueueJob(j)
    BY <1>1, <2>2 DEF EnqueueJob, Shape, TypeOK
  <2>3. CASE EnqueueFails(j)
    BY <1>1, <2>3 DEF EnqueueFails, Shape, TypeOK
  <2> QED
    BY <2>1, <2>2, <2>3
<1>4. CASE \E w \in Workers, j \in Jobs : Deliver(w, j)
  BY <1>4, DeliverySpends
<1>5. ASSUME NEW w \in Workers, Fault(w)  PROVE Spent'
  <2>1. PICK q \in Runs : run' = [run EXCEPT ![w] = q] /\ Onward(run[w], q)
    BY <1>5, FaultOnward
  <2>2. UNCHANGED <<api, renders>>
    BY <1>5 DEF Fault, BrokerLost, WorkerCrash, ChildLost, SoftLimit, HardLimit
  <2>3. UNCHANGED <<queue, redelivered>> \/ \E k \in Jobs : Redeliver(k)
    <3>1. Active(w) => run[w].job \in Jobs
      BY DEF Shape, Assigned
    <3> QED
      BY <1>5, <3>1
         DEF Fault, BrokerLost, WorkerCrash, ChildLost, SoftLimit, HardLimit
  <2> QED
    BY <1>2, <2>1, <2>2, <2>3
<1>6. ASSUME NEW w \in Workers, RunStep(w)  PROVE Spent'
  <2>1. CASE EnterNode(w)
    BY <2>1, EnteringSpends
  <2>2. CASE ~EnterNode(w)
    <3>1. PICK q \in Runs : run' = [run EXCEPT ![w] = q] /\ Down(run[w], q)
      BY <1>6, RunStepDown
    <3>2. UNCHANGED <<api, renders, queue, redelivered>>
      BY <1>6, <2>2
         DEF RunStep, MarkRunning, LoadJob, StartFails, NodeSucceeds, Complete,
             NodeRaises, Report, RecordFailure, RecordFails, PushDeadLetter, Acknowledge
    <3> QED
      BY <1>2, <3>1, <3>2 DEF Down
  <2> QED
    BY <2>1, <2>2
<1>7. CASE UNCHANGED <<api, run, renders, queue, redelivered>>
  BY <1>1, <1>7
<1>8. CASE \E s \in Streams, j \in Jobs : OpenStream(s, j)
  BY <1>7, <1>8 DEF OpenStream
<1>9. CASE \E s \in Streams : Poll(s) \/ DropStream(s)
  BY <1>7, <1>9 DEF Poll, DropStream
<1>10. CASE UNCHANGED vars
  BY <1>7, <1>10 DEF vars
<1> QED
  BY <1>3, <1>4, <1>5, <1>6, <1>8, <1>9, <1>10 DEF Next

LEMMA SpentBounds == Shape /\ Spent => RenderBudget
<1> SUFFICES ASSUME Shape, Spent, NEW j \in Jobs
             PROVE  renders[j] <= MaxAttempts * (1 + redelivered[j])
  BY DEF RenderBudget
<1>1. /\ IsFiniteSet(Future(j))
      /\ renders[j] + Cardinality(Future(j)) + MaxAttempts * queue[j]
            <= MaxAttempts * Published(j)
  BY DEF Spent
<1> DEFINE F == Cardinality(Future(j))  a == MaxAttempts * queue[j]
           c == MaxAttempts * Published(j)
           d == MaxAttempts * (1 + redelivered[j])
<1>2. F \in Nat /\ a \in Nat /\ c \in Nat /\ renders[j] \in Nat
  BY <1>1, Counts, Times, FS_CardinalityType
<1>3. c <= d
  <2>1. Published(j) \in Nat /\ 1 + redelivered[j] \in Nat /\ Published(j) <= 1 + redelivered[j]
    BY Counts DEF Published
  <2> QED
    BY <2>1, Times
<1>4. d \in Nat
  <2>1. 1 + redelivered[j] \in Nat
    BY Counts
  <2> QED
    BY <2>1, Times
<1>5. renders[j] + F + a <= c
  BY <1>1
<1> HIDE DEF F, a, c, d
<1>6. renders[j] <= d
  BY <1>2, <1>3, <1>4, <1>5
<1> QED
  BY <1>6 DEF d

\* A message pays for MaxAttempts renders, and nothing but a message does: a
\* render is charged at most MaxAttempts times for every time the broker took
\* the message back, and MaxAttempts times for the first (RenderBudget: the
\* avatar node, its RetryPolicy, and the acknowledgement settings).
THEOREM RenderBudgetHolds == Spec => []RenderBudget
<1>1. Init => Shape /\ Spent
  BY ShapeInit, SpentInit
<1>2. Shape /\ Spent /\ [Next]_vars => Shape' /\ Spent'
  BY ShapeStep, SpentStep
<1>3. Shape /\ Spent => RenderBudget
  BY SpentBounds
<1> QED
  BY <1>1, <1>2, <1>3, PTL DEF Spec

\* No step, of the pipeline, of the broker or of a fault, gives an execution
\* under way more to do, and every step of its own leaves it less: it ends
\* after at most 8 * MaxAttempts + 6 of them, whatever its calls return.
RunDown ==
    [][\A w \in Workers : Active(w) =>
          /\ Togo(run[w]) \in 0 .. 8 * MaxAttempts + 6
          /\ Togo(run'[w]) <= Togo(run[w])
          /\ RunStep(w) => Togo(run'[w]) < Togo(run[w])]_vars

\* What generate_video_task and run_pipeline do for one delivery is bounded
\* (RunDown): the half of AcceptedJobRests that needs no fairness.
THEOREM ExecutionsRunDown == Spec => RunDown
<1> DEFINE Falls == \A w \in Workers : Active(w) =>
                       /\ Togo(run[w]) \in 0 .. 8 * MaxAttempts + 6
                       /\ Togo(run'[w]) <= Togo(run[w])
                       /\ RunStep(w) => Togo(run'[w]) < Togo(run[w])
<1>1. ASSUME Shape, [Next]_vars, NEW w \in Workers, Active(w)
      PROVE  /\ Togo(run[w]) \in 0 .. 8 * MaxAttempts + 6
             /\ Togo(run'[w]) <= Togo(run[w])
             /\ RunStep(w) => Togo(run'[w]) < Togo(run[w])
  <2>1. Togo(run[w]) \in Int /\ Togo(run[w]) \in 0 .. 8 * MaxAttempts + 6
    BY <1>1, ConstantsAssumption, ExecutionIsRun, TogoBounds
  <2>2. ASSUME RunStep(w)
        PROVE  Togo(run'[w]) < Togo(run[w]) /\ Togo(run'[w]) <= Togo(run[w])
    <3>1. PICK q \in Runs : run' = [run EXCEPT ![w] = q] /\ Down(run[w], q)
      BY <1>1, <2>2, RunStepDown
    <3>2. run'[w] = q
      BY <1>1, <3>1 DEF Shape, TypeOK
    <3> QED
      BY <3>1, <3>2 DEF Down, Onward
  <2>3. ASSUME Fault(w)  PROVE Togo(run'[w]) <= Togo(run[w])
    <3>1. PICK q \in Runs : run' = [run EXCEPT ![w] = q] /\ Onward(run[w], q)
      BY <1>1, <2>3, FaultOnward
    <3>2. run'[w] = q
      BY <1>1, <3>1 DEF Shape, TypeOK
    <3> QED
      BY <3>1, <3>2 DEF Onward
  <2>4. CASE run'[w] = run[w] /\ ~RunStep(w)
    BY <2>1, <2>4
  <2>5. RunStep(w) \/ Fault(w) \/ run'[w] = run[w]
    <3>1. ASSUME NEW v \in Workers, NEW j \in Jobs, Deliver(v, j)  PROVE run'[w] = run[w]
      BY <1>1, <3>1 DEF Deliver, Shape, TypeOK
    <3>2. ASSUME NEW v \in Workers, v # w, RunStep(v) \/ Fault(v)  PROVE run'[w] = run[w]
      <4>1. PICK q \in Runs : run' = [run EXCEPT ![v] = q]
        BY <1>1, <3>2, RunStepDown, FaultOnward
      <4> QED
        BY <1>1, <3>2, <4>1 DEF Shape, TypeOK
    <3>3. CASE UNCHANGED run
      BY <3>3
    <3>4. CASE \E j \in Jobs : CreateJob(j) \/ EnqueueJob(j) \/ EnqueueFails(j)
      BY <3>3, <3>4 DEF CreateJob, EnqueueJob, EnqueueFails
    <3>5. CASE \E s \in Streams, j \in Jobs : OpenStream(s, j)
      BY <3>3, <3>5 DEF OpenStream
    <3>6. CASE \E s \in Streams : Poll(s) \/ DropStream(s)
      BY <3>3, <3>6 DEF Poll, DropStream
    <3>7. CASE UNCHANGED vars
      BY <3>3, <3>7 DEF vars
    <3> QED
      BY <1>1, <3>1, <3>2, <3>4, <3>5, <3>6, <3>7 DEF Next
  <2> QED
    BY <2>1, <2>2, <2>3, <2>4, <2>5
<1>2. Shape /\ [Next]_vars => [Falls]_vars
  BY <1>1
<1>3. Spec => []Shape
  BY ShapeInit, ShapeStep, PTL DEF Spec
<1> QED
  BY <1>2, <1>3, PTL DEF Spec, RunDown
=============================================================================
