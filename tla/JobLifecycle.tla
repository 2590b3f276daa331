--------------------------- MODULE JobLifecycle ---------------------------
(***************************************************************************)
(* What the job table promises to everyone who reads it.                   *)
(*                                                                         *)
(* A job is created queued.  From then on its status is written only by    *)
(* executions: an execution that is due opens by marking the job running,  *)
(* may record an outcome while it is open, and closes.  One that ends      *)
(* before it records an outcome leaves the job due again, or abandoned;    *)
(* being abandoned is the only way in which a running job that nobody      *)
(* works on, and nobody will, can lack an outcome.  Several executions of  *)
(* one job may be open at once: the broker delivers at least once.         *)
(***************************************************************************)

CONSTANTS Jobs,       \* job identifiers
          Executors   \* who can execute a job, one execution at a time

VARIABLES status,     \* the status column of each job, "absent" before creation
          due,        \* the jobs an execution of which has still to open
          open,       \* the executors that have an execution of the job open
          settled,    \* those of them that have recorded an outcome
          abandoned   \* whether some execution of the job ended without one

vars == <<status, due, open, settled, abandoned>>

Outcome == {"completed", "failed"}

Init ==
    /\ status = [j \in Jobs |-> "absent"]
    /\ due = {}
    /\ open = [j \in Jobs |-> {}]
    /\ settled = [j \in Jobs |-> {}]
    /\ abandoned = [j \in Jobs |-> FALSE]

Create(j) ==
    /\ status[j] = "absent"
    /\ status' = [status EXCEPT ![j] = "queued"]
    /\ UNCHANGED <<due, open, settled, abandoned>>

\* An execution of a created job is asked for, the first or one more.
Publish(j) ==
    /\ status[j] # "absent"
    /\ due' = due \union {j}
    /\ UNCHANGED <<status, open, settled, abandoned>>

\* Others may be due after this one.
Open(j, e) ==
    /\ status[j] # "absent"
    /\ j \in due
    /\ due' \in {due, due \ {j}}
    /\ e \notin open[j]
    /\ status' = [status EXCEPT ![j] = "running"]
    /\ open' = [open EXCEPT ![j] = @ \union {e}]
    /\ UNCHANGED <<settled, abandoned>>

Record(j, e) ==
    /\ e \in open[j]
    /\ \E o \in Outcome : status' = [status EXCEPT ![j] = o]
    /\ settled' = [settled EXCEPT ![j] = @ \union {e}]
    /\ UNCHANGED <<due, open, abandoned>>

\* An execution closes once it has recorded an outcome, and may be asked for
\* again all the same ...
Close(j, e) ==
    /\ e \in settled[j]
    /\ open' = [open EXCEPT ![j] = @ \ {e}]
    /\ settled' = [settled EXCEPT ![j] = @ \ {e}]
    /\ due' \in {due, due \union {j}}
    /\ UNCHANGED <<status, abandoned>>

\* ... or is cut short: then the job is due again, or abandoned.
CutShort(j, e) ==
    /\ e \in open[j] \ settled[j]
    /\ open' = [open EXCEPT ![j] = @ \ {e}]
    /\ \/ /\ due' = due \union {j}
          /\ UNCHANGED abandoned
       \/ /\ abandoned' = [abandoned EXCEPT ![j] = TRUE]
          /\ UNCHANGED due
    /\ UNCHANGED <<status, settled>>

\* A job may also be given up before any execution of it, or one more, opens.
GiveUp(j) ==
    /\ abandoned' = [abandoned EXCEPT ![j] = TRUE]
    /\ due' \in {due, due \ {j}}
    /\ UNCHANGED <<status, open, settled>>

Next ==
    \E j \in Jobs :
        \/ Create(j) \/ Publish(j) \/ GiveUp(j)
        \/ \E e \in Executors :
              Open(j, e) \/ Record(j, e) \/ Close(j, e) \/ CutShort(j, e)

Spec == Init /\ [][Next]_vars

\* A job that says it is running is being worked on, will be again, or was
\* abandoned (the status column of JobRepository.mark_running).
RunningIsAccountedFor ==
    \A j \in Jobs :
        status[j] = "running" => j \in due \/ open[j] \ settled[j] # {} \/ abandoned[j]
=============================================================================
