------------------------------- MODULE JobQueue -------------------------------
(***************************************************************************)
(* What the rest of the system may rely on of the automation engine: a     *)
(* queue of jobs that are opened once, served one at a time and finished,  *)
(* in which only a fault lets a finished job be served again.              *)
(***************************************************************************)
EXTENDS Naturals

CONSTANTS Jobs,   \* what may be asked of the queue
          Blocks  \* what serving a job may do to the outside world

VARIABLES state,    \* "absent", "open" or how the job ended
          effects,  \* how often each block acted for each job
          hits      \* faults that struck a job

vars == <<state, effects, hits>>

States == {"absent", "open", "done", "failed", "cancelled"}

\* A cancelled job is not finished: a process that had chosen it before may
\* still serve it.
Servable(j) == state[j] \in {"open", "cancelled"} \/ (state[j] # "absent" /\ hits[j] > 0)

Init ==
  /\ state = [j \in Jobs |-> "absent"]
  /\ effects = [j \in Jobs |-> [b \in Blocks |-> 0]]
  /\ hits = [j \in Jobs |-> 0]

Opens(j) ==
  /\ state[j] = "absent"
  /\ state' = [state EXCEPT ![j] = "open"]
  /\ UNCHANGED <<effects, hits>>

\* One block acts, or the job changes its state, or both.
Serves(j) ==
  /\ Servable(j)
  /\ \/ effects' = effects
     \/ \E b \in Blocks : effects' = [effects EXCEPT ![j][b] = @ + 1]
  /\ \E s \in States \ {"absent"} : state' = [state EXCEPT ![j] = s]
  /\ UNCHANGED hits

\* A fault strikes the job, alone or while a block acts for it.
Strikes(j) ==
  /\ state[j] # "absent"
  /\ hits' = [hits EXCEPT ![j] = @ + 1]
  /\ \/ UNCHANGED <<state, effects>>
     \/ /\ Servable(j)
        /\ \E b \in Blocks : effects' = [effects EXCEPT ![j][b] = @ + 1]
        /\ \E s \in States \ {"absent"} : state' = [state EXCEPT ![j] = s]

Next == \E j \in Jobs : Opens(j) \/ Serves(j) \/ Strikes(j)

Spec == Init /\ [][Next]_vars
=============================================================================
