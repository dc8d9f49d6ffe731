------------------------------- MODULE TaskPool -------------------------------
(***************************************************************************)
(* What mocker::Scheduler promises the program that hands tasks to it,     *)
(* without threads, list or coroutine objects: a task that was submitted   *)
(* runs, on one thread at a time, from its beginning to its end exactly    *)
(* once, with pauses (Yield) and sleeps (Sleep) in between, and the pool   *)
(* closes (stop() returns) only when nothing waits and nothing runs.       *)
(***************************************************************************)
CONSTANT Task

VARIABLES phase,   \* where each task is in its life
          open     \* stop() has not returned since the last start()

vars == <<phase, open>>

Phases == {"new", "pending", "running", "asleep", "done"}

(* Every task has a phase.                                                 *)
TypeOK == phase \in [Task -> Phases] /\ open \in BOOLEAN

Init == phase = [t \in Task |-> "new"] /\ open = TRUE

Move(t, from, to) ==
  /\ phase[t] = from
  /\ phase' = [phase EXCEPT ![t] = to]
  /\ UNCHANGED open

Submit(S) ==
  /\ open
  /\ \A t \in S : phase[t] = "new"
  /\ phase' = [t \in Task |-> IF t \in S THEN "pending" ELSE phase[t]]
  /\ UNCHANGED open

Resume(t) == Move(t, "pending", "running")
Pause(t)  == Move(t, "running", "pending")
Block(t)  == Move(t, "running", "asleep")
Wake(t)   == open /\ Move(t, "asleep", "pending")
Finish(t) == Move(t, "running", "done")

Close ==
  /\ open
  /\ \A t \in Task : phase[t] \notin {"pending", "running"}
  /\ open' = FALSE
  /\ UNCHANGED phase

Reopen == ~open /\ open' = TRUE /\ UNCHANGED phase

Next ==
  \/ \E S \in SUBSET Task : Submit(S)
  \/ \E t \in Task : Resume(t) \/ Pause(t) \/ Block(t) \/ Wake(t) \/ Finish(t)
  \/ Close \/ Reopen

Spec == Init /\ [][Next]_vars
=============================================================================
