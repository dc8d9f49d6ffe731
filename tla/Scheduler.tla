------------------------------ MODULE Scheduler ------------------------------
(***************************************************************************)
(* mocker::Scheduler (mocker/schedule.h, mocker/schedule.cpp): a pool of   *)
(* threads, and optionally the thread that built the Scheduler, take       *)
(* callbacks and coroutines from one list and run them as coroutines       *)
(* (mocker/coroutine.cpp) until stop() has drained the list.               *)
(*                                                                         *)
(* Every block that holds m_mutex is one step.  The state of a coroutine   *)
(* and the two thread counters are read and written outside the mutex, so  *)
(* each of those accesses is in a step of its own.                         *)
(***************************************************************************)
EXTENDS Naturals, FiniteSets, SequencesExt

CONSTANTS
  Workers,     \* the threads start() may create
  Caller,      \* the thread that constructs the Scheduler and calls start() and stop()
  UseCaller,   \* the constructor's use_caller argument
  Task,        \* the functions the program hands over
  Cort,        \* Coroutine objects
  Usage,       \* what the program does with the scheduler, see UsageKinds
  MaxSuspend,  \* bound: calls of Yield() and Sleep() per task
  MaxStarts,   \* bound: calls of start() that start something
  Null         \* no coroutine, no callback, or no particular thread (-1)

(***************************************************************************)
(* yield, sleep: a task calls Coroutine::Yield(), Coroutine::Sleep();      *)
(* throw: a task ends with an exception;                                   *)
(* pin: the caller names a thread in schedule(), a task names its own;     *)
(* pinOther: a task names a thread other than its own;                     *)
(* stale: a coroutine that has ended is scheduled again;                   *)
(* restart: start() is called again after stop();                          *)
(* earlyWake: a coroutine is scheduled for its wake-up while it still runs *)
(*   (the scan of run() passes over it then) or is about to sleep, not     *)
(*   only once the thread it slept on is done with it;                     *)
(* outside: a thread that is neither the caller nor a task goes on calling *)
(*   schedule() while stop() runs and after it has returned.               *)
(***************************************************************************)
UsageKinds == {"yield", "sleep", "throw", "pin", "pinOther", "stale",
               "restart", "earlyWake", "outside"}

Runners == Workers \cup (IF UseCaller THEN {Caller} ELSE {})

ASSUME SchedulerAssumption ==
  /\ IsFiniteSet(Workers) /\ Caller \notin Workers
  /\ UseCaller \in BOOLEAN /\ Runners # {}     \* MOCKER_ASSERT(threads > 0)
  /\ Usage \subseteq UsageKinds
  /\ MaxSuspend \in Nat /\ MaxStarts \in Nat
  /\ Null \notin Task \cup Cort \cup Runners

VARIABLES
  m_coroutines,         \* the list of work, sequence of ContextOfExecute
  m_activeThreadCount,  \* threads that have taken work and not yet given it back
  m_idleThreadCount,    \* threads inside their idle coroutine
  poolThreads,          \* the threads start() creates: m_threadCount is their number
  m_stopping,           \* not started, or stop() called
  m_autoStop,           \* stop() has been called at least once
  m_rootState,          \* state of m_rootCoroutine, Null without use_caller
  ctl,                  \* where the caller thread is
  pc,                   \* where each runner is in run()
  coe,                  \* run()'s local coe
  cb_coroutine,         \* run()'s local cb_coroutine
  idle_coroutine,       \* state of run()'s local idle_coroutine
  m_state,              \* Coroutine::m_state of each object, "NONE" if not constructed
  m_cb,                 \* Coroutine::m_cb
  issued,               \* history: tasks handed to schedule()
  ended,                \* history: tasks that returned or threw
  late,                 \* history: tasks handed over from outside since stop() was called
  suspends,             \* Yield() and Sleep() calls of each task so far
  starts,               \* effective calls of start() so far
  failed                \* the MOCKER_ASSERT that aborted the program, or "none"

queueVars  == <<m_coroutines, m_activeThreadCount, m_idleThreadCount>>
flagVars   == <<poolThreads, m_stopping, m_autoStop, m_rootState, ctl, starts>>
runVars    == <<pc, coe, cb_coroutine, idle_coroutine>>
cortVars   == <<m_state, m_cb>>
taskVars   == <<issued, ended, late, suspends>>
vars == <<queueVars, flagVars, runVars, cortVars, taskVars, failed>>

States  == {"INIT", "READY", "EXEC", "HOLD", "TERM", "EXCEPT"}
Dead    == {"TERM", "EXCEPT"}
Entry   == [cort : Cort \cup {Null}, cb : Task \cup {Null}, thread : Runners \cup {Null}]
NoEntry == [cort |-> Null, cb |-> Null, thread |-> Null]
CortEntry(c, th) == [cort |-> c, cb |-> Null, thread |-> th]
CbEntry(t, th)   == [cort |-> Null, cb |-> t, thread |-> th]

CtlStates == {"user", "stop1", "stop2", "stop3", "root", "join", "stopped", "gone"}
PcStates  == {"unborn", "scan", "picked", "exec", "out", "back", "idle",
              "idleout", "exited"}

(* One type for every variable; nothing else is said here.                 *)
TypeOK ==
  /\ m_coroutines \in Seq(Entry)
  /\ m_activeThreadCount \in Nat
  /\ m_idleThreadCount \in Nat
  /\ poolThreads \subseteq Workers
  /\ m_stopping \in BOOLEAN
  /\ m_autoStop \in BOOLEAN
  /\ m_rootState \in States \cup {Null}
  /\ ctl \in CtlStates
  /\ pc \in [Runners -> PcStates]
  /\ coe \in [Runners -> Entry]
  /\ cb_coroutine \in [Runners -> Cort \cup {Null}]
  /\ idle_coroutine \in [Runners -> States]
  /\ m_state \in [Cort -> States \cup {"NONE"}]
  /\ m_cb \in [Cort -> Task \cup {Null}]
  /\ issued \subseteq Task
  /\ ended \subseteq Task
  /\ late \subseteq Task
  /\ suspends \in [Task -> 0..MaxSuspend]
  /\ starts \in 0..MaxStarts
  /\ failed \in {"none", "swapIn", "reset", "neverReached"}

(***************************************************************************)
(* The constructor has run: the number of threads is fixed, and with       *)
(* use_caller, which counts as one of them, the root coroutine exists and  *)
(* waits for stop() to call it.  MOCKER_ASSERT(threads > 0).               *)
(***************************************************************************)
Init ==
  /\ m_coroutines = <<>>
  /\ m_activeThreadCount = 0
  /\ m_idleThreadCount = 0
  /\ poolThreads \in SUBSET Workers
  /\ UseCaller \/ poolThreads # {}
  /\ m_stopping = TRUE
  /\ m_autoStop = FALSE
  /\ m_rootState = IF UseCaller THEN "INIT" ELSE Null
  /\ ctl = "user"
  /\ pc = [r \in Runners |-> "unborn"]
  /\ coe = [r \in Runners |-> NoEntry]
  /\ cb_coroutine = [r \in Runners |-> Null]
  /\ idle_coroutine = [r \in Runners |-> "INIT"]
  /\ m_state = [c \in Cort |-> "NONE"]
  /\ m_cb = [c \in Cort |-> Null]
  /\ issued = {}
  /\ ended = {}
  /\ late = {}
  /\ suspends = [t \in Task |-> 0]
  /\ starts = 0
  /\ failed = "none"

-----------------------------------------------------------------------------
(* Helpers                                                                 *)

(* stopping(): evaluated under m_mutex.  The flags it reads only change to *)
(* TRUE without the mutex and m_activeThreadCount only grows under it.     *)
Stopping ==
  /\ m_autoStop /\ m_stopping
  /\ m_coroutines = <<>> /\ m_activeThreadCount = 0

(* The coroutine whose stack runner r is on between swapIn() and the end   *)
(* of the loop body: coe.coroutine, or cb_coroutine once coe was reset.    *)
Running(r) == IF coe[r].cort # Null THEN coe[r].cort ELSE cb_coroutine[r]

Holds(r, c) == \/ coe[r].cort = c
               \/ cb_coroutine[r] = c
Queued(c) == \E i \in DOMAIN m_coroutines : m_coroutines[i].cort = c
Settled(c) == ~Queued(c) /\ \A r \in Runners : ~Holds(r, c)
Taken(c) == \E r \in Runners : pc[r] = "picked" /\ coe[r].cort = c

(* Mutant of Eligible: a coroutine that slept is passed over.              *)
EligibleNeverHeld(r, e) ==
  /\ e.thread \in {Null, r}
  /\ e.cort # Null => m_state[e.cort] \notin {"EXEC", "HOLD"}

(* The entry loop of run() passes over work pinned to another thread and   *)
(* over a coroutine that is executing.                                     *)
Eligible(r, e) ==
  /\ e.thread \in {Null, r}
  /\ e.cort # Null => m_state[e.cort] # "EXEC"

-----------------------------------------------------------------------------
(* What the program may ask of schedule(), from the caller or from a task  *)

(* scheduleNoLock: append the entry.  tickle() only logs.                  *)
Push(es) == m_coroutines' = m_coroutines \o es

ScheduleCb(t, th) ==
  /\ t \notin issued
  /\ issued' = issued \cup {t}
  /\ Push(<<CbEntry(t, th)>>)
  /\ UNCHANGED cortVars

ScheduleCort(t, c, th) ==
  /\ t \notin issued /\ m_state[c] = "NONE"
  /\ issued' = issued \cup {t}
  /\ m_state' = [m_state EXCEPT ![c] = "INIT"]
  /\ m_cb' = [m_cb EXCEPT ![c] = t]
  /\ Push(<<CortEntry(c, th)>>)

ScheduleRange(t1, t2) ==
  /\ t1 \notin issued /\ t2 \notin issued /\ t1 # t2
  /\ issued' = issued \cup {t1, t2}
  /\ Push(<<CbEntry(t1, Null), CbEntry(t2, Null)>>)
  /\ UNCHANGED cortVars

(* Waking a coroutine that called Sleep(), once per sleep.  The program    *)
(* can only look at getState(); it has to know by other means that the     *)
(* thread the coroutine slept on is done with it.                          *)
Wake(c) ==
  /\ \/ m_state[c] = "HOLD" /\ Settled(c)
     \/ /\ "earlyWake" \in Usage /\ m_state[c] \in {"EXEC", "HOLD"}
        /\ ~Queued(c) /\ ~Taken(c)
  /\ Push(<<CortEntry(c, Null)>>)
  /\ UNCHANGED <<cortVars, issued>>

Schedule(threads) ==
  \/ \E t \in Task, th \in threads : ScheduleCb(t, th)
  \/ \E t \in Task, c \in Cort, th \in threads : ScheduleCort(t, c, th)
  \/ \E t1, t2 \in Task : ScheduleRange(t1, t2)
  \/ \E c \in Cort : Wake(c)

-----------------------------------------------------------------------------
(* The caller thread                                                       *)

(* start(): holds m_mutex from the test to the last thread's creation, and *)
(* each Thread constructor waits until its thread runs; the new threads'   *)
(* first access to shared state is the scan, behind the same mutex.        *)
Start ==
  /\ failed = "none"
  /\ ctl = "user" \/ (ctl = "stopped" /\ "restart" \in Usage)
  /\ m_stopping /\ starts < MaxStarts
  /\ m_stopping' = FALSE
  /\ pc' = [r \in Runners |-> IF r \in poolThreads THEN "scan" ELSE pc[r]]
  /\ cb_coroutine' = [r \in Runners |-> IF r \in poolThreads THEN Null ELSE cb_coroutine[r]]
  /\ idle_coroutine' = [r \in Runners |-> IF r \in poolThreads THEN "INIT" ELSE idle_coroutine[r]]
  /\ starts' = starts + 1
  /\ late' = {}
  /\ ctl' = "user"
  /\ UNCHANGED <<queueVars, poolThreads, m_autoStop, m_rootState, coe, cortVars, issued,
                 ended, suspends, failed>>

(* Threads whose id the program can know: the caller's, and those started. *)
KnownThreads == {r \in Runners : r = Caller \/ pc[r] # "unborn"}

CallerSchedules ==
  /\ failed = "none" /\ ctl = "user"
  /\ Schedule({Null} \cup IF "pin" \in Usage THEN KnownThreads ELSE {})
  /\ UNCHANGED <<m_activeThreadCount, m_idleThreadCount, flagVars, runVars,
                 ended, late, suspends, failed>>

(* The task an entry of the list stands for.                               *)
EntryTask(e) == IF e.cort # Null THEN m_cb[e.cort] ELSE e.cb
InList(t) == \E i \in DOMAIN m_coroutines : EntryTask(m_coroutines[i]) = t

(* schedule() asks nobody whether stop() has been called: a thread outside *)
(* the pool may still append to the list.                                  *)
OutsideSchedules ==
  /\ failed = "none" /\ "outside" \in Usage /\ ctl \notin {"user", "gone"}
  /\ Schedule({Null} \cup IF "pin" \in Usage THEN KnownThreads ELSE {})
  /\ late' = late \cup {t \in Task : InList(t)' /\ ~InList(t)}
  /\ UNCHANGED <<m_activeThreadCount, m_idleThreadCount, flagVars, runVars,
                 ended, suspends, failed>>

(* The program kept a reference to a coroutine that has ended.             *)
CallerSchedulesEnded(c) ==
  /\ failed = "none" /\ ctl = "user" /\ "stale" \in Usage
  /\ m_state[c] \in Dead /\ Settled(c)
  /\ Push(<<CortEntry(c, Null)>>)
  /\ UNCHANGED <<m_activeThreadCount, m_idleThreadCount, flagVars, runVars,
                 cortVars, taskVars, failed>>

(* stop(), from its first line to its return.  The program calls it when   *)
(* there is somebody to do the work: after start(), or with use_caller.    *)
StopBegin ==
  /\ failed = "none" /\ ctl = "user"
  /\ UseCaller \/ ~m_stopping
  /\ m_autoStop' = TRUE
  /\ ctl' = "stop1"
  /\ UNCHANGED <<queueVars, poolThreads, m_stopping, m_rootState, starts, runVars, cortVars,
                 taskVars, failed>>

(* The early return when the caller is the only runner.                    *)
StopAlone ==
  /\ failed = "none" /\ ctl = "stop1"
  /\ UNCHANGED <<queueVars, poolThreads, m_autoStop, m_rootState, starts, runVars, cortVars,
                 taskVars, failed>>
  /\ IF poolThreads = {} /\ m_rootState \in {"TERM", "INIT"}
     THEN /\ m_stopping' = TRUE
          /\ ctl' = IF Stopping' THEN "stopped" ELSE "stop2"
     ELSE /\ ctl' = "stop2"
          /\ UNCHANGED m_stopping

(* Mutant of StopFlag: m_stopping is not set again.                        *)
StopFlagForgets ==
  /\ failed = "none" /\ ctl = "stop2"
  /\ ctl' = "stop3"
  /\ UNCHANGED <<queueVars, poolThreads, m_stopping, m_autoStop, m_rootState, starts, runVars,
                 cortVars, taskVars, failed>>

StopFlag ==
  /\ failed = "none" /\ ctl = "stop2"
  /\ m_stopping' = TRUE
  /\ ctl' = "stop3"
  /\ UNCHANGED <<queueVars, poolThreads, m_autoStop, m_rootState, starts, runVars, cortVars,
                 taskVars, failed>>

(* Mutant of StopRoot: the root coroutine is not called.                   *)
StopRootSkipped ==
  /\ failed = "none" /\ ctl = "stop3"
  /\ ctl' = "join"
  /\ UNCHANGED <<queueVars, poolThreads, m_stopping, m_autoStop, m_rootState, starts, runVars,
                 cortVars, taskVars, failed>>

(* The caller joins in, through Coroutine::call(), unless all is done.     *)
(* call() on a root coroutine that has ended resumes it behind its back(). *)
StopRoot ==
  /\ failed = "none" /\ ctl = "stop3"
  /\ IF ~UseCaller \/ Stopping
     THEN /\ ctl' = "join"
          /\ UNCHANGED <<m_rootState, runVars, failed>>
     ELSE /\ ctl' = "root"
          /\ m_rootState' = "EXEC"
          /\ failed' = IF m_rootState \in Dead THEN "neverReached" ELSE "none"
          /\ pc' = [pc EXCEPT ![Caller] = "scan"]
          /\ idle_coroutine' = [idle_coroutine EXCEPT ![Caller] = "INIT"]
          /\ cb_coroutine' = [cb_coroutine EXCEPT ![Caller] = Null]
          /\ UNCHANGED coe
  /\ UNCHANGED <<queueVars, poolThreads, m_stopping, m_autoStop, starts, cortVars, taskVars>>

(* The root coroutine's run() is over: CallerMainFunc and back().          *)
RootBack ==
  /\ failed = "none" /\ ctl = "root" /\ pc[Caller] = "exited"
  /\ m_rootState' = "TERM"
  /\ ctl' = "join"
  /\ UNCHANGED <<queueVars, poolThreads, m_stopping, m_autoStop, starts, runVars, cortVars,
                 taskVars, failed>>

(* Mutant of StopJoin: the threads are not joined.                         *)
StopJoinNone ==
  /\ failed = "none" /\ ctl = "join"
  /\ ctl' = "stopped"
  /\ UNCHANGED <<queueVars, poolThreads, m_stopping, m_autoStop, m_rootState, starts, runVars,
                 cortVars, taskVars, failed>>

StopJoin ==
  /\ failed = "none" /\ ctl = "join"
  /\ \A w \in poolThreads : pc[w] \in {"unborn", "exited"}
  /\ ctl' = "stopped"
  /\ UNCHANGED <<queueVars, poolThreads, m_stopping, m_autoStop, m_rootState, starts, runVars,
                 cortVars, taskVars, failed>>

(* ~Scheduler, after a stop().                                             *)
Destroy ==
  /\ failed = "none" /\ ctl = "stopped"
  /\ ctl' = "gone"
  /\ UNCHANGED <<queueVars, poolThreads, m_stopping, m_autoStop, m_rootState, starts, runVars,
                 cortVars, taskVars, failed>>

-----------------------------------------------------------------------------
(* run(): what a runner does                                               *)

At(r, where) == failed = "none" /\ pc[r] = where
Goto(r, where) == pc' = [pc EXCEPT ![r] = where]

(* Mutants of Take: the runner is not counted; the entry is not erased.    *)
TakeWith(r, counted, erased) ==
  /\ At(r, "scan")
  /\ \E i \in DOMAIN m_coroutines :
       /\ Eligible(r, m_coroutines[i])
       /\ coe' = [coe EXCEPT ![r] = m_coroutines[i]]
       /\ m_coroutines' = IF erased THEN RemoveAt(m_coroutines, i) ELSE m_coroutines
  /\ m_activeThreadCount' = IF counted THEN m_activeThreadCount + 1 ELSE m_activeThreadCount
  /\ Goto(r, "picked")
  /\ UNCHANGED <<m_idleThreadCount, flagVars, cb_coroutine, idle_coroutine, cortVars,
                 taskVars, failed>>
TakeUncounted(r) == TakeWith(r, FALSE, TRUE)
TakeNotErased(r) == TakeWith(r, TRUE, FALSE)

(* The scan finds work: taken off the list and counted, in one block.      *)
Take(r) ==
  /\ At(r, "scan")
  /\ \E i \in DOMAIN m_coroutines :
       /\ Eligible(r, m_coroutines[i])
       /\ \A j \in 1..(i-1) : ~Eligible(r, m_coroutines[j])
       /\ coe' = [coe EXCEPT ![r] = m_coroutines[i]]
       /\ m_coroutines' = RemoveAt(m_coroutines, i)
  /\ m_activeThreadCount' = m_activeThreadCount + 1
  /\ Goto(r, "picked")
  /\ UNCHANGED <<m_idleThreadCount, flagVars, cb_coroutine, idle_coroutine, cortVars,
                 taskVars, failed>>

(* No work: leave run() if the idle coroutine has ended, else swap it in.  *)
IdleOrLeave(r) ==
  IF idle_coroutine[r] = "TERM"
  THEN /\ Goto(r, "exited")
       /\ UNCHANGED <<m_idleThreadCount, idle_coroutine>>
  ELSE /\ Goto(r, "idle")
       /\ m_idleThreadCount' = m_idleThreadCount + 1
       /\ idle_coroutine' = [idle_coroutine EXCEPT ![r] = "EXEC"]

FindNothing(r) ==
  /\ At(r, "scan")
  /\ \A i \in DOMAIN m_coroutines : ~Eligible(r, m_coroutines[i])
  /\ IdleOrLeave(r)
  /\ UNCHANGED <<m_coroutines, m_activeThreadCount, flagVars, coe, cb_coroutine,
                 cortVars, taskVars, failed>>

(* The coroutine taken has ended already: count down and act as if idle.   *)
DropEnded(r) ==
  /\ At(r, "picked")
  /\ coe[r].cort # Null /\ m_state[coe[r].cort] \in Dead
  /\ m_activeThreadCount' = m_activeThreadCount - 1
  /\ coe' = [coe EXCEPT ![r] = NoEntry]
  /\ IdleOrLeave(r)
  /\ UNCHANGED <<m_coroutines, flagVars, cb_coroutine, cortVars, taskVars, failed>>

(* swapIn() of a coroutine that was scheduled as such.                     *)
SwapIn(r) ==
  /\ At(r, "picked")
  /\ coe[r].cort # Null /\ m_state[coe[r].cort] \notin Dead
  /\ failed' = IF m_state[coe[r].cort] = "EXEC" THEN "swapIn" ELSE "none"
  /\ m_state' = [m_state EXCEPT ![coe[r].cort] = "EXEC"]
  /\ Goto(r, "exec")
  /\ UNCHANGED <<queueVars, flagVars, coe, cb_coroutine, idle_coroutine, m_cb, taskVars>>

(* A callback: a new coroutine object for it, or the runner's own one      *)
(* reset(), then swapIn().                                                 *)
RunCb(r) ==
  /\ At(r, "picked")
  /\ coe[r].cb # Null
  /\ \E c \in Cort :
       /\ IF cb_coroutine[r] = Null THEN m_state[c] = "NONE" ELSE c = cb_coroutine[r]
       /\ failed' = IF m_state[c] \in {"NONE", "INIT", "TERM", "EXCEPT"}
                    THEN "none" ELSE "reset"
       /\ cb_coroutine' = [cb_coroutine EXCEPT ![r] = c]
       /\ m_state' = [m_state EXCEPT ![c] = "EXEC"]
       /\ m_cb' = [m_cb EXCEPT ![c] = coe[r].cb]
  /\ coe' = [coe EXCEPT ![r] = NoEntry]
  /\ Goto(r, "exec")
  /\ UNCHANGED <<queueVars, flagVars, idle_coroutine, taskVars>>

-----------------------------------------------------------------------------
(* What the task a runner has swapped in may do (Coroutine::MainFunc)      *)

TaskSchedules(r) ==
  /\ At(r, "exec")
  /\ Schedule({Null} \cup (IF "pin" \in Usage THEN {r} ELSE {})
                     \cup (IF "pinOther" \in Usage THEN KnownThreads ELSE {}))
  /\ UNCHANGED <<m_activeThreadCount, m_idleThreadCount, flagVars, runVars,
                 ended, late, suspends, failed>>

(* Yield() and Sleep() set the state first and save the context after, in  *)
(* swapOut(): at "out" the runner is still on the coroutine's stack.       *)
Suspend(r, state) ==
  /\ At(r, "exec")
  /\ LET c == Running(r)  t == m_cb[c] IN
       /\ t # Null /\ suspends[t] < MaxSuspend
       /\ suspends' = [suspends EXCEPT ![t] = @ + 1]
       /\ m_state' = [m_state EXCEPT ![c] = state]
  /\ Goto(r, "out")
  /\ UNCHANGED <<queueVars, flagVars, coe, cb_coroutine, idle_coroutine, m_cb,
                 issued, ended, late, failed>>

Yield(r) == "yield" \in Usage /\ Suspend(r, "READY")
Sleep(r) == "sleep" \in Usage /\ Suspend(r, "HOLD")

Return(r) ==
  /\ At(r, "exec")
  /\ LET c == Running(r) IN
       /\ m_cb[c] # Null
       /\ ended' = ended \cup {m_cb[c]}
       /\ m_cb' = [m_cb EXCEPT ![c] = Null]
       /\ m_state' = [m_state EXCEPT ![c] = "TERM"]
  /\ Goto(r, "out")
  /\ UNCHANGED <<queueVars, flagVars, coe, cb_coroutine, idle_coroutine, issued,
                 late, suspends, failed>>

(* An exception of the task, or of calling an empty m_cb.                  *)
Throw(r) ==
  /\ At(r, "exec")
  /\ LET c == Running(r) IN
       /\ "throw" \in Usage \/ m_cb[c] = Null
       /\ ended' = ended \cup ({m_cb[c]} \ {Null})
       /\ m_state' = [m_state EXCEPT ![c] = "EXCEPT"]
  /\ Goto(r, "out")
  /\ UNCHANGED <<queueVars, flagVars, coe, cb_coroutine, idle_coroutine, m_cb,
                 issued, late, suspends, failed>>

-----------------------------------------------------------------------------
(* run(), after swapIn() has come back                                     *)

(* Mutant of SwapOut: the runner does not count down.                      *)
SwapOutUncounted(r) == At(r, "out") /\ Goto(r, "back")
  /\ UNCHANGED <<queueVars, flagVars, coe, cb_coroutine, idle_coroutine, cortVars,
                 taskVars, failed>>

(* swapOut() has saved the context; the runner counts down.                *)
SwapOut(r) ==
  /\ At(r, "out")
  /\ m_activeThreadCount' = m_activeThreadCount - 1
  /\ Goto(r, "back")
  /\ UNCHANGED <<m_coroutines, m_idleThreadCount, flagVars, coe, cb_coroutine,
                 idle_coroutine, cortVars, taskVars, failed>>

IsCb(r) == coe[r].cort = Null

(* Mutant of Requeue: cb_coroutine keeps the object it has rescheduled.    *)
RequeueKeeps(r) ==
  /\ At(r, "back") /\ m_state[Running(r)] = "READY"
  /\ Push(<<CortEntry(Running(r), Null)>>)
  /\ coe' = [coe EXCEPT ![r] = NoEntry]
  /\ Goto(r, "scan")
  /\ UNCHANGED <<m_activeThreadCount, m_idleThreadCount, flagVars, cb_coroutine,
                 idle_coroutine, cortVars, taskVars, failed>>

(* A coroutine that yielded goes to the back of the list, for any thread;  *)
(* cb_coroutine gives up its object.                                       *)
Requeue(r) ==
  /\ At(r, "back") /\ m_state[Running(r)] = "READY"
  /\ Push(<<CortEntry(Running(r), Null)>>)
  /\ cb_coroutine' = [cb_coroutine EXCEPT ![r] = IF IsCb(r) THEN Null ELSE @]
  /\ coe' = [coe EXCEPT ![r] = NoEntry]
  /\ Goto(r, "scan")
  /\ UNCHANGED <<m_activeThreadCount, m_idleThreadCount, flagVars, idle_coroutine,
                 cortVars, taskVars, failed>>

(* One that has ended is let go of; cb_coroutine is reset for reuse.       *)
Retire(r) ==
  /\ At(r, "back") /\ m_state[Running(r)] \in Dead
  /\ m_state' = IF IsCb(r) THEN [m_state EXCEPT ![Running(r)] = "INIT"] ELSE m_state
  /\ m_cb' = IF IsCb(r) THEN [m_cb EXCEPT ![Running(r)] = Null] ELSE m_cb
  /\ coe' = [coe EXCEPT ![r] = NoEntry]
  /\ Goto(r, "scan")
  /\ UNCHANGED <<queueVars, flagVars, cb_coroutine, idle_coroutine, taskVars, failed>>

(* Anything else is asleep: whoever wakes it holds the only reference.     *)
Park(r) ==
  /\ At(r, "back") /\ m_state[Running(r)] \notin Dead \cup {"READY"}
  /\ m_state' = [m_state EXCEPT ![Running(r)] = "HOLD"]
  /\ cb_coroutine' = [cb_coroutine EXCEPT ![r] = IF IsCb(r) THEN Null ELSE @]
  /\ coe' = [coe EXCEPT ![r] = NoEntry]
  /\ Goto(r, "scan")
  /\ UNCHANGED <<queueVars, flagVars, idle_coroutine, m_cb, taskVars, failed>>

(* idle(): one test of stopping() per swapIn(), then Sleep() or the end.   *)
IdleCheck(r) ==
  /\ At(r, "idle")
  /\ idle_coroutine' = [idle_coroutine EXCEPT ![r] = IF Stopping THEN "TERM" ELSE "HOLD"]
  /\ Goto(r, "idleout")
  /\ UNCHANGED <<queueVars, flagVars, coe, cb_coroutine, cortVars, taskVars, failed>>

IdleOut(r) ==
  /\ At(r, "idleout")
  /\ m_idleThreadCount' = m_idleThreadCount - 1
  /\ Goto(r, "scan")
  /\ UNCHANGED <<m_coroutines, m_activeThreadCount, flagVars, coe, cb_coroutine,
                 idle_coroutine, cortVars, taskVars, failed>>

-----------------------------------------------------------------------------
RunLoop(r) ==
  \/ Take(r) \/ FindNothing(r) \/ DropEnded(r) \/ SwapIn(r) \/ RunCb(r)
  \/ SwapOut(r) \/ Requeue(r) \/ Retire(r) \/ Park(r) \/ IdleCheck(r) \/ IdleOut(r)

TaskStep(r) == TaskSchedules(r) \/ Yield(r) \/ Sleep(r) \/ Return(r) \/ Throw(r)

StopStep == StopAlone \/ StopFlag \/ StopRoot \/ RootBack \/ StopJoin

CallerStep ==
  \/ Start \/ CallerSchedules \/ OutsideSchedules \/ StopBegin \/ StopStep \/ Destroy
  \/ \E c \in Cort : CallerSchedulesEnded(c)

(* The Scheduler is gone: nothing is left to do.                           *)
Finished == ctl = "gone" /\ UNCHANGED vars

Next == CallerStep \/ Finished \/ \E r \in Runners : RunLoop(r) \/ TaskStep(r)

(* Threads run (the operating system schedules them), pthread_mutex_lock() *)
(* is eventually granted, and a task does not run forever.  Nothing makes  *)
(* the program call schedule(), stop() or start().                         *)
Fairness ==
  /\ \A r \in Runners : WF_vars(RunLoop(r) \/ TaskStep(r))
  /\ WF_vars(StopStep)

Spec == Init /\ [][Next]_vars
FairSpec == Spec /\ Fairness

-----------------------------------------------------------------------------
(* Properties                                                              *)

(* Both counters say what the run loops are doing: active counts exactly   *)
(* the runners between taking work and counting it off, idle exactly those *)
(* in the idle coroutine.  stop() relies on it (schedule.cpp:136-140).     *)
CountersExact ==
  /\ m_activeThreadCount = Cardinality({r \in Runners : pc[r] \in {"picked", "exec", "out"}})
  /\ m_idleThreadCount = Cardinality({r \in Runners : pc[r] \in {"idle", "idleout"}})

(* No MOCKER_ASSERT on the paths of run(), reset(), swapIn() and call()    *)
(* fails (coroutine.cpp:100, 116, 132, 209, 245).                          *)
NoAssertionFails == failed = "none"

(* No coroutine object is in two hands: two entries of the list, two       *)
(* runners, or an entry and a runner.  This is what makes it safe that     *)
(* m_state and the context are touched outside m_mutex.                    *)
OneHolder ==
  /\ \A i, j \in DOMAIN m_coroutines :
       i # j /\ m_coroutines[i].cort # Null
         => m_coroutines[i].cort # m_coroutines[j].cort
  /\ \A c \in Cort, r \in Runners :
       Holds(r, c) => /\ ~Queued(c)
                      /\ \A q \in Runners : Holds(q, c) => q = r

(* At most one runner is on the stack of a coroutine                       *)
(* (coroutine.cpp:116, MOCKER_ASSERT(m_state != EXEC)).                    *)
OneThreadPerStack ==
  \A r1, r2 \in Runners :
    pc[r1] \in {"exec", "out"} /\ pc[r2] \in {"exec", "out"} /\ r1 # r2
      => Running(r1) # Running(r2)

(* When stop() returns every runner is out of run(), and each task handed  *)
(* over has ended or sleeps; what is left in the list, and what has        *)
(* neither ended nor sleeps, was handed over from outside after the call.  *)
StopDrains ==
  ctl \in {"stopped", "gone"} =>
    /\ \A i \in DOMAIN m_coroutines : EntryTask(m_coroutines[i]) \in late
    /\ \A r \in Runners : pc[r] \in {"unborn", "exited"}
    /\ \A t \in issued \ (ended \cup late) :
         \E c \in Cort : m_cb[c] = t /\ m_state[c] = "HOLD"

(* The Scheduler implements the abstract pool of tasks.  A task is running *)
(* while a runner executes its body ("twice", no phase of the pool, when   *)
(* two do); one that yielded is pending from the moment it set READY,      *)
(* although it is in no list until Requeue.                                *)
Executors(t) == {r \in Runners : pc[r] = "exec" /\ m_cb[Running(r)] = t}
Phase(t) ==
  CASE t \notin issued -> "new"
    [] Cardinality(Executors(t)) > 1 -> "twice"
    [] t \in issued /\ Cardinality(Executors(t)) = 1 -> "running"
    [] t \in ended /\ Executors(t) = {} -> "done"
    [] /\ t \in issued \ ended /\ Executors(t) = {}
       /\ \E c \in Cort : m_cb[c] = t /\ m_state[c] = "HOLD" /\ ~Queued(c) /\ ~Taken(c)
       -> "asleep"
    [] OTHER -> "pending"

Pool == INSTANCE TaskPool WITH phase <- [t \in Task |-> Phase(t)],
                               open <- ctl \notin {"stopped", "gone"}
ImplementsTaskPool == Pool!Spec

(* A call of stop() returns, whatever the tasks do in the meantime, unless *)
(* somebody outside hands over a task for a thread that has already left   *)
(* run(), or for the caller once it waits in join(): the others then wait  *)
(* for the list to become empty forever (schedule.cpp:136-147, 169).       *)
Stranded ==
  \E i \in DOMAIN m_coroutines :
    LET e == m_coroutines[i] IN
      /\ e.thread # Null /\ EntryTask(e) \in late
      /\ pc[e.thread] = "exited" \/ (e.thread = Caller /\ ctl = "join")
StopReturns == ctl = "stop1" ~> (ctl = "stopped" \/ Stranded)

(* README.md:375-376, "The `task` or `coroutine` is delivered to the       *)
(* `scheduler` through the `schedule` method, and then the `scheduler`     *)
(* assigns a thread to take over": with pool threads started, a task does  *)
(* not stay in the list forever, unless it came after stop() was called or *)
(* is for the caller, who runs tasks only inside stop().                   *)
ForCaller(t) == \E i \in DOMAIN m_coroutines :
                  m_coroutines[i].thread = Caller /\ EntryTask(m_coroutines[i]) = t
TaskTakenOver ==
  \A t \in Task :
    (/\ InList(t) /\ ~ForCaller(t) /\ t \notin late
     /\ \E w \in Workers : pc[w] # "unborn") ~> ~InList(t)

=============================================================================
